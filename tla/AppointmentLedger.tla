------------------------- MODULE AppointmentLedger -------------------------
(***************************************************************************)
(* What the appointment service promises: every appointment has one status, *)
(* which starts at "scheduled", only ever moves along the transition table, *)
(* and each move is recorded in the appointment's history in the same       *)
(* instant.  AppointmentLifecycle implements it with two SQL statements,    *)
(* two reads and no lock.                                                   *)
(***************************************************************************)
EXTENDS AppointmentStatus, Sequences

CONSTANT Appointments

VARIABLES status, history

vars == <<status, history>>

Init ==
    /\ status = [a \in Appointments |-> Absent]
    /\ history = [a \in Appointments |-> <<>>]

Record(a, s) ==
    /\ status' = [status EXCEPT ![a] = s]
    /\ history' = [history EXCEPT ![a] = Append(@, s)]

Create(a) ==
    /\ status[a] = Absent
    /\ Record(a, "scheduled")

Advance(a, s) ==
    /\ IsAllowedTransition(status[a], s)
    /\ Record(a, s)

Next == \E a \in Appointments : Create(a) \/ \E s \in Statuses : Advance(a, s)

Spec == Init /\ [][Next]_vars
=============================================================================
