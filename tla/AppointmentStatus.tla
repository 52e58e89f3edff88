------------------------- MODULE AppointmentStatus -------------------------
(***************************************************************************)
(* The status vocabulary of an appointment and its transition table, shared *)
(* by the ledger an appointment promises and by the request handlers that   *)
(* implement it (worker/repositories/appointmentRepository.ts).             *)
(***************************************************************************)

\* The status of an id no row exists for.
Absent == "absent"

\* CANONICAL_APPOINTMENT_STATUSES
Statuses == {"scheduled", "confirmed", "in_progress", "completed",
             "cancelled", "no_show", "rescheduled"}

\* ALLOWED_APPOINTMENT_TRANSITIONS, as pairs <<from, to>>.
AllowedTransitions ==
    ({"scheduled"} \X {"confirmed", "in_progress", "cancelled", "no_show",
                       "rescheduled"})
    \cup ({"confirmed"} \X {"in_progress", "completed", "cancelled", "no_show",
                             "rescheduled"})
    \cup ({"in_progress"} \X {"completed", "cancelled"})
    \cup ({"rescheduled"} \X {"scheduled", "confirmed", "cancelled", "no_show"})

\* isAllowedAppointmentTransition
IsAllowedTransition(from, to) ==
    /\ from \in Statuses
    /\ to \in Statuses
    /\ from # to
    /\ <<from, to>> \in AllowedTransitions

\* The statuses that end an appointment and carry a cancellation reason.
ClosedStatuses == {"cancelled", "no_show"}

\* The statuses the table lets nothing leave.
TerminalStatuses == {"completed", "cancelled", "no_show"}
=============================================================================
