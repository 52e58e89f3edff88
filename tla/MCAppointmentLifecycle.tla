----------------------- MODULE MCAppointmentLifecycle -----------------------
(* Instances of AppointmentLifecycle for TLC. *)
EXTENDS AppointmentLifecycle, TLC

\* Requests are interchangeable: the specification never orders them.
RequestSymmetry == Permutations(Requests)

\* An ended request's locals are gone.  No action reads them and of the
\* properties only ConflictHasRival does, of a conflict.
Kept(r) ==
    IF req[r].step \notin {"done", "dead"} THEN req[r]
    ELSE IF req[r].answer = "conflict"
         THEN [Arrived EXCEPT !.step = "done", !.answer = "conflict",
                              !.apt = req[r].apt, !.looked_up = req[r].looked_up]
         ELSE [Arrived EXCEPT !.step = req[r].step, !.answer = req[r].answer]

LiveState == <<db, resourceActive, clock, [r \in Requests |-> Kept(r)]>>
=============================================================================
