------------------------ MODULE AppointmentLifecycle ------------------------
(***************************************************************************)
(* POST and PATCH /api/appointments: concurrent worker invocations over one *)
(* D1 database (worker/routes/appointmentsRouter.ts and                     *)
(* worker/repositories/appointmentRepository.ts).  Every await of a handler *)
(* is a step boundary; a D1 batch is one atomic step.                       *)
(***************************************************************************)
EXTENDS AppointmentStatus, Naturals, Sequences, FiniteSets

CONSTANTS
    Requests,      \* the HTTP requests, each handled by its own invocation
    Appointments,  \* appointment ids (fresh UUIDs are ids without a row)
    Reasons,       \* the canonical cancellation reason codes
    NoReason,      \* a reasonCode that was not sent; SQL NULL
    NoTransition,  \* last_transition_id of a row never updated; SQL NULL
    MaxClock,      \* bound on the wall clock
    Faults         \* TRUE: D1 calls may fail or lose their answer,
                   \* invocations may be terminated

ASSUME ConstantsAssumption ==
    /\ Appointments # {}
    /\ NoReason \notin Reasons
    /\ NoTransition \notin Requests
    /\ MaxClock \in Nat
    /\ Faults \in BOOLEAN

VARIABLES
    appointments,  \* the appointments table: id -> row
    audit_logs,    \* the audit_logs rows of each appointment, oldest first
    resourceActive,\* status = 'active' of the staff resource bookings name
    clock,         \* new Date()
    req            \* what each invocation holds between two awaits

vars == <<appointments, audit_logs, resourceActive, clock, req>>
db   == <<appointments, audit_logs>>

-----------------------------------------------------------------------------
(* Values.                                                                  *)

Row == [status: Statuses \cup {Absent}, row_version: Nat,
        last_transition_id: Requests \cup {NoTransition},
        cancellation_reason: Reasons \cup {NoReason}, updated_at: Nat]

NoRow == [status |-> Absent, row_version |-> 0,
          last_transition_id |-> NoTransition,
          cancellation_reason |-> NoReason, updated_at |-> 0]

AuditRow == [id: Requests, previousStatus: Statuses \cup {Absent},
             newStatus: Statuses, reasonCode: Reasons \cup {NoReason},
             created_at: Nat]

Steps == {"idle", "post_resource", "post_recheck", "post_batch",
          "patch_lookup", "patch_reread", "patch_batch", "patch_confirm",
          "done", "dead"}

\* The steps in which a PATCH holds a status it read from the table.
HoldsStatus == {"patch_reread", "patch_batch", "patch_confirm"}

Answers == {"none", "created", "updated", "bad_request", "not_found",
            "unavailable", "conflict", "read_failed", "write_failed"}

\* expected* are existing.status and existing.rowVersion; looked_up is the
\* version of the row the router read first (it keeps only the status).
Invocation == [step: Steps, apt: Appointments, target: Statuses,
               reason: Reasons \cup {NoReason},
               expectedStatus: Statuses \cup {Absent},
               looked_up: Nat, expectedVersion: Nat, now: Nat,
               answer: Answers]

\* A request nobody has looked at yet.
Arrived == [step |-> "idle", apt |-> CHOOSE a \in Appointments : TRUE,
            target |-> "scheduled", reason |-> NoReason,
            expectedStatus |-> Absent, looked_up |-> 0,
            expectedVersion |-> 0, now |-> 0, answer |-> "none"]

\* Every value has its type, and an invocation that is past its lookup holds
\* the status of a row that exists: "not found" was answered otherwise.
TypeOK ==
    /\ appointments \in [Appointments -> Row]
    /\ audit_logs \in [Appointments -> Seq(AuditRow)]
    /\ resourceActive \in BOOLEAN
    /\ clock \in 0..MaxClock
    /\ req \in [Requests -> Invocation]
    /\ \A r \in Requests :
          req[r].step \in HoldsStatus => req[r].expectedStatus \in Statuses

Init ==
    /\ appointments = [a \in Appointments |-> NoRow]
    /\ audit_logs = [a \in Appointments |-> <<>>]
    /\ resourceActive = TRUE
    /\ clock = 0
    /\ req = [r \in Requests |-> Arrived]

-----------------------------------------------------------------------------
(* Helpers.                                                                 *)

At(r, s) == req[r].step = s
Goto(r, s) == req' = [req EXCEPT ![r].step = s]
Answer(r, a) == req' = [req EXCEPT ![r].step = "done", ![r].answer = a]

\* A read of D1 throws: the invocation answers with an error.
ReadFails(r, a) == Faults /\ Answer(r, a) /\ UNCHANGED db

Exists(a) == appointments[a].status # Absent

-----------------------------------------------------------------------------
(* POST: book an appointment.                                               *)

\* The body and the actor are valid and the pseudonym exists; or they are not.
PostStart(r) ==
    /\ At(r, "idle")
    /\ Goto(r, "post_resource") \/ Answer(r, "bad_request")
    /\ UNCHANGED <<db, resourceActive, clock>>

\* The router's own look at the resource.
PostResource(r) ==
    /\ At(r, "post_resource")
    /\ \/ resourceActive /\ Goto(r, "post_recheck")
       \/ ~resourceActive /\ Answer(r, "unavailable")
       \/ Faults /\ Answer(r, "unavailable")
    /\ UNCHANGED <<db, resourceActive, clock>>

\* createWithAudit looks at it again and stamps the row before the batch.
PostRecheck(r) ==
    /\ At(r, "post_recheck")
    /\ \/ /\ resourceActive
          /\ req' = [req EXCEPT ![r].step = "post_batch", ![r].now = clock]
       \/ ~resourceActive /\ Answer(r, "unavailable")
       \/ Faults /\ Answer(r, "unavailable")
    /\ UNCHANGED <<db, resourceActive, clock>>

\* The row the first INSERT writes: row_version 0, the other columns NULL.
BookedRow(r) == [NoRow EXCEPT !.status = "scheduled", !.updated_at = req[r].now]

BookingEntry(r) ==
    [id |-> r, previousStatus |-> Absent, newStatus |-> "scheduled",
     reasonCode |-> NoReason, created_at |-> req[r].now]

\* The two INSERTs commit together; their answer may be lost on the way.
PostBatch(r, a) ==
    /\ At(r, "post_batch")
    /\ ~Exists(a)
    /\ appointments' = [appointments EXCEPT ![a] = BookedRow(r)]
    /\ audit_logs' = [audit_logs EXCEPT ![a] = Append(@, BookingEntry(r))]
    /\ Answer(r, "created") \/ (Faults /\ Answer(r, "write_failed"))
    /\ UNCHANGED <<resourceActive, clock>>

PostBatchFails(r) ==
    /\ At(r, "post_batch")
    /\ Faults
    /\ Answer(r, "write_failed")
    /\ UNCHANGED <<db, resourceActive, clock>>

-----------------------------------------------------------------------------
(* PATCH: move an appointment to another status.                            *)

\* A reason code is required to close an appointment, forbidden otherwise.
ReasonFits(target, reason) ==
    (target \in ClosedStatuses) <=> (reason # NoReason)

PatchStart(r, a, target, reason) ==
    /\ At(r, "idle")
    /\ IF ReasonFits(target, reason)
       THEN req' = [req EXCEPT ![r].step = "patch_lookup", ![r].apt = a,
                               ![r].target = target, ![r].reason = reason]
       ELSE Answer(r, "bad_request")
    /\ UNCHANGED <<db, resourceActive, clock>>

\* The router reads the row and checks the transition against its status.
PatchLookup(r) ==
    LET existing == appointments[req[r].apt] IN
    /\ At(r, "patch_lookup")
    /\ \/ /\ existing.status = Absent
          /\ Answer(r, "not_found")
       \/ /\ existing.status # Absent
          /\ ~IsAllowedTransition(existing.status, req[r].target)
          /\ Answer(r, "bad_request")
       \/ /\ IsAllowedTransition(existing.status, req[r].target)
          /\ req' = [req EXCEPT ![r].step = "patch_reread",
                                ![r].expectedStatus = existing.status,
                                ![r].looked_up = existing.row_version]
       \/ Faults /\ Answer(r, "read_failed")
    /\ UNCHANGED <<db, resourceActive, clock>>

\* Mutant: the change is stamped with the time the request arrived.
PatchReread_StaleStamp(r) ==
    /\ At(r, "patch_reread")
    /\ IF appointments[req[r].apt].status # req[r].expectedStatus
       THEN Answer(r, "conflict")
       ELSE req' = [req EXCEPT ![r].step = "patch_batch",
                ![r].expectedVersion = appointments[req[r].apt].row_version]
    /\ UNCHANGED <<db, resourceActive, clock>>

\* updateStatusWithAudit reads it again, for the row version.
PatchReread(r) ==
    LET existing == appointments[req[r].apt] IN
    /\ At(r, "patch_reread")
    /\ \/ /\ existing.status # req[r].expectedStatus
          /\ Answer(r, "conflict")
       \/ /\ existing.status = req[r].expectedStatus
          /\ req' = [req EXCEPT ![r].step = "patch_batch", ![r].now = clock,
                                ![r].expectedVersion = existing.row_version]
       \/ Faults /\ Answer(r, "read_failed")
    /\ UNCHANGED <<db, resourceActive, clock>>

\* Mutants: no row_version in the WHERE clause; an off-by-one in it; only the
\* id in it.
UpdateMatches_NoVersion(r) ==
    appointments[req[r].apt].status = req[r].expectedStatus
UpdateMatches_NextVersion(r) ==
    /\ appointments[req[r].apt].status = req[r].expectedStatus
    /\ appointments[req[r].apt].row_version = req[r].expectedVersion + 1
UpdateMatches_IdOnly(r) == Exists(req[r].apt)

\* The WHERE clause of the UPDATE.
UpdateMatches(r) ==
    LET existing == appointments[req[r].apt] IN
    /\ existing.status = req[r].expectedStatus
    /\ existing.row_version = req[r].expectedVersion

\* The row the UPDATE leaves (COALESCE keeps a reason already there).
UpdatedRow(r) ==
    LET existing == appointments[req[r].apt] IN
    IF UpdateMatches(r)
    THEN [existing EXCEPT
            !.status = req[r].target,
            !.cancellation_reason = IF req[r].target \in ClosedStatuses
                                    THEN req[r].reason ELSE @,
            !.updated_at = req[r].now,
            !.row_version = @ + 1,
            !.last_transition_id = r]
    ELSE existing

\* Mutant: the audit row is inserted unconditionally.
AuditMatches_Always(r) == req[r].step = "patch_batch"

\* The EXISTS clause of the audit INSERT, evaluated after the UPDATE.
AuditMatches(r) ==
    LET updated == UpdatedRow(r) IN
    /\ updated.last_transition_id = r
    /\ updated.row_version = req[r].expectedVersion + 1
    /\ updated.status = req[r].target

AuditEntry(r) ==
    [id |-> r, previousStatus |-> req[r].expectedStatus,
     newStatus |-> req[r].target, reasonCode |-> req[r].reason,
     created_at |-> req[r].now]

\* UPDATE and conditional audit INSERT, one D1 batch.
PatchBatch(r) ==
    LET a == req[r].apt IN
    /\ At(r, "patch_batch")
    /\ appointments' = [appointments EXCEPT ![a] = UpdatedRow(r)]
    /\ audit_logs' = IF AuditMatches(r)
                     THEN [audit_logs EXCEPT ![a] = Append(@, AuditEntry(r))]
                     ELSE audit_logs
    /\ \/ UpdateMatches(r) /\ AuditMatches(r) /\ Goto(r, "patch_confirm")
       \/ ~(UpdateMatches(r) /\ AuditMatches(r)) /\ Answer(r, "conflict")
       \/ Faults /\ Answer(r, "write_failed")
    /\ UNCHANGED <<resourceActive, clock>>

PatchBatchFails(r) ==
    /\ At(r, "patch_batch")
    /\ Faults
    /\ Answer(r, "write_failed")
    /\ UNCHANGED <<db, resourceActive, clock>>

\* The committed row is read back; a status other than the target throws.
PatchConfirm(r) ==
    LET updated == appointments[req[r].apt] IN
    /\ At(r, "patch_confirm")
    /\ \/ updated.status = req[r].target /\ Answer(r, "updated")
       \/ updated.status # req[r].target /\ Answer(r, "write_failed")
       \/ Faults /\ Answer(r, "read_failed")
    /\ UNCHANGED <<db, resourceActive, clock>>

-----------------------------------------------------------------------------
(* The environment.                                                         *)

\* The runtime terminates an invocation between two awaits.
Terminate(r) ==
    /\ Faults
    /\ req[r].step \notin {"idle", "done", "dead"}
    /\ Goto(r, "dead")
    /\ UNCHANGED <<db, resourceActive, clock>>

\* The resource goes off duty or comes back (no code of this service does it).
ResourceChanges ==
    /\ resourceActive' = ~resourceActive
    /\ UNCHANGED <<db, clock, req>>

\* One wall clock for all invocations.
Tick ==
    /\ clock < MaxClock
    /\ clock' = clock + 1
    /\ UNCHANGED <<db, resourceActive, req>>

Handle(r) ==
    \/ PostStart(r) \/ PostResource(r) \/ PostRecheck(r)
    \/ \E a \in Appointments : PostBatch(r, a)
    \/ PostBatchFails(r)
    \/ \E a \in Appointments, s \in Statuses, c \in Reasons \cup {NoReason} :
          PatchStart(r, a, s, c)
    \/ PatchLookup(r) \/ PatchReread(r) \/ PatchBatch(r)
    \/ PatchBatchFails(r) \/ PatchConfirm(r)

Next ==
    \/ \E r \in Requests : Handle(r) \/ Terminate(r)
    \/ ResourceChanges
    \/ Tick

Spec == Init /\ [][Next]_vars

-----------------------------------------------------------------------------
(* Properties.                                                              *)

\* The audit rows request r wrote, by place.
Entries(r) == UNION {{<<a, i>> : i \in {j \in DOMAIN audit_logs[a] :
                                         audit_logs[a][j].id = r}} :
                     a \in Appointments}

Written(r) == Entries(r) # {}

\* Replaying an appointment's audit rows gives its row: the first one is the
\* booking, each starts from the status the one before it led to along an
\* allowed transition, the last one led to the row's status and reason, and
\* every row version has exactly one audit row (mandates 4 and 5 of
\* appointmentRepository.ts: no mutation without audit, no orphan audit).
AuditReplaysRow ==
    \A a \in Appointments :
        LET log == audit_logs[a]  n == Len(audit_logs[a])
            row == appointments[a] IN
        /\ Exists(a) <=> n > 0
        /\ Exists(a) =>
             /\ n = row.row_version + 1
             /\ log[n].newStatus = row.status
             /\ log[n].reasonCode = row.cancellation_reason
             /\ log[1].previousStatus = Absent /\ log[1].newStatus = "scheduled"
        /\ \A i \in 2..n :
             /\ log[i].previousStatus = log[i-1].newStatus
             /\ IsAllowedTransition(log[i].previousStatus, log[i].newStatus)

\* What the client was told is what the database holds: a refused, unknown or
\* conflicting request left no trace, an accepted one is on record exactly
\* once (the HTTP answers of appointmentsRouter.ts).
AnswersAreTrue ==
    \A r \in Requests :
        /\ req[r].answer \in {"bad_request", "not_found", "unavailable",
                              "conflict"} => ~Written(r)
        /\ req[r].answer \in {"created", "updated"} => Cardinality(Entries(r)) = 1

\* "Concurrent modification detected" is never a false alarm: somebody else
\* really changed the row after this request's router looked it up.
ConflictHasRival ==
    \A r \in Requests :
        req[r].answer = "conflict" =>
            appointments[req[r].apt].row_version > req[r].looked_up

\* Although each invocation reads its clock before its batch, sorting an
\* appointment's audit rows by created_at never contradicts the order the
\* changes happened in, and updated_at is the time of the last of them.  All
\* invocations read one clock that does not go back; workers whose clocks
\* disagree are not modelled.
AuditTimesAreOrdered ==
    \A a \in Appointments :
        LET log == audit_logs[a] IN
        /\ \A i, j \in DOMAIN log :
              i < j => log[i].created_at <= log[j].created_at
        /\ Exists(a) => appointments[a].updated_at = log[Len(log)].created_at

\* A completed, cancelled or missed appointment stays what it is, whatever was
\* in flight when it ended: its row is never written again.
EndedStaysEnded ==
    [][\A a \in Appointments :
         appointments[a].status \in TerminalStatuses =>
             UNCHANGED appointments[a]]_vars

\* The inductive strengthening of AuditReplaysRow and TypeOK.  The audit INSERT
\* finds "its" transition by last_transition_id, so it matters that no row
\* carries the id of a request whose batch is still ahead; the log stays a
\* chain of allowed moves because a held transition was checked; and the reason
\* stays in step because an open appointment has none.
BatchAhead(r) == req[r].step \notin {"patch_confirm", "done", "dead"}

NotYetCommitted ==
    \A r \in Requests : BatchAhead(r) =>
        \A a \in Appointments : appointments[a].last_transition_id # r

HeldTransitionChecked ==
    \A r \in Requests :
        /\ req[r].step \in {"patch_reread", "patch_batch"} =>
              IsAllowedTransition(req[r].expectedStatus, req[r].target)
        /\ req[r].step \in {"patch_lookup", "patch_reread", "patch_batch"} =>
              ReasonFits(req[r].target, req[r].reason)

ReasonFitsRow ==
    \A a \in Appointments :
        ReasonFits(appointments[a].status, appointments[a].cancellation_reason)

Inv == TypeOK /\ AuditReplaysRow /\ NotYetCommitted
       /\ HeldTransitionChecked /\ ReasonFitsRow

\* What the invocations hold against the row they read it from.  Versions only
\* grow, so a version that is still the row's means that nobody wrote the row
\* since it was read; a clock read after the row is no earlier than its last
\* change.
HeldVersion(r) ==
    LET row == appointments[req[r].apt] IN
    /\ req[r].step = "patch_reread" =>
         /\ Exists(req[r].apt) /\ req[r].looked_up <= row.row_version
         /\ req[r].looked_up = row.row_version => row.status = req[r].expectedStatus
    /\ req[r].step = "patch_batch" =>
         /\ Exists(req[r].apt) /\ req[r].looked_up <= req[r].expectedVersion
         /\ req[r].expectedVersion <= row.row_version
         /\ req[r].expectedVersion = row.row_version =>
              row.status = req[r].expectedStatus /\ row.updated_at <= req[r].now
    /\ req[r].answer = "conflict" =>
         Exists(req[r].apt) /\ req[r].looked_up < row.row_version

\* Where the audit rows of a request stand: none before its batch, one after
\* a batch that it knows of, never two.
WrittenOnce(r) == \E entry \in Entries(r) : Entries(r) = {entry}
OnRecord(r) ==
    /\ req[r].answer # "none" => req[r].step = "done"
    /\ BatchAhead(r) => ~Written(r)
    /\ req[r].answer \in {"bad_request", "not_found", "unavailable", "conflict"} => ~Written(r)
    /\ req[r].step = "patch_confirm" => WrittenOnce(r)
    /\ req[r].answer \in {"created", "updated"} => WrittenOnce(r)
    /\ Written(r) => WrittenOnce(r)

ClockAhead ==
    /\ \A r \in Requests : req[r].now <= clock
    /\ \A a \in Appointments : appointments[a].updated_at <= clock

RaceInv == Inv /\ ClockAhead /\ AuditTimesAreOrdered
           /\ \A r \in Requests : HeldVersion(r) /\ OnRecord(r)

\* The handlers implement the ledger: a status and its history that change
\* together, one allowed move at a time.
Ledger == INSTANCE AppointmentLedger WITH
    status  <- [a \in Appointments |-> appointments[a].status],
    history <- [a \in Appointments |->
                  [i \in DOMAIN audit_logs[a] |-> audit_logs[a][i].newStatus]]

ImplementsLedger == Ledger!Spec

\* Told by the answer 'Failed to atomically update appointment status and
\* audit record.' and by "Both mutation and conditional audit must succeed, or
\* neither": a PATCH that is answered APPOINTMENT_WRITE_FAILED changed nothing.
\* The code breaks it even when every D1 call succeeds.
WriteFailedMeansUnwritten ==
    \A r \in Requests : req[r].answer = "write_failed" => ~Written(r)
=============================================================================
