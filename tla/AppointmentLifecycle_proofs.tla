-------------------- MODULE AppointmentLifecycle_proofs --------------------
(***************************************************************************)
(* Proofs about AppointmentLifecycle, for any number of requests and        *)
(* appointments, with and without faults.                                   *)
(***************************************************************************)
EXTENDS AppointmentLifecycle, FiniteSetTheorems, TLAPS

\* A new invocation is well typed.
LEMMA ArrivedType == Arrived \in Invocation
  BY ConstantsAssumption DEF Arrived, Invocation, Steps, Answers, Statuses, Absent

\* A move the table allows is between two statuses, and starts from none of
\* the terminal ones.
LEMMA AllowedTransitionFacts ==
    ASSUME NEW s, NEW t, IsAllowedTransition(s, t)
    PROVE  /\ s \in Statuses /\ t \in Statuses
           /\ s \notin TerminalStatuses
           /\ s \notin ClosedStatuses
  BY DEF IsAllowedTransition, AllowedTransitions, Statuses, TerminalStatuses,
         ClosedStatuses

\* Initially nothing is booked and nothing is in flight.
LEMMA InitInv == Init => Inv
  <1> SUFFICES ASSUME Init PROVE Inv
    OBVIOUS
  <1>1. TypeOK
    <2>1. NoRow \in Row
      BY DEF NoRow, Row, Statuses, Absent
    <2>2. audit_logs \in [Appointments -> Seq(AuditRow)]
      BY DEF Init
    <2>3. \A r \in Requests : req[r].step \notin HoldsStatus
      BY DEF Init, Arrived, HoldsStatus
    <2> QED
      BY <2>1, <2>2, <2>3, ArrivedType, ConstantsAssumption DEF Init, TypeOK
  <1>2. AuditReplaysRow
    BY DEF Init, AuditReplaysRow, Exists, NoRow, Absent
  <1>3. NotYetCommitted
    BY ConstantsAssumption DEF Init, NotYetCommitted, NoRow
  <1>4. HeldTransitionChecked
    BY DEF Init, HeldTransitionChecked, Arrived
  <1>5. ReasonFitsRow
    BY DEF Init, ReasonFitsRow, ReasonFits, NoRow, Absent, ClosedStatuses
  <1> QED
    BY <1>1, <1>2, <1>3, <1>4, <1>5 DEF Inv

-----------------------------------------------------------------------------
(* What the invariant says of one invocation.                               *)

Sound(i) ==
    /\ i \in Invocation
    /\ i.step \in HoldsStatus => i.expectedStatus \in Statuses
    /\ i.step \in {"patch_reread", "patch_batch"} =>
          IsAllowedTransition(i.expectedStatus, i.target)
    /\ i.step \in {"patch_lookup", "patch_reread", "patch_batch"} =>
          ReasonFits(i.target, i.reason)

Ahead(i) == i.step \notin {"patch_confirm", "done", "dead"}

\* The record updates the handlers make, with the fields they leave alone.
LEMMA MoveType ==
    ASSUME NEW i \in Invocation, NEW s \in Steps
    PROVE  /\ [i EXCEPT !.step = s] \in Invocation
           /\ [i EXCEPT !.step = s].step = s
  BY DEF Invocation

LEMMA AnswerType ==
    ASSUME NEW i \in Invocation, NEW s \in Steps, NEW n \in Answers
    PROVE  /\ [i EXCEPT !.step = s, !.answer = n] \in Invocation
           /\ [i EXCEPT !.step = s, !.answer = n].step = s
  BY DEF Invocation

LEMMA StampType ==
    ASSUME NEW i \in Invocation, NEW s \in Steps, NEW t \in Nat
    PROVE  /\ [i EXCEPT !.step = s, !.now = t] \in Invocation
           /\ [i EXCEPT !.step = s, !.now = t].step = s
  BY DEF Invocation

WithInput(i, a, t, c) ==
    [i EXCEPT !.step = "patch_lookup", !.apt = a, !.target = t, !.reason = c]

WithLookup(i, e, v) ==
    [i EXCEPT !.step = "patch_reread", !.expectedStatus = e, !.looked_up = v]

WithReread(i, t, v) ==
    [i EXCEPT !.step = "patch_batch", !.now = t, !.expectedVersion = v]

LEMMA InputType ==
    ASSUME NEW i \in Invocation, NEW a \in Appointments, NEW t \in Statuses,
           NEW c \in Reasons \cup {NoReason}
    PROVE  /\ WithInput(i, a, t, c) \in Invocation
           /\ WithInput(i, a, t, c).step = "patch_lookup"
           /\ WithInput(i, a, t, c).target = t
           /\ WithInput(i, a, t, c).reason = c
  BY DEF Invocation, WithInput, Steps

LEMMA LookupType ==
    ASSUME NEW i \in Invocation, NEW e \in Statuses, NEW v \in Nat
    PROVE  /\ WithLookup(i, e, v) \in Invocation
           /\ WithLookup(i, e, v).step = "patch_reread"
           /\ WithLookup(i, e, v).expectedStatus = e
           /\ WithLookup(i, e, v).target = i.target
           /\ WithLookup(i, e, v).reason = i.reason
  BY DEF Invocation, WithLookup, Steps

LEMMA RereadType ==
    ASSUME NEW i \in Invocation, NEW t \in Nat, NEW v \in Nat
    PROVE  /\ WithReread(i, t, v) \in Invocation
           /\ WithReread(i, t, v).step = "patch_batch"
           /\ WithReread(i, t, v).expectedStatus = i.expectedStatus
           /\ WithReread(i, t, v).target = i.target
           /\ WithReread(i, t, v).reason = i.reason
  BY DEF Invocation, WithReread, Steps

\* The invariant's clauses about invocations, one invocation at a time.
LEMMA InvocationsSound == Inv => \A r \in Requests : Sound(req[r])
  BY DEF Inv, TypeOK, HeldTransitionChecked, Sound

\* A row as the type invariant gives it.
LEMMA RowFacts ==
    ASSUME TypeOK, NEW r \in Requests
    PROVE  /\ req[r] \in Invocation
           /\ req[r].apt \in Appointments
           /\ req[r].target \in Statuses
           /\ req[r].reason \in Reasons \cup {NoReason}
           /\ req[r].now \in Nat
           /\ req[r].expectedVersion \in Nat
           /\ req[r].expectedStatus \in Statuses \cup {Absent}
           /\ \A a \in Appointments :
                /\ appointments[a] \in Row
                /\ appointments[a].row_version \in Nat
                /\ appointments[a].status \in Statuses \cup {Absent}
           /\ clock \in Nat
  <1>1. req[r] \in Invocation
    BY DEF TypeOK
  <1>2. \A a \in Appointments : appointments[a] \in Row
    BY DEF TypeOK
  <1>3. clock \in Nat
    BY ConstantsAssumption DEF TypeOK
  <1> QED
    BY <1>1, <1>2, <1>3 DEF Invocation, Row

LEMMA StepNames ==
    /\ \A s \in {"idle", "post_resource", "post_recheck", "post_batch",
                  "patch_lookup", "patch_reread", "patch_batch",
                  "patch_confirm", "done", "dead"} : s \in Steps
    /\ \A n \in {"created", "updated", "bad_request", "not_found",
                  "unavailable", "conflict", "read_failed", "write_failed"} :
          n \in Answers
  BY DEF Steps, Answers

-----------------------------------------------------------------------------
(* Steps that only move an invocation.                                      *)

\* The actions that leave the database alone.
QuietStep ==
    \/ \E r \in Requests :
          \/ PostStart(r) \/ PostResource(r) \/ PostRecheck(r)
          \/ PostBatchFails(r)
          \/ \E a \in Appointments, s \in Statuses, c \in Reasons \cup {NoReason} :
                PatchStart(r, a, s, c)
          \/ PatchLookup(r) \/ PatchReread(r) \/ PatchBatchFails(r)
          \/ PatchConfirm(r) \/ Terminate(r)
    \/ ResourceChanges
    \/ Tick

\* Every step is a quiet one or commits a batch.
LEMMA StepKinds ==
    Next <=> \/ QuietStep
             \/ \E r \in Requests, a \in Appointments : PostBatch(r, a)
             \/ \E r \in Requests : PatchBatch(r)
  BY DEF Next, Handle, QuietStep

LEMMA QuietLeavesDb == QuietStep => UNCHANGED db
  <1> SUFFICES ASSUME QuietStep PROVE UNCHANGED db
    OBVIOUS
  <1>1. CASE ResourceChanges \/ Tick
    BY <1>1 DEF ResourceChanges, Tick
  <1>2. ASSUME NEW r \in Requests,
               \/ PostStart(r) \/ PostResource(r) \/ PostRecheck(r)
               \/ PostBatchFails(r) \/ Terminate(r)
        PROVE  UNCHANGED db
    BY <1>2 DEF PostStart, PostResource, PostRecheck, PostBatchFails, Terminate
  <1>3. ASSUME NEW r \in Requests,
               \/ \E a \in Appointments, s \in Statuses,
                     c \in Reasons \cup {NoReason} : PatchStart(r, a, s, c)
               \/ PatchLookup(r) \/ PatchReread(r) \/ PatchBatchFails(r)
               \/ PatchConfirm(r)
        PROVE  UNCHANGED db
    BY <1>3 DEF PatchStart, PatchLookup, PatchReread, PatchBatchFails, PatchConfirm
  <1> QED
    BY <1>1, <1>2, <1>3 DEF QuietStep

\* A quiet step leaves every invocation sound, and none goes back before its
\* batch.
LEMMA QuietSound ==
    ASSUME Inv, QuietStep
    PROVE  /\ req' \in [Requests -> Invocation]
           /\ \A r \in Requests :
                 Sound(req'[r]) /\ (Ahead(req'[r]) => Ahead(req[r]))
  <1> DEFINE Goal == /\ req' \in [Requests -> Invocation]
                     /\ \A r \in Requests :
                           Sound(req'[r]) /\ (Ahead(req'[r]) => Ahead(req[r]))
  <1>1. \A q \in Requests : Sound(req[q])
    BY InvocationsSound
  <1>2. TypeOK /\ req \in [Requests -> Invocation]
    BY DEF Inv, TypeOK
  <1>3. ASSUME NEW r \in Requests, NEW j, req' = [req EXCEPT ![r] = j],
               Sound(j), Ahead(j) => Ahead(req[r])
        PROVE  Goal
    BY <1>1, <1>2, <1>3 DEF Sound
  <1>4. ASSUME NEW r \in Requests, NEW n \in Answers, Answer(r, n) PROVE Goal
    <2> DEFINE j == [req[r] EXCEPT !.step = "done", !.answer = n]
    <2>1. req' = [req EXCEPT ![r] = j]
      BY <1>4 DEF Answer
    <2>2. j \in Invocation /\ j.step = "done"
      <3>1. req[r] \in Invocation
        BY <1>2, RowFacts
      <3> QED
        BY <3>1, <1>2, AnswerType, StepNames
    <2>3. Sound(j) /\ ~Ahead(j)
      BY <2>2 DEF Sound, Ahead, HoldsStatus
    <2> QED
      BY <2>1, <2>3, <1>3
  <1>5. ASSUME NEW r \in Requests, Terminate(r) PROVE Goal
    <2> DEFINE j == [req[r] EXCEPT !.step = "dead"]
    <2>1. req' = [req EXCEPT ![r] = j]
      BY <1>5 DEF Terminate, Goto
    <2>2. j \in Invocation /\ j.step = "dead"
      BY <1>2, RowFacts, MoveType, StepNames
    <2>3. Sound(j) /\ ~Ahead(j)
      BY <2>2 DEF Sound, Ahead, HoldsStatus
    <2> QED
      BY <2>1, <2>3, <1>3
  <1>6. ASSUME NEW r \in Requests, PostStart(r) \/ PostResource(r) PROVE Goal
    <2>1. \/ \E n \in Answers : Answer(r, n)
          \/ Ahead(req[r]) /\ \E s \in {"post_resource", "post_recheck"} : Goto(r, s)
      BY <1>6, StepNames DEF PostStart, PostResource, At, Ahead
    <2>2. ASSUME Ahead(req[r]), NEW s \in {"post_resource", "post_recheck"}, Goto(r, s)
          PROVE  Goal
      <3> DEFINE j == [req[r] EXCEPT !.step = s]
      <3>1. req' = [req EXCEPT ![r] = j]
        BY <2>2 DEF Goto
      <3>2. j \in Invocation /\ j.step = s
        BY <1>2, RowFacts, MoveType, StepNames
      <3>3. Sound(j)
        BY <3>2 DEF Sound, HoldsStatus
      <3> QED
        BY <2>2, <3>1, <3>3, <1>3
    <2> QED
      BY <2>1, <2>2, <1>4
  <1>7. ASSUME NEW r \in Requests, PostRecheck(r) PROVE Goal
    <2> DEFINE j == [req[r] EXCEPT !.step = "post_batch", !.now = clock]
    <2>1. \/ Answer(r, "unavailable")
          \/ Ahead(req[r]) /\ req' = [req EXCEPT ![r] = j]
      BY <1>7 DEF PostRecheck, At, Ahead
    <2>2. j \in Invocation /\ j.step = "post_batch"
      <3>1. req[r] \in Invocation /\ clock \in Nat
        BY <1>2, RowFacts
      <3> QED
        BY <3>1, StampType, StepNames
    <2>3. Sound(j)
      BY <2>2 DEF Sound, HoldsStatus
    <2> QED
      BY <2>1, <2>3, <1>3, <1>4, StepNames
  <1>8. ASSUME NEW r \in Requests,
               PostBatchFails(r) \/ PatchBatchFails(r) \/ PatchConfirm(r)
        PROVE Goal
    BY <1>8, <1>4, StepNames DEF PostBatchFails, PatchBatchFails, PatchConfirm
  <1>9. ASSUME NEW r \in Requests, NEW a \in Appointments, NEW s \in Statuses,
               NEW c \in Reasons \cup {NoReason}, PatchStart(r, a, s, c)
        PROVE  Goal
    <2>1. \/ Answer(r, "bad_request")
          \/ /\ Ahead(req[r])
             /\ ReasonFits(s, c)
             /\ req' = [req EXCEPT ![r] = WithInput(req[r], a, s, c)]
      BY <1>9 DEF PatchStart, At, Ahead, WithInput
    <2>2. req[r] \in Invocation
      BY <1>2, RowFacts
    <2>3. ReasonFits(s, c) => Sound(WithInput(req[r], a, s, c))
      BY <2>2, InputType DEF Sound, HoldsStatus
    <2> QED
      BY <2>1, <2>3, <1>3, <1>4, StepNames
  <1>10. ASSUME NEW r \in Requests, PatchLookup(r) PROVE Goal
    <2> DEFINE e == appointments[req[r].apt]
               j == WithLookup(req[r], e.status, e.row_version)
    <2>1. \/ \E n \in Answers : Answer(r, n)
          \/ /\ req[r].step = "patch_lookup"
             /\ IsAllowedTransition(e.status, req[r].target)
             /\ req' = [req EXCEPT ![r] = j]
      BY <1>10, StepNames DEF PatchLookup, At, WithLookup
    <2>2. ASSUME req[r].step = "patch_lookup",
                 IsAllowedTransition(e.status, req[r].target)
          PROVE  Sound(j)
      <3>1. e.status \in Statuses /\ e.row_version \in Nat
        BY <1>2, <2>2, RowFacts, AllowedTransitionFacts
      <3>2. req[r] \in Invocation
        BY <1>2, RowFacts
      <3>3. ReasonFits(req[r].target, req[r].reason)
        BY <1>1, <2>2 DEF Sound
      <3>4. /\ j \in Invocation
            /\ j.step = "patch_reread"
            /\ j.expectedStatus = e.status
            /\ j.target = req[r].target
            /\ j.reason = req[r].reason
        BY <3>1, <3>2, LookupType
      <3>5. /\ IsAllowedTransition(j.expectedStatus, j.target)
            /\ ReasonFits(j.target, j.reason)
            /\ j.expectedStatus \in Statuses
        BY <2>2, <3>1, <3>3, <3>4
      <3> HIDE DEF j
      <3> QED
        BY <3>4, <3>5 DEF Sound
    <2> QED
      BY <2>1, <2>2, <1>3, <1>4 DEF Ahead
  <1>11. ASSUME NEW r \in Requests, PatchReread(r) PROVE Goal
    <2> DEFINE e == appointments[req[r].apt]
               j == WithReread(req[r], clock, e.row_version)
    <2>1. \/ \E n \in Answers : Answer(r, n)
          \/ req[r].step = "patch_reread" /\ req' = [req EXCEPT ![r] = j]
      BY <1>11, StepNames DEF PatchReread, At, WithReread
    <2>2. ASSUME req[r].step = "patch_reread" PROVE Sound(j)
      <3>1. e.row_version \in Nat /\ clock \in Nat /\ req[r] \in Invocation
        BY <1>2, RowFacts
      <3>2. /\ req[r].expectedStatus \in Statuses
            /\ IsAllowedTransition(req[r].expectedStatus, req[r].target)
            /\ ReasonFits(req[r].target, req[r].reason)
        BY <1>1, <2>2 DEF Sound, HoldsStatus
      <3>3. /\ j \in Invocation
            /\ j.step = "patch_batch"
            /\ j.expectedStatus = req[r].expectedStatus
            /\ j.target = req[r].target
            /\ j.reason = req[r].reason
        BY <3>1, RereadType
      <3>4. /\ j.expectedStatus \in Statuses
            /\ IsAllowedTransition(j.expectedStatus, j.target)
            /\ ReasonFits(j.target, j.reason)
        BY <3>2, <3>3
      <3> HIDE DEF j
      <3> QED
        BY <3>3, <3>4 DEF Sound
    <2> QED
      BY <2>1, <2>2, <1>3, <1>4 DEF Ahead
  <1>12. CASE ResourceChanges \/ Tick
    BY <1>1, <1>2, <1>12 DEF ResourceChanges, Tick
  <1> QED
    BY <1>5, <1>6, <1>7, <1>8, <1>9, <1>10, <1>11, <1>12 DEF QuietStep

LEMMA QuietEnvironment ==
    ASSUME TypeOK, QuietStep
    PROVE  resourceActive' \in BOOLEAN /\ clock' \in 0..MaxClock
  <1>1. CASE ResourceChanges
    BY <1>1 DEF ResourceChanges, TypeOK
  <1>2. CASE Tick
    BY <1>2, ConstantsAssumption DEF Tick, TypeOK
  <1>3. CASE UNCHANGED <<resourceActive, clock>>
    BY <1>3 DEF TypeOK
  <1>4. ASSUME NEW r \in Requests,
               \/ PostStart(r) \/ PostResource(r) \/ PostRecheck(r)
               \/ PostBatchFails(r) \/ Terminate(r)
        PROVE  UNCHANGED <<resourceActive, clock>>
    BY <1>4 DEF PostStart, PostResource, PostRecheck, PostBatchFails, Terminate
  <1>5. ASSUME NEW r \in Requests,
               \/ \E a \in Appointments, s \in Statuses,
                     c \in Reasons \cup {NoReason} : PatchStart(r, a, s, c)
               \/ PatchLookup(r) \/ PatchReread(r) \/ PatchBatchFails(r)
               \/ PatchConfirm(r)
        PROVE  UNCHANGED <<resourceActive, clock>>
    BY <1>5 DEF PatchStart, PatchLookup, PatchReread, PatchBatchFails, PatchConfirm
  <1> QED
    BY <1>1, <1>2, <1>3, <1>4, <1>5 DEF QuietStep

\* Quiet steps keep the invariant: the tables do not change, and a transition
\* is only held once it was checked.
LEMMA QuietInv == Inv /\ QuietStep => Inv'
  <1> SUFFICES ASSUME Inv, QuietStep PROVE Inv'
    OBVIOUS
  <1>1. TypeOK /\ AuditReplaysRow /\ NotYetCommitted /\ ReasonFitsRow
    BY DEF Inv
  <1>2. appointments' = appointments /\ audit_logs' = audit_logs
    BY QuietLeavesDb DEF db
  <1>3. /\ req' \in [Requests -> Invocation]
        /\ \A r \in Requests : Sound(req'[r]) /\ (Ahead(req'[r]) => Ahead(req[r]))
    BY QuietSound
  <1>4. TypeOK'
    BY <1>1, <1>2, <1>3, QuietEnvironment DEF TypeOK, Sound
  <1>5. AuditReplaysRow' /\ ReasonFitsRow'
    BY <1>1, <1>2 DEF AuditReplaysRow, Exists, ReasonFitsRow
  <1>6. NotYetCommitted'
    BY <1>1, <1>2, <1>3 DEF NotYetCommitted, BatchAhead, Ahead
  <1>7. HeldTransitionChecked'
    BY <1>3 DEF HeldTransitionChecked, Sound
  <1> QED
    BY <1>4, <1>5, <1>6, <1>7 DEF Inv
-----------------------------------------------------------------------------
(* Steps that commit a batch.                                               *)

\* One more audit row that continues the chain, with a row that agrees with it.
LEMMA Extended ==
    ASSUME Inv, NEW a \in Appointments, NEW row \in Row, NEW e \in AuditRow,
           appointments' = [appointments EXCEPT ![a] = row],
           audit_logs' = [audit_logs EXCEPT ![a] = Append(@, e)],
           row.status = e.newStatus,
           row.cancellation_reason = e.reasonCode,
           row.row_version = Len(audit_logs[a]),
           Exists(a) => /\ e.previousStatus = appointments[a].status
                        /\ IsAllowedTransition(e.previousStatus, e.newStatus),
           ~Exists(a) => e.previousStatus = Absent /\ e.newStatus = "scheduled"
    PROVE  AuditReplaysRow'
  <1> DEFINE log == audit_logs[a]
             log2 == audit_logs'[a]
             n == Len(log)
  <1>1. /\ appointments \in [Appointments -> Row]
        /\ audit_logs \in [Appointments -> Seq(AuditRow)]
        /\ AuditReplaysRow
    BY DEF Inv, TypeOK
  <1>2. /\ log \in Seq(AuditRow) /\ n \in Nat
        /\ log2 = Append(log, e)
        /\ Len(log2) = n + 1 /\ log2[n + 1] = e
        /\ \A i \in 1..n : log2[i] = log[i]
    BY <1>1
  <1>3. appointments'[a] = row
    BY <1>1
  <1>4. \A b \in Appointments \ {a} :
           audit_logs'[b] = audit_logs[b] /\ appointments'[b] = appointments[b]
    BY <1>1
  <1>5. e.newStatus \in Statuses
    BY DEF AuditRow
  <1>6. e.newStatus # Absent
    BY <1>5 DEF Statuses, Absent
  <1>7. Exists(a) <=> n > 0
    BY <1>1 DEF AuditReplaysRow
  <1>8. Exists(a) => log[n].newStatus = appointments[a].status
    BY <1>1 DEF AuditReplaysRow
  <1>9. Exists(a) => log[1].previousStatus = Absent /\ log[1].newStatus = "scheduled"
    BY <1>1 DEF AuditReplaysRow
  <1>10. \A i \in 2..n :
           /\ log[i].previousStatus = log[i-1].newStatus
           /\ IsAllowedTransition(log[i].previousStatus, log[i].newStatus)
    BY <1>1 DEF AuditReplaysRow
  <1>11. log2[1].previousStatus = Absent /\ log2[1].newStatus = "scheduled"
    <2>1. CASE Exists(a)
      BY <2>1, <1>2, <1>7, <1>9
    <2>2. CASE ~Exists(a)
      <3>1. n = 0
        BY <2>2, <1>2, <1>7
      <3> QED
        BY <2>2, <3>1, <1>2
    <2> QED
      BY <2>1, <2>2
  <1>12. \A i \in 2..(n + 1) :
           /\ log2[i].previousStatus = log2[i-1].newStatus
           /\ IsAllowedTransition(log2[i].previousStatus, log2[i].newStatus)
    <2> SUFFICES ASSUME NEW i \in 2..(n + 1)
                 PROVE  /\ log2[i].previousStatus = log2[i-1].newStatus
                        /\ IsAllowedTransition(log2[i].previousStatus, log2[i].newStatus)
      OBVIOUS
    <2>1. CASE i \in 2..n
      <3>1. log2[i] = log[i] /\ log2[i-1] = log[i-1]
        BY <2>1, <1>2
      <3> QED
        BY <2>1, <3>1, <1>10
    <2>2. CASE i = n + 1
      <3>1. n > 0 /\ i - 1 = n
        BY <2>2, <1>2
      <3>2. log2[i] = e /\ log2[i-1] = log[n]
        BY <2>2, <3>1, <1>2
      <3> QED
        BY <3>1, <3>2, <1>7, <1>8
    <2> QED
      BY <2>1, <2>2, <1>2
  <1>13. /\ appointments'[a].status # Absent
         /\ Len(log2) = appointments'[a].row_version + 1
         /\ log2[Len(log2)].newStatus = appointments'[a].status
         /\ log2[Len(log2)].reasonCode = appointments'[a].cancellation_reason
         /\ Len(log2) > 0
    BY <1>2, <1>3, <1>6
  <1> QED
    <2> SUFFICES ASSUME NEW b \in Appointments
                 PROVE  LET l == audit_logs'[b]  k == Len(audit_logs'[b])
                            w == appointments'[b] IN
                        /\ (appointments'[b].status # Absent) <=> k > 0
                        /\ (appointments'[b].status # Absent) =>
                             /\ k = w.row_version + 1
                             /\ l[k].newStatus = w.status
                             /\ l[k].reasonCode = w.cancellation_reason
                             /\ l[1].previousStatus = Absent
                             /\ l[1].newStatus = "scheduled"
                        /\ \A i \in 2..k :
                             /\ l[i].previousStatus = l[i-1].newStatus
                             /\ IsAllowedTransition(l[i].previousStatus, l[i].newStatus)
      BY DEF AuditReplaysRow, Exists
    <2>1. CASE b = a
      BY <2>1, <1>2, <1>11, <1>12, <1>13
    <2>2. CASE b # a
      BY <2>2, <1>1, <1>4 DEF AuditReplaysRow, Exists
    <2> QED
      BY <2>1, <2>2

\* An invocation that committed or was answered leaves the others as they were.
LEMMA CommitSound ==
    ASSUME Inv, NEW r \in Requests,
           \/ Goto(r, "patch_confirm") /\ req[r].step = "patch_batch"
           \/ \E n \in Answers : Answer(r, n)
    PROVE  /\ req' \in [Requests -> Invocation]
           /\ \A q \in Requests : Sound(req'[q])
           /\ \A q \in Requests : Ahead(req'[q]) => q # r /\ Ahead(req[q])
  <1>1. \A q \in Requests : Sound(req[q])
    BY InvocationsSound
  <1>2. req \in [Requests -> Invocation] /\ req[r] \in Invocation
    BY DEF Inv, TypeOK
  <1>3. ASSUME NEW j, req' = [req EXCEPT ![r] = j], Sound(j), ~Ahead(j)
        PROVE  /\ req' \in [Requests -> Invocation]
               /\ \A q \in Requests : Sound(req'[q])
               /\ \A q \in Requests : Ahead(req'[q]) => q # r /\ Ahead(req[q])
    BY <1>1, <1>2, <1>3 DEF Sound
  <1>4. CASE \E n \in Answers : Answer(r, n)
    <2> PICK n \in Answers : Answer(r, n)
      BY <1>4
    <2> DEFINE j == [req[r] EXCEPT !.step = "done", !.answer = n]
    <2>1. req' = [req EXCEPT ![r] = j]
      BY DEF Answer
    <2>2. j \in Invocation /\ j.step = "done"
      BY <1>2, AnswerType, StepNames
    <2>3. Sound(j) /\ ~Ahead(j)
      BY <2>2 DEF Sound, Ahead, HoldsStatus
    <2> QED
      BY <2>1, <2>3, <1>3
  <1>5. CASE Goto(r, "patch_confirm") /\ req[r].step = "patch_batch"
    <2> DEFINE j == [req[r] EXCEPT !.step = "patch_confirm"]
    <2>1. req' = [req EXCEPT ![r] = j]
      BY <1>5 DEF Goto
    <2>2. j \in Invocation /\ j.step = "patch_confirm"
      BY <1>2, MoveType, StepNames
    <2>3. j.expectedStatus = req[r].expectedStatus
      BY <1>2 DEF Invocation
    <2>4. Sound(j) /\ ~Ahead(j)
      BY <2>2, <2>3, <1>1, <1>5 DEF Sound, Ahead, HoldsStatus
    <2> QED
      BY <2>1, <2>4, <1>3
  <1> QED
    BY <1>4, <1>5
\* The booking batch: a fresh id, so the log starts here.
LEMMA PostBatchInv ==
    ASSUME Inv, NEW r \in Requests, NEW a \in Appointments, PostBatch(r, a)
    PROVE  Inv'
  <1>1. TypeOK /\ AuditReplaysRow /\ NotYetCommitted /\ ReasonFitsRow
    BY DEF Inv
  <1>2. req[r].now \in Nat
    BY <1>1, RowFacts
  <1>3. BookedRow(r) \in Row /\ BookingEntry(r) \in AuditRow
    BY <1>2 DEF BookedRow, BookingEntry, NoRow, Row, AuditRow, Statuses, Absent
  <1>4. /\ BookedRow(r).status = "scheduled"
        /\ BookedRow(r).row_version = 0
        /\ BookedRow(r).cancellation_reason = NoReason
        /\ BookedRow(r).last_transition_id = NoTransition
    BY DEF BookedRow, NoRow
  <1>5. /\ BookingEntry(r).newStatus = "scheduled"
        /\ BookingEntry(r).previousStatus = Absent
        /\ BookingEntry(r).reasonCode = NoReason
    BY DEF BookingEntry
  <1>6. /\ appointments' = [appointments EXCEPT ![a] = BookedRow(r)]
        /\ audit_logs' = [audit_logs EXCEPT ![a] = Append(@, BookingEntry(r))]
        /\ resourceActive' = resourceActive /\ clock' = clock
        /\ ~Exists(a)
        /\ \E n \in Answers : Answer(r, n)
    BY StepNames DEF PostBatch
  <1>7. Len(audit_logs[a]) = 0
    BY <1>1, <1>6 DEF AuditReplaysRow, TypeOK
  <1>8. AuditReplaysRow'
    BY <1>3, <1>4, <1>5, <1>6, <1>7, Extended
  <1>9. /\ req' \in [Requests -> Invocation]
        /\ \A q \in Requests : Sound(req'[q])
        /\ \A q \in Requests : Ahead(req'[q]) => q # r /\ Ahead(req[q])
    BY <1>6, CommitSound
  <1>10. TypeOK'
    BY <1>1, <1>3, <1>6, <1>9 DEF TypeOK, Sound
  <1>11. NotYetCommitted'
    BY <1>1, <1>4, <1>6, <1>9, ConstantsAssumption
    DEF NotYetCommitted, TypeOK, BatchAhead, Ahead
  <1>12. HeldTransitionChecked'
    BY <1>9 DEF HeldTransitionChecked, Sound
  <1>13. ReasonFitsRow'
    BY <1>1, <1>4, <1>6 DEF ReasonFitsRow, ReasonFits, ClosedStatuses, TypeOK
  <1> QED
    BY <1>8, <1>10, <1>11, <1>12, <1>13 DEF Inv

\* What the update batch does to the tables: the row and its log together, or
\* nothing at all.  The audit INSERT cannot match without the UPDATE, because
\* no row carries the id of a request whose batch is still ahead.
LEMMA PatchBatchEffect ==
    ASSUME Inv, NEW r \in Requests, PatchBatch(r)
    PROVE  \/ UNCHANGED db
           \/ LET a == req[r].apt IN
              /\ UpdateMatches(r)
              /\ IsAllowedTransition(appointments[a].status, req[r].target)
              /\ appointments' = [appointments EXCEPT ![a] = UpdatedRow(r)]
              /\ audit_logs' = [audit_logs EXCEPT ![a] = Append(@, AuditEntry(r))]
  <1> DEFINE a == req[r].apt
  <1>1. /\ TypeOK /\ a \in Appointments /\ appointments[a] \in Row
        /\ appointments[a].row_version \in Nat
        /\ req[r].step = "patch_batch"
        /\ appointments[a].last_transition_id # r
    BY RowFacts DEF Inv, PatchBatch, At, NotYetCommitted, BatchAhead
  <1>2. IsAllowedTransition(req[r].expectedStatus, req[r].target)
    BY <1>1 DEF Inv, HeldTransitionChecked
  <1>3. CASE UpdateMatches(r)
    <2>1. /\ UpdatedRow(r).last_transition_id = r
          /\ UpdatedRow(r).row_version = appointments[a].row_version + 1
          /\ UpdatedRow(r).status = req[r].target
      BY <1>1, <1>3 DEF UpdatedRow, Row
    <2>2. AuditMatches(r)
      BY <1>3, <2>1 DEF AuditMatches, UpdateMatches
    <2> QED
      BY <1>2, <1>3, <2>2 DEF PatchBatch, UpdateMatches
  <1>4. CASE ~UpdateMatches(r)
    <2>1. UpdatedRow(r) = appointments[a]
      BY <1>4 DEF UpdatedRow
    <2>2. ~AuditMatches(r)
      BY <1>1, <2>1 DEF AuditMatches
    <2>3. appointments' = appointments
      BY <1>1, <2>1 DEF PatchBatch, TypeOK
    <2> QED
      BY <2>2, <2>3 DEF PatchBatch, db
  <1> QED
    BY <1>3, <1>4

\* The row and the audit row an update writes.
LEMMA UpdatedRowFacts ==
    ASSUME Inv, NEW r \in Requests, UpdateMatches(r),
           req[r].step = "patch_batch",
           IsAllowedTransition(appointments[req[r].apt].status, req[r].target)
    PROVE  LET row == appointments[req[r].apt] IN
           /\ UpdatedRow(r) \in Row
           /\ UpdatedRow(r).status = req[r].target
           /\ UpdatedRow(r).row_version = row.row_version + 1
           /\ UpdatedRow(r).last_transition_id = r
           /\ UpdatedRow(r).cancellation_reason = req[r].reason
           /\ ReasonFits(req[r].target, req[r].reason)
           /\ AuditEntry(r) \in AuditRow
           /\ AuditEntry(r).previousStatus = row.status
           /\ AuditEntry(r).newStatus = req[r].target
           /\ AuditEntry(r).reasonCode = req[r].reason
  <1> DEFINE row == appointments[req[r].apt]
  <1>1. /\ req[r].apt \in Appointments /\ row \in Row
        /\ req[r].target \in Statuses
        /\ req[r].reason \in Reasons \cup {NoReason}
        /\ req[r].now \in Nat
        /\ row.row_version \in Nat
        /\ req[r].expectedStatus \in Statuses \cup {Absent}
    BY RowFacts DEF Inv
  <1>2. ReasonFits(req[r].target, req[r].reason)
    BY DEF Inv, HeldTransitionChecked
  <1>3. row.cancellation_reason = NoReason
    BY <1>1, AllowedTransitionFacts DEF Inv, ReasonFitsRow, ReasonFits
  <1>4. req[r].target \notin ClosedStatuses => req[r].reason = NoReason
    BY <1>2 DEF ReasonFits
  <1>5. UpdatedRow(r) \in Row
    <2>1. UpdatedRow(r) = [status |-> req[r].target,
                           row_version |-> row.row_version + 1,
                           last_transition_id |-> r,
                           cancellation_reason |-> req[r].reason,
                           updated_at |-> req[r].now]
      BY <1>1, <1>3, <1>4 DEF UpdatedRow, Row
    <2> QED
      BY <1>1, <2>1 DEF Row
  <1>6. /\ UpdatedRow(r).status = req[r].target
        /\ UpdatedRow(r).row_version = row.row_version + 1
        /\ UpdatedRow(r).last_transition_id = r
        /\ UpdatedRow(r).cancellation_reason = req[r].reason
    BY <1>1, <1>3, <1>4 DEF UpdatedRow, Row
  <1>7. /\ AuditEntry(r) \in AuditRow
        /\ AuditEntry(r).previousStatus = row.status
        /\ AuditEntry(r).newStatus = req[r].target
        /\ AuditEntry(r).reasonCode = req[r].reason
    BY <1>1 DEF AuditEntry, AuditRow, UpdateMatches
  <1> QED
    BY <1>2, <1>5, <1>6, <1>7

\* The update batch keeps the invariant.
LEMMA PatchBatchInv ==
    ASSUME Inv, NEW r \in Requests, PatchBatch(r)
    PROVE  Inv'
  <1> DEFINE a == req[r].apt
  <1>1. /\ TypeOK /\ AuditReplaysRow /\ NotYetCommitted /\ ReasonFitsRow
        /\ a \in Appointments
    BY RowFacts DEF Inv
  <1>2. /\ req[r].step = "patch_batch"
        /\ resourceActive' = resourceActive /\ clock' = clock
        /\ \/ Goto(r, "patch_confirm") /\ req[r].step = "patch_batch"
           \/ \E n \in Answers : Answer(r, n)
    BY StepNames DEF PatchBatch, At
  <1>3. /\ req' \in [Requests -> Invocation]
        /\ \A q \in Requests : Sound(req'[q])
        /\ \A q \in Requests : Ahead(req'[q]) => q # r /\ Ahead(req[q])
    BY <1>2, CommitSound
  <1>4. HeldTransitionChecked'
    BY <1>3 DEF HeldTransitionChecked, Sound
  <1>5. CASE UNCHANGED db
    <2>1. appointments' = appointments /\ audit_logs' = audit_logs
      BY <1>5 DEF db
    <2>2. TypeOK'
      BY <1>1, <1>2, <1>3, <2>1 DEF TypeOK, Sound
    <2>3. AuditReplaysRow' /\ ReasonFitsRow'
      BY <1>1, <2>1 DEF AuditReplaysRow, Exists, ReasonFitsRow
    <2>4. NotYetCommitted'
      BY <1>1, <1>3, <2>1 DEF NotYetCommitted, BatchAhead, Ahead
    <2> QED
      BY <1>4, <2>2, <2>3, <2>4 DEF Inv
  <1>6. CASE /\ UpdateMatches(r)
             /\ IsAllowedTransition(appointments[a].status, req[r].target)
             /\ appointments' = [appointments EXCEPT ![a] = UpdatedRow(r)]
             /\ audit_logs' = [audit_logs EXCEPT ![a] = Append(@, AuditEntry(r))]
    <2>1. /\ UpdatedRow(r) \in Row
          /\ UpdatedRow(r).status = req[r].target
          /\ UpdatedRow(r).row_version = appointments[a].row_version + 1
          /\ UpdatedRow(r).last_transition_id = r
          /\ UpdatedRow(r).cancellation_reason = req[r].reason
          /\ ReasonFits(req[r].target, req[r].reason)
          /\ AuditEntry(r) \in AuditRow
          /\ AuditEntry(r).previousStatus = appointments[a].status
          /\ AuditEntry(r).newStatus = req[r].target
          /\ AuditEntry(r).reasonCode = req[r].reason
      BY <1>2, <1>6, UpdatedRowFacts
    <2>2. Exists(a)
      BY <1>6, AllowedTransitionFacts DEF Exists, Absent, Statuses
    <2>3. Len(audit_logs[a]) = appointments[a].row_version + 1
      BY <1>1, <2>2 DEF AuditReplaysRow
    <2>4. AuditReplaysRow'
      <3>1. UpdatedRow(r).row_version = Len(audit_logs[a])
        BY <2>1, <2>3
      <3>2. IsAllowedTransition(AuditEntry(r).previousStatus,
                                AuditEntry(r).newStatus)
        BY <1>6, <2>1
      <3> QED
        BY <1>1, <1>6, <2>1, <2>2, <3>1, <3>2, Extended
    <2>5. TypeOK'
      BY <1>1, <1>2, <1>3, <1>6, <2>1 DEF TypeOK, Sound
    <2>6. NotYetCommitted'
      BY <1>1, <1>3, <1>6, <2>1 DEF NotYetCommitted, TypeOK, BatchAhead, Ahead
    <2>7. ReasonFitsRow'
      BY <1>1, <1>6, <2>1 DEF ReasonFitsRow, TypeOK
    <2> QED
      BY <1>4, <2>4, <2>5, <2>6, <2>7 DEF Inv
  <1> QED
    BY <1>5, <1>6, PatchBatchEffect

\* The invariant holds in every reachable state.
THEOREM Invariance == Spec => []Inv
  <1>1. Init => Inv
    BY InitInv
  <1>2. Inv /\ [Next]_vars => Inv'
    <2> SUFFICES ASSUME Inv, [Next]_vars PROVE Inv'
      OBVIOUS
    <2>1. CASE QuietStep
      BY <2>1, QuietInv
    <2>2. ASSUME NEW r \in Requests, NEW a \in Appointments, PostBatch(r, a)
          PROVE  Inv'
      BY <2>2, PostBatchInv
    <2>3. ASSUME NEW r \in Requests, PatchBatch(r) PROVE Inv'
      BY <2>3, PatchBatchInv
    <2>4. CASE UNCHANGED vars
      BY <2>4 DEF vars, Inv, TypeOK, AuditReplaysRow, Exists, NotYetCommitted,
                  BatchAhead, HeldTransitionChecked, ReasonFitsRow
    <2> QED
      BY <2>1, <2>2, <2>3, <2>4, StepKinds
  <1> QED
    BY <1>1, <1>2, PTL DEF Spec

\* The tables and the invocations always hold values of their types, and an
\* invocation past its lookup holds the status of a row.
THEOREM TypeCorrect == Spec => []TypeOK
  <1>1. Inv => TypeOK
    BY DEF Inv
  <1> QED
    BY <1>1, Invariance, PTL

\* Replaying an appointment's audit rows always gives its row.
THEOREM AuditCorrect == Spec => []AuditReplaysRow
  <1>1. Inv => AuditReplaysRow
    BY DEF Inv
  <1> QED
    BY <1>1, Invariance, PTL
-----------------------------------------------------------------------------
(* What a step may do.                                                      *)

\* An appointment that ended is never written again, by any step.
THEOREM EndedCorrect == Spec => EndedStaysEnded
  <1> DEFINE Ended == \A a \in Appointments :
                         appointments[a].status \in TerminalStatuses =>
                            UNCHANGED appointments[a]
  <1>1. Inv /\ [Next]_vars => [Ended]_vars
    <2> SUFFICES ASSUME Inv, Next PROVE Ended
      BY DEF vars
    <2> USE DEF Inv
    <2>1. CASE QuietStep
      BY <2>1, QuietLeavesDb DEF db
    <2>2. ASSUME NEW r \in Requests, NEW b \in Appointments, PostBatch(r, b)
          PROVE  Ended
      BY <2>2 DEF PostBatch, Exists, TerminalStatuses, Absent, TypeOK
    <2>3. ASSUME NEW r \in Requests, PatchBatch(r) PROVE Ended
      <3>1. CASE UNCHANGED db
        BY <3>1 DEF db
      <3>2. CASE /\ IsAllowedTransition(appointments[req[r].apt].status,
                                        req[r].target)
                 /\ appointments' = [appointments EXCEPT
                                       ![req[r].apt] = UpdatedRow(r)]
        BY <3>2, AllowedTransitionFacts DEF TypeOK
      <3> QED
        BY <2>3, <3>1, <3>2, PatchBatchEffect
    <2> QED
      BY <2>1, <2>2, <2>3, StepKinds
  <1> QED
    BY <1>1, Invariance, PTL DEF Spec, EndedStaysEnded

\* The status and history the refinement mapping reads off the tables.
StatusOf == [a \in Appointments |-> appointments[a].status]
HistoryOf == [a \in Appointments |->
                [i \in DOMAIN audit_logs[a] |-> audit_logs[a][i].newStatus]]

\* A batch that writes a row with its audit row is one entry of the ledger.
LEMMA BatchIsRecord ==
    ASSUME TypeOK, NEW a \in Appointments, NEW row \in Row, NEW e \in AuditRow,
           appointments' = [appointments EXCEPT ![a] = row],
           audit_logs' = [audit_logs EXCEPT ![a] = Append(@, e)],
           NEW s \in Statuses, row.status = s, e.newStatus = s
    PROVE  Ledger!Record(a, s)
  <1>1. /\ appointments \in [Appointments -> Row]
        /\ audit_logs \in [Appointments -> Seq(AuditRow)]
    BY DEF TypeOK
  <1>2. StatusOf' = [StatusOf EXCEPT ![a] = s]
    BY <1>1 DEF StatusOf
  <1>3. HistoryOf' = [HistoryOf EXCEPT ![a] = Append(@, s)]
    <2> DEFINE log == audit_logs[a]
               n == Len(log)
               moved == [i \in DOMAIN log |-> log[i].newStatus]
    <2>1. log \in Seq(AuditRow) /\ n \in Nat /\ DOMAIN log = 1..n
      BY <1>1
    <2>2. moved \in Seq(Statuses)
      <3>1. \A i \in 1..n : log[i] \in AuditRow
        BY <2>1
      <3>2. \A i \in 1..n : log[i].newStatus \in Statuses
        BY <3>1 DEF AuditRow
      <3> QED
        BY <2>1, <3>2
    <2>3. Append(moved, s) =
            [i \in 1..(n + 1) |-> IF i = n + 1 THEN s ELSE moved[i]]
      BY <2>1, <2>2
    <2>4. [i \in DOMAIN Append(log, e) |-> Append(log, e)[i].newStatus] =
            [i \in 1..(n + 1) |-> IF i = n + 1 THEN s ELSE moved[i]]
      BY <2>1
    <2>5. HistoryOf'[a] = Append(moved, s)
      BY <1>1, <2>3, <2>4 DEF HistoryOf
    <2>6. \A b \in Appointments \ {a} : HistoryOf'[b] = HistoryOf[b]
      BY <1>1 DEF HistoryOf
    <2> QED
      BY <2>5, <2>6 DEF HistoryOf
  <1> QED
    BY <1>2, <1>3 DEF Ledger!Record, StatusOf, HistoryOf

\* The handlers, with their two reads, their batch and their faults, implement
\* the ledger: every step is one entry of it or none.
THEOREM Refinement == Spec => ImplementsLedger
  <1>1. Init => Ledger!Init
    <2> SUFFICES ASSUME Init PROVE Ledger!Init
      OBVIOUS
    <2>1. [i \in DOMAIN <<>> |-> <<>>[i].newStatus] = <<>>
      OBVIOUS
    <2>2. \A a \in Appointments : audit_logs[a] = <<>>
      BY DEF Init
    <2>3. HistoryOf = [a \in Appointments |-> <<>>]
      BY <2>1, <2>2 DEF HistoryOf
    <2>4. StatusOf = [a \in Appointments |-> Absent]
      BY DEF StatusOf, Init, NoRow
    <2> QED
      BY <2>3, <2>4 DEF Ledger!Init, HistoryOf, StatusOf, Absent, Ledger!Absent
  <1>2. Inv /\ [Next]_vars => [Ledger!Next]_(Ledger!vars)
    <2> SUFFICES ASSUME Inv, [Next]_vars, ~UNCHANGED db PROVE Ledger!Next
      BY DEF db, Ledger!vars
    <2>1. TypeOK
      BY DEF Inv
    <2>2. ASSUME NEW r \in Requests, NEW a \in Appointments, PostBatch(r, a)
          PROVE  Ledger!Next
      <3>1. req[r].now \in Nat
        BY <2>1, RowFacts
      <3>2. BookedRow(r) \in Row /\ BookingEntry(r) \in AuditRow
        BY <3>1 DEF BookedRow, BookingEntry, NoRow, Row, AuditRow, Statuses, Absent
      <3>3. /\ BookedRow(r).status = BookingEntry(r).newStatus
            /\ BookingEntry(r).newStatus = "scheduled"
            /\ "scheduled" \in Statuses
        BY DEF BookedRow, BookingEntry, NoRow, Statuses
      <3>4. /\ appointments' = [appointments EXCEPT ![a] = BookedRow(r)]
            /\ audit_logs' = [audit_logs EXCEPT ![a] = Append(@, BookingEntry(r))]
            /\ appointments[a].status = Absent
        BY <2>2 DEF PostBatch, Exists
      <3>5. Ledger!Record(a, "scheduled")
        BY <2>1, <3>2, <3>3, <3>4, BatchIsRecord
      <3> QED
        BY <3>4, <3>5 DEF Ledger!Next, Ledger!Create, Ledger!Absent, Absent
    <2>3. ASSUME NEW r \in Requests, PatchBatch(r) PROVE Ledger!Next
      <3>1. PICK a \in Appointments, t \in Statuses :
                a = req[r].apt /\ t = req[r].target
        BY <2>1, RowFacts
      <3>2. /\ UpdateMatches(r)
            /\ IsAllowedTransition(appointments[a].status, t)
            /\ appointments' = [appointments EXCEPT ![a] = UpdatedRow(r)]
            /\ audit_logs' = [audit_logs EXCEPT ![a] = Append(@, AuditEntry(r))]
            /\ req[r].step = "patch_batch"
        BY <2>3, <3>1, PatchBatchEffect DEF PatchBatch, At
      <3>3. /\ UpdatedRow(r) \in Row /\ AuditEntry(r) \in AuditRow
            /\ UpdatedRow(r).status = t
            /\ AuditEntry(r).newStatus = t
        BY <3>1, <3>2, UpdatedRowFacts
      <3>4. Ledger!Record(a, t)
        <4> PICK row \in Row, e \in AuditRow :
                row = UpdatedRow(r) /\ e = AuditEntry(r)
          BY <3>3
        <4> QED
          BY <2>1, <3>2, <3>3, BatchIsRecord
      <3>5. Ledger!IsAllowedTransition(appointments[a].status, t)
        BY <3>2 DEF IsAllowedTransition, Ledger!IsAllowedTransition,
           AllowedTransitions, Ledger!AllowedTransitions, Statuses,
           Ledger!Statuses
      <3>6. t \in Ledger!Statuses
        BY <3>1 DEF Statuses, Ledger!Statuses
      <3> QED
        BY <3>4, <3>5, <3>6 DEF Ledger!Next, Ledger!Advance
    <2>4. ~QuietStep /\ ~UNCHANGED vars
      BY QuietLeavesDb DEF vars, db
    <2> QED
      BY <2>2, <2>3, <2>4, StepKinds
  <1> QED
    BY <1>1, <1>2, Invariance, PTL DEF Spec, ImplementsLedger, Ledger!Spec

-----------------------------------------------------------------------------
(* What a step that leaves the tables alone does to the request that takes  *)
(* it.                                                                      *)

Terminated(r) ==
    /\ req[r].step \notin {"done", "dead"}
    /\ req'[r] = [req[r] EXCEPT !.step = "dead"]

Answered(r) ==
    /\ req[r].step \notin {"done", "dead"}
    /\ \E n \in Answers \ {"none"} :
         /\ req'[r] = [req[r] EXCEPT !.step = "done", !.answer = n]
         /\ n # "created"
         /\ n = "updated" => req[r].step = "patch_confirm"
         /\ n \in {"bad_request", "not_found", "unavailable", "conflict"} => BatchAhead(r)
         /\ n = "conflict" =>
              /\ req[r].step = "patch_reread"
              /\ appointments[req[r].apt].status # req[r].expectedStatus

WentOn(r) ==
    /\ BatchAhead(r)
    /\ \E s \in {"post_resource", "post_recheck"} : req'[r] = [req[r] EXCEPT !.step = s]

Stamped(r) ==
    BatchAhead(r) /\ req'[r] = [req[r] EXCEPT !.step = "post_batch", !.now = clock]

GotInput(r) ==
    /\ BatchAhead(r)
    /\ \E a \in Appointments, t \in Statuses, c \in Reasons \cup {NoReason} :
         req'[r] = WithInput(req[r], a, t, c)

LookedUp(r) ==
    LET existing == appointments[req[r].apt] IN
    /\ BatchAhead(r) /\ Exists(req[r].apt)
    /\ req'[r] = WithLookup(req[r], existing.status, existing.row_version)

Reread(r) ==
    LET existing == appointments[req[r].apt] IN
    /\ req[r].step = "patch_reread" /\ existing.status = req[r].expectedStatus
    /\ req'[r] = WithReread(req[r], clock, existing.row_version)

QuietMove(r) ==
    \/ Terminated(r) \/ Answered(r) \/ WentOn(r) \/ Stamped(r)
    \/ GotInput(r) \/ LookedUp(r) \/ Reread(r)

OthersStay(r) == \A q \in Requests \ {r} : req'[q] = req[q]

LEMMA AnswerMoves ==
    ASSUME Inv, NEW r \in Requests, NEW n \in Answers \ {"none", "created"}, Answer(r, n),
           req[r].step \notin {"done", "dead"},
           n = "updated" => req[r].step = "patch_confirm",
           n \in {"bad_request", "not_found", "unavailable", "conflict"} => BatchAhead(r),
           n = "conflict" => /\ req[r].step = "patch_reread"
                             /\ appointments[req[r].apt].status # req[r].expectedStatus
    PROVE  QuietMove(r) /\ OthersStay(r)
  <1>1. req \in [Requests -> Invocation]
    BY DEF Inv, TypeOK
  <1>2. req'[r] = [req[r] EXCEPT !.step = "done", !.answer = n] /\ OthersStay(r)
    BY <1>1 DEF Answer, OthersStay
  <1> QED
    BY <1>2 DEF QuietMove, Answered

LEMMA GotoMoves ==
    ASSUME Inv, NEW r \in Requests, NEW s, Goto(r, s)
    PROVE  req'[r] = [req[r] EXCEPT !.step = s] /\ OthersStay(r)
  BY DEF Inv, TypeOK, Goto, OthersStay

\* A quiet step is one of these of one request, or of none.
LEMMA QuietKinds ==
    ASSUME Inv, QuietStep
    PROVE  (\E r \in Requests : QuietMove(r) /\ OthersStay(r)) \/ UNCHANGED req
  <1> DEFINE Goal == (\E r \in Requests : QuietMove(r) /\ OthersStay(r)) \/ UNCHANGED req
  <1>1. req \in [Requests -> Invocation]
    BY DEF Inv, TypeOK
  <1>2. ASSUME NEW r \in Requests, PostStart(r) \/ PostResource(r) PROVE Goal
    <2>1. /\ req[r].step \in {"idle", "post_resource"} /\ BatchAhead(r)
          /\ req[r].step \notin {"done", "dead"}
      BY <1>2 DEF PostStart, PostResource, At, BatchAhead
    <2>2. \/ \E s \in {"post_resource", "post_recheck"} : Goto(r, s)
          \/ Answer(r, "bad_request") \/ Answer(r, "unavailable")
      BY <1>2 DEF PostStart, PostResource
    <2>3. ASSUME NEW s \in {"post_resource", "post_recheck"}, Goto(r, s) PROVE Goal
      BY <2>1, <2>3, GotoMoves DEF QuietMove, WentOn
    <2> QED
      BY <2>1, <2>2, <2>3, AnswerMoves DEF Answers
  <1>3. ASSUME NEW r \in Requests, PostRecheck(r) PROVE Goal
    <2>1. BatchAhead(r) /\ req[r].step \notin {"done", "dead"}
      BY <1>3 DEF PostRecheck, At, BatchAhead
    <2>2. CASE req' = [req EXCEPT ![r].step = "post_batch", ![r].now = clock]
      <3>1. req'[r] = [req[r] EXCEPT !.step = "post_batch", !.now = clock] /\ OthersStay(r)
        BY <1>1, <2>2 DEF OthersStay
      <3> QED
        BY <2>1, <3>1 DEF QuietMove, Stamped
    <2>3. CASE Answer(r, "unavailable")
      BY <2>1, <2>3, AnswerMoves DEF Answers
    <2> QED
      BY <1>3, <2>2, <2>3 DEF PostRecheck
  <1>4. ASSUME NEW r \in Requests, PostBatchFails(r) \/ PatchBatchFails(r) PROVE Goal
    <2>1. Answer(r, "write_failed") /\ req[r].step \notin {"done", "dead"}
      BY <1>4 DEF PostBatchFails, PatchBatchFails, At
    <2> QED
      BY <2>1, AnswerMoves DEF Answers
  <1>5. ASSUME NEW r \in Requests, PatchConfirm(r) PROVE Goal
    <2>1. req[r].step = "patch_confirm"
      BY <1>5 DEF PatchConfirm, At
    <2>2. \E n \in {"updated", "write_failed", "read_failed"} : Answer(r, n)
      BY <1>5 DEF PatchConfirm
    <2> QED
      BY <2>1, <2>2, AnswerMoves DEF Answers
  <1>6. ASSUME NEW r \in Requests, NEW a \in Appointments, NEW s \in Statuses,
               NEW c \in Reasons \cup {NoReason}, PatchStart(r, a, s, c)
        PROVE  Goal
    <2>1. BatchAhead(r) /\ req[r].step \notin {"done", "dead"}
      BY <1>6 DEF PatchStart, At, BatchAhead
    <2>2. CASE req' = [req EXCEPT ![r].step = "patch_lookup", ![r].apt = a,
                                  ![r].target = s, ![r].reason = c]
      <3>1. req'[r] = WithInput(req[r], a, s, c) /\ OthersStay(r)
        BY <1>1, <2>2 DEF WithInput, OthersStay
      <3> QED
        BY <2>1, <3>1 DEF QuietMove, GotInput
    <2>3. CASE Answer(r, "bad_request")
      BY <2>1, <2>3, AnswerMoves DEF Answers
    <2> QED
      BY <1>6, <2>2, <2>3 DEF PatchStart
  <1>7. ASSUME NEW r \in Requests, PatchLookup(r) PROVE Goal
    <2> DEFINE e == appointments[req[r].apt]
    <2>1. BatchAhead(r) /\ req[r].step \notin {"done", "dead"}
      BY <1>7 DEF PatchLookup, At, BatchAhead
    <2>2. CASE /\ IsAllowedTransition(e.status, req[r].target)
               /\ req' = [req EXCEPT ![r].step = "patch_reread",
                                     ![r].expectedStatus = e.status,
                                     ![r].looked_up = e.row_version]
      <3>1. req'[r] = WithLookup(req[r], e.status, e.row_version) /\ OthersStay(r)
        BY <1>1, <2>2 DEF WithLookup, OthersStay
      <3>2. Exists(req[r].apt)
        BY <2>2, AllowedTransitionFacts DEF Exists, Absent, Statuses
      <3> QED
        BY <2>1, <3>1, <3>2 DEF QuietMove, LookedUp
    <2>3. CASE \E n \in {"not_found", "bad_request", "read_failed"} : Answer(r, n)
      BY <2>1, <2>3, AnswerMoves DEF Answers
    <2> QED
      BY <1>7, <2>2, <2>3 DEF PatchLookup
  <1>8. ASSUME NEW r \in Requests, PatchReread(r) PROVE Goal
    <2> DEFINE e == appointments[req[r].apt]
    <2>1. req[r].step = "patch_reread" /\ BatchAhead(r)
      BY <1>8 DEF PatchReread, At, BatchAhead
    <2>2. CASE e.status # req[r].expectedStatus /\ Answer(r, "conflict")
      BY <2>1, <2>2, AnswerMoves DEF Answers
    <2>3. CASE Answer(r, "read_failed")
      BY <2>1, <2>3, AnswerMoves DEF Answers
    <2>4. CASE /\ e.status = req[r].expectedStatus
               /\ req' = [req EXCEPT ![r].step = "patch_batch", ![r].now = clock,
                                     ![r].expectedVersion = e.row_version]
      <3>1. req'[r] = WithReread(req[r], clock, e.row_version) /\ OthersStay(r)
        BY <1>1, <2>4 DEF WithReread, OthersStay
      <3> QED
        BY <2>1, <2>4, <3>1 DEF QuietMove, Reread
    <2> QED
      BY <1>8, <2>2, <2>3, <2>4 DEF PatchReread
  <1>9. ASSUME NEW r \in Requests, Terminate(r) PROVE Goal
    BY <1>9, GotoMoves DEF Terminate, QuietMove, Terminated
  <1>10. CASE ResourceChanges \/ Tick
    BY <1>10 DEF ResourceChanges, Tick
  <1> QED
    BY <1>2, <1>3, <1>4, <1>5, <1>6, <1>7, <1>8, <1>9, <1>10 DEF QuietStep

-----------------------------------------------------------------------------
(* The audit rows of a request.                                             *)

\* Place e is one of the audit rows of request q.
IsEntry(q, e) ==
    \E a \in Appointments, i \in Nat :
        i \in DOMAIN audit_logs[a] /\ audit_logs[a][i].id = q /\ e = <<a, i>>

EntriesAreRows == \A q \in Requests : \A e : e \in Entries(q) <=> IsEntry(q, e)

LEMMA EntriesOf == TypeOK => EntriesAreRows
  <1> SUFFICES ASSUME TypeOK, NEW q \in Requests, NEW e
               PROVE  e \in Entries(q) <=> IsEntry(q, e)
    BY DEF EntriesAreRows
  <1> DEFINE Rows(a) == {j \in DOMAIN audit_logs[a] : audit_logs[a][j].id = q}
             Places(a) == {<<a, i>> : i \in Rows(a)}
  <1>1. \A a \in Appointments : DOMAIN audit_logs[a] \subseteq Nat
    BY DEF TypeOK
  <1>2. Entries(q) = UNION {Places(a) : a \in Appointments}
    BY Zenon DEF Entries
  <1>3. e \in Entries(q) <=> \E a \in Appointments : e \in Places(a)
    <2> HIDE DEF Places
    <2> QED
      BY <1>2
  <1>4. ASSUME NEW a \in Appointments
        PROVE  e \in Places(a) <=> \E i \in Rows(a) : e = <<a, i>>
    <2> HIDE DEF Rows
    <2> QED
      OBVIOUS
  <1>5. e \in Entries(q) <=> \E a \in Appointments : \E i \in Rows(a) : e = <<a, i>>
    BY <1>3, <1>4
  <1>6. \A a \in Appointments : \A i :
           i \in Rows(a) <=> /\ i \in Nat /\ i \in DOMAIN audit_logs[a]
                             /\ audit_logs[a][i].id = q
    BY <1>1
  <1> HIDE DEF Rows, Places
  <1> QED
    BY <1>5, <1>6, Zenon DEF IsEntry

\* One audit row more is one entry more of its request and of nobody else.
LEMMA AppendedEntry ==
    ASSUME TypeOK, TypeOK', NEW a \in Appointments, NEW r \in Requests,
           NEW row \in AuditRow, row.id = r,
           audit_logs' = [audit_logs EXCEPT ![a] = Append(@, row)]
    PROVE  /\ \A q \in Requests \ {r} : Entries(q)' = Entries(q)
           /\ Entries(r) = {} => WrittenOnce(r)'
  <1> DEFINE n == Len(audit_logs[a])
             place == <<a, n + 1>>
  <1>1. /\ audit_logs \in [Appointments -> Seq(AuditRow)]
        /\ audit_logs[a] \in Seq(AuditRow) /\ n \in Nat
    BY DEF TypeOK
  <1>2. /\ DOMAIN audit_logs'[a] = 1..(n + 1)
        /\ DOMAIN audit_logs[a] = 1..n
        /\ \A i \in 1..n : audit_logs'[a][i] = audit_logs[a][i]
        /\ audit_logs'[a][n + 1] = row
        /\ \A b \in Appointments \ {a} : audit_logs'[b] = audit_logs[b]
    BY <1>1
  <1>3. ASSUME NEW q \in Requests, NEW e
        PROVE  IsEntry(q, e)' <=> (IsEntry(q, e) \/ (q = r /\ e = place))
    <2>1. ASSUME IsEntry(q, e)' PROVE IsEntry(q, e) \/ (q = r /\ e = place)
      <3> PICK b \in Appointments, i \in Nat :
             i \in DOMAIN audit_logs'[b] /\ audit_logs'[b][i].id = q /\ e = <<b, i>>
        BY <2>1 DEF IsEntry
      <3>1. CASE b = a /\ i = n + 1
        BY <3>1, <1>2
      <3>2. CASE b = a /\ i # n + 1
        <4>1. i \in 1..n
          BY <3>2, <1>1, <1>2
        <4> QED
          BY <3>2, <4>1, <1>2 DEF IsEntry
      <3>3. CASE b # a
        BY <3>3, <1>2 DEF IsEntry
      <3> QED
        BY <3>1, <3>2, <3>3
    <2>2. ASSUME IsEntry(q, e) PROVE IsEntry(q, e)'
      <3> PICK b \in Appointments, i \in Nat :
             i \in DOMAIN audit_logs[b] /\ audit_logs[b][i].id = q /\ e = <<b, i>>
        BY <2>2 DEF IsEntry
      <3>1. i \in DOMAIN audit_logs'[b] /\ audit_logs'[b][i].id = q
        BY <1>1, <1>2
      <3> QED
        BY <3>1 DEF IsEntry
    <2>3. ASSUME q = r, e = place PROVE IsEntry(q, e)'
      <3>1. n + 1 \in Nat /\ n + 1 \in DOMAIN audit_logs'[a] /\ audit_logs'[a][n + 1].id = q
        BY <1>1, <1>2, <2>3
      <3> QED
        BY <2>3, <3>1 DEF IsEntry
    <2> QED
      BY <2>1, <2>2, <2>3
  <1>4. ASSUME NEW q \in Requests, NEW e
        PROVE  /\ e \in Entries(q) <=> IsEntry(q, e)
               /\ e \in Entries(q)' <=> IsEntry(q, e)'
    <2>1. EntriesAreRows /\ EntriesAreRows'
      BY EntriesOf, PTL
    <2> QED
      BY <2>1, Zenon DEF EntriesAreRows
  <1> HIDE DEF place
  <1>5. ASSUME NEW q \in Requests \ {r} PROVE Entries(q)' = Entries(q)
    <2>1. \A e : e \in Entries(q)' <=> e \in Entries(q)
      BY <1>3, <1>4
    <2> QED
      BY <2>1
  <1>6. ASSUME Entries(r) = {} PROVE WrittenOnce(r)'
    <2>1. \A e : e \in Entries(r)' <=> e = place
      BY <1>3, <1>4, <1>6
    <2>2. Entries(r)' = {place} /\ place \in Entries(r)'
      BY <2>1
    <2> QED
      BY <2>2 DEF WrittenOnce
  <1> QED
    BY <1>5, <1>6

\* A request with one entry has exactly one audit row.
LEMMA OnceIsOne ==
    ASSUME NEW r \in Requests, WrittenOnce(r) PROVE Cardinality(Entries(r)) = 1
  BY FS_Singleton DEF WrittenOnce

-----------------------------------------------------------------------------
(* The steps keep RaceInv.                                                  *)

LEMMA InitRace == Init => RaceInv
  <1> SUFFICES ASSUME Init PROVE RaceInv
    OBVIOUS
  <1>1. Inv
    BY InitInv
  <1>2. \A r \in Requests : req[r].step = "idle" /\ req[r].answer = "none" /\ req[r].now = 0
    BY DEF Init, Arrived
  <1>3. \A a \in Appointments :
           /\ appointments[a].status = Absent /\ appointments[a].updated_at = 0
           /\ audit_logs[a] = <<>>
    BY DEF Init, NoRow
  <1>4. ClockAhead
    BY <1>2, <1>3 DEF ClockAhead, Init
  <1>5. AuditTimesAreOrdered
    BY <1>3 DEF AuditTimesAreOrdered, Exists
  <1>6. ASSUME NEW r \in Requests PROVE HeldVersion(r) /\ OnRecord(r)
    <2>1. ~Written(r)
      <3>1. \A e : ~IsEntry(r, e)
        BY <1>3 DEF IsEntry
      <3>2. TypeOK
        BY <1>1 DEF Inv
      <3> QED
        BY <3>1, <3>2, EntriesOf DEF Written, EntriesAreRows
    <2> QED
      BY <1>2, <2>1 DEF HeldVersion, OnRecord
  <1> QED
    BY <1>1, <1>4, <1>5, <1>6 DEF RaceInv

\* The clock never goes back, and a quiet step or a batch leaves it alone or
\* ticks.
LEMMA ClockMovesOn ==
    ASSUME TypeOK, QuietStep
    PROVE  clock \in Nat /\ clock' \in Nat /\ clock <= clock'
  <1>1. clock \in Nat /\ clock' \in Nat
    BY QuietEnvironment, ConstantsAssumption DEF TypeOK
  <1>2. CASE Tick
    BY <1>1, <1>2 DEF Tick
  <1>3. CASE clock' = clock
    BY <1>1, <1>3
  <1>4. ASSUME NEW r \in Requests,
               \/ PostStart(r) \/ PostResource(r) \/ PostRecheck(r)
               \/ PostBatchFails(r) \/ Terminate(r)
        PROVE  clock' = clock
    BY <1>4 DEF PostStart, PostResource, PostRecheck, PostBatchFails, Terminate
  <1>5. ASSUME NEW r \in Requests,
               \/ \E a \in Appointments, s \in Statuses,
                     c \in Reasons \cup {NoReason} : PatchStart(r, a, s, c)
               \/ PatchLookup(r) \/ PatchReread(r) \/ PatchBatchFails(r)
               \/ PatchConfirm(r)
        PROVE  clock' = clock
    BY <1>5 DEF PatchStart, PatchLookup, PatchReread, PatchBatchFails, PatchConfirm
  <1>6. CASE ResourceChanges
    BY <1>3, <1>6 DEF ResourceChanges
  <1> QED
    BY <1>2, <1>3, <1>4, <1>5, <1>6 DEF QuietStep

\* What RaceInv asks of one request.
Fair(r) == HeldVersion(r) /\ OnRecord(r) /\ req[r].now <= clock

\* A request that a step of somebody else leaves alone.
LEMMA StaysFair ==
    ASSUME RaceInv, NEW q \in Requests, req'[q] = req[q], UNCHANGED db,
           clock' \in Nat, clock <= clock'
    PROVE  Fair(q)'
  <1>1. /\ Inv /\ TypeOK /\ HeldVersion(q) /\ OnRecord(q) /\ req[q].now <= clock
        /\ req[q].now \in Nat /\ clock \in Nat
    BY RowFacts DEF RaceInv, Inv, ClockAhead
  <1>2. appointments' = appointments /\ audit_logs' = audit_logs
    BY DEF db
  <1>3. HeldVersion(q)'
    BY <1>1, <1>2 DEF HeldVersion, Exists
  <1>4. Entries(q)' = Entries(q)
    BY <1>2 DEF Entries
  <1>5. OnRecord(q)'
    BY <1>1, <1>4 DEF OnRecord, Written, WrittenOnce, BatchAhead
  <1>6. req'[q].now <= clock'
    BY <1>1
  <1> QED
    BY <1>3, <1>5, <1>6 DEF Fair

\* The request that takes a quiet step.
LEMMA MoverFair ==
    ASSUME RaceInv, NEW r \in Requests, QuietMove(r), UNCHANGED db,
           clock' \in Nat, clock <= clock'
    PROVE  Fair(r)'
  <1> DEFINE row == appointments[req[r].apt]
             i == req[r]
             k == req'[r]
  <1>1. /\ Inv /\ TypeOK /\ HeldVersion(r) /\ OnRecord(r) /\ i.now <= clock
        /\ row \in Row /\ row.row_version \in Nat
        /\ i \in Invocation /\ i.now \in Nat /\ clock \in Nat
        /\ row.updated_at <= clock
    BY RowFacts DEF RaceInv, Inv, ClockAhead
  <1>2. appointments' = appointments /\ audit_logs' = audit_logs
    BY DEF db
  <1>3. /\ Entries(r)' = Entries(r)
        /\ Written(r)' <=> Written(r)
        /\ WrittenOnce(r)' <=> WrittenOnce(r)
    BY <1>2 DEF Entries, Written, WrittenOnce
  <1>4. i.looked_up \in Nat /\ i.answer \in Answers /\ i.apt \in Appointments
    BY <1>1 DEF Invocation
  <1>5. CASE Terminated(r)
    <2>1. /\ k.step = "dead" /\ k.answer = i.answer /\ k.now = i.now
          /\ i.answer = "none"
      BY <1>1, <1>5 DEF Terminated, Invocation, OnRecord
    <2> QED
      BY <1>1, <1>3, <2>1 DEF Fair, HeldVersion, OnRecord, BatchAhead
  <1>6. CASE Answered(r)
    <2>1. PICK n \in Answers \ {"none"} :
             /\ k = [i EXCEPT !.step = "done", !.answer = n]
             /\ n # "created"
             /\ n = "updated" => i.step = "patch_confirm"
             /\ n \in {"bad_request", "not_found", "unavailable", "conflict"} => BatchAhead(r)
             /\ n = "conflict" => i.step = "patch_reread" /\ row.status # i.expectedStatus
      BY <1>6 DEF Answered
    <2>2. /\ k.step = "done" /\ k.answer = n /\ k.now = i.now
          /\ k.apt = i.apt /\ k.looked_up = i.looked_up
      BY <1>1, <2>1 DEF Invocation
    <2>3. n = "conflict" => Exists(i.apt) /\ i.looked_up < row.row_version
      BY <1>1, <1>4, <2>1 DEF HeldVersion
    <2>4. HeldVersion(r)'
      BY <1>2, <2>2, <2>3 DEF HeldVersion, Exists
    <2>5. OnRecord(r)'
      BY <1>1, <1>3, <2>1, <2>2 DEF OnRecord, BatchAhead
    <2> QED
      BY <1>1, <2>2, <2>4, <2>5 DEF Fair
  <1>7. ASSUME BatchAhead(r), BatchAhead(r)', k.answer = i.answer, k.now <= clock',
               HeldVersion(r)'
        PROVE  Fair(r)'
    <2>1. ~Written(r) /\ i.answer = "none"
      BY <1>1, <1>7 DEF OnRecord, BatchAhead
    <2>2. OnRecord(r)'
      BY <1>3, <1>7, <2>1 DEF OnRecord, BatchAhead
    <2> QED
      BY <1>7, <2>2 DEF Fair
  <1>8. BatchAhead(r) => i.answer = "none"
    BY <1>1 DEF OnRecord, BatchAhead
  <1>9. CASE WentOn(r) \/ Stamped(r)
    <2>1. /\ k.step \in {"post_resource", "post_recheck", "post_batch"}
          /\ k.answer = i.answer /\ k.now \in {i.now, clock}
          /\ BatchAhead(r)
      BY <1>1, <1>9 DEF WentOn, Stamped, Invocation
    <2>2. k.now <= clock'
      BY <1>1, <2>1
    <2>3. HeldVersion(r)' /\ BatchAhead(r)'
      BY <1>8, <2>1 DEF HeldVersion, BatchAhead
    <2> QED
      BY <1>7, <2>1, <2>2, <2>3
  <1>10. CASE GotInput(r)
    <2>1. /\ k.step = "patch_lookup" /\ k.answer = i.answer /\ k.now = i.now
          /\ BatchAhead(r)
      BY <1>1, <1>10 DEF GotInput, WithInput, Invocation
    <2>2. HeldVersion(r)' /\ BatchAhead(r)' /\ k.now <= clock'
      BY <1>1, <1>8, <2>1 DEF HeldVersion, BatchAhead
    <2> QED
      BY <1>7, <2>1, <2>2
  <1>11. CASE LookedUp(r)
    <2>1. /\ k.step = "patch_reread" /\ k.answer = i.answer /\ k.now = i.now
          /\ k.apt = i.apt /\ k.expectedStatus = row.status
          /\ k.looked_up = row.row_version
          /\ BatchAhead(r) /\ Exists(i.apt)
      BY <1>1, <1>11 DEF LookedUp, WithLookup, Invocation
    <2>2. HeldVersion(r)'
      BY <1>1, <1>2, <1>8, <2>1 DEF HeldVersion, Exists
    <2>3. BatchAhead(r)' /\ k.now <= clock'
      BY <1>1, <2>1 DEF BatchAhead
    <2> QED
      BY <1>7, <2>1, <2>2, <2>3
  <1>12. CASE Reread(r)
    <2>1. /\ k.step = "patch_batch" /\ k.answer = i.answer /\ k.now = clock
          /\ k.apt = i.apt /\ k.expectedStatus = i.expectedStatus
          /\ k.looked_up = i.looked_up /\ k.expectedVersion = row.row_version
          /\ i.step = "patch_reread" /\ row.status = i.expectedStatus
      BY <1>1, <1>12 DEF Reread, WithReread, Invocation
    <2>2. Exists(i.apt) /\ i.looked_up <= row.row_version /\ BatchAhead(r)
      BY <1>1, <2>1 DEF HeldVersion, BatchAhead
    <2>3. HeldVersion(r)'
      BY <1>1, <1>2, <1>8, <2>1, <2>2 DEF HeldVersion, Exists
    <2>4. BatchAhead(r)' /\ k.now <= clock'
      BY <1>1, <2>1 DEF BatchAhead
    <2> QED
      BY <1>7, <2>1, <2>2, <2>3, <2>4
  <1> QED
    BY <1>5, <1>6, <1>9, <1>10, <1>11, <1>12 DEF QuietMove

LEMMA TimesStay ==
    ASSUME AuditTimesAreOrdered, UNCHANGED db
    PROVE  AuditTimesAreOrdered'
  BY DEF AuditTimesAreOrdered, Exists, db

LEMMA FairMakesRace ==
    ASSUME Inv', AuditTimesAreOrdered', \A r \in Requests : Fair(r)',
           \A a \in Appointments : appointments'[a].updated_at <= clock'
    PROVE  RaceInv'
  <1>1. \A r \in Requests : HeldVersion(r)' /\ OnRecord(r)' /\ req'[r].now <= clock'
    BY DEF Fair
  <1> QED
    BY <1>1 DEF RaceInv, ClockAhead

LEMMA QuietRace ==
    ASSUME RaceInv, QuietStep PROVE RaceInv'
  <1>1. Inv /\ TypeOK /\ UNCHANGED db /\ AuditTimesAreOrdered
    BY QuietLeavesDb DEF RaceInv, Inv
  <1>2. clock \in Nat /\ clock' \in Nat /\ clock <= clock'
    BY <1>1, ClockMovesOn
  <1>3. Inv' /\ AuditTimesAreOrdered'
    BY <1>1, QuietInv, TimesStay
  <1>4. \A r \in Requests : Fair(r)'
    <2>1. CASE UNCHANGED req
      BY <1>1, <1>2, <2>1, StaysFair
    <2>2. ASSUME NEW r \in Requests, QuietMove(r), OthersStay(r)
          PROVE  \A q \in Requests : Fair(q)'
      <3>1. ASSUME NEW q \in Requests \ {r} PROVE Fair(q)'
        BY <1>1, <1>2, <2>2, StaysFair DEF OthersStay
      <3> QED
        BY <1>1, <1>2, <2>2, <3>1, MoverFair
    <2> QED
      BY <1>1, <2>1, <2>2, QuietKinds
  <1>5. ASSUME NEW a \in Appointments PROVE appointments'[a].updated_at <= clock'
    <2>1. appointments[a] \in Row /\ appointments[a].updated_at <= clock
      BY <1>1 DEF RaceInv, ClockAhead, TypeOK
    <2>2. appointments[a].updated_at \in Nat
      BY <2>1 DEF Row
    <2>3. appointments' = appointments
      BY <1>1 DEF db
    <2> QED
      BY <1>2, <2>1, <2>2, <2>3
  <1> QED
    BY <1>3, <1>4, <1>5, FairMakesRace

-----------------------------------------------------------------------------
(* The batches.                                                             *)

\* A committed batch of request r: a new row for appointment a and one audit
\* row, both stamped with the time r holds, which is no earlier than the row's
\* last change.
Commits(r, a, row, entry) ==
    /\ BatchAhead(r) /\ req[r].answer = "none"
    /\ row.status # Absent /\ row.updated_at = req[r].now
    /\ entry.id = r /\ entry.created_at = req[r].now
    /\ Exists(a) => /\ row.row_version = appointments[a].row_version + 1
                    /\ appointments[a].updated_at <= req[r].now
    /\ appointments' = [appointments EXCEPT ![a] = row]
    /\ audit_logs' = [audit_logs EXCEPT ![a] = Append(@, entry)]
    /\ clock' = clock
    /\ OthersStay(r)

\* Whoever holds an older version of the row now holds a version behind it.
LEMMA RivalsFair ==
    ASSUME RaceInv, TypeOK', NEW r \in Requests, NEW a \in Appointments,
           NEW row \in Row, NEW entry \in AuditRow, Commits(r, a, row, entry),
           NEW q \in Requests \ {r}
    PROVE  Fair(q)'
  <1> DEFINE i == req[q]
             old == appointments[i.apt]
             new == appointments'[i.apt]
  <1>1. /\ Inv /\ TypeOK /\ HeldVersion(q) /\ OnRecord(q) /\ i.now <= clock
        /\ i \in Invocation /\ i.apt \in Appointments
        /\ old \in Row /\ old.row_version \in Nat /\ new \in Row
        /\ appointments \in [Appointments -> Row]
    BY RowFacts DEF RaceInv, Inv, ClockAhead, TypeOK
  <1>2. req'[q] = i /\ clock' = clock
    BY DEF Commits, OthersStay
  <1>3. Entries(q)' = Entries(q)
    BY <1>1, AppendedEntry DEF Commits
  <1>4. OnRecord(q)'
    BY <1>1, <1>2, <1>3 DEF OnRecord, BatchAhead, Written, WrittenOnce
  <1>5. i.looked_up \in Nat /\ i.expectedVersion \in Nat
    BY <1>1 DEF Invocation
  <1>6. Exists(i.apt) => \/ new = old
                         \/ /\ new.row_version = old.row_version + 1
                            /\ new.status # Absent
    BY <1>1 DEF Commits
  <1>7. HeldVersion(q)'
    <2>1. CASE Exists(i.apt)
      <3>1. CASE new = old
        BY <1>1, <1>2, <3>1 DEF HeldVersion, Exists
      <3>2. CASE new.row_version = old.row_version + 1 /\ new.status # Absent
        BY <1>1, <1>2, <1>5, <2>1, <3>2 DEF HeldVersion, Exists
      <3> QED
        BY <1>6, <2>1, <3>1, <3>2
    <2>2. CASE ~Exists(i.apt)
      BY <1>1, <1>2, <2>2 DEF HeldVersion
    <2> QED
      BY <2>1, <2>2
  <1> QED
    BY <1>1, <1>2, <1>4, <1>7 DEF Fair

\* The audit row comes last in its log and in time.
LEMMA CommitTimes ==
    ASSUME RaceInv, NEW r \in Requests, NEW a \in Appointments,
           NEW row \in Row, NEW entry \in AuditRow, Commits(r, a, row, entry)
    PROVE  AuditTimesAreOrdered'
  <1> DEFINE log == audit_logs[a]
             n == Len(log)
  <1>1. /\ TypeOK /\ AuditTimesAreOrdered /\ AuditReplaysRow
        /\ appointments \in [Appointments -> Row]
        /\ audit_logs \in [Appointments -> Seq(AuditRow)]
        /\ log \in Seq(AuditRow) /\ n \in Nat /\ req[r].now \in Nat
    BY RowFacts DEF RaceInv, Inv, TypeOK
  <1>2. /\ DOMAIN audit_logs'[a] = 1..(n + 1) /\ DOMAIN log = 1..n
        /\ Len(audit_logs'[a]) = n + 1
        /\ \A i \in 1..n : audit_logs'[a][i] = log[i]
        /\ audit_logs'[a][n + 1] = entry
        /\ appointments'[a] = row
        /\ \A b \in Appointments \ {a} :
              audit_logs'[b] = audit_logs[b] /\ appointments'[b] = appointments[b]
    BY <1>1 DEF Commits
  <1>3. \A i \in 1..n : log[i].created_at \in Nat
    <2> TAKE i \in 1..n
    <2>1. log[i] \in AuditRow
      BY <1>1
    <2> QED
      BY <2>1 DEF AuditRow
  <1>4. \A i, j \in 1..n : i < j => log[i].created_at <= log[j].created_at
    BY <1>1, <1>2 DEF AuditTimesAreOrdered
  <1>5. n > 0 => log[n].created_at <= req[r].now
    <2> HAVE n > 0
    <2>1. Exists(a)
      BY <1>1 DEF AuditReplaysRow
    <2>2. appointments[a].updated_at = log[n].created_at
      BY <1>1, <2>1 DEF AuditTimesAreOrdered
    <2> QED
      BY <2>1, <2>2 DEF Commits
  <1>6. \A i \in 1..n : log[i].created_at <= req[r].now
    <2> TAKE i \in 1..n
    <2>1. n \in 1..n /\ n > 0 /\ (i = n \/ i < n)
      BY <1>1
    <2>2. log[i].created_at <= log[n].created_at
      BY <1>3, <1>4, <2>1
    <2> QED
      BY <1>1, <1>3, <1>5, <2>1, <2>2
  <1>7. ASSUME NEW i \in 1..(n + 1), NEW j \in 1..(n + 1), i < j
        PROVE  audit_logs'[a][i].created_at <= audit_logs'[a][j].created_at
    <2>1. i \in 1..n /\ (j \in 1..n \/ j = n + 1)
      <3>1. n \in Nat
        BY <1>1
      <3> HIDE DEF n
      <3> QED
        BY <3>1, <1>7
    <2> QED
      BY <1>2, <1>4, <1>6, <1>7, <2>1 DEF Commits
  <1>8. appointments'[a].updated_at = audit_logs'[a][n + 1].created_at
    BY <1>2 DEF Commits
  <1> QED
    <2> SUFFICES ASSUME NEW b \in Appointments
          PROVE  /\ \A i, j \in DOMAIN audit_logs'[b] :
                      i < j => audit_logs'[b][i].created_at <= audit_logs'[b][j].created_at
                 /\ appointments'[b].status # Absent =>
                      appointments'[b].updated_at
                        = audit_logs'[b][Len(audit_logs'[b])].created_at
      BY DEF AuditTimesAreOrdered, Exists
    <2>1. CASE b = a
      BY <1>2, <1>7, <1>8, <2>1
    <2>2. CASE b # a
      BY <1>1, <1>2, <2>2 DEF AuditTimesAreOrdered, Exists
    <2> QED
      BY <2>1, <2>2

\* A batch keeps RaceInv if the request that sent it comes out of it with an
\* answer or a next step that knows of the audit row.
LEMMA CommitRace ==
    ASSUME RaceInv, Inv', NEW r \in Requests, NEW a \in Appointments,
           NEW row \in Row, NEW entry \in AuditRow, Commits(r, a, row, entry),
           \/ req'[r] = [req[r] EXCEPT !.step = "patch_confirm"]
           \/ \E n \in {"created", "write_failed"} :
                 req'[r] = [req[r] EXCEPT !.step = "done", !.answer = n]
    PROVE  RaceInv'
  <1>1. /\ Inv /\ TypeOK /\ TypeOK' /\ ClockAhead /\ OnRecord(r)
        /\ req[r] \in Invocation /\ appointments \in [Appointments -> Row]
    BY RowFacts DEF RaceInv, Inv, TypeOK
  <1>2. AuditTimesAreOrdered'
    BY CommitTimes
  <1>3. \A q \in Requests \ {r} : Fair(q)'
    BY <1>1, RivalsFair
  <1>4. WrittenOnce(r)'
    <2>1. Entries(r) = {}
      BY <1>1 DEF OnRecord, Commits, Written
    <2> QED
      BY <1>1, <2>1, AppendedEntry DEF Commits
  <1>5. Fair(r)'
    <2>1. /\ req'[r].now = req[r].now
          /\ \/ req'[r].step = "patch_confirm" /\ req'[r].answer = "none"
             \/ req'[r].step = "done" /\ req'[r].answer \in {"created", "write_failed"}
      BY <1>1 DEF Commits, Invocation
    <2>2. HeldVersion(r)'
      BY <2>1 DEF HeldVersion
    <2>3. OnRecord(r)'
      BY <1>4, <2>1 DEF OnRecord, BatchAhead
    <2>4. req'[r].now <= clock'
      BY <1>1, <2>1 DEF ClockAhead, Commits
    <2> QED
      BY <2>2, <2>3, <2>4 DEF Fair
  <1>6. \A b \in Appointments : appointments'[b].updated_at <= clock'
    BY <1>1 DEF ClockAhead, Commits
  <1> QED
    BY <1>2, <1>3, <1>5, <1>6, FairMakesRace

LEMMA PostBatchRace ==
    ASSUME RaceInv, NEW r \in Requests, NEW a \in Appointments, PostBatch(r, a)
    PROVE  RaceInv'
  <1>1. /\ Inv /\ TypeOK /\ OnRecord(r) /\ req[r].now \in Nat
        /\ req \in [Requests -> Invocation]
    BY RowFacts DEF RaceInv, Inv, TypeOK
  <1>2. /\ BookedRow(r) \in Row /\ BookingEntry(r) \in AuditRow
        /\ BookedRow(r).status # Absent /\ BookedRow(r).updated_at = req[r].now
        /\ BookingEntry(r).id = r /\ BookingEntry(r).created_at = req[r].now
    BY <1>1 DEF BookedRow, BookingEntry, NoRow, Row, AuditRow, Statuses, Absent
  <1>3. \E n \in {"created", "write_failed"} : Answer(r, n)
    BY DEF PostBatch
  <1>4. /\ OthersStay(r)
        /\ \E n \in {"created", "write_failed"} :
              req'[r] = [req[r] EXCEPT !.step = "done", !.answer = n]
    BY <1>1, <1>3 DEF Answer, OthersStay
  <1>5. BatchAhead(r) /\ req[r].answer = "none"
    BY <1>1 DEF PostBatch, At, BatchAhead, OnRecord
  <1>6. Commits(r, a, BookedRow(r), BookingEntry(r))
    BY <1>2, <1>4, <1>5 DEF Commits, PostBatch
  <1>7. Inv'
    BY <1>1, PostBatchInv
  <1> QED
    BY <1>2, <1>4, <1>6, <1>7, CommitRace

\* An update that does not match was overtaken: the row's version is past the
\* one it holds.
LEMMA PatchBatchRace ==
    ASSUME RaceInv, NEW r \in Requests, PatchBatch(r)
    PROVE  RaceInv'
  <1> DEFINE a == req[r].apt
             row == appointments[a]
             i == req[r]
  <1>1. /\ Inv /\ TypeOK /\ OnRecord(r) /\ HeldVersion(r) /\ AuditTimesAreOrdered
        /\ i.now \in Nat /\ i \in Invocation /\ a \in Appointments
        /\ row \in Row /\ row.row_version \in Nat
        /\ i.looked_up \in Nat /\ i.expectedVersion \in Nat
        /\ req \in [Requests -> Invocation]
        /\ i.now <= clock /\ clock \in Nat
    BY RowFacts DEF RaceInv, Inv, TypeOK, ClockAhead, Invocation
  <1>2. /\ i.step = "patch_batch" /\ BatchAhead(r) /\ i.answer = "none"
        /\ Exists(a) /\ i.looked_up <= i.expectedVersion
        /\ i.expectedVersion <= row.row_version
        /\ i.expectedVersion = row.row_version =>
              row.status = i.expectedStatus /\ row.updated_at <= i.now
        /\ clock' = clock
    BY <1>1 DEF PatchBatch, At, BatchAhead, OnRecord, HeldVersion
  <1>3. Inv'
    BY <1>1, PatchBatchInv
  <1>4. OthersStay(r)
    BY <1>1 DEF PatchBatch, Goto, Answer, OthersStay
  <1>5. CASE UpdateMatches(r)
    <2>1. /\ AuditMatches(r)
          /\ IsAllowedTransition(row.status, i.target)
      <3>1. /\ row.last_transition_id # r
            /\ IsAllowedTransition(i.expectedStatus, i.target)
        BY <1>1, <1>2 DEF Inv, NotYetCommitted, HeldTransitionChecked
      <3>2. /\ UpdatedRow(r).last_transition_id = r
            /\ UpdatedRow(r).row_version = row.row_version + 1
            /\ UpdatedRow(r).status = i.target
        BY <1>1, <1>5 DEF UpdatedRow, Row
      <3> QED
        BY <1>5, <3>1, <3>2 DEF AuditMatches, UpdateMatches
    <2>2. /\ UpdatedRow(r) \in Row /\ AuditEntry(r) \in AuditRow
          /\ UpdatedRow(r).status = i.target
          /\ UpdatedRow(r).row_version = row.row_version + 1
      BY <1>1, <1>2, <1>5, <2>1, UpdatedRowFacts
    <2>3. /\ UpdatedRow(r).updated_at = i.now
          /\ AuditEntry(r).id = r /\ AuditEntry(r).created_at = i.now
      BY <1>1, <1>5 DEF UpdatedRow, Row, AuditEntry
    <2>4. UpdatedRow(r).status # Absent
      BY <1>1, <2>2 DEF Invocation, Statuses, Absent
    <2>5. row.updated_at <= i.now
      BY <1>2, <1>5 DEF UpdateMatches
    <2>6. /\ appointments' = [appointments EXCEPT ![a] = UpdatedRow(r)]
          /\ audit_logs' = [audit_logs EXCEPT ![a] = Append(@, AuditEntry(r))]
          /\ Goto(r, "patch_confirm") \/ Answer(r, "write_failed")
      BY <1>5, <2>1 DEF PatchBatch
    <2>7. Commits(r, a, UpdatedRow(r), AuditEntry(r))
      BY <1>2, <1>4, <2>2, <2>3, <2>4, <2>5, <2>6 DEF Commits
    <2>8. \/ req'[r] = [i EXCEPT !.step = "patch_confirm"]
          \/ \E n \in {"created", "write_failed"} :
                req'[r] = [i EXCEPT !.step = "done", !.answer = n]
      BY <1>1, <2>6 DEF Goto, Answer
    <2> QED
      BY <1>1, <1>3, <2>2, <2>7, <2>8, CommitRace
  <1>6. CASE ~UpdateMatches(r)
    <2>1. UNCHANGED db /\ AuditTimesAreOrdered'
      BY <1>1, <1>6, PatchBatchEffect, TimesStay
    <2>2. \A q \in Requests \ {r} : Fair(q)'
      BY <1>1, <1>2, <1>4, <2>1, StaysFair DEF OthersStay
    <2>3. PICK n \in {"conflict", "write_failed"} :
             req'[r] = [i EXCEPT !.step = "done", !.answer = n]
      BY <1>1, <1>6 DEF PatchBatch, Answer
    <2>4. /\ req'[r].step = "done" /\ req'[r].answer = n
          /\ req'[r].apt = a /\ req'[r].looked_up = i.looked_up
          /\ req'[r].now = i.now
      BY <1>1, <2>3 DEF Invocation
    <2>5. i.looked_up < row.row_version
      BY <1>1, <1>2, <1>6 DEF UpdateMatches
    <2>6. HeldVersion(r)'
      BY <1>2, <2>1, <2>4, <2>5 DEF HeldVersion, Exists, db
    <2>7. ~Written(r)'
      BY <1>1, <1>2, <2>1 DEF OnRecord, Written, Entries, db
    <2>8. OnRecord(r)'
      BY <2>4, <2>7 DEF OnRecord, BatchAhead
    <2>9. Fair(r)'
      BY <1>1, <1>2, <2>4, <2>6, <2>8 DEF Fair
    <2>10. \A b \in Appointments : appointments'[b].updated_at <= clock'
      BY <1>2, <2>1 DEF RaceInv, ClockAhead, db
    <2> QED
      BY <1>3, <2>1, <2>2, <2>9, <2>10, FairMakesRace
  <1> QED
    BY <1>5, <1>6

\* What the invocations hold of the row they read is right in every reachable
\* state: an unchanged row version means an unchanged row, and a request has
\* no audit row before its batch and exactly one after a batch it knows of.
THEOREM RaceInvariance == Spec => []RaceInv
  <1>1. RaceInv /\ [Next]_vars => RaceInv'
    <2> SUFFICES ASSUME RaceInv, [Next]_vars PROVE RaceInv'
      OBVIOUS
    <2>1. CASE UNCHANGED vars
      <3>1. Inv'
        BY <2>1 DEF vars, RaceInv, Inv, TypeOK, AuditReplaysRow, Exists, NotYetCommitted,
                    BatchAhead, HeldTransitionChecked, ReasonFitsRow
      <3>2. /\ UNCHANGED db /\ clock' = clock /\ clock \in Nat /\ req' = req
            /\ appointments' = appointments
        BY <2>1, ConstantsAssumption DEF vars, db, RaceInv, Inv, TypeOK
      <3>3. \A r \in Requests : Fair(r)'
        BY <3>2, StaysFair
      <3>4. AuditTimesAreOrdered' /\ \A a \in Appointments : appointments'[a].updated_at <= clock'
        BY <3>2, TimesStay DEF RaceInv, ClockAhead
      <3> QED
        BY <3>1, <3>3, <3>4, FairMakesRace
    <2> QED
      BY <2>1, QuietRace, PostBatchRace, PatchBatchRace, StepKinds
  <1> QED
    BY <1>1, InitRace, PTL DEF Spec

\* Every answer is true of the database: a refused or conflicting request has
\* no audit row, an accepted one exactly one, whatever ran at the same time.
THEOREM AnswersCorrect == Spec => []AnswersAreTrue
  <1>1. RaceInv => AnswersAreTrue
    BY OnceIsOne DEF RaceInv, OnRecord, AnswersAreTrue
  <1> QED
    BY <1>1, RaceInvariance, PTL

\* Whatever a request was told, and however it ended, it wrote at most one
\* audit row and so changed at most one row version: a lost answer, a failed
\* read-back or a terminated invocation is never a second batch.
THEOREM NeverWrittenTwice == Spec => [](\A r \in Requests : Cardinality(Entries(r)) <= 1)
  <1>1. RaceInv => \A r \in Requests : Cardinality(Entries(r)) <= 1
    <2> SUFFICES ASSUME RaceInv, NEW r \in Requests PROVE Cardinality(Entries(r)) <= 1
      OBVIOUS
    <2>1. CASE Entries(r) = {}
      <3>1. Cardinality(Entries(r)) = 0
        BY <2>1, FS_EmptySet
      <3> QED
        BY <3>1
    <2>2. CASE Entries(r) # {}
      <3>1. WrittenOnce(r)
        BY <2>2 DEF RaceInv, OnRecord, Written
      <3>2. Cardinality(Entries(r)) = 1
        BY <3>1, OnceIsOne
      <3> QED
        BY <3>2
    <2> QED
      BY <2>1, <2>2
  <1> QED
    BY <1>1, RaceInvariance, PTL

\* A request that is told of a concurrent modification had a rival: the row
\* version is past the one its router looked up.
THEOREM ConflictCorrect == Spec => []ConflictHasRival
  <1>1. RaceInv => ConflictHasRival
    <2> SUFFICES ASSUME RaceInv, NEW r \in Requests, req[r].answer = "conflict"
                 PROVE  appointments[req[r].apt].row_version > req[r].looked_up
      BY DEF ConflictHasRival
    <2>1. req[r].looked_up < appointments[req[r].apt].row_version
      BY DEF RaceInv, HeldVersion
    <2>2. /\ appointments[req[r].apt].row_version \in Nat
          /\ req[r].looked_up \in Nat
      BY RowFacts DEF RaceInv, Inv, Invocation
    <2> QED
      BY <2>1, <2>2
  <1> QED
    BY <1>1, RaceInvariance, PTL

\* Audit rows sorted by created_at are in the order of the changes, although
\* each invocation reads its clock before its batch.
THEOREM AuditOrdered == Spec => []AuditTimesAreOrdered
  <1>1. RaceInv => AuditTimesAreOrdered
    BY DEF RaceInv
  <1> QED
    BY <1>1, RaceInvariance, PTL

-----------------------------------------------------------------------------
(* One change of an appointment at a time, and no failing call.             *)

\* No two requests are between the second read and the read-back of one
\* appointment at once.
Committing(r) == req[r].step \in {"patch_batch", "patch_confirm"}
OneCommitting ==
    \A q, r \in Requests :
        Committing(q) /\ Committing(r) /\ req[q].apt = req[r].apt => q = r

\* What a request is about to read back is what it wrote, and none was answered
\* APPOINTMENT_WRITE_FAILED.
ReadsOwnWrite ==
    \A r \in Requests :
        /\ req[r].answer # "write_failed"
        /\ req[r].step = "patch_confirm" => appointments[req[r].apt].status = req[r].target

\* Without faults only the read-back answers so, and only after it found another
\* status.
LEMMA QuietAnswers ==
    ASSUME Inv, ~Faults, ReadsOwnWrite, QuietStep
    PROVE  \A q \in Requests : req'[q].answer # "write_failed"
<1> DEFINE Goal == \A q \in Requests : req'[q].answer # "write_failed"
<1>1. req \in [Requests -> Invocation] /\ \A q \in Requests : req[q].answer # "write_failed"
  BY DEF Inv, TypeOK, ReadsOwnWrite
<1>2. ASSUME NEW r \in Requests, NEW n, n # "write_failed", Answer(r, n) PROVE Goal
  BY <1>1, <1>2 DEF Answer, Invocation
<1>3. ASSUME NEW r \in Requests, NEW s, Goto(r, s) PROVE Goal
  BY <1>1, <1>3 DEF Goto, Invocation
<1>4. ASSUME NEW r \in Requests, PostStart(r) \/ PostResource(r) \/ Terminate(r) PROVE Goal
  BY <1>2, <1>3, <1>4 DEF PostStart, PostResource, Terminate
<1>5. ASSUME NEW r \in Requests, PostRecheck(r) PROVE Goal
  <2>1. CASE req' = [req EXCEPT ![r].step = "post_batch", ![r].now = clock]
    BY <1>1, <2>1 DEF Invocation
  <2> QED
    BY <1>2, <1>5, <2>1 DEF PostRecheck
<1>6. ASSUME NEW r \in Requests, PostBatchFails(r) \/ PatchBatchFails(r) PROVE Goal
  BY <1>6 DEF PostBatchFails, PatchBatchFails
<1>7. ASSUME NEW r \in Requests, NEW a \in Appointments, NEW s \in Statuses,
             NEW c \in Reasons \cup {NoReason}, PatchStart(r, a, s, c)
      PROVE  Goal
  <2>1. CASE req' = [req EXCEPT ![r].step = "patch_lookup", ![r].apt = a,
                                ![r].target = s, ![r].reason = c]
    BY <1>1, <2>1 DEF Invocation
  <2> QED
    BY <1>2, <1>7, <2>1 DEF PatchStart
<1>8. ASSUME NEW r \in Requests, PatchLookup(r) PROVE Goal
  <2> DEFINE e == appointments[req[r].apt]
  <2>1. CASE req' = [req EXCEPT ![r].step = "patch_reread", ![r].expectedStatus = e.status,
                                ![r].looked_up = e.row_version]
    BY <1>1, <2>1 DEF Invocation
  <2> QED
    BY <1>2, <1>8, <2>1 DEF PatchLookup
<1>9. ASSUME NEW r \in Requests, PatchReread(r) PROVE Goal
  <2> DEFINE e == appointments[req[r].apt]
  <2>1. CASE req' = [req EXCEPT ![r].step = "patch_batch", ![r].now = clock,
                                ![r].expectedVersion = e.row_version]
    BY <1>1, <2>1 DEF Invocation
  <2> QED
    BY <1>2, <1>9, <2>1 DEF PatchReread
<1>10. ASSUME NEW r \in Requests, PatchConfirm(r) PROVE Goal
  <2>1. appointments[req[r].apt].status = req[r].target
    BY <1>10 DEF PatchConfirm, At, ReadsOwnWrite
  <2> QED
    BY <1>2, <1>10, <2>1 DEF PatchConfirm
<1>11. CASE ResourceChanges \/ Tick
  BY <1>1, <1>11 DEF ResourceChanges, Tick
<1> QED
  BY <1>4, <1>5, <1>6, <1>7, <1>8, <1>9, <1>10, <1>11 DEF QuietStep

\* A quiet step brings nobody to the read-back.
LEMMA QuietConfirms ==
    ASSUME Inv, QuietStep, NEW q \in Requests, req'[q].step = "patch_confirm"
    PROVE  req'[q] = req[q]
<1>1. CASE UNCHANGED req
  BY <1>1
<1>2. ASSUME NEW r \in Requests, QuietMove(r), OthersStay(r) PROVE req'[q] = req[q]
  <2>1. CASE q # r
    BY <1>2, <2>1 DEF OthersStay
  <2>2. req[r] \in Invocation
    BY DEF Inv, TypeOK
  <2>3. req'[r].step # "patch_confirm"
    BY <1>2, <2>2 DEF QuietMove, Terminated, Answered, WentOn, Stamped, GotInput, LookedUp,
       Reread, WithInput, WithLookup, WithReread, Invocation
  <2> QED
    BY <2>1, <2>3
<1> QED
  BY <1>1, <1>2, QuietKinds

LEMMA OwnWriteNext ==
    ASSUME Inv, ~Faults, ReadsOwnWrite, OneCommitting, [Next]_vars
    PROVE  ReadsOwnWrite'
<1>1. /\ TypeOK /\ req \in [Requests -> Invocation]
      /\ appointments \in [Appointments -> Row]
      /\ \A q \in Requests : req[q] \in Invocation /\ req[q].apt \in Appointments
  BY RowFacts DEF Inv, TypeOK
<1>2. CASE UNCHANGED vars
  BY <1>2 DEF vars, ReadsOwnWrite
<1>3. CASE QuietStep
  <2>1. UNCHANGED appointments
    BY <1>3, QuietLeavesDb DEF db
  <2>2. ASSUME NEW q \in Requests, req'[q].step = "patch_confirm"
        PROVE  appointments'[req'[q].apt].status = req'[q].target
    <3>1. req'[q] = req[q]
      BY <1>3, <2>2, QuietConfirms
    <3> QED
      BY <2>1, <2>2, <3>1 DEF ReadsOwnWrite
  <2>3. \A q \in Requests : req'[q].answer # "write_failed"
    BY <1>3, QuietAnswers
  <2> QED
    BY <2>2, <2>3 DEF ReadsOwnWrite
<1>4. ASSUME NEW r \in Requests, NEW a \in Appointments, PostBatch(r, a)
      PROVE  ReadsOwnWrite'
  <2>1. /\ req' = [req EXCEPT ![r].step = "done", ![r].answer = "created"]
        /\ appointments' = [appointments EXCEPT ![a] = BookedRow(r)]
        /\ appointments[a].status = Absent
    BY <1>4 DEF PostBatch, Answer, Exists
  <2>2. req'[r].step = "done" /\ req'[r].answer = "created"
    BY <1>1, <2>1 DEF Invocation
  <2>3. ASSUME NEW q \in Requests \ {r}
        PROVE  /\ req'[q].answer # "write_failed"
               /\ req'[q].step = "patch_confirm" =>
                      appointments'[req'[q].apt].status = req'[q].target
    <3>1. req'[q] = req[q]
      BY <1>1, <2>1
    <3>2. req[q].step = "patch_confirm" => req[q].apt # a
      <4>1. req[q].target # Absent
        BY <1>1 DEF Invocation, Statuses, Absent
      <4> QED
        BY <2>1, <4>1 DEF ReadsOwnWrite
    <3> QED
      BY <1>1, <2>1, <3>1, <3>2 DEF ReadsOwnWrite
  <2> QED
    BY <2>2, <2>3 DEF ReadsOwnWrite
<1>5. ASSUME NEW r \in Requests, PatchBatch(r) PROVE ReadsOwnWrite'
  <2> DEFINE a == req[r].apt
  <2>1. req[r].step = "patch_batch"
    BY <1>5 DEF PatchBatch, At
  <2>2. ASSUME NEW q \in Requests \ {r}
        PROVE  /\ req'[q].answer # "write_failed"
               /\ req'[q].step = "patch_confirm" =>
                      appointments'[req'[q].apt].status = req'[q].target
    <3>1. req'[q] = req[q]
      BY <1>1, <1>5 DEF PatchBatch, Goto, Answer
    <3>2. req[q].step = "patch_confirm" => req[q].apt # a
      BY <2>1 DEF OneCommitting, Committing
    <3>3. appointments' = [appointments EXCEPT ![a] = UpdatedRow(r)]
      BY <1>5 DEF PatchBatch
    <3> QED
      BY <1>1, <3>1, <3>2, <3>3 DEF ReadsOwnWrite
  <2>3. CASE UpdateMatches(r) /\ Goto(r, "patch_confirm")
    <3>1. /\ req'[r].step = "patch_confirm" /\ req'[r].answer = req[r].answer
          /\ req'[r].apt = a /\ req'[r].target = req[r].target
      BY <1>1, <2>3 DEF Goto, Invocation
    <3>2. UpdatedRow(r).status = req[r].target
      BY <1>1, <2>3 DEF UpdatedRow, Row
    <3>3. appointments'[a].status = req[r].target
      BY <1>1, <1>5, <3>2 DEF PatchBatch
    <3> QED
      BY <2>2, <3>1, <3>3 DEF ReadsOwnWrite
  <2>4. CASE Answer(r, "conflict")
    <3>1. req'[r].step = "done" /\ req'[r].answer = "conflict"
      BY <1>1, <2>4 DEF Answer, Invocation
    <3> QED
      BY <2>2, <3>1 DEF ReadsOwnWrite
  <2> QED
    BY <1>5, <2>3, <2>4 DEF PatchBatch
<1> QED
  BY <1>2, <1>3, <1>4, <1>5, StepKinds

LEMMA OwnWriteInit == Init => ReadsOwnWrite
BY DEF Init, Arrived, ReadsOwnWrite

\* When no D1 call fails and no two changes of an appointment are between read
\* and read-back at once, nobody is answered APPOINTMENT_WRITE_FAILED: what the
\* run AppointmentWriteFailed finds is the read-back of another request's later
\* change and nothing else.
THEOREM WriteFailedWhenAlone ==
    ASSUME ~Faults
    PROVE  Spec /\ []OneCommitting => [](\A r \in Requests : req[r].answer # "write_failed")
  <1>1. Inv /\ ReadsOwnWrite /\ OneCommitting /\ [Next]_vars => ReadsOwnWrite'
    BY OwnWriteNext
  <1>2. ReadsOwnWrite => \A r \in Requests : req[r].answer # "write_failed"
    BY DEF ReadsOwnWrite
  <1> QED
    BY <1>1, <1>2, OwnWriteInit, Invariance, PTL DEF Spec
=============================================================================
