------------------------ MODULE AutomationState_proofs ------------------------
(***************************************************************************)
(* Proofs about AutomationState, for any set of jobs, any queue depth and   *)
(* any number of faults, on a platform whose first rename answers EPERM     *)
(* only for a destination that exists.                                      *)
(***************************************************************************)
EXTENDS AutomationState, FiniteSetTheorems, TLAPS

-----------------------------------------------------------------------------
(* Data.                                                                    *)

LEMMA ReadableType == TypeOK => Readable \in File
<1>1. Empty \in File
  BY DEF Empty, File, JobMap
<1> QED
  BY <1>1 DEF TypeOK, Readable

LEMMA SetValue ==
  ASSUME TypeOK, NEW j \in Jobs, NEW s \in Statuses \cup {"absent"}
  PROVE  /\ Set(j, s) \in JobMap
         /\ Set(j, s)[j] = s
         /\ \A k \in Jobs \ {j} : Set(j, s)[k] = Readable.jobs[k]
BY ReadableType DEF Set, File, JobMap

LEMMA ReviewedType ==
  ASSUME TypeOK
  PROVE  [j \in Jobs |-> IF j \in Running(Readable) THEN "NEEDS_REVIEW"
                                                    ELSE Readable.jobs[j]] \in JobMap
BY ReadableType DEF File, JobMap, Statuses, Terminal

\* Marking the one RUNNING job for review is one ledger step.
LEMMA ReviewedIsSet ==
  ASSUME TypeOK, NEW j \in Jobs, Running(Readable) = {j}
  PROVE  [k \in Jobs |-> IF k \in Running(Readable) THEN "NEEDS_REVIEW"
                                                    ELSE Readable.jobs[k]]
           = Set(j, "NEEDS_REVIEW")
BY ReadableType DEF Set, File, JobMap

LEMMA NextType ==
  ASSUME TypeOK, NEW m \in JobMap
  PROVE  [revision |-> Readable.revision + 1, jobs |-> m] \in File
BY ReadableType DEF File

LEMMA SameFiles ==
  ASSUME UNCHANGED files
  PROVE  /\ Readable' = Readable
         /\ Running(Readable)' = Running(Readable)
         /\ Active(Readable)' = Active(Readable)
         /\ \A j, s : Set(j, s)' = Set(j, s)
BY DEF files, Readable, Running, Active, Set

\* What the readable queue becomes when a planned state is installed.
LEMMA Installed ==
  ASSUME Inv, state' = next, next' = next, UNCHANGED bak,
         step \in {"rename", "install"}
  PROVE  /\ Readable' = next
         /\ next \in File
         /\ \E j \in Jobs, s \in Statuses :
              /\ next.jobs = Set(j, s)
              /\ next.jobs[j] = s
              /\ \A k \in Jobs \ {j} : next.jobs[k] = Readable.jobs[k]
              /\ \/ op = "feed" /\ Readable.jobs[j] = "absent" /\ s = "PENDING"
                                /\ Cardinality(Active(Readable)) < MaxDepth
                 \/ op = "recover" /\ Running(Readable) = {j} /\ s = "NEEDS_REVIEW"
                 \/ op = "claim" /\ job = j /\ Readable.jobs[j] = "PENDING" /\ s = "RUNNING"
                 \/ op = "complete" /\ job = j /\ Readable.jobs[j] = "RUNNING" /\ s = "COMPLETED"
                 \/ op = "review" /\ job = j /\ Readable.jobs[j] = "RUNNING" /\ s = "NEEDS_REVIEW"
<1>1. Readable' = next /\ next \in File
  BY AutomationAssumption DEF Inv, TypeOK, Readable
<1>2. TypeOK /\ Planned
  BY DEF Inv
<1>3. {"PENDING", "RUNNING", "COMPLETED", "NEEDS_REVIEW"} \subseteq Statuses
  BY DEF Statuses, Terminal
<1>4. CASE op = "feed"
  <2>1. PICK j \in Jobs : /\ Cardinality(Active(Readable)) < MaxDepth
                          /\ Readable.jobs[j] = "absent" /\ next.jobs = Set(j, "PENDING")
    BY <1>2, <1>4 DEF Planned
  <2> QED
    BY <1>1, <1>2, <1>3, <1>4, <2>1, SetValue
<1>5. CASE op = "recover"
  <2>1. PICK j \in Jobs : Running(Readable) = {j} /\ next.jobs = Set(j, "NEEDS_REVIEW")
    BY <1>2, <1>5 DEF Planned
  <2> QED
    BY <1>1, <1>2, <1>3, <1>5, <2>1, SetValue
<1>6. CASE op = "claim"
  <2>1. job \in Jobs /\ Readable.jobs[job] = "PENDING" /\ next.jobs = Set(job, "RUNNING")
    BY <1>2, <1>6 DEF Planned
  <2> QED
    BY <1>1, <1>2, <1>3, <1>6, <2>1, SetValue
<1>7. CASE op = "complete"
  <2>1. job \in Jobs /\ Readable.jobs[job] = "RUNNING" /\ next.jobs = Set(job, "COMPLETED")
    BY <1>2, <1>7 DEF Planned, TypeOK
  <2> QED
    BY <1>1, <1>2, <1>3, <1>7, <2>1, SetValue
<1>8. CASE op = "review"
  <2>1. job \in Jobs /\ Readable.jobs[job] = "RUNNING" /\ next.jobs = Set(job, "NEEDS_REVIEW")
    BY <1>2, <1>8 DEF Planned, TypeOK
  <2> QED
    BY <1>1, <1>2, <1>3, <1>8, <2>1, SetValue
<1> QED
  BY <1>2, <1>4, <1>5, <1>6, <1>7, <1>8 DEF Planned

-----------------------------------------------------------------------------
(* Steps that leave the files alone.                                        *)

USE AutomationAssumption

LEMMA InitInv == Init => Inv
<1> SUFFICES ASSUME Init PROVE Inv
  OBVIOUS
<1>1. Readable = Empty /\ Empty \in File /\ \A j \in Jobs : Empty.jobs[j] = "absent"
  BY DEF Init, Readable, Empty, File, JobMap
<1> QED
  BY <1>1 DEF Init, Inv, TypeOK, Ops, FilesOK, Planned, RunningOK, OnceOK, EvidenceOK,
     VerifiedAtMostOnce, CompletedHasEvidence, At, Running

\* A step that changes no file and starts no write keeps what is said of them.
LEMMA QuietStep ==
  ASSUME Inv, UNCHANGED files, step' = "begin", TypeOK',
         verified' = verified, evidence \subseteq evidence',
         op' = "claim" => Running(Readable) = {},
         op' = "verify" => Running(Readable) = {job'} /\ verified[job'] = 0,
         op' \in {"hook", "complete", "review"} => Running(Readable) \subseteq {job'},
         op' = "complete" => job' \in evidence'
  PROVE  Inv'
<1>1. /\ Readable' = Readable
      /\ Running(Readable)' = Running(Readable)
  BY SameFiles
<1>2. FilesOK' /\ Planned'
  BY DEF FilesOK, Planned
<1>3. RunningOK'
  BY <1>1 DEF Inv, RunningOK, At
<1>4. OnceOK' /\ EvidenceOK'
  BY <1>1 DEF Inv, OnceOK, EvidenceOK, VerifiedAtMostOnce, CompletedHasEvidence, At, TypeOK
<1> QED
  BY <1>2, <1>3, <1>4 DEF Inv

\* An operation that throws leads where a refusal or a restart is safe.
LEMMA ThrowStep ==
  ASSUME Inv, Throw, UNCHANGED <<files, world>>, TypeOK',
         op \in {"feed", "recover", "claim", "complete", "review"},
         op = "complete" => job' = job
  PROVE  Inv'
<1>1. step' = "begin" /\ (op' \in {"feed", "recover", "down"} \/ (op = "complete" /\ op' = "review"))
  BY DEF Throw, AfterThrow, Goto
<1>2. op = "complete" => Running(Readable) \subseteq {job}
  BY DEF Inv, RunningOK
<1>3. verified' = verified /\ evidence' = evidence /\ UNCHANGED files
  BY DEF world
<1> QED
  BY <1>1, <1>2, <1>3, QuietStep

\* An operation that starts writing what it planned.
LEMMA WriteStep ==
  ASSUME Inv, NEW m \in JobMap, Write(m), UNCHANGED <<files, world>>,
         step = "begin", op \in Writes, job' \in Jobs \cup {NoJob},
         op # "claim" => job' = job,
         \/ /\ op = "feed"
            /\ Cardinality(Active(Readable)) < MaxDepth
            /\ \E j \in Jobs : Readable.jobs[j] = "absent" /\ m = Set(j, "PENDING")
         \/ /\ op = "recover"
            /\ \E j \in Jobs : Running(Readable) = {j} /\ m = Set(j, "NEEDS_REVIEW")
         \/ /\ op = "claim"
            /\ job' \in Jobs
            /\ Readable.jobs[job'] = "PENDING" /\ m = Set(job', "RUNNING")
         \/ /\ op = "complete"
            /\ Readable.jobs[job] = "RUNNING" /\ m = Set(job, "COMPLETED")
         \/ /\ op = "review"
            /\ Readable.jobs[job] = "RUNNING" /\ m = Set(job, "NEEDS_REVIEW")
  PROVE  Inv'
<1>1. CASE /\ next' = [revision |-> Readable.revision + 1, jobs |-> m]
           /\ step' = "rename" /\ UNCHANGED <<op, faults>>
  <2>1. next' \in File /\ next'.jobs = m
    BY <1>1, NextType DEF Inv
  <2>2. TypeOK'
    BY <1>1, <2>1 DEF Inv, TypeOK, FileCalls, files, world
  <2>3. FilesOK'
    BY <1>1 DEF FilesOK, Writes
  <2>4. /\ Readable' = Readable /\ Running(Readable)' = Running(Readable)
        /\ Active(Readable)' = Active(Readable)
        /\ \A j, s : Set(j, s)' = Set(j, s)
    BY SameFiles
  <2>5. Planned'
    <3>1. CASE op = "feed"
      BY <1>1, <2>1, <2>4, <3>1 DEF Planned
    <3>2. CASE op = "recover"
      BY <1>1, <2>1, <2>4, <3>2 DEF Planned
    <3>3. CASE op \in {"claim", "complete", "review"}
      BY <1>1, <2>1, <2>4, <3>3 DEF Planned
    <3> QED
      BY <3>1, <3>2, <3>3 DEF Writes
  <2>6. RunningOK'
    BY <1>1, <2>4 DEF Inv, RunningOK, At
  <2>7. OnceOK' /\ EvidenceOK'
    BY <1>1, <2>4 DEF Inv, OnceOK, EvidenceOK, VerifiedAtMostOnce, CompletedHasEvidence, At,
       world
  <2> QED
    BY <2>2, <2>3, <2>5, <2>6, <2>7 DEF Inv
<1>2. CASE Throw /\ Fault /\ UNCHANGED next
  <2>1. TypeOK'
    BY <1>2 DEF Inv, TypeOK, Throw, AfterThrow, Goto, Ops, Fault, files, world
  <2> QED
    BY <1>2, <2>1, ThrowStep DEF Writes
<1> QED
  BY <1>1, <1>2 DEF Write


-----------------------------------------------------------------------------
(* Steps on the files.                                                      *)

\* The planned state is installed: either the operation returns, or the backup
\* is still to be removed.
LEMMA InstallStep ==
  ASSUME Inv, state' = next, UNCHANGED <<bak, next, job, world, faults>>,
         step \in {"rename", "install"},
         Return \/ (step' = "cleanup" /\ op' = op)
  PROVE  Inv'
<1>1. PICK j \in Jobs, s \in Statuses :
        /\ Readable' = next /\ next \in File
        /\ next.jobs = Set(j, s)
        /\ next.jobs[j] = s
        /\ \A k \in Jobs \ {j} : next.jobs[k] = Readable.jobs[k]
        /\ \/ op = "feed" /\ Readable.jobs[j] = "absent" /\ s = "PENDING"
           \/ op = "recover" /\ Running(Readable) = {j} /\ s = "NEEDS_REVIEW"
           \/ op = "claim" /\ job = j /\ Readable.jobs[j] = "PENDING" /\ s = "RUNNING"
           \/ op = "complete" /\ job = j /\ Readable.jobs[j] = "RUNNING" /\ s = "COMPLETED"
           \/ op = "review" /\ job = j /\ Readable.jobs[j] = "RUNNING" /\ s = "NEEDS_REVIEW"
  BY Installed
<1>2. op \in Writes /\ step # "begin"
  BY DEF Inv, FilesOK
<1>3. \/ step' = "cleanup" /\ op' = op
      \/ step' = "begin" /\ After(op, op')
  BY DEF Return, Goto
<1>4. Running(Readable)' = IF s = "RUNNING" THEN Running(Readable) \cup {j}
                                           ELSE Running(Readable) \ {j}
  BY <1>1 DEF Running
<1>5. TypeOK'
  BY <1>1, <1>2, <1>3 DEF Inv, TypeOK, After, Ops, FileCalls, world, Writes
<1>6. FilesOK' /\ Planned'
  BY <1>2, <1>3 DEF FilesOK, Planned
<1>7. RunningOK'
  BY <1>1, <1>2, <1>3, <1>4 DEF Inv, RunningOK, After, Writes, At
<1>8. OnceOK'
  <2>1. \A k \in Jobs : Readable'.jobs[k] \in {"absent", "PENDING"}
                          => Readable.jobs[k] \in {"absent", "PENDING"}
    BY <1>1
  <2> QED
    BY <1>1, <1>2, <1>3, <2>1 DEF Inv, OnceOK, VerifiedAtMostOnce, After, Writes, At, world
<1>9. EvidenceOK'
  BY <1>1, <1>2, <1>3 DEF Inv, EvidenceOK, CompletedHasEvidence, After, Writes, world
<1> QED
  BY <1>5, <1>6, <1>7, <1>8, <1>9 DEF Inv

\* A step on the files that leaves the readable queue as it is.
LEMMA FallbackStep ==
  ASSUME Inv, Readable' = Readable, TypeOK', FilesOK',
         UNCHANGED <<op, next, job, world>>,
         step \in {"rename", "rm_backup", "backup"},
         step' \in {"rm_backup", "backup", "install"}
  PROVE  Inv'
<1>1. /\ Running(Readable)' = Running(Readable)
      /\ Active(Readable)' = Active(Readable)
      /\ \A j, s : Set(j, s)' = Set(j, s)
  BY DEF Running, Active, Set
<1>2. Planned'
  BY <1>1 DEF Inv, Planned
<1>3. RunningOK'
  BY <1>1 DEF Inv, RunningOK, At
<1>4. OnceOK' /\ EvidenceOK'
  BY <1>1 DEF Inv, OnceOK, EvidenceOK, VerifiedAtMostOnce, CompletedHasEvidence, At, world
<1> QED
  BY <1>2, <1>3, <1>4 DEF Inv

LEMMA CallFailsStep ==
  ASSUME Inv, CallFails, UNCHANGED <<next, job, world>>, step \in FileCalls
  PROVE  Inv'
<1>1. op \in Writes
  BY DEF Inv, FilesOK, FileCalls
<1>2. TypeOK'
  BY <1>1 DEF Inv, TypeOK, CallFails, Throw, AfterThrow, Goto, Ops, Fault, files, world
<1> QED
  BY <1>1, <1>2, ThrowStep DEF CallFails, Writes

LEMMA FileStep ==
  ASSUME Inv, ~TransientEperm,
         Rename \/ RemoveBackup \/ Backup \/ Install \/ Cleanup
  PROVE  Inv'
<1>1. CASE Rename
  <2>1. CASE state' = next /\ Return /\ UNCHANGED <<bak, faults>>
    BY <1>1, <2>1, InstallStep DEF Rename, world
  <2>2. CASE state # Missing /\ Fault /\ step' = "rm_backup" /\ UNCHANGED <<files, op>>
    <3>1. Readable' = Readable
      BY <2>2, SameFiles
    <3>2. TypeOK' /\ FilesOK'
      BY <1>1, <2>2 DEF Rename, Inv, TypeOK, FilesOK, FileCalls, Fault, files, world
    <3> QED
      BY <1>1, <2>2, <3>1, <3>2, FallbackStep DEF Rename
  <2>3. CASE CallFails
    BY <1>1, <2>3, CallFailsStep DEF Rename, FileCalls
  <2> QED
    BY <1>1, <2>1, <2>2, <2>3 DEF Rename
<1>2. CASE RemoveBackup
  <2>1. CASE bak' = Missing /\ step' = "backup" /\ UNCHANGED <<state, op, faults>>
    <3>1. state # Missing
      BY <1>2 DEF RemoveBackup, Inv, FilesOK
    <3>2. Readable' = Readable
      BY <2>1, <3>1 DEF Readable
    <3>3. TypeOK' /\ FilesOK'
      BY <1>2, <2>1, <3>1 DEF RemoveBackup, Inv, TypeOK, FilesOK, FileCalls, world
    <3> QED
      BY <1>2, <2>1, <3>2, <3>3, FallbackStep DEF RemoveBackup
  <2>2. CASE CallFails
    BY <1>2, <2>2, CallFailsStep DEF RemoveBackup, FileCalls
  <2> QED
    BY <1>2, <2>1, <2>2 DEF RemoveBackup
<1>3. CASE Backup
  <2>1. state # Missing
    BY <1>3 DEF Backup, Inv, FilesOK
  <2>2. CASE state' = Missing /\ bak' = state /\ step' = "install" /\ UNCHANGED <<op, faults>>
    <3>1. Readable' = Readable
      BY <2>1, <2>2 DEF Readable
    <3>2. TypeOK' /\ FilesOK'
      BY <1>3, <2>1, <2>2 DEF Backup, Inv, TypeOK, FilesOK, FileCalls, world
    <3> QED
      BY <1>3, <2>2, <3>1, <3>2, FallbackStep DEF Backup
  <2>3. CASE CallFails
    BY <1>3, <2>3, CallFailsStep DEF Backup, FileCalls
  <2> QED
    BY <1>3, <2>1, <2>2, <2>3 DEF Backup
<1>4. CASE Install
  <2>1. CASE state' = next /\ step' = "cleanup" /\ UNCHANGED <<bak, op, faults>>
    BY <1>4, <2>1, InstallStep DEF Install
  <2>2. CASE CallFails
    BY <1>4, <2>2, CallFailsStep DEF Install, FileCalls
  <2> QED
    BY <1>4, <2>1, <2>2 DEF Install
<1>5. CASE Cleanup
  <2>1. CASE bak' = Missing /\ Return /\ UNCHANGED <<state, faults>>
    <3>1. state = next /\ next \in File /\ op \in Writes /\ step = "cleanup"
      BY <1>5 DEF Cleanup, Inv, FilesOK, TypeOK
    <3>2. Readable' = Readable
      BY <2>1, <3>1 DEF Readable
    <3>3. step' = "begin" /\ After(op, op')
      BY <2>1 DEF Return, Goto
    <3>4. TypeOK'
      BY <1>5, <2>1, <3>1, <3>3 DEF Cleanup, Inv, TypeOK, OnceOK, At, After, Ops, world, Writes
    <3>5. FilesOK' /\ Planned'
      BY <3>3 DEF FilesOK, Planned
    <3>6. Running(Readable)' = Running(Readable)
      BY <3>2 DEF Running
    <3>7. RunningOK'
      BY <1>5, <3>1, <3>2, <3>3, <3>6 DEF Cleanup, Inv, RunningOK, After, At, Writes
    <3>8. OnceOK' /\ EvidenceOK'
      BY <1>5, <3>1, <3>2, <3>3 DEF Cleanup, Inv, OnceOK, EvidenceOK, VerifiedAtMostOnce,
         CompletedHasEvidence, After, At, Writes, world
    <3> QED
      BY <3>4, <3>5, <3>7, <3>8 DEF Inv
  <2>2. CASE CallFails
    BY <1>5, <2>2, CallFailsStep DEF Cleanup, FileCalls
  <2> QED
    BY <1>5, <2>1, <2>2 DEF Cleanup
<1> QED
  BY <1>1, <1>2, <1>3, <1>4, <1>5


-----------------------------------------------------------------------------
(* The controller's other steps, and the invariant.                         *)

LEMMA SettleStep ==
  ASSUME Inv, step = "begin", NEW status \in Terminal, Settle(status),
         \/ op = "complete" /\ status = "COMPLETED"
         \/ op = "review" /\ status = "NEEDS_REVIEW"
  PROVE  Inv'
<1>1. job \in Jobs /\ status \in Statuses
  BY DEF Inv, TypeOK, Statuses
<1>2. CASE Readable.jobs[job] = "RUNNING" /\ Write(Set(job, status))
  <2>1. Set(job, status) \in JobMap
    BY <1>1, SetValue DEF Inv
  <2> QED
    BY <1>1, <1>2, <2>1, WriteStep DEF Settle, Writes
<1>3. CASE Throw /\ UNCHANGED <<next, faults>>
  <2>1. TypeOK'
    BY <1>1, <1>3 DEF Inv, TypeOK, Settle, Throw, AfterThrow, Goto, Ops, files, world
  <2> QED
    BY <1>3, <2>1, ThrowStep DEF Settle
<1> QED
  BY <1>2, <1>3 DEF Settle

LEMMA NextInv == Inv /\ ~TransientEperm /\ [Next]_vars => Inv'
<1> SUFFICES ASSUME Inv, ~TransientEperm, [Next]_vars PROVE Inv'
  OBVIOUS
<1>0. TypeOK /\ {"PENDING", "RUNNING", "COMPLETED", "NEEDS_REVIEW"} \subseteq Statuses
  BY DEF Inv, Statuses, Terminal
<1>1. CASE Feed
  <2>1. CASE Goto("recover") /\ UNCHANGED <<next, faults>>
    <3>1. TypeOK'
      BY <1>0, <1>1, <2>1 DEF Feed, TypeOK, Goto, Ops, files, world
    <3> QED
      BY <1>1, <2>1, <3>1, QuietStep DEF Feed, Goto, world
  <2>2. ASSUME NEW j \in Jobs, Readable.jobs[j] = "absent",
               Cardinality(Active(Readable)) >= MaxDepth, Throw, UNCHANGED <<next, faults>>
        PROVE  Inv'
    <3>1. TypeOK'
      BY <1>0, <1>1, <2>2 DEF Feed, At, TypeOK, Throw, AfterThrow, Goto, Ops, files, world
    <3> QED
      BY <1>1, <2>2, <3>1, ThrowStep DEF Feed, At
  <2>3. ASSUME NEW j \in Jobs, Readable.jobs[j] = "absent",
               ~(Cardinality(Active(Readable)) >= MaxDepth), Write(Set(j, "PENDING"))
        PROVE  Inv'
    <3>1. Set(j, "PENDING") \in JobMap
      BY <1>0, SetValue
    <3>2. Cardinality(Active(Readable)) \in Nat
      <4>1. Active(Readable) \subseteq Jobs
        BY DEF Active
      <4> QED
        BY <4>1, FS_Subset, FS_CardinalityType
    <3>3. Cardinality(Active(Readable)) < MaxDepth
      BY <2>3, <3>2
    <3> QED
      BY <1>0, <1>1, <2>3, <3>1, <3>3, WriteStep DEF Feed, At, Writes, TypeOK
  <2> QED
    BY <1>1, <2>1, <2>2, <2>3 DEF Feed
<1>2. CASE RecoverInterrupted
  <2>1. CASE Running(Readable) = {} /\ Return /\ UNCHANGED <<next, faults>>
    <3>1. step' = "begin" /\ op' = "claim"
      BY <1>2, <2>1 DEF RecoverInterrupted, At, Return, After, Goto
    <3>2. TypeOK'
      BY <1>0, <1>2, <2>1, <3>1 DEF RecoverInterrupted, TypeOK, Ops, files, world
    <3> QED
      BY <1>2, <2>1, <3>1, <3>2, QuietStep DEF RecoverInterrupted, world
  <2>2. CASE /\ Running(Readable) # {}
             /\ Write([j \in Jobs |-> IF j \in Running(Readable) THEN "NEEDS_REVIEW"
                                                                ELSE Readable.jobs[j]])
    <3>1. PICK j \in Jobs : Running(Readable) = {j}
      BY <2>2 DEF Inv, RunningOK, Running
    <3>2. Write(Set(j, "NEEDS_REVIEW"))
      BY <1>0, <2>2, <3>1, ReviewedIsSet
    <3>3. Set(j, "NEEDS_REVIEW") \in JobMap
      BY <1>0, SetValue
    <3> QED
      BY <1>0, <1>2, <3>1, <3>2, <3>3, WriteStep DEF RecoverInterrupted, At, Writes, TypeOK
  <2> QED
    BY <1>2, <2>1, <2>2 DEF RecoverInterrupted
<1>3. CASE ClaimNext
  <2>1. CASE Goto("feed") /\ UNCHANGED <<next, job, faults>>
    <3>1. TypeOK'
      BY <1>0, <1>3, <2>1 DEF ClaimNext, TypeOK, Goto, Ops, files, world
    <3> QED
      BY <1>3, <2>1, <3>1, QuietStep DEF ClaimNext, Goto, world
  <2>2. ASSUME NEW j \in Jobs, Readable.jobs[j] = "PENDING", job' = j,
               Write(Set(j, "RUNNING"))
        PROVE  Inv'
    <3>1. Set(j, "RUNNING") \in JobMap
      BY <1>0, SetValue
    <3> QED
      BY <1>3, <2>2, <3>1, WriteStep DEF ClaimNext, At, Writes
  <2> QED
    BY <1>3, <2>1, <2>2 DEF ClaimNext
<1>4. CASE Verify
  <2>1. op = "verify" /\ step' = "begin" /\ op' = "hook" /\ job' = job /\ job \in Jobs
    BY <1>0, <1>4 DEF Verify, At, Goto, TypeOK
  <2>2. Running(Readable) = {job} /\ verified[job] = 0
    BY <2>1 DEF Inv, RunningOK, OnceOK
  <2>3. TypeOK' /\ FilesOK' /\ Planned'
    BY <1>0, <1>4, <2>1 DEF Verify, TypeOK, Ops, FilesOK, Planned, files
  <2>4. Readable' = Readable /\ Running(Readable)' = Running(Readable)
    BY <1>4, SameFiles DEF Verify
  <2>5. RunningOK' /\ EvidenceOK'
    BY <1>4, <2>1, <2>2, <2>4 DEF Verify, Inv, RunningOK, EvidenceOK, CompletedHasEvidence, At
  <2>6. \A j \in Jobs : /\ verified'[j] = verified[j] \/ (j = job /\ verified'[j] = 1)
                        /\ verified[j] <= 1
    BY <1>0, <1>4, <2>2 DEF Verify, TypeOK, Inv, OnceOK, VerifiedAtMostOnce
  <2>7. Readable.jobs[job] = "RUNNING"
    BY <2>2 DEF Running
  <2>8. OnceOK'
    BY <2>1, <2>4, <2>6, <2>7 DEF Inv, OnceOK, VerifiedAtMostOnce, At
  <2> QED
    BY <2>3, <2>5, <2>8 DEF Inv
<1>5. CASE Hook
  <2>1. op = "hook" /\ job' = job /\ verified' = verified /\ UNCHANGED files /\ job \in Jobs
    BY <1>0, <1>5 DEF Hook, At, TypeOK
  <2>2. /\ step' = "begin" /\ evidence \subseteq evidence'
        /\ \/ op' = "complete" /\ job \in evidence'
           \/ op' = "review"
    BY <1>5, <2>1 DEF Hook, Goto, Throw, AfterThrow
  <2>3. TypeOK'
    BY <1>0, <1>5, <2>1, <2>2 DEF Hook, TypeOK, Fault, Ops, files
  <2>4. Running(Readable) \subseteq {job}
    BY <2>1 DEF Inv, RunningOK
  <2> QED
    BY <2>1, <2>2, <2>3, <2>4, QuietStep
<1>6. CASE Complete
  BY <1>6, SettleStep DEF Complete, At, Terminal
<1>7. CASE MarkNeedsReview
  BY <1>7, SettleStep DEF MarkNeedsReview, At, Terminal
<1>8. CASE Rename \/ RemoveBackup \/ Backup \/ Install \/ Cleanup
  BY <1>8, FileStep
<1>9. CASE Crash \/ Start
  <2>1. /\ step' = "begin" /\ op' \in {"down", "feed"} /\ job' = NoJob
        /\ UNCHANGED <<files, world, next>> /\ faults' \in 0..MaxFaults
    BY <1>0, <1>9 DEF Crash, Start, Goto, Fault, TypeOK
  <2>2. TypeOK'
    BY <1>0, <2>1 DEF TypeOK, Ops, files, world
  <2> QED
    BY <2>1, <2>2, QuietStep DEF world
<1>10. CASE UNCHANGED vars
  <2>1. /\ Readable' = Readable /\ Running(Readable)' = Running(Readable)
        /\ Active(Readable)' = Active(Readable)
        /\ \A j, s : Set(j, s)' = Set(j, s)
    BY <1>10, SameFiles DEF vars, files
  <2>2. TypeOK' /\ FilesOK' /\ Planned'
    BY <1>10, <2>1 DEF vars, Inv, TypeOK, FilesOK, Planned
  <2>3. RunningOK' /\ OnceOK' /\ EvidenceOK'
    BY <1>10, <2>1 DEF vars, Inv, RunningOK, OnceOK, EvidenceOK, VerifiedAtMostOnce,
       CompletedHasEvidence, At
  <2> QED
    BY <2>2, <2>3 DEF Inv
<1> QED
  BY <1>1, <1>2, <1>3, <1>4, <1>5, <1>6, <1>7, <1>8, <1>9, <1>10 DEF Next, Work

-----------------------------------------------------------------------------
(* Theorems.                                                                *)

\* The invariant holds in every reachable state when EPERM on the first rename
\* means that the state file exists.
THEOREM Invariance == ASSUME ~TransientEperm PROVE Spec => []Inv
<1>1. Init => Inv
  BY InitInv
<1>2. Inv /\ [Next]_vars => Inv'
  BY NextInv
<1> QED
  BY <1>1, <1>2, PTL DEF Spec

\* No job is sent to the verifier twice, whatever crashes and file errors occur.
THEOREM VerifiedOnce == ASSUME ~TransientEperm PROVE Spec => []VerifiedAtMostOnce
<1>1. Inv => VerifiedAtMostOnce
  BY DEF Inv, OnceOK
<1> QED
  BY <1>1, Invariance, PTL

\* A job reads as COMPLETED only once its evidence is published.
THEOREM EvidenceFirst == ASSUME ~TransientEperm PROVE Spec => []CompletedHasEvidence
<1>1. Inv => CompletedHasEvidence
  BY DEF Inv, EvidenceOK
<1> QED
  BY <1>1, Invariance, PTL

\* The next job is claimed only while no other reads as RUNNING.
THEOREM ClaimAlone == ASSUME ~TransientEperm PROVE Spec => []ClaimFindsNoneRunning
<1>1. Inv => ClaimFindsNoneRunning
  BY DEF Inv, RunningOK, ClaimFindsNoneRunning, At
<1> QED
  BY <1>1, Invariance, PTL

-----------------------------------------------------------------------------
(* The files implement the ledger.                                          *)

\* Installing the planned state is the one ledger step the operation stands for.
LEMMA InstallIsLedgerStep ==
  ASSUME Inv, state' = next, next' = next, UNCHANGED bak, step \in {"rename", "install"}
  PROVE  Ledger!Next
<1>1. PICK j \in Jobs, s \in Statuses :
        /\ Readable' = next
        /\ next.jobs = Set(j, s)
        /\ \/ op = "feed" /\ Readable.jobs[j] = "absent" /\ s = "PENDING"
                          /\ Cardinality(Active(Readable)) < MaxDepth
           \/ op = "recover" /\ Running(Readable) = {j} /\ s = "NEEDS_REVIEW"
           \/ op = "claim" /\ job = j /\ Readable.jobs[j] = "PENDING" /\ s = "RUNNING"
           \/ op = "complete" /\ job = j /\ Readable.jobs[j] = "RUNNING" /\ s = "COMPLETED"
           \/ op = "review" /\ job = j /\ Readable.jobs[j] = "RUNNING" /\ s = "NEEDS_REVIEW"
  BY Installed
<1>2. Readable'.jobs = [Readable.jobs EXCEPT ![j] = s]
  BY <1>1 DEF Set
<1>3. CASE op = "feed"
  <2>1. Ledger!Active = Active(Readable)
    BY DEF Ledger!Active, Active
  <2> QED
    <3>1. Readable.jobs[j] = "absent" /\ s = "PENDING"
          /\ Cardinality(Active(Readable)) < MaxDepth
      BY <1>1, <1>3
    <3>2. Ledger!Cardinality(Ledger!Active) = Cardinality(Active(Readable))
      BY <2>1 DEF Ledger!Cardinality, Cardinality
    <3>3. Ledger!Enqueue(j)
      BY <1>2, <3>1, <3>2 DEF Ledger!Enqueue
    <3> QED
      BY <3>3 DEF Ledger!Next
<1>4. CASE op = "claim"
  <2>1. \A k \in Jobs : Readable.jobs[k] # "RUNNING"
    BY <1>4 DEF Inv, RunningOK, Running
  <2> QED
    BY <1>1, <1>2, <1>4, <2>1 DEF Ledger!Next, Ledger!Claim
<1>5. CASE op \in {"recover", "complete", "review"}
  <2>1. Readable.jobs[j] = "RUNNING" /\ s \in {"COMPLETED", "NEEDS_REVIEW"}
    BY <1>1, <1>5 DEF Running
  <2> QED
    BY <1>2, <2>1 DEF Ledger!Next, Ledger!Settle
<1> QED
  BY <1>1, <1>3, <1>4, <1>5

LEMMA StepIsLedgerStep ==
  ASSUME Inv, ~TransientEperm, [Next]_vars
  PROVE  Ledger!Next \/ UNCHANGED Readable
<1>1. CASE UNCHANGED files
  BY <1>1, SameFiles
<1>2. CASE state' = next /\ next' = next /\ UNCHANGED bak /\ step \in {"rename", "install"}
  BY <1>2, InstallIsLedgerStep
<1>3. CASE step = "rm_backup" /\ bak' = Missing /\ state' = state
  BY <1>3 DEF Inv, FilesOK, Readable
<1>4. CASE step = "backup" /\ state # Missing /\ state' = Missing /\ bak' = state
  BY <1>4 DEF Readable
<1>5. CASE step = "cleanup" /\ bak' = Missing /\ state' = state
  BY <1>5 DEF Inv, TypeOK, FilesOK, Readable
<1>6. CASE UNCHANGED vars
  BY <1>6, SameFiles DEF vars, files
<1>7. CASE Work
  <2>1. CASE Feed \/ RecoverInterrupted \/ ClaimNext \/ Verify \/ Hook \/ Complete
             \/ MarkNeedsReview
    BY <2>1, <1>1 DEF Feed, RecoverInterrupted, ClaimNext, Verify, Hook, Complete,
       MarkNeedsReview, Settle
  <2>2. CASE Rename \/ Install
    BY <2>2, <1>1, <1>2 DEF Rename, Install, CallFails
  <2>3. CASE RemoveBackup
    BY <2>3, <1>1, <1>3 DEF RemoveBackup, CallFails
  <2>4. CASE Backup
    BY <2>4, <1>1, <1>4 DEF Backup, CallFails, files
  <2>5. CASE Cleanup
    BY <2>5, <1>1, <1>5 DEF Cleanup, CallFails
  <2> QED
    BY <1>7, <2>1, <2>2, <2>3, <2>4, <2>5 DEF Work
<1>8. CASE Crash \/ Start
  BY <1>8, <1>1 DEF Crash, Start
<1> QED
  BY <1>6, <1>7, <1>8 DEF Next

\* The queue that can be read back from the files at any instant behaves as the
\* ledger of jobs promises.
THEOREM Refinement == ASSUME ~TransientEperm PROVE Spec => ImplementsLedger
<1>1. Init => Ledger!Init
  BY DEF Init, Ledger!Init, Readable, Empty
<1>2. Inv /\ [Next]_vars => [Ledger!Next]_(Readable.jobs)
  BY StepIsLedgerStep
<1> QED
  BY <1>1, <1>2, Invariance, PTL DEF Spec, ImplementsLedger, Ledger!Spec

=============================================================================
