--------------------------- MODULE AutomationState ---------------------------
(***************************************************************************)
(* One FULGOR controller process: the poll loop, the supervisor's pass over *)
(* the job queue, and the state file and its backup through which           *)
(* PersistentFulgorStateStore keeps that queue                              *)
(* (scripts/fulgor/automation/persistentState.ts, supervisor.ts,            *)
(* scripts/fulgor/cloud/continuousControllerRunner.ts).  Every file system  *)
(* call is a step: the process may die before it, and on Windows it may     *)
(* fail for good after its retries.                                         *)
(***************************************************************************)
EXTENDS Naturals, FiniteSets

CONSTANTS
    Jobs,           \* review bundles the feeder can turn into jobs
    NoJob,
    Missing,        \* a file that is not there
    MaxDepth,       \* queueMaxDepth
    MaxFaults,      \* bound on crashes and failed file system calls
    TransientEperm  \* TRUE: the first rename may fail with EPERM although its
                    \* destination does not exist

VARIABLES
    state, bak,     \* contents of statePath and of statePath.bak
    op,             \* the store operation or supervisor step under way
    step,           \* the file system call writeState is about to make
    next,           \* the state being written (it is in the temporary file)
    job,            \* the job the supervisor claimed
    verified,       \* how often each job was sent to the verifier
    evidence,       \* jobs with published completion evidence
    faults          \* crashes and failed calls so far

files == <<state, bak>>
world == <<verified, evidence>>
vars == <<state, bak, op, step, next, job, verified, evidence, faults>>

-----------------------------------------------------------------------------
(* Values.                                                                  *)

Terminal == {"COMPLETED", "NEEDS_REVIEW"}
Statuses == {"PENDING", "RUNNING"} \cup Terminal

\* The array of records is kept as a map: which PENDING record comes first is
\* left open.
JobMap == [Jobs -> Statuses \cup {"absent"}]
File == [revision: Nat, jobs: JobMap]
Empty == [revision |-> 0, jobs |-> [j \in Jobs |-> "absent"]]

Ops == {"down", "feed", "recover", "claim", "verify", "hook", "complete", "review"}
FileCalls == {"rename", "rm_backup", "backup", "install", "cleanup"}

ASSUME AutomationAssumption ==
    /\ IsFiniteSet(Jobs)
    /\ NoJob \notin Jobs
    /\ Missing \notin File
    /\ MaxDepth \in Nat \ {0}
    /\ MaxFaults \in Nat
    /\ TransientEperm \in BOOLEAN

\* Mutant: a missing state file reads as an empty queue.
Readable_NoBackup == IF state # Missing THEN state ELSE Empty

\* readState: the state file, else its backup, else an empty queue.
Readable ==
    IF state # Missing THEN state ELSE IF bak # Missing THEN bak ELSE Empty

Active(f) == {j \in Jobs : f.jobs[j] \in {"PENDING", "RUNNING"}}
Running(f) == {j \in Jobs : f.jobs[j] = "RUNNING"}

\* Every value has its type; a job is being handled exactly from its claim on.
TypeOK ==
    /\ state \in File \cup {Missing}
    /\ bak \in File \cup {Missing}
    /\ op \in Ops
    /\ step \in {"begin"} \cup FileCalls
    /\ next \in File
    /\ job \in Jobs \cup {NoJob}
    /\ verified \in [Jobs -> Nat]
    /\ evidence \in SUBSET Jobs
    /\ faults \in 0..MaxFaults
    /\ op \in {"verify", "hook", "complete", "review"} => job \in Jobs

Init ==
    /\ state = Missing /\ bak = Missing
    /\ op = "down" /\ step = "begin" /\ next = Empty /\ job = NoJob
    /\ verified = [j \in Jobs |-> 0]
    /\ evidence = {}
    /\ faults = 0

-----------------------------------------------------------------------------
(* The control flow of the controller.                                      *)

At(o, s) == op = o /\ step = s
Goto(o) == op' = o /\ step' = "begin"

Fault == faults < MaxFaults /\ faults' = faults + 1

\* Where the controller goes after an operation returned.  How many bundles a
\* scan enqueues and how many jobs a pass handles (maxJobsPerRun) is left open.
After(o, p) ==
    \/ o = "feed" /\ p \in {"feed", "recover"}
    \/ o = "recover" /\ p = "claim"
    \/ o = "claim" /\ p = "verify"
    \/ o \in {"complete", "review"} /\ p \in {"claim", "feed"}

\* Mutant: errors outside the claimed job's try block are swallowed too.
AfterThrow_Swallows(o, p) ==
    \/ o = "feed" /\ p \in {"feed", "recover"}
    \/ o \in {"verify", "hook", "complete"} /\ p = "review"
    \/ o \in {"recover", "claim", "review"} /\ p = "claim"

\* Mutant: a failing completion hook is logged and ignored.
AfterThrow_HookIgnored(o, p) ==
    \/ o = "feed" /\ p \in {"feed", "recover"}
    \/ o = "hook" /\ p = "complete"
    \/ o \in {"verify", "complete"} /\ p = "review"
    \/ o \in {"recover", "claim", "review"} /\ p = "down"

\* Where it goes when the operation throws: the feeder counts a refusal, the
\* supervisor marks the claimed job for review, anything else ends the process.
AfterThrow(o, p) ==
    \/ o = "feed" /\ p \in {"feed", "recover"}
    \/ o \in {"verify", "hook", "complete"} /\ p = "review"
    \/ o \in {"recover", "claim", "review"} /\ p = "down"

Return == \E o \in Ops : After(op, o) /\ Goto(o)
Throw == \E o \in Ops : AfterThrow(op, o) /\ Goto(o)

\* writeState starts: its temporary file holds the new state, or could not be
\* written.
Write(jobs) ==
    \/ /\ next' = [revision |-> Readable.revision + 1, jobs |-> jobs]
       /\ step' = "rename"
       /\ UNCHANGED <<op, faults>>
    \/ Throw /\ Fault /\ UNCHANGED next

Set(j, status) == [Readable.jobs EXCEPT ![j] = status]

-----------------------------------------------------------------------------
(* The store's operations, up to the temporary file.                        *)

\* beforeCycle: the feeder enqueues a bundle whose job id is unknown, or has
\* none left; enqueue refuses it when the queue is full.
Feed ==
    /\ At("feed", "begin")
    /\ \/ Goto("recover") /\ UNCHANGED <<next, faults>>
       \/ \E j \in Jobs :
              /\ Readable.jobs[j] = "absent"
              /\ IF Cardinality(Active(Readable)) >= MaxDepth
                 THEN Throw /\ UNCHANGED <<next, faults>>
                 ELSE Write(Set(j, "PENDING"))
    /\ UNCHANGED <<files, job, world>>

\* Mutant: an interrupted job is queued again.
RecoverInterrupted_Requeues ==
    /\ At("recover", "begin")
    /\ IF Running(Readable) = {}
       THEN Return /\ UNCHANGED <<next, faults>>
       ELSE Write([j \in Jobs |-> IF j \in Running(Readable) THEN "PENDING"
                                                          ELSE Readable.jobs[j]])
    /\ UNCHANGED <<files, job, world>>

\* Mutant: interrupted jobs are left as they are.
RecoverInterrupted_Skips ==
    At("recover", "begin") /\ Return /\ UNCHANGED <<files, next, job, world, faults>>

\* (A read that fails although nothing is to be written has no branch: the
\* cycle would end as it does when a write fails.)
RecoverInterrupted ==
    /\ At("recover", "begin")
    /\ IF Running(Readable) = {}
       THEN Return /\ UNCHANGED <<next, faults>>
       ELSE Write([j \in Jobs |-> IF j \in Running(Readable) THEN "NEEDS_REVIEW"
                                                          ELSE Readable.jobs[j]])
    /\ UNCHANGED <<files, job, world>>

\* claimNext; with nothing pending the pass ends and the next cycle begins.
ClaimNext ==
    /\ At("claim", "begin")
    /\ IF \A j \in Jobs : Readable.jobs[j] # "PENDING"
       THEN Goto("feed") /\ UNCHANGED <<next, job, faults>>
       ELSE \E j \in Jobs :
                /\ Readable.jobs[j] = "PENDING"
                /\ job' = j
                /\ Write(Set(j, "RUNNING"))
    /\ UNCHANGED <<files, world>>

\* complete and markNeedsReview refuse a job that is not RUNNING.
Settle(status) ==
    /\ IF Readable.jobs[job] = "RUNNING"
       THEN Write(Set(job, status))
       ELSE Throw /\ UNCHANGED <<next, faults>>
    /\ UNCHANGED <<files, job, world>>

Complete == At("complete", "begin") /\ Settle("COMPLETED")
MarkNeedsReview == At("review", "begin") /\ Settle("NEEDS_REVIEW")

-----------------------------------------------------------------------------
(* writeState's calls on the state file and its backup.                     *)

\* A call that changes no file and throws out of writeState.
CallFails == Throw /\ Fault /\ UNCHANGED files

\* rename(temp, statePath); EEXIST and EPERM lead to the backup fallback.
Rename ==
    /\ step = "rename"
    /\ \/ state' = next /\ Return /\ UNCHANGED <<bak, faults>>
       \/ /\ state # Missing \/ TransientEperm
          /\ Fault
          /\ step' = "rm_backup"
          /\ UNCHANGED <<files, op>>
       \/ CallFails
    /\ UNCHANGED <<next, job, world>>

RemoveBackup ==
    /\ step = "rm_backup"
    /\ \/ bak' = Missing /\ step' = "backup" /\ UNCHANGED <<state, op, faults>>
       \/ CallFails
    /\ UNCHANGED <<next, job, world>>

\* rename(statePath, backup); ENOENT is not an error.
Backup ==
    /\ step = "backup"
    /\ \/ /\ state # Missing
          /\ state' = Missing /\ bak' = state
          /\ step' = "install"
          /\ UNCHANGED <<op, faults>>
       \/ state = Missing /\ step' = "install" /\ UNCHANGED <<files, op, faults>>
       \/ CallFails
    /\ UNCHANGED <<next, job, world>>

Install ==
    /\ step = "install"
    /\ \/ state' = next /\ step' = "cleanup" /\ UNCHANGED <<bak, op, faults>>
       \/ CallFails
    /\ UNCHANGED <<next, job, world>>

\* The new state is in place; a backup that cannot be removed still throws.
Cleanup ==
    /\ step = "cleanup"
    /\ \/ bak' = Missing /\ Return /\ UNCHANGED <<state, faults>>
       \/ CallFails
    /\ UNCHANGED <<next, job, world>>

-----------------------------------------------------------------------------
(* The claimed job.                                                         *)

\* runAutomationJob: the static gate rejects the candidate, or the verifier is
\* called once; whatever it answers is a result.
Verify ==
    /\ At("verify", "begin")
    /\ verified' \in {verified, [verified EXCEPT ![job] = @ + 1]}
    /\ Goto("hook")
    /\ UNCHANGED <<files, next, job, evidence, faults>>

\* completionHook writes its files with flag wx: it never replaces evidence.
Hook ==
    /\ At("hook", "begin")
    /\ \/ /\ job \notin evidence
          /\ evidence' = evidence \cup {job}
          /\ Goto("complete")
          /\ UNCHANGED faults
       \/ job \in evidence /\ Throw /\ UNCHANGED <<evidence, faults>>
       \/ Throw /\ Fault /\ evidence' \in {evidence, evidence \cup {job}}
    /\ UNCHANGED <<files, next, job, verified>>

Crash ==
    /\ op # "down"
    /\ Fault
    /\ Goto("down") /\ job' = NoJob
    /\ UNCHANGED <<files, next, world>>

\* The operator starts the controller again.
Start ==
    /\ op = "down"
    /\ Goto("feed") /\ job' = NoJob
    /\ UNCHANGED <<files, next, world, faults>>

Work ==
    \/ Feed \/ RecoverInterrupted \/ ClaimNext \/ Verify \/ Hook \/ Complete
    \/ MarkNeedsReview \/ Rename \/ RemoveBackup \/ Backup \/ Install \/ Cleanup

Next == Work \/ Crash \/ Start

Spec == Init /\ [][Next]_vars

\* The poll loop runs on (it sleeps and wakes up) and the operator restarts a
\* controller that ended.
LiveSpec == Spec /\ WF_vars(Work) /\ WF_vars(Start)

-----------------------------------------------------------------------------
(* Properties.                                                              *)

\* Whatever crashes and file errors come between, a job reaches the external
\* verifier at most once ("Never retry it automatically").
VerifiedAtMostOnce == \A j \in Jobs : verified[j] <= 1

\* A job reads as COMPLETED only with its evidence published first; a hook that
\* fails keeps it out of COMPLETED.
CompletedHasEvidence ==
    \A j \in Jobs : Readable.jobs[j] = "COMPLETED" => j \in evidence

\* When the supervisor looks for the next job, no other is RUNNING: an
\* interrupted one was settled before, even if settling it failed half way.
ClaimFindsNoneRunning == At("claim", "begin") => Running(Readable) = {}

Ledger == INSTANCE JobLedger WITH jobs <- Readable.jobs

\* The queue the files show at every instant, a crash between two renames
\* included, is a ledger of jobs queued once, claimed once and settled for good:
\* no write half done loses or repeats a step.
ImplementsLedger == Ledger!Spec

\* With finitely many faults every queued job is settled.
EveryJobSettles ==
    \A j \in Jobs : (Readable.jobs[j] = "PENDING") ~> (Readable.jobs[j] \in Terminal)

-----------------------------------------------------------------------------
(* The inductive invariant behind the safety properties, for a rename whose  *)
(* EPERM means what the code takes it for.                                   *)

Writes == {"feed", "recover", "claim", "complete", "review"}

\* At each call of writeState exactly one of the two files is known to hold
\* the state to fall back to.
FilesOK ==
    /\ step # "begin" => op \in Writes
    /\ step = "rm_backup" => state # Missing
    /\ step = "backup" => state # Missing
    /\ step = "install" => state = Missing /\ bak # Missing
    /\ step = "cleanup" => state = next

\* The state about to be written is one ledger step from the readable one.
Planned ==
    step \in {"rename", "rm_backup", "backup", "install"} =>
        \/ /\ op = "feed"
           /\ Cardinality(Active(Readable)) < MaxDepth
           /\ \E j \in Jobs : Readable.jobs[j] = "absent" /\ next.jobs = Set(j, "PENDING")
        \/ /\ op = "recover"
           /\ \E j \in Jobs : Running(Readable) = {j} /\ next.jobs = Set(j, "NEEDS_REVIEW")
        \/ /\ op = "claim"
           /\ job \in Jobs
           /\ Readable.jobs[job] = "PENDING" /\ next.jobs = Set(job, "RUNNING")
        \/ /\ op = "complete"
           /\ Readable.jobs[job] = "RUNNING" /\ next.jobs = Set(job, "COMPLETED")
        \/ /\ op = "review"
           /\ Readable.jobs[job] = "RUNNING" /\ next.jobs = Set(job, "NEEDS_REVIEW")

\* Which jobs can read as RUNNING where.
RunningOK ==
    /\ \A j, k \in Running(Readable) : j = k
    /\ op = "claim" /\ step # "cleanup" => Running(Readable) = {}
    /\ op = "recover" /\ step = "cleanup" => Running(Readable) = {}
    /\ op \in {"complete", "review"} /\ step = "cleanup" => Running(Readable) = {}
    /\ op \in {"verify", "hook", "complete", "review"} => Running(Readable) \subseteq {job}
    /\ op = "verify" \/ At("claim", "cleanup") => Running(Readable) = {job}

\* A job nobody claimed yet has not been verified.
OnceOK ==
    /\ VerifiedAtMostOnce
    /\ \A j \in Jobs : Readable.jobs[j] \in {"absent", "PENDING"} => verified[j] = 0
    /\ op = "verify" \/ At("claim", "cleanup") => job \in Jobs /\ verified[job] = 0

EvidenceOK ==
    /\ CompletedHasEvidence
    /\ op = "complete" => job \in evidence

Inv == TypeOK /\ FilesOK /\ Planned /\ RunningOK /\ OnceOK /\ EvidenceOK

=============================================================================
