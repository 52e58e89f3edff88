------------------------------ MODULE RunnerLock ------------------------------
(***************************************************************************)
(* The lock directory that keeps FULGOR controller processes apart:         *)
(* acquireLock and the release function it returns                          *)
(* (scripts/fulgor/cloud/continuousControllerRunner.ts).  The directory is  *)
(* made with mkdir and names its owner in owner.json; a lock whose owner's  *)
(* process is gone is renamed away and made anew.  Every file system call   *)
(* is a step, and a process may end before any of them.                     *)
(***************************************************************************)
EXTENDS Naturals

CONSTANTS
    Runners,    \* controller processes, each of which runs once
    Free,       \* no lock directory
    Bare,       \* a lock directory without a readable owner.json
    OneByOne    \* TRUE: no runner is started while another one is acquiring

ASSUME RunnerLockAssumption ==
    /\ Free \notin Runners /\ Bare \notin Runners /\ Free # Bare
    /\ OneByOne \in BOOLEAN

VARIABLES
    lock,       \* what is at lockDir: Free, Bare or the owner it names
    pc,         \* the call each runner makes next
    seen,       \* the owner each runner read
    orphaned    \* a runner ended while the lock directory it made or was
                \* removing named nobody

vars == <<lock, pc, seen, orphaned>>

Acquiring == {"mkdir", "read", "judge", "rename", "remake", "write"}
Releasing == {"check", "unlink", "rmdir"}
Holding == {"active"} \cup Releasing
Over == {"refused", "ended"}

\* A runner's call and the lock it finds have their types.
TypeOK ==
    /\ lock \in Runners \cup {Free, Bare}
    /\ pc \in [Runners -> {"idle"} \cup Acquiring \cup Holding \cup Over]
    /\ seen \in [Runners -> Runners \cup {Bare}]
    /\ orphaned \in BOOLEAN

Init ==
    /\ lock = Free
    /\ pc = [r \in Runners |-> "idle"]
    /\ seen = [r \in Runners |-> Bare]
    /\ orphaned = FALSE

Goto(r, c) == pc' = [pc EXCEPT ![r] = c]
IsAlive(r) == pc[r] \in Acquiring \cup Holding

-----------------------------------------------------------------------------
(* acquireLock.                                                             *)

Start(r) ==
    /\ pc[r] = "idle"
    /\ OneByOne => \A s \in Runners : pc[s] \notin Acquiring
    /\ Goto(r, "mkdir")
    /\ UNCHANGED <<lock, seen, orphaned>>

\* createLock, the first time.
MakeLock(r) ==
    /\ pc[r] = "mkdir"
    /\ IF lock = Free
       THEN lock' = Bare /\ Goto(r, "write")
       ELSE Goto(r, "read") /\ UNCHANGED lock
    /\ UNCHANGED <<seen, orphaned>>

\* Mutant: a lock without a readable owner counts as stale.
ReadOwner_Lenient(r) ==
    /\ pc[r] = "read"
    /\ IF lock \in Runners
       THEN seen' = [seen EXCEPT ![r] = lock] /\ Goto(r, "judge")
       ELSE Goto(r, "rename") /\ UNCHANGED seen
    /\ UNCHANGED <<lock, orphaned>>

\* An owner that cannot be read is RUNNER_LOCK_UNVERIFIED.
ReadOwner(r) ==
    /\ pc[r] = "read"
    /\ IF lock \in Runners
       THEN seen' = [seen EXCEPT ![r] = lock] /\ Goto(r, "judge")
       ELSE Goto(r, "refused") /\ UNCHANGED seen
    /\ UNCHANGED <<lock, orphaned>>

\* Mutant: a process that may not be signalled (EPERM) counts as gone.
JudgeOwner_EpermIsDead(r) ==
    /\ pc[r] = "judge"
    /\ Goto(r, "refused") \/ Goto(r, "rename")
    /\ UNCHANGED <<lock, seen, orphaned>>

\* isProcessAlive: a live process is never taken for a dead one; a dead one may
\* look alive, its pid given to another process (RUNNER_ALREADY_ACTIVE).
JudgeOwner(r) ==
    /\ pc[r] = "judge"
    /\ \/ Goto(r, "refused")
       \/ ~IsAlive(seen[r]) /\ Goto(r, "rename")
    /\ UNCHANGED <<lock, seen, orphaned>>

\* Rename to a quarantine name of its own, whatever is at lockDir by now.
Quarantine(r) ==
    /\ pc[r] = "rename"
    /\ IF lock = Free
       THEN Goto(r, "refused") /\ UNCHANGED lock
       ELSE lock' = Free /\ Goto(r, "remake")
    /\ UNCHANGED <<seen, orphaned>>

RemakeLock(r) ==
    /\ pc[r] = "remake"
    /\ IF lock = Free
       THEN lock' = Bare /\ Goto(r, "write")
       ELSE Goto(r, "refused") /\ UNCHANGED lock
    /\ UNCHANGED <<seen, orphaned>>

\* Mutant: the owner file is written by replacing what is there later on.
WriteOwner_Late(r) ==
    /\ pc[r] = "write"
    /\ Goto(r, "active")
    /\ UNCHANGED <<lock, seen, orphaned>>

\* writeFile(owner.json, flag wx): the directory must be there, the file not.
WriteOwner(r) ==
    /\ pc[r] = "write"
    /\ IF lock = Bare
       THEN lock' = r /\ Goto(r, "active")
       ELSE Goto(r, "ended") /\ UNCHANGED lock
    /\ UNCHANGED <<seen, orphaned>>

-----------------------------------------------------------------------------
(* The release function, called in the finally block of the poll loop.      *)

Finish(r) ==
    /\ pc[r] = "active"
    /\ Goto(r, "check")
    /\ UNCHANGED <<lock, seen, orphaned>>

\* A lock that names somebody else is left alone (RUNNER_LOCK_UNVERIFIED).
CheckOwner(r) ==
    /\ pc[r] = "check"
    /\ Goto(r, IF lock = r THEN "unlink" ELSE "ended")
    /\ UNCHANGED <<lock, seen, orphaned>>

\* rm(lockDir, recursive): owner.json first, then the directory if it is empty.
UnlinkOwner(r) ==
    /\ pc[r] = "unlink"
    /\ lock' = IF lock = Free THEN Free ELSE Bare
    /\ Goto(r, "rmdir")
    /\ UNCHANGED <<seen, orphaned>>

RemoveLock(r) ==
    /\ pc[r] = "rmdir"
    /\ lock' = IF lock = Bare THEN Free ELSE lock
    /\ Goto(r, "ended")
    /\ UNCHANGED <<seen, orphaned>>

\* The process is killed, or a call throws out of it.
Crash(r) ==
    /\ IsAlive(r)
    /\ Goto(r, "ended")
    /\ orphaned' = (orphaned \/ (lock = Bare /\ pc[r] \in {"write", "rmdir"}))
    /\ UNCHANGED <<lock, seen>>

-----------------------------------------------------------------------------
Acquire(r) ==
    \/ Start(r) \/ MakeLock(r) \/ ReadOwner(r) \/ JudgeOwner(r) \/ Quarantine(r)
    \/ RemakeLock(r) \/ WriteOwner(r)

Release(r) == Finish(r) \/ CheckOwner(r) \/ UnlinkOwner(r) \/ RemoveLock(r)

Next == \E r \in Runners : Acquire(r) \/ Release(r) \/ Crash(r)

Spec == Init /\ [][Next]_vars

-----------------------------------------------------------------------------
(* Properties.                                                              *)

\* At most one runner polls the queue ("Fail closed rather than stealing a live
\* lock").
MutualExclusion ==
    \A r, s \in Runners : pc[r] = "active" /\ pc[s] = "active" => r = s

\* A runner's own lock is there until the runner removes it: its release never
\* fails as unverified and its removal never hits another runner's directory.
HolderOwnsLock ==
    \A r \in Runners :
        /\ pc[r] \in {"active", "check", "unlink"} => lock = r
        /\ pc[r] = "rmdir" => lock = Bare

\* A lock that names nobody, which every later runner refuses for good, is a
\* step somebody is about to complete, or a runner ended in one of two windows:
\* before its owner file was written or between the two halves of its removal.
BareLockIsExplained ==
    lock = Bare => orphaned \/ \E r \in Runners : pc[r] \in {"write", "rmdir"}

-----------------------------------------------------------------------------
(* The inductive invariant behind them, for runners started one by one.     *)

\* One runner at a time acquires.
OneAcquires ==
    \A r, s \in Runners : pc[r] \in Acquiring /\ pc[s] \in Acquiring => r = s

\* One runner at a time polls the queue or removes its lock.
OneHolds ==
    \A r, s \in Runners : pc[r] \in Holding /\ pc[s] \in Holding => r = s

\* A runner that goes for a lock it judged stale, or writes into the one it
\* made, has no holder to disturb.
TakeoverIsClear ==
    \A r, h \in Runners :
        /\ pc[r] \in {"rename", "remake", "write"} => pc[h] \notin Holding
        /\ pc[r] = "judge" /\ pc[h] \in Holding => h = seen[r]

FreshLockIsBare == \A r \in Runners : pc[r] = "write" => lock = Bare

Inv ==
    /\ TypeOK
    /\ OneAcquires
    /\ OneHolds
    /\ HolderOwnsLock
    /\ TakeoverIsClear
    /\ FreshLockIsBare
    /\ BareLockIsExplained
=============================================================================
