--------------------------- MODULE RunnerLock_proofs ---------------------------
(***************************************************************************)
(* Proofs about RunnerLock for any number of runners, started one by one.   *)
(***************************************************************************)
EXTENDS RunnerLock, TLAPS

USE RunnerLockAssumption

LEMMA InitInv == Init => Inv
BY DEF Init, Inv, TypeOK, OneAcquires, OneHolds, HolderOwnsLock, TakeoverIsClear,
   FreshLockIsBare, BareLockIsExplained, Acquiring, Holding, Releasing

LEMMA NextInv == Inv /\ OneByOne /\ [Next]_vars => Inv'
<1> SUFFICES ASSUME Inv, OneByOne, [Next]_vars PROVE Inv'
  OBVIOUS
<1> USE DEF Inv, TypeOK, OneAcquires, OneHolds, HolderOwnsLock, TakeoverIsClear,
        FreshLockIsBare, BareLockIsExplained, Acquiring, Holding, Releasing, Over, Goto
<1>1. ASSUME NEW r \in Runners, Acquire(r) PROVE Inv'
  <2>1. CASE Start(r)
    BY <2>1 DEF Start
  <2>2. CASE MakeLock(r)
    BY <2>2 DEF MakeLock
  <2>3. CASE ReadOwner(r)
    BY <2>3 DEF ReadOwner
  <2>4. CASE JudgeOwner(r)
    BY <2>4 DEF JudgeOwner, IsAlive
  <2>5. CASE Quarantine(r)
    BY <2>5 DEF Quarantine
  <2>6. CASE RemakeLock(r)
    BY <2>6 DEF RemakeLock
  <2>7. CASE WriteOwner(r)
    BY <2>7 DEF WriteOwner
  <2> QED
    BY <1>1, <2>1, <2>2, <2>3, <2>4, <2>5, <2>6, <2>7 DEF Acquire
<1>2. ASSUME NEW r \in Runners, Release(r) PROVE Inv'
  <2>1. CASE Finish(r)
    BY <2>1 DEF Finish
  <2>2. CASE CheckOwner(r)
    BY <2>2 DEF CheckOwner
  <2>3. CASE UnlinkOwner(r)
    BY <2>3 DEF UnlinkOwner
  <2>4. CASE RemoveLock(r)
    BY <2>4 DEF RemoveLock
  <2> QED
    BY <1>2, <2>1, <2>2, <2>3, <2>4 DEF Release
<1>3. ASSUME NEW r \in Runners, Crash(r) PROVE Inv'
  <2>1. /\ r \in Runners
        /\ pc' = [pc EXCEPT ![r] = "ended"]
        /\ orphaned' = (orphaned \/ (lock = Bare /\ pc[r] \in {"write", "rmdir"}))
        /\ lock' = lock /\ seen' = seen
    BY <1>3 DEF Crash
  <2>2. TypeOK' /\ HolderOwnsLock' /\ FreshLockIsBare'
    BY <2>1
  <2>3. OneAcquires' /\ OneHolds'
    BY <2>1
  <2>4. TakeoverIsClear'
    BY <2>1
  <2>5. BareLockIsExplained'
    BY <2>1
  <2> QED
    BY <2>2, <2>3, <2>4, <2>5
<1>4. CASE UNCHANGED vars
  BY <1>4 DEF vars
<1> QED
  BY <1>1, <1>2, <1>3, <1>4 DEF Next

-----------------------------------------------------------------------------
(* Theorems.                                                                *)

\* Everything said of the lock holds in every reachable state when the operator
\* starts no runner while another one is still acquiring the lock.
THEOREM Invariance == ASSUME OneByOne PROVE Spec => []Inv
<1>1. Init => Inv
  BY InitInv
<1>2. Inv /\ [Next]_vars => Inv'
  BY NextInv
<1> QED
  BY <1>1, <1>2, PTL DEF Spec

\* No two runners poll the queue at once.
THEOREM Exclusive == ASSUME OneByOne PROVE Spec => []MutualExclusion
<1>1. Inv => MutualExclusion
  BY DEF Inv, OneHolds, MutualExclusion, Holding
<1> QED
  BY <1>1, Invariance, PTL

\* A runner that got the lock keeps it until it removes it.
THEOREM Owned == ASSUME OneByOne PROVE Spec => []HolderOwnsLock
<1>1. Inv => HolderOwnsLock
  BY DEF Inv
<1> QED
  BY <1>1, Invariance, PTL

\* A lock that names nobody is an unfinished step or the trace of a crash in
\* one of two windows.
THEOREM BareExplained == ASSUME OneByOne PROVE Spec => []BareLockIsExplained
<1>1. Inv => BareLockIsExplained
  BY DEF Inv
<1> QED
  BY <1>1, Invariance, PTL
=============================================================================
