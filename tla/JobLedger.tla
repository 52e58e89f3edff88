----------------------------- MODULE JobLedger -----------------------------
(***************************************************************************)
(* What the FULGOR automation queue promises, whatever files it is kept in: *)
(* a job is queued once, claimed once, one at a time, and settled for good. *)
(***************************************************************************)
EXTENDS Naturals, FiniteSets

CONSTANTS Jobs, MaxDepth

VARIABLE jobs

Active == {j \in Jobs : jobs[j] \in {"PENDING", "RUNNING"}}

Init == jobs = [j \in Jobs |-> "absent"]

Enqueue(j) ==
    /\ jobs[j] = "absent"
    /\ Cardinality(Active) < MaxDepth
    /\ jobs' = [jobs EXCEPT ![j] = "PENDING"]

Claim(j) ==
    /\ jobs[j] = "PENDING"
    /\ \A k \in Jobs : jobs[k] # "RUNNING"
    /\ jobs' = [jobs EXCEPT ![j] = "RUNNING"]

Settle(j) ==
    /\ jobs[j] = "RUNNING"
    /\ jobs' \in {[jobs EXCEPT ![j] = s] : s \in {"COMPLETED", "NEEDS_REVIEW"}}

Next == \E j \in Jobs : Enqueue(j) \/ Claim(j) \/ Settle(j)

Spec == Init /\ [][Next]_jobs
=============================================================================
