----------------------------- MODULE MCRunnerLock -----------------------------
(* RunnerLock for TLC: interchangeable runners.                              *)
EXTENDS RunnerLock, TLC

RunnerSymmetry == Permutations(Runners)
=============================================================================
