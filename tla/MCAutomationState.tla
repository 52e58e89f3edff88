-------------------------- MODULE MCAutomationState --------------------------
(* AutomationState for TLC: interchangeable jobs.                            *)
EXTENDS AutomationState, TLC

JobSymmetry == Permutations(Jobs)
=============================================================================
