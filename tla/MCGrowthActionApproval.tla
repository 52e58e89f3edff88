----------------------- MODULE MCGrowthActionApproval -----------------------
(* Instances of GrowthActionApproval for TLC. *)
EXTENDS GrowthActionApproval

\* The action asks for a discount and a budget of one unit each: a limit of 0
\* forbids it, a limit of 1 allows it.
OneUnitEach == [f \in Fields |-> 1]
=============================================================================
