\* The first rename may fail although the state file is missing.
SPECIFICATION Spec
CONSTANTS
    j1 = j1  j2 = j2
    Jobs = {j1, j2}
    NoJob = NoJob
    Missing = Missing
    MaxDepth = 1
    MaxFaults = 6
    TransientEperm = TRUE
SYMMETRY JobSymmetry
INVARIANT VerifiedAtMostOnce
