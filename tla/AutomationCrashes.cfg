\* Two jobs, a queue of one, crashes and file errors at every call.
SPECIFICATION LiveSpec
CONSTANTS
    j1 = j1  j2 = j2
    Jobs = {j1, j2}
    NoJob = NoJob
    Missing = Missing
    MaxDepth = 1
    MaxFaults = 5
    TransientEperm = FALSE
INVARIANTS VerifiedAtMostOnce CompletedHasEvidence ClaimFindsNoneRunning
PROPERTIES ImplementsLedger EveryJobSettles
