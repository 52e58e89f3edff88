\* Four runners, started one by one, each of which may end at any call.
SPECIFICATION Spec
CONSTANTS
    r1 = r1  r2 = r2  r3 = r3  r4 = r4
    Runners = {r1, r2, r3, r4}
    Free = Free
    Bare = Bare
    OneByOne = TRUE
SYMMETRY RunnerSymmetry
INVARIANTS MutualExclusion HolderOwnsLock BareLockIsExplained
CHECK_DEADLOCK FALSE
