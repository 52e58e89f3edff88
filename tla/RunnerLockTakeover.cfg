\* Three runners that start at any time.
SPECIFICATION Spec
CONSTANTS
    r1 = r1  r2 = r2  r3 = r3
    Runners = {r1, r2, r3}
    Free = Free
    Bare = Bare
    OneByOne = FALSE
SYMMETRY RunnerSymmetry
INVARIANT MutualExclusion
CHECK_DEADLOCK FALSE
