SPECIFICATION Spec
CONSTANTS
    Tip = 4
    WindowSize = 2
    MaxSpawned = 2
    MaxParallel = 2
    SmallGap = 1
    LargeGap = 2
    Proposals = {2, 3, 4}
    MaxFailures = 1
    MaxBad = 1
    MaxRestarts = 0
INVARIANTS
    SyncingHasTarget
