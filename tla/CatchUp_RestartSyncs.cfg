SPECIFICATION FairSpec
CONSTANTS
    Tip = 4
    WindowSize = 2
    MaxSpawned = 2
    MaxParallel = 2
    SmallGap = 1
    LargeGap = 2
    Proposals = {4}
    MaxFailures = 0
    MaxBad = 0
    MaxRestarts = 1
PROPERTIES
    SyncCompletes
