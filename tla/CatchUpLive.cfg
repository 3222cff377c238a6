SPECIFICATION FairSpec
CONSTANTS
    Tip = 5
    WindowSize = 3
    MaxSpawned = 2
    MaxParallel = 2
    SmallGap = 1
    LargeGap = 2
    Proposals = {5}
    MaxFailures = 2
    MaxBad = 0
    MaxRestarts = 0
INVARIANT
    VerificationInSequence
PROPERTIES
    SyncCompletes
