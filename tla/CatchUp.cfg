SPECIFICATION Spec
CONSTANTS
    Tip = 4
    WindowSize = 2
    MaxSpawned = 2
    MaxParallel = 1
    SmallGap = 1
    LargeGap = 2
    Proposals = {2, 4}
    MaxFailures = 1
    MaxBad = 1
    MaxRestarts = 1
INVARIANTS
    TypeOK
    VerificationInSequence
    BufferedCommitsComplete
    NoHeightLost
    VerificationOutstanding
    BufferBounded
    ManagerServesSync
