SPECIFICATION FairSpec
CONSTANTS
    v1 = v1
    v2 = v2
    v3 = v3
    v4 = v4
    b0 = b0
    b1 = b1
    None = None
    Validators = {v1, v2, v3}
    Self = v2
    Power <- PowerUneven
    Blocks = {b0, b1}
    Round <- TwoRounds
    MaxView = 1
    MaxBad = 2
INVARIANTS
    PendingHasBatch
    NoMissedTrigger
    SeenVotesAccounted
    QcSoundWhenVotesValid
PROPERTY
    QuorumLeadsToQc
CHECK_DEADLOCK FALSE
