SPECIFICATION Spec
CONSTANTS
    N = 2
    Stake <- StakeHeavy
    Payloads = {"tx"}
    Live = {0, 1}
    MaxHeight = 2
    MaxView = 1
INVARIANTS
    TypeOK
    ForkNeedsDoubleVote
    VotedAncestorsCertified
    RoundVoteUniqueUnlessSync
    CertifiedChains
    CommitsInOrder
CHECK_DEADLOCK FALSE
