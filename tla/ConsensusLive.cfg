SPECIFICATION StableSpec
CONSTANTS
    N = 4
    Stake <- StakeEqual
    Payloads = {"tx"}
    Live = {0, 1, 2}
    MaxHeight = 4
    MaxView = 3
INVARIANTS
    CommitsInOrder
PROPERTY
    EventuallyCommitted
CHECK_DEADLOCK FALSE
