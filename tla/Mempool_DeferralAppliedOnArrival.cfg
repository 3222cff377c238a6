SPECIFICATION Spec
CONSTANTS
    Originals = {1, 2}
    MaxAttempts = 1
    MaxRetries = 1
    Tags = {1}
    Nodes = {"a", "b"}
    DeclaredBy <- SharedNode
    Hash <- AttemptFirst
    MaxBlocks = 3
    MaxBlockItems = 2
    MaxFaults = 1
    None = None
INVARIANTS
    DeferralAppliedOnArrival
\* The bound MaxBlocks ends every behaviour.
CHECK_DEADLOCK FALSE
