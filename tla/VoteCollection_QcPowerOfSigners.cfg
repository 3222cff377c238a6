SPECIFICATION Spec
CONSTANTS
    v1 = v1
    v2 = v2
    v3 = v3
    v4 = v4
    b0 = b0
    b1 = b1
    None = None
    Validators = {v1, v2, v3, v4}
    Self = v2
    Power <- PowerEqual
    Blocks = {b0}
    Round <- OneRound
    MaxView = 0
    MaxBad = 1
INVARIANT
    QcPowerOfSigners
CHECK_DEADLOCK FALSE
