CONSTANTS
    SpanCap = 1
    PcmCap = 1
    Gens = 2
    Frames = 3
    MaxEpoch = 5
    MaxOpens = 1
SPECIFICATION Spec
CHECK_DEADLOCK FALSE
PROPERTY NeverBack
