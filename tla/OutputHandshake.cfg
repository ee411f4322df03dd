CONSTANTS
    SpanCap = 1
    PcmCap = 1
    Gens = 2
    Frames = 3
    MaxEpoch = 5
    MaxOpens = 1
SPECIFICATION Spec
INVARIANTS
    ParkedIsStill HeardIsCurrent ParkLosesNothing NotAheadOfHeard
PROPERTIES
    HandshakesEnd
CHECK_DEADLOCK FALSE
