SPECIFICATION HttpSpec
CONSTANTS
    Sizes <- EvenSizes
    ChannelCap = 1
    ChunkCap = 1
    MaxGen = 3
    MaxControls = 1
\* The source may be dropped, and the bounded inputs used up.
CHECK_DEADLOCK FALSE
INVARIANT CompleteIsWhole
