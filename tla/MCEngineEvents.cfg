SPECIFICATION SidesSpec
CONSTANTS
    \* PlaybackEngine
    Media = {"episode", "fixed"}
    Commands = {"Load", "PlayLoaded", "Play", "Seek", "Stop", "Shutdown"}
    QueueCap = 2
    MaxSubmits = 3
    MaxLoads = 2
    DeviceFails = FALSE
    \* EventOutbox
    Capacity = 2
    Reserved = 1
    PendingCap = 4
    FaultBudget = 2
    MaxStimuli = 3
INVARIANTS
    LimitsKept
PROPERTIES
    RequestsConclude DeliversInOrder BacklogClears
\* The listener may ask for nothing more, and the worker may be gone.
CHECK_DEADLOCK FALSE
