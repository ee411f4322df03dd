SPECIFICATION ProcessSpec
CONSTANTS
    \* PlaybackEngine
    Media = {"local", "episode", "station"}
    Commands = {"Load", "PlayLoaded", "Play", "Pause", "Toggle", "Seek", "Restart", "Stop", "Shutdown"}
    QueueCap = 2
    MaxSubmits = 4
    MaxLoads = 2
    DeviceFails = TRUE
    \* Lifecycle
    Numbers = {2}
    Joined = {"engine"}
    Detached = {"background"}
    MaxPanics = 2
    MaxSignals = 1
    MaxToggles = 1
INVARIANTS
    LoadAnsweredOnce RecoveryIsScheduled NothingLeftOpen CancelledByARequest
    LeavesAsFound
PROPERTIES
    IntentKept
\* The worker is joined and the run ends.
CHECK_DEADLOCK FALSE
