SPECIFICATION Spec
CONSTANTS
    file = file
    episode = episode
    station = station
    NoMedia = none
    Media = {file, episode, station}
    Podcasts = {episode}
    Stations = {station}
    StoredSets <- TwoLists
    Plans <- AllPlans
    MaxPending = 2
    MaxPos = 1
INVARIANTS
    CheckpointsWereHeard PendingIsOwed SessionAgrees RestAgrees FinalCheckpoint
PROPERTIES
    EndsAreHeeded
\* The front end finishes its shutdown.
CHECK_DEADLOCK FALSE
