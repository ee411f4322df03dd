SPECIFICATION Spec
CONSTANTS
    file = file
    episode = episode
    station = station
    NoMedia = none
    Media = {file, episode, station}
    Podcasts = {episode}
    Stations = {station}
    StoredSets <- TwoLists
    Plans <- LoadsOnly
    MaxPending = 2
    MaxPos = 1
INVARIANTS EstimatesStayEstimates
CHECK_DEADLOCK FALSE
