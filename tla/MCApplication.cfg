SPECIFICATION AppSpec
CONSTANTS
    \* Library
    u = u
    v = v
    first = first
    second = second
    third = third
    NoOne = NoOne
    NoUrl = NoUrl
    NoSlug = NoSlug
    Shells = {cli}
    Players = {player}
    FeedIds = {first, second, third}
    Urls = {u, v}
    Titles = {"news"}
    MaxOps = 3
    MaxDiskFaults = 1
    Lists <- SomeLists
    \* Browser
    Slugs = {"s", "t"}
    MaxRequests = 5
    \* SeekBurst
    SeekTop = 2
    SeekQueueCap = 2
    MaxKeys = 3
    \* Covers
    CoverMedia = {"a", "b"}
    Versions = {"old", "new"}
    MaxChanges = 4
    \* Enrichment
    Files = {"f", "g", "h"}
    Threads = {"t1", "t2"}
    ListCap = 2
    ResultCap = 1
    MaxListEdits = 3
    \* PlaylistStore
    EntryMedia = {"a", "b"}
    Elsewhere = "c"
    MaxId = 4
    MaxLists = 2
    EntryCap = 3
    PointCap = 2
    MaxEdits = 2
    MaxDamage = 1
    \* MediaControls
    Tracks = {"a", "b"}
    Images = {"i", "j"}
    TopVolume = 1
    RequestBacklog = 1
    MaxDesk = 3
    \* HttpSource
    Sizes <- GrowingSizes
    ChannelCap = 1
    ChunkCap = 1
    MaxGen = 3
    MaxControls = 1
INVARIANTS
    NoLostCommit EveryFeedHasItsCache ReportIsTrue
    ShownIsMeant HoldIsOwed CoverIsOfPlaying EveryFileIsProbed
    SetStands CurrentIsRemembered
    DesktopShowsThePlayer
    BytesAreThose CompleteIsPromised
\* Nothing more happens once the bounded inputs are used up.
CHECK_DEADLOCK FALSE
