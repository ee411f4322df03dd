\* One producer, as in the program: PlayerRuntime owns the only WriterHandle.
SPECIFICATION StateFileSpec
CONSTANTS
    Producers = {runtime}
    MaxSeq = 3
    Window = 1
    AsideNames = {1, 2}
    Directories <- AnyDirectory
INVARIANTS
    NewestAlive WrittenMeansSaved CoalesceBound
    FileSurvives FlushIsTrue
PROPERTIES
    RegisterSpec EventuallyOnDisk
\* The writer ends with the session.
CHECK_DEADLOCK FALSE
