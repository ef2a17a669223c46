CONSTANTS
    None = None
    BlkSize = 2
    Sessions = {1, 2}
    Upper <- FalUpper
    NameOrder <- FalNameOrder
    TmpName <- FalTmpName
    FalConfs <- FalAll
    Messages <- AllMessages
    Deltas <- AllDeltas
    QueueLimit = 2
    Links = {1, 2}
    Window = 1
    Catalogue <- EventCatalogue
    EventConfs <- EventAll
    Ids = {1, 2, 3, 9}
    NodeSelf = 9
    Inodes = {1, 2, 3}
    NameConfs <- NameAll
    Stations = {"s", "t"}
    MopSelf = "us"
    Receipts = {0, 1, 2, 3, 4}
    Jobs = {1, 2}
    MopConfs <- MopAll
    Timeout = 2
    Pause = 1
SPECIFICATION ServicesSpec
INVARIANTS TransfersTrue TreeKept MeaningKept DamageSeen EventsAccounted NamesSound MopAnswers
PROPERTIES OnlyWholeFilesAppear LearnedFillsGaps ServicesSettle
\* A service whose users have left does nothing more.
CHECK_DEADLOCK FALSE
