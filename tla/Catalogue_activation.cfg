CONSTANTS
    None = None
    MinHintSample = 1
    Registries <- AllRegistries
    Batches <- AllBatches
    ArchiveItem <- FiveItems
    PageLength = 2
    PagesRead = 2
    Revision <- ThreePosts
    PostsReplayed = 2
    MaxPosts = 2
    Event <- FourEvents
    Frame <- OneFrame
    Replay = 2
    Backfill = 2
    Transitions = 2
    Retries = 1
    Time = 40
    HaltSource = {"explorer", "x", "y"}
    Explorer = "explorer"
    Averages = {1}
    AnswerWithin = 1
    Multiplier = 3
    Least = 2
    Lookback = 2
    HaltTime = 5
    LiveUpdate <- SixUpdates
    Search <- Found
    MaxAmbiguity = 2
    MinProviders = 2
    CacheTtl = 1
    LiveTime = 2
    Parts = {"forks"}
SPECIFICATION CatalogueSpec
INVARIANT OneActivationOneFork
