\* A profile with an open drawer, and a list that arrives.
CONSTANTS
    k1 = k1
    k2 = k2
    c1 = c1
    c2 = c2
    g1 = g1
    r1 = r1
    r2 = r2
    Key <- TwoKeys
    Client <- TwoClients
    Grant <- OneGrant
    Request <- TwoRequests
    MaxClients = 1
    None = None
    n1 = n1
    n2 = n2
    Network = {n1, n2}
    Software = {x1}
    InList = {n1, n2}
    KeptList = {TRUE, FALSE}
    MaxOpenings = 3
    MaxHistory = 2
    Endpoint = {1, 2, 3, 4, 5}
    Verdict <- FiveVerdicts
    NeedsKey = {4}
    Skipped = {4}
    RoundTrip <- FiveRoundTrips
    AtATime = 2
    WantWorking = 2
    BatchSize = 1
    RowsShown = 2
    MaxLists = 2
    KeptMessages = 3
    MaxMisses = 2
    MaxPolls = 4
    MaxQuestions = 3
    MaxLooks = 2
    TimelineEvents <- Events
    WindowEvents <- WindowsOfThem
    Sought = {n1}
    DayLength = 20
    RangeDays = {0, 1, 7}
    Tabs = {"all", "upcoming", "done"}
    ChartHistory = 50
    MomentStep = 10
    FirstMoment = 100
    LastMoment = 140
    Query = {"all", "none"}
    BadRange = {"none"}
    FirstQuery = "all"
    Filterable = {n1, n2}
    RefreshMs = 1
    MaxHours = 2
    ReleaseAnswer <- FreshAndStale
    TableList <- TwoLists
    Incident <- TwoIncidents
    Word = {"b"}
    Sortable = {"chainId", "tvs", "incident"}
    PageSize = 1
    MaxTableClicks = 4
    MaxArrivals = 3
    GraphList <- TwoGraphs
    Troubled <- NoneOrTwo
    AllSources = {"x", "y"}
    Kind = {"l2", "test"}
    MaxLoads = 1
    MaxPresses = 4
    MaxChanges = 3
    Article <- TwoStories
    StoryClass = {"market"}
    Retries = 1
    Fresh = 1
    MaxFrames = 3
    MaxCloses = 2
    Parts = {"drawer"}
SPECIFICATION ClientsSpec
PROPERTY BulkKeepsDrawer
