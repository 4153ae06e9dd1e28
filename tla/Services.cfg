\* One part at a time, in every order of its own steps.
CONSTANTS
    Coin = {i1, i2}
    Caller = {p, q, r}
    NoEntry = NoEntry
    Nobody = Nobody
    Job = {j1, j2, j3}
    MaxConcurrentJobs = 2
    Providers = 2
    Budget = 60000
    GuardCap = 15000
    AttemptCap = 60000
    ToolTime = 40000
    MaxIterations = 3
    MaxStrikes = 2
    MaxToolCalls = 2
    Schedule <- WithAndWithoutNext
    Name = {"n", "m"}
    Asker = {"p", "q"}
    MaxUrls = 2
    RefreshAfter = 1
    RetryAfter = 1
    MaxClock = 1
    MaxSnapshots = 1
    File = {"fundamentals", "landing"}
    Landing = {"landing"}
    Publication <- GapsAndRepeats
    Fallback <- FundamentalsAlone
    MaxAge <- OneAndTwo
    FileRetryAfter = 1
    SeriesDays = 4
    Week = 2
    MaxDays = 6
    Explored = {"a", "b"}
    Candidates <- TwoAndOneOfThem
    CacheTtl = 2
    InstanceTtl = 3
    Interval = 2
    ParkFor = 2
    MaxHours = 5
    Feed = {"a", "b", "c"}
    Size <- OneToThree
    MaxKeys = 2
    MaxBytes = 3
    FeedTtl = 1
    MaxReads = 2
    MaxMinutes = 3
    ChainList <- Namesakes
    Query <- WithAndWithoutNumber
    MaxMilliseconds = 2
    MaxChanges = 4
    Listings <- ThreeChainsOrTwo
    Concurrency = 2
    MaxPerChain = 2
    Loops = {TRUE, FALSE}
    MaxCycles = 2
    Url = {1, 2, 3}
    Height = {1, 9}
    Drift = 5
    DeadAfter = 2
    MaxEndpoints = 2
    Record <- BothOneOrNeither
    MaxToday = 3
    MaxLoads = 2
SPECIFICATION ServicesSpec
INVARIANTS
    OneRequestPerCoin
    AnswersAreGiven
    NothingStaleIsServed
    PaceHolds
    ReportsAreSound
    VerdictsAreOfNow
PROPERTIES
    FailureKeepsQuotes
    WhatIsKnownStays
