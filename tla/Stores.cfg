\* Writes may fail and the process may die at any step; no database, a reliable one, and one that comes and goes.
CONSTANTS
    u1 = u1
    u2 = u2
    u3 = u3
    Url <- ThreeUrls
    DiskMayFail = TRUE
    ReadMayFail = FALSE
    NoCopy = NoCopy
    Databases = {"none", "reliable", "failing"}
    MaxChecks = 5
    c1 = c1
    c2 = c2
    c3 = c3
    c4 = c4
    Chain <- FourChains
    ChainOrder <- InOrder
    Mute <- OnlySecond
    Listings <- AllOrAllButOne
    Lives = {"reloads", "database", "files"}
    LifeJobs = 4
    Watched = c4
    L2Beat = L2Beat
    NoJob = NoJob
    Session = {s1, s2, s3}
    Request = {r1, r2}
    Timer = Timer
    MaxSessions = 1
    MaxSpent = 1
    MaxRequests = 2
SPECIFICATION StoresSpec
INVARIANTS
    LastWriteHoldsAll
    HealthRemembered
    OvertakenTwiceAtMost
PROPERTIES
    DurableSpec
    SessionsAreFair
    WhatIsDueHappens
