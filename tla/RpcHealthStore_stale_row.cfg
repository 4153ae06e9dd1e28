\* The database misses a change and comes back.
CONSTANTS
    NoCopy = NoCopy
    Databases = {"failing"}
    DiskMayFail = FALSE
    MaxChecks = 5
SPECIFICATION Spec
INVARIANT RowIsAsFreshAsItSays
