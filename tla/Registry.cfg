\* Refreshes, reloads, start-ups and crashes in any order, with upstreams that come and go:
\* two registries and SLIP-0044, which holds no chains; one chain with results; two crashes,
\* so that a start-up from a snapshot can itself be cut short.
CONSTANTS
    Source = {theGraph, chainlist, slip44}
    Registries = {theGraph, chainlist}
    Chain = {c1}
    DiskMayFail = TRUE
    MaxCrashes = 2
    NoRefresh = NoRefresh
    NoSnapshot = NoSnapshot
SPECIFICATION FairSpec
INVARIANTS
    AlwaysARegistry
PROPERTIES
    BackgroundDropsNothing
    HealthKept
    RegistryRecovers
