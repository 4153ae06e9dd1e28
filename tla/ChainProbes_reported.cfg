\* A probe sent by a request overlaps the one that finds a URL private.
CONSTANTS
    Chain = {1, 2}
    Url = {"a1", "a2", "b1"}
    Provider = {"A", "B"}
    ProviderOf <- Providers
    Registries <- FullOrReduced
    Demands = {{1}}
    Stamps = {s1, s2, s3, s4}
    Tick = Tick
    Idle = Idle
SPECIFICATION Spec
SYMMETRY StampSymmetry
INVARIANT PrivateUnreported
