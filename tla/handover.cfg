\* Two leaders, two generations, a restart; delayed and repeated deliveries.
CONSTANTS
    Brain = {b1, b2}
    n1 = n1
    n2 = n2
    s1 = s1
    s2 = s2
    Node = {n1}
    Elsewhere = {n2}
    Shard = {s1, s2}
    Layout <- MCLayouts
    None = None
    MaxGeneration = 2
    MaxFaults = 1
SPECIFICATION FairSpec
INVARIANTS
    TypeOK
    WritesFollowPlacement
    FencesAreCommitted
PROPERTIES
    NoPartialActivation
    ImplementsAuthority
    EventuallyServes
