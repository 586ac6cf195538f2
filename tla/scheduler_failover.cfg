\* A node dies for good and the leader fails over.
CONSTANTS
    None = None
    Node = {1, 2, 3}
    ShardCount = 1
    ReplicationFactor = 2
    Domain <- MCDomain
    Location <- MCLocation
    InitialTarget = 3
    Targets = {2}
    Policies <- MCPolicies
    InitialHosts <- MCHosts
    MaxLog = 2
    MaxEvents = 2
SPECIFICATION FairSpec
PROPERTIES
    FailuresReconcile
