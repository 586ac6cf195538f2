\* Any two of: a drain, a larger scale plan, a death, a time-out, wrong verdicts,
\* a change of leader, another leader's placement, a heartbeat without a body.
CONSTANTS
    None = None
    Node = {1, 2, 3}
    ShardCount = 1
    ReplicationFactor = 2
    Domain <- MCDomain
    Location <- MCLocation
    InitialTarget = 2
    Targets = {3}
    Policies = {}
    InitialHosts <- MCHosts
    MaxLog = 2
    MaxEvents = 2
SPECIFICATION Spec
INVARIANTS
    TypeOK
    WellPlaced
PROPERTIES
    NeverShrinks
    OnlyKnownReplicasMove
    NoAssignedNodeForgotten
