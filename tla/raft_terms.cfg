\* A deposed leader, or one that lost its quorum, can lead again; no compaction.
CONSTANTS
    Member = {m1, m2, m3}
    Command = {}
    None = None
    MaxTerm = 3
    MaxInFlight = 2
    Budget <- MCBudget
    CompactThreshold = 9
    Timeouts = 2
    Heartbeats = 0
    Checks = 1
    Restarts = 1
    MaxSpent = 3
SPECIFICATION ElectedSpec
SYMMETRY Symmetry
CHECK_DEADLOCK FALSE
INVARIANTS
    TypeOK
    ElectionSafety
    MatchIndexTruthful
    CommittedOnQuorum
    LogMatching
    LeaderCompleteness
PROPERTIES
    VoteIsFinal
