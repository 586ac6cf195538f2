\* Every drain with two live entries compacts; a heartbeat and a restart.
CONSTANTS
    Member = {m1, m2, m3}
    Command = {c1}
    None = None
    MaxTerm = 2
    MaxInFlight = 2
    Budget <- MCBudget
    CompactThreshold = 2
    Timeouts = 1
    Heartbeats = 1
    Checks = 0
    Restarts = 1
    MaxSpent = 2
SPECIFICATION CommittedSpec
SYMMETRY Symmetry
CHECK_DEADLOCK FALSE
INVARIANTS
    StateMachineSafety
    SentWellFormed
    Recoverable
PROPERTY
    ImplementsLog
