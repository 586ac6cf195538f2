SPECIFICATION FairSpec
CONSTANTS
    Brain = {b1, b2}
    r1 = r1
    r2 = r2
    Req = {r1, r2}
    Workloads <- MCWorkloads
    None = None
    MaxElections = 1
    MaxFaults = 1
    MaxAssignments = 1
INVARIANTS TypeOK ProposedTwiceAtMost AckedPlanCommitted CurrentGenerationCurrentMap NewestReportKept
PROPERTY EventuallyAnswered
CHECK_DEADLOCK FALSE
