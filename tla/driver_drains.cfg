\* Racing drains of a recovered member under fair scheduling: proposals, a change of
\* term, restores, compaction.
CONSTANTS
    Thread = {t1, t2}
    None = None
    Recovered <- OneCommitted
    NoOps = {1}
    MaxIndex = 3
    MaxTerm = 2
    MaxVersion = 5
    CompactThreshold = 2
SPECIFICATION FairSpec
CHECK_DEADLOCK FALSE
INVARIANTS
    AppliedInOrder
    OwnChangeDurable
    AckedIsCommitted
PROPERTIES
    DiskNeverRegresses
    DrainTerminates
