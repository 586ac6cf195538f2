\* A drain with nothing to apply compacts before another has applied.
CONSTANTS
    Thread = {t1, t2}
    None = None
    Recovered <- TwoPending
    NoOps = {1}
    MaxIndex = 2
    MaxTerm = 1
    MaxVersion = 3
    CompactThreshold = 2
SPECIFICATION Spec
SYMMETRY Symmetry
CHECK_DEADLOCK FALSE
INVARIANT
    SnapshotHoldsBase
