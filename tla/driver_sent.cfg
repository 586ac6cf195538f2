\* A drain with nothing to persist overtakes one that is persisting.
CONSTANTS
    Thread = {t1, t2}
    None = None
    Recovered <- FreshMember
    NoOps = {1}
    MaxIndex = 1
    MaxTerm = 1
    MaxVersion = 2
    CompactThreshold = 9
SPECIFICATION Spec
SYMMETRY Symmetry
CHECK_DEADLOCK FALSE
INVARIANT
    SentIsDurable
