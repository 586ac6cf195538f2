\* Every crash point of every save: two terms, two log indices.
CONSTANTS
    Member = {a, b}
    None = None
    MaxTerm = 2
    MaxIndex = 2
SPECIFICATION Spec
CHECK_DEADLOCK FALSE
INVARIANTS
    DiskCommitCovered
    SavedCommitSurvives
    EngineStateIsValid
PROPERTIES
    SavedVoteIsFinal
    DiskOnlyAdvances
