\* A crash between two writes of a save, with the old meta file in place.
CONSTANTS
    Member = {a, b}
    None = None
    MaxTerm = 2
    MaxIndex = 2
SPECIFICATION Spec
CHECK_DEADLOCK FALSE
INVARIANT
    BootableMidSave
