CONSTANTS
    Name = {"a", "b"}
    BLOCKS = 6
    DIR_ENTRIES_PER_PART = 3
    FILE_DATA_PER_PART = 2
    BUFFER = 3
    MAX_WRITE = 1
    TargetType = {"dir", "file"}
    WithHost = FALSE
SPECIFICATION Spec
CHECK_DEADLOCK FALSE
INVARIANTS
    BootIntact
