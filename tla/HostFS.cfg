CONSTANTS
    Name = {a, b}
    BLOCKS = 3
    DIR_ENTRIES_PER_PART = 2
    FILE_DATA_PER_PART = 2
    BUFFER = 3
    MAX_WRITE = 4
    TargetType = {"dir", "file"}
    WithHost = FALSE
SPECIFICATION SharedSpec
CHECK_DEADLOCK FALSE
INVARIANTS
    VolumeSound
    BothRead
    HostWrites
SYMMETRY Names
