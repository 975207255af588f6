CONSTANTS
    Name = {"a", "b"}
    BLOCKS = 4
    DIR_ENTRIES_PER_PART = 2
    FILE_DATA_PER_PART = 2
    BUFFER = 3
    MAX_WRITE = 5
    TargetType = {"dir", "file"}
    WithHost = TRUE
SPECIFICATION Spec
CHECK_DEADLOCK FALSE
INVARIANTS
    VolumeSound
    FilesRead
PROPERTIES
    LeaksOnlyBelow
    WritesAll
    TreeSpec
