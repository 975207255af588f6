CONSTANTS
    Keys <- MCKeys
    MaxKeys = 4
    COLUMNS = 4
    ROWS = 7
    TAB = 2
    MAX_INPUT = 4
    MAX_TEXT = 2
    Before <- MCBefore
SPECIFICATION FairSpec
INVARIANTS
    BufferShown
PROPERTIES
    ReadsWhatWasTyped
    KeyTaken
    StoresInside
