CONSTANTS
    COLUMNS = 4
    ROWS = 6
    TAB = 2
    Threads = {t1}
    Title <- MCTitle
    Rule <- MCRule
    Times <- MCTimes
    PutsAtArgs <- MCPutsAtArgs
    PutsArgs <- MCPutsArgs
    PutcArgs <- MCPutcArgs
SPECIFICATION Spec
INVARIANTS
    AsIfAlone
    StaysInside
    CursorOffOnlyTorn
