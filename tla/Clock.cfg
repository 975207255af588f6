CONSTANTS
    TICKS = 4
    SECS = 2
    MINS = 2
    DAY = 2
    WORD = 6
    MaxWait = 2
    MaxAway = 2
SPECIFICATION FairSpec
INVARIANTS
    ShowsTime
    EarlyOnlyTorn
PROPERTIES
    WaitEnds
