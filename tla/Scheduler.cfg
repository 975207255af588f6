CONSTANTS
    MaxTid = 3
    NumPages = 3
    IdleTicks = 1
    ActiveTicks = 2
SPECIFICATION FairSpec
INVARIANTS
    ForkCopiesCreator
    WaitedNodeListed
    StacksDisjoint
PROPERTIES
    NoSwitchToDead
    Progress
    ShellResumes
