CONSTANTS
    Threads = {1}
    Uses <- MCOne
    DATA = 2
    NTD = 4
    Devices <- MCDevices
    Junk <- MCJunk
    MaxFaults = 1
SPECIFICATION FairSpec
INVARIANTS
    TransferRight
    PipesRight
    EndpointsRight
    PollsRight
PROPERTIES
    TransferEnds
CHECK_DEADLOCK FALSE
