CONSTANTS
    Threads = {1, 2}
    Uses <- MCApart
    DATA = 1
    NTD = 6
    Devices <- MCDisk
    Junk <- MCJunk
    MaxFaults = 0
SPECIFICATION ReadySpec
INVARIANT
    TransferRight
CHECK_DEADLOCK FALSE
