CONSTANTS
    MaxMsg = 2
    Devices = {d1}
    Limit = 1
    RoomMaxLen = 9
    TicksPerMs = 1
    Skews = {0}
    MaxSkew = 0
    MaxTime = 2
    MaxSyncs = 3
    MaxFaults = 0
SPECIFICATION Spec
INVARIANT CursorCoversOnlySeen
CHECK_DEADLOCK FALSE
