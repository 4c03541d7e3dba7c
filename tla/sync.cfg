CONSTANTS
    MaxMsg = 2
    Devices = {d1, d2}
    Limit = 2
    RoomMaxLen = 2
    TicksPerMs = 2
    Skews <- MCSkews
    MaxSkew = 1
    MaxTime = 4
    MaxSyncs = 2
    MaxFaults = 1
SPECIFICATION Spec
SYMMETRY DeviceSymmetry
INVARIANTS GapOnlyWhileBackfilling EmptySyncMeansCaughtUp ReplayOnlyWithinSkew
CHECK_DEADLOCK FALSE
