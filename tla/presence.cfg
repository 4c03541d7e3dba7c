SPECIFICATION Spec
CONSTANTS
    c1 = c1
    c2 = c2
    d1 = d1
    d2 = d2
    Conns = {c1, c2}
    Devices = {d1, d2}
    Pairings <- MCPairings
    TTL = 3
    MaxFaults = 1
INVARIANTS AnnouncedIsReached
PROPERTIES OnlineAgain OfflineInTheEnd
