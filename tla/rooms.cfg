SPECIFICATION Spec
CONSTANTS
    u1 = u1
    u2 = u2
    u3 = u3
    create = create
    join = join
    memberjoin = memberjoin
    check = check
    Users = {u1, u2, u3}
    Calls <- MCCalls
    Op <- MCOp
    FaultKinds = {"cache", "primary", "crash", "loss"}
    MaxFaults = 1
CHECK_DEADLOCK FALSE
INVARIANTS
    CacheIsFaithful
PROPERTIES
    OwnerlessRoomIsFrozen
