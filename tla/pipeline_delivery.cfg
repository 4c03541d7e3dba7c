SPECIFICATION LiveSpec
CONSTANTS
    r1 = r1
    r2 = r2
    r3 = r3
    w1 = w1
    w2 = w2
    k1 = k1
    k2 = k2
    room = room
    None = None
    Requests <- MCPair
    Keys <- MCKeys
    KeyOf <- MCPairKeyOf
    Rooms <- MCRooms
    RoomOf <- MCPairRoomOf
    ReplyTo <- MCPairReplyTo
    Relays = {w1, w2}
    Backlog = {r1}
    EnqueueAccepted = TRUE
    FaultKinds = {"postgres", "valkey", "crash"}
    MaxFaults = 2
    MaxOverruns = 1
    BatchSize = 2
PROPERTIES
    DeliverySpec
    StoredIsDeliveredOrReported
