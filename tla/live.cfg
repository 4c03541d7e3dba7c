CONSTANTS
    u1 = u1
    u2 = u2
    c1 = c1
    c2 = c2
    Users = {u1, u2}
    Clients = {c1, c2}
    UserOf <- MCUserOf
    MaxEvents = 3
    Sender <- MCSender
    EventMaxLen = 1
    QueueCap = 1
    Buffer = 1
    Batch = 2
    MaxReplies = 1
    MaxFaults = 1
SPECIFICATION Spec
INVARIANTS SendOnOpenQueue NoSilentLoss StreamIsFollowed EveryMemberServed NothingLeftUndone
PROPERTIES StepsRunOut
SYMMETRY SocketSymmetry
CHECK_DEADLOCK FALSE
