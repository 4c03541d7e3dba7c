CONSTANTS
    u1 = u1
    u2 = u2
    c1 = c1
    c2 = c2
    Users = {u1, u2}
    Clients = {c1, c2}
    UserOf <- MCUserOf
    MaxEvents = 1
    Sender <- MCSender
    EventMaxLen = 1
    QueueCap = 1
    Buffer = 1
    Batch = 1
    MaxReplies = 2
    MaxFaults = 1
SPECIFICATION FairSpec
PROPERTIES ConnectionsSettle
CHECK_DEADLOCK FALSE
