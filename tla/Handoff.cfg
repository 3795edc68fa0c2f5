\* The system rests when all connections are used up.
SPECIFICATION FairSpec
CONSTANTS
    a1 = a1
    a2 = a2
    ra = ra
    Clients = {a1, a2}
    Requests = {ra}
    RequestOf <- MCRequestOf
    UidOf <- MCUidOf
    Slots = 2
    MaxConnections = 4
    MaxFaults = 2
    NoUid = 0
INVARIANTS
    OutputNeverLost
PROPERTIES
    CallersAreAnswered
CHECK_DEADLOCK FALSE
