SPECIFICATION FairSpec
CONSTANTS
    c1 = c1
    c2 = c2
    a = a
    b = b
    z = z
    Connections = {c1, c2}
    Plans <- MCPlans
    Addresses = {a, b, z}
    BadAddresses = {z}
    InitialSockets <- MCInitialSockets
    MessageCap = 1
    MetricsCap = 1
    ResponseCap = 1
    ReceiverCap = 1
    Logging = TRUE
    EventCap = 1
    MaxRequests = 3
    NoAddress = NoAddress
INVARIANT ServerInv
INVARIANT SocketsTold
PROPERTY ImplementsPipeline
PROPERTY AllAnswered
PROPERTY ConnectionsEnd
CHECK_DEADLOCK FALSE
