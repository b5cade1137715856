SPECIFICATION FairSpec
CONSTANTS
    c1 = c1
    c2 = c2
    a = a
    b = b
    z = z
    Connections = {c1}
    Plans <- MCStreamPlans
    Addresses = {a, b, z}
    BadAddresses = {z}
    InitialSockets <- MCInitialSockets
    MessageCap = 1
    MetricsCap = 1
    ResponseCap = 1
    ReceiverCap = 1
    Logging = TRUE
    EventCap = 1
    MaxRequests = 2
    NoAddress = NoAddress
PROPERTY EndsAfterEof
CHECK_DEADLOCK FALSE
