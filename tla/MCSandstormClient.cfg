SPECIFICATION Spec
CONSTANTS
    Commands = {"List", "Meow"}
    ClassOf <- MCClassOf
    Modes = {"requests", "logs", "interactive"}
    Tasks = {"t1", "t2"}
    MaxScript = 2
    MaxRequests = 3
    MaxEvents = 2
    ChannelCap = 1
INVARIANTS
    ClientInv
    FlushReturnsAnswered
    EventsAllShown
PROPERTIES
    EndsAsReported
    EveryoneReturns
