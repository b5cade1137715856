CONSTANTS
    bob = bob
    Bob = Bob
    v6 = v6
    v4 = v4
    Kinds = {"users", "sockets", "methods", "buffer"}
    Names = {bob, Bob}
    Addresses = {v6, v4}
    Sizes = {1, 2}
    Order <- MCOrder
    Filters <- MCFilters
    StartUsers <- MCStartUsers
    ChannelCap = 1
    WatchCap = 1
    MaxOther <- MCMaxOther
    MaxSubmits = 1
    MaxOpens = 1
    None = None
SPECIFICATION Spec
INVARIANTS
    ListInv
    NothingInvented
    CopyTrue
PROPERTIES
    WaitsEnd
CHECK_DEADLOCK FALSE
