SPECIFICATION FairSpec
CONSTANTS
    m1 = m1
    m2 = m2
    u1 = u1
    u2 = u2
    Managers = {m1, m2}
    Usernames = {u1, u2}
    UnprintableNames = {u2}
    Passwords = {"p"}
    NumShards = 2
    ShardOf <- MCShardOf
    NoUser = NoUser
    None = None
    Unlocked = Unlocked
    MaxRequests = 2
INVARIANT SaveTrue
PROPERTY ImplementsRegistry
PROPERTY EveryoneReturns
INVARIANT CountAccounting
INVARIANT AdminRemains
PROPERTY RefusalExplained
CHECK_DEADLOCK FALSE
