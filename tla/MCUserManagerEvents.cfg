SPECIFICATION Spec
CONSTANTS
    m1 = m1
    m2 = m2
    u1 = u1
    u2 = u2
    Managers = {m1, m2}
    Usernames = {u1, u2}
    UnprintableNames = {}
    Passwords = {"p"}
    NumShards = 2
    ShardOf <- MCShardOf
    NoUser = NoUser
    None = None
    Unlocked = Unlocked
    MaxRequests = 3
INVARIANT EventsTellUsers
CHECK_DEADLOCK FALSE
