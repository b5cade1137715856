SPECIFICATION FairSpec
CONSTANTS
    client1 = client1
    manager1 = manager1
    stdout = stdout
    Conns = {client1, manager1}
    Sandstorm = {manager1}
    Sinks = {stdout}
    Buffer = 1
    MetricsCap = 1
    CounterMod = 4
    OverflowChecks = TRUE
    MaxEvents = 2
    None = None
INVARIANT MetricsTrue
INVARIANT AnswersFresh
INVARIANT SinksTrue
INVARIANT LogComplete
PROPERTY JoinReturns
CHECK_DEADLOCK FALSE
