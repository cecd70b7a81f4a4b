SPECIFICATION FairSpec
CONSTANTS
    Workers = {w1, w2}
    Conns = {c1, c2}
    NoConn = NoConn
    MaxSegs = 2
    w1 = w1
    w2 = w2
    c1 = c1
    c2 = c2
    Scenarios <- MCScenarios
INVARIANTS NoTaskForgotten HandledOnce AliveWhenUsed
PROPERTIES Answered ClosedAreDestroyed
CHECK_DEADLOCK FALSE
