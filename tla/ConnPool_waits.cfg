SPECIFICATION FairSpec
CONSTANTS
    Threads = {t1, t2, t3, t4}
    NoConn = NoConn
    Min = 1
    Max = 2
    Waits = {"forever", "timed"}
    ServerFails = TRUE
INVARIANTS
    CountInv
PROPERTIES
    ImplementsBoundedPool
    QueueDrains
