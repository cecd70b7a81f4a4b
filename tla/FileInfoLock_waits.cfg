SPECIFICATION FairSpec
CONSTANTS
    Threads = {t1, t2, t3, t4}
    Controls = {"stop", "reset"}
INVARIANTS
    LockInv
PROPERTIES
    ImplementsTimedLock
    EveryCallReturns
