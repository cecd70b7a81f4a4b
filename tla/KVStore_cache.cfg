SPECIFICATION FairSpec
CONSTANTS
    Keys = {k1, k2, k3}
    Values = {list}
    NoTask = NoTask
    Capacity = 2
    TTL = 1
    MaxTime = 2
    MaxQueue = 1
INVARIANTS
    OrderMatchesStore
    StartsUp
PROPERTIES
    ImplementsLRUCache
    TasksRun
