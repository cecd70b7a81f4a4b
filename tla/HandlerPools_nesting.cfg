SPECIFICATION FairHandlersSpec
CONSTANTS
    Workers = {w1, w2}
    Background = bg
    Web = web
    SlaveMax = 3
    MasterMax = 1
    TokenMax = 1
    RankingMax = 1
INVARIANTS
    NotStuck
PROPERTIES
    AllFinish
