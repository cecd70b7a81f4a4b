SPECIFICATION FairSpec
CONSTANTS
    Workers = {w1, w2}
    Visitors = {v1, v2}
    Pics = {p1, p2}
    Keys = {k1, k2}
    NoKey = NoKey
    NoUrl = NoUrl
    NotFound = NotFound
    Junk = Junk
    Mute = Mute
    Gone = Gone
    Unsent = Unsent
    Nobody = Nobody
    Scenarios <- All
    MaxViews = 2
INVARIANTS
    ShortUrlsWork
    ViewsCounted
PROPERTIES
    ImplementsLinkMap
    EverybodyAnswered
CHECK_DEADLOCK FALSE
