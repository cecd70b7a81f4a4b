SPECIFICATION FairSpec
CONSTANTS
    Users = {a, b}
    Passwords = {p, q}
    Tabs = {t1, t2}
    Files = {f, big}
    BigFiles = {big}
    Tokens = {1, 2}
    Nobody = Nobody
    MaxNet = 2
    a = a
    b = b
    p = p
    q = q
    big = big
    t1 = t1
    t2 = t2
    Scenarios <- MCScenarios
INVARIANTS TypeOK OneIdentity RegisteredCanLogIn TableFresh
PROPERTIES UploadsAreAsked TabSettles PicksEnd
CHECK_DEADLOCK FALSE
