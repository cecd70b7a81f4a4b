SPECIFICATION FairSpec
CONSTANTS
    Files = {f1, f2}
    Users = {u1, u2}
    Workers = {w1}
    Refresher = refresher
    Scenarios <- Warm
    NoRow = NoRow
    NoAnswer = NoAnswer
    NoFile = NoFile
    MaxRows = 2
    MaxPv = 2
PROPERTIES
    CountsAreCompared
