SPECIFICATION FairSpec
CONSTANTS
    Files = {f1, f2, f3}
    Users = {u1, u2}
    Workers = {w1}
    Refresher = refresher
    Scenarios <- MCScenarios
    NoRow = NoRow
    NoAnswer = NoAnswer
    NoFile = NoFile
    MaxRows = 2
    MaxPv = 1
INVARIANTS
    TypeOK
    OneSharer
    NoGhost
    RankedHaveNames
    ScoreNotAhead
PROPERTIES
    RankingComesBack
