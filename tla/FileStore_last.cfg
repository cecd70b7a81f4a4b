SPECIFICATION Spec
CONSTANTS
    Users = {u1}
    Md5s = {m1}
    Names = {n1}
    Workers = {w1}
    NoWorker = NoWorker
    NoRow = NoRow
    NoReq = NoReq
    NoObj = NoObj
    Scenarios <- Deletions
    MaxRows = 3
    MaxObjs = 4
    MaxCount = 4
PROPERTIES LastDeleteDropsRow
SYMMETRY Symmetry
