\* Every pair of requests of one model, with one failing call or crash.
CONSTANTS
    k1 = k1
    k2 = k2
    s1 = s1
    Jobs = {p1, p2}
    Ids = {1, 2, 3}
    Cols <- MCCols
    Vals <- MCVals
    Key = "name"
    Parts = {s1}
    Requests <- MCRequests
    Tables <- MCTables
    HistoryOn = TRUE
    Expires = TRUE
    PageLimit = 2
    MaxFaults = 1
SPECIFICATION Spec
INVARIANTS
    TypeOK
    AnswersHonest
    HistoryHonest
    HiddenOnceDeleted
    UniqueButForRaces
PROPERTY
    ImplementsStore
    HardDeletesReachTrash
CHECK_DEADLOCK FALSE
