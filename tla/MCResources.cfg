\* Two requests at a time to each controller, one failing call or crash.
CONSTANTS
    p1 = p1
    p2 = p2
    n1 = n1
    n2 = n2
    n3 = n3
    Jobs = {p1, p2}
    Ids = {1, 2, 3}
    Cols <- MCCols
    Vals <- MCVals
    Key = "name"
    Parts = {}
    Requests = {}
    Tables <- MCTables
    HistoryOn = FALSE
    Expires = FALSE
    PageLimit = 10
    MaxFaults = 1
    Users <- MCUsers
    Admins = {1}
    By <- MCBy
    Movers = {3}
    Calls <- MCCalls
SPECIFICATION Spec
INVARIANTS
    TypeOK
    ChangedByThoseWhoMay
    ShownToThoseWhoMay
    FailedChangedNothing
    BulkTells
CHECK_DEADLOCK FALSE
