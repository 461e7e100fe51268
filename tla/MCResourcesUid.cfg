\* What an admin asks by the uid of a record.
CONSTANTS
    p1 = p1
    p2 = p2
    n1 = n1
    n2 = n2
    n3 = n3
    Jobs = {p1, p2}
    Ids = {1, 2, 3}
    Cols <- MCCols
    Vals <- MCVals
    Key = "name"
    Parts = {}
    Requests = {}
    Tables <- MCTables
    HistoryOn = FALSE
    Expires = FALSE
    PageLimit = 10
    MaxFaults = 0
    Users <- MCUsers
    Admins = {1}
    By <- MCBy
    Movers = {3}
    Calls <- MCCalls
SPECIFICATION Spec
INVARIANT UidRoutesWork
CHECK_DEADLOCK FALSE
