\* Every pair of requests, some triples, three points of time, one failure.
CONSTANTS
    p1 = p1
    p2 = p2
    p3 = p3
    i1 = i1
    i2 = i2
    Instances = {i1, i2}
    Host <- MCHost
    Redis = Redis
    Jobs = {p1, p2, p3}
    Users = {1, 2, 3, 4, 5}
    Emails <- MCEmails
    Passwords = {"old", "new"}
    Devices <- MCDevices
    Logs = {1, 2, 3, 4}
    Codes = {1, 2, 3, 4}
    Calls <- MCCalls
    Worlds <- MCWorlds
    Templates <- MCTemplates
    TokenLife = 3
    RefreshLife = 4
    CodeLife = 1
    Day = 2
    RetryLimit = 1
    ResendLimit = 1
    MaxTime = 2
    MaxFaults = 1
SPECIFICATION Spec
INVARIANTS
    TypeOK
    StaysLoggedOut
    InfoKept
    TriesBounded
    ResetByCode
    CreatorKnown
    NoPushAfterLogout
    OneOpenPerDevice
PROPERTY AnnouncedInTheEnd
CHECK_DEADLOCK FALSE
