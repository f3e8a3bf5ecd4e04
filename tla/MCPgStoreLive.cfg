CONSTANTS
    v1 = v1
    v2 = v2
    k1 = k1
    p1 = p1
    m1 = m1
    NumIndexes = 1
    Values = {v1, v2}
    Absent = Absent
    Keys = {k1}
    NoKey = NoKey
    Payloads = {p1}
    NoPayload = NoPayload
    Migrations = {m1}
    NamedSets = {{1}}
    AllowReplace = FALSE
    MaxVer = 2
    Clients = {c1, c2}
    PoolSize = 1
    Requests <- AllRequests
    MaxId = 2
    MaxSeq = 2
    MaxResends = 0
    MaxAttempts = 2
SPECIFICATION FairSpec
PROPERTIES CallAnswered
CHECK_DEADLOCK FALSE
