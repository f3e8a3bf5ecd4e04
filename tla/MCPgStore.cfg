CONSTANTS
    v1 = v1
    v2 = v2
    k1 = k1
    p1 = p1
    m1 = m1
    NumIndexes = 1
    Values = {v1, v2}
    Absent = Absent
    Keys = {k1}
    NoKey = NoKey
    Payloads = {p1}
    NoPayload = NoPayload
    Migrations = {m1}
    NamedSets = {{1}}
    AllowReplace = FALSE
    MaxVer = 2
    Clients = {c1, c2, c3}
    PoolSize = 2
    Requests <- AllRequests
    MaxId = 3
    MaxSeq = 3
    MaxResends = 1
    MaxAttempts = 1
SPECIFICATION Spec
SYMMETRY Symm
INVARIANTS AnswerTruth KeyedOnce AcknowledgedKept
PROPERTIES Promise
CHECK_DEADLOCK FALSE
