CONSTANTS
    MaxId = 2
    NumIndexes = 1
    Values = {v1, v2}
    Absent = Absent
    Keys = {k1}
    NoKey = NoKey
    Payloads = {p1, p2}
    NoPayload = NoPayload
    Migrations = {m1}
    MaxSeq = 0
    NamedSets <- AllNamed
    AllowReplace = TRUE
    MaxVer = 2
SPECIFICATION Spec
SYMMETRY Symm
INVARIANTS IndexExact
