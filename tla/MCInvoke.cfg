CONSTANTS
    MaxId = 2
    NumIndexes = 1
    Values = {v1}
    Absent = Absent
    Keys = {k1}
    NoKey = NoKey
    Payloads = {}
    NoPayload = NoPayload
    Migrations = {}
    MaxSeq = 0
    Calls = {c1, c2}
    Targets = {1}
    FailOpen = FALSE
    MaxCrashes = 1
    Capacity = 1
SPECIFICATION Spec
SYMMETRY Symm
CHECK_DEADLOCK FALSE
INVARIANTS AuditedBeforeWrite DenialLeavesNothing DocumentedTrail WriteAnnounced DeliveredTruth KeyedCreateOnce
