SPECIFICATION Spec
CONSTANTS
    MaxId = 5
    NumIndexes = 3
    Values = {0, 1, 2, Null}
    Absent = Absent
    Null = Null
    Keys = {k}
    NoKey = NoKey
    Payloads = {p}
    NoPayload = NoPayload
    Migrations = {}
    MaxSeq = 2
    Batch = 1
    EntryBatch = 2
    KeyRank <- MCKeyRank
    Calls = {c1, c2}
    Programs <- MCPrograms
    StepLists <- MCStepLists
    Earlier <- MCEarlier
    Named = {1, 2}
    GenValues = {1, 2}
    Items <- MCItems
    NoList = NoList
    Names = {"f", "r", "e"}
    MaxAttempts = 2
    MaxCrashes = 1
    MaxReruns = 1
SYMMETRY Symm
INVARIANTS Accounted UniqueCodes KeyedOnce AckedDurable
PROPERTIES RecordsSurvive
CHECK_DEADLOCK FALSE
