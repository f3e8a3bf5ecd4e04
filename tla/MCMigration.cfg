CONSTANTS
    Replicas = {r1, r2}
    Tenants = {t1}
    Ids = {1}
    Fields = {"f", "g"}
    Plan <- TwoMigrations
    Batch = 1
    LedgerKinds = {"postgres", "fdb", "file", "none"}
SPECIFICATION FairSpec
INVARIANTS GateHolds ServingMigrated RecordedMeansFilled SkipsRecorded
PROPERTIES UserValueKept StartupEnds
CHECK_DEADLOCK FALSE
