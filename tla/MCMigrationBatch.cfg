CONSTANTS
    Replicas = {r1, r2}
    Tenants = {}
    Ids = {1, 2}
    Fields = {"f"}
    Plan <- OneMigration
    Batch = 1
    LedgerKinds = {"fdb"}
SPECIFICATION Spec
INVARIANTS EveryRecordFilled
CHECK_DEADLOCK FALSE
