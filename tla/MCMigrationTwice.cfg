CONSTANTS
    Replicas = {r1, r2}
    Tenants = {}
    Ids = {1, 2}
    Fields = {"f"}
    Plan <- OneMigration
    Batch = 2
    LedgerKinds = {"postgres"}
SPECIFICATION Spec
PROPERTIES AppliedOnce
CHECK_DEADLOCK FALSE
