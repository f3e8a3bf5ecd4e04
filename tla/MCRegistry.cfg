CONSTANTS
    Users = {u1, u2}
    DepIds = {1, 2}
    Scopes = {"sor"}
    ScopeOf <- OneScope
    LabelOf <- OneLabel
    DigestOf <- Digest
    Paths = {"/p"}
    Spaces = {"ns"}
    Modes = {"isolated", "shared_compatible"}
    AliasNames = {latest}
    NoTarget = NoTarget
    Reports <- Some
    Deliveries = {d1}
    HookId <- HookOne
    HookPath <- PathOf
    HookSpace <- SpaceOf
    MaxEntries = 2
    MaxReports = 2
    MaxOps = 6
SPECIFICATION Spec
SYMMETRY Symm
INVARIANTS PublicGated AliasResolves PathsExclusiveUntilRevived DeliveredMeansCreated
CHECK_DEADLOCK FALSE
