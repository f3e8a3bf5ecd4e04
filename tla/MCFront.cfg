CONSTANTS
    PageSize = 1
    Blank = 9
    Worlds = {"roles", "tokens", "manager", "metric", "bridge", "graph"}
    Slots = {1, 2}
    Asked <- MCAsked
    RoleNames = {"r"}
    Issuers <- MCIssuers
    Keys <- MCKeys
    TTL = 2
    MaxNow = 2
    Users = {u1}
    RoleSets <- MCRoleSets
    RowIds = {1, 2, 3}
    NewIds = {3}
    Given = {1}
    Starts <- MCStarts
    MaxChanges = 1
    Catalogs <- MCCatalogs
    Queries <- MCQueries
    MetricRows <- MCMetricRows
    Messages = {m1, m2}
    Correlations = {"c1"}
    Ontologies <- MCOntologies
    GraphAsks <- MCGraphAsks
    MaxReplaced = 1
SPECIFICATION Spec
INVARIANTS TrustFresh OfferedAccepted ChildListed MetricExact GraphExact
PROPERTIES BridgeAnswered
CHECK_DEADLOCK FALSE
