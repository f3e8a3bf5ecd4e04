SPECIFICATION Spec
CONSTANTS
    Deps = {"d"}
    Bundles = {"b", "b2"}
    NoBundle = "no_bundle"
    Surfaces = {"s1", "s2"}
    Paths = {"p"}
    NoPath = "no_path"
    Full = 3
    Launches <- MCLaunches
    AdminOps <- MCAdminOps
    Conns = {q1, q2}
    Configs <- MCConfigs
    MaxStarts = 2
    MaxAdmin = 3
INVARIANTS
    SnapshotSound
    DrainedStaysOut
    AdminTruth
PROPERTIES
    StartChecked
SYMMETRY Symm
CHECK_DEADLOCK FALSE
