SPECIFICATION Spec
CONSTANTS
    Conns = {c1, c2}
    Keys = {k1}
    Values = {"v1", "v2"}
    Fps = {"f1"}
    StrictMode = FALSE
    Signing = FALSE
    StoreErrors = TRUE
    AuditErrors = TRUE
    Evictions = TRUE
    MaxCommands = 3
    MaxRestarts = 1
SYMMETRY Symmetry
CHECK_DEADLOCK FALSE
INVARIANTS
    BundlesReal
    DurableKept
