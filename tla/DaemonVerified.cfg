SPECIFICATION Spec
CONSTANTS
    Conns = {c1}
    Keys = {k1, k2}
    Values = {"v1", "v2"}
    Fps = {"f1"}
    StrictMode = FALSE
    Signing = TRUE
    StoreErrors = FALSE
    AuditErrors = FALSE
    Evictions = FALSE
    MaxCommands = 3
    MaxRestarts = 0
CHECK_DEADLOCK FALSE
INVARIANTS
    VerifiedRead
