CONSTANTS
    Clients = {c1, c2}
    Secrets = {"writer", "reader"}
    Writers = {"writer"}
    Limits = {0, 1}
    Keys = {"k", "v", "FP"}
    Modes <- MCModes
    Programs <- MCPrograms
    MaxPrograms = 3
    MaxReloads = 2
SPECIFICATION Spec
INVARIANTS TypeOK  ChargesAccounted
SYMMETRY ClientSymmetry
CHECK_DEADLOCK FALSE
