CONSTANTS
    Procs = {p1, p2}
    Tiers = {"starter"}
    FamilyOrder <- MCFamilyOrder
    Commands <- CommandNames
    MaxCommands = 3
    MaxKills = 1
    MaxPayments = 1
SPECIFICATION Spec
INVARIANTS TypeOK SettingsAuthorised KeysInOrder
SYMMETRY ProcSymmetry
CHECK_DEADLOCK FALSE
