CONSTANTS
    Pids = {d1, d2}
    Terminals = {t1, t2}
    Ports = {port1, port2}
    MaxBirths = 3
    MaxCommands = 2
    MaxConfigs = 1
SPECIFICATION Spec
INVARIANTS TypeOK SignalsListener PidFileNamesListener
PROPERTIES StopKillsListener
SYMMETRY ControlSymmetry
CHECK_DEADLOCK FALSE
