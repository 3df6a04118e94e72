SPECIFICATION FairSpec
CONSTANTS
    c1 = c1
    c2 = c2
    c3 = c3
    k1 = k1
    k2 = k2
    Conns <- MCConns
    Keys <- MCKeys
    KeyOf <- MCKeyOf
    Limit <- MCLimit
    Width = 8
    MaxCommands = 5
CHECK_DEADLOCK FALSE
INVARIANTS
    TypeOK
    NoOpLost
PROPERTIES
    CommandDecided
    RoundEnds
    MeterImplemented
