SPECIFICATION FairSpec
CONSTANTS
    k1 = k1
    k2 = k2
    c1 = c1
    c2 = c2
    NoKey = NoKey
    Keys <- MCKeys
    Conns <- MCConns
    PermOf <- MCPermOf
    require_auth = TRUE
INVARIANTS
    TypeOK
    RevocationReachesRegistry
PROPERTIES
    ValidatedAgainstCurrent
    NoSpuriousRevocation
    RevokedRefused
    CreatedAccepted
