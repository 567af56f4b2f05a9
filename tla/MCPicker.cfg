SPECIFICATION Spec
CONSTANTS
    t1 = t1
    t2 = t2
    other = other
    h1 = h1
    h2 = h2
    Targets <- MCTargets
    Instances <- MCInstances
    TargetOf <- MCTargetOf
    Tokens = {t1, t2, other}
    Foreign = {other}
    Hosts = {h1, h2}
    HostOf <- MCHostOf
    MeshOrder <- MCMeshOrder
    StoredAs <- MCStoredAs
    Week = 1
    MaxEvents = 2
    MaxClock = 2
    MaxChanges = 1
    NoTarget = 0
    NoInstance = 0
    NoToken = NoToken
INVARIANTS TypeOK HighlightIsMeant
PROPERTIES EnterOpensItsRow RankingIsFrozen CountedOnce
CHECK_DEADLOCK FALSE
