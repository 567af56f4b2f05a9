SPECIFICATION Spec
CONSTANTS
    i1 = i1  i2 = i2  i3 = i3
    r1 = r1  r2 = r2  r3 = r3
    client = client
    Instances = {i1, i2, i3}
    Requests = {r1, r2, r3}
    Roles = {client}
    MaxRecords = 2
    NoRequest = NoRequest
    NoInstance = NoInstance
    NoFile = NoFile
    CallStates = {"live", "exited"}
    MaxDamage = 1
SYMMETRY MCSymmetry
INVARIANTS
    TypeOK
    EveryLaunchFindable
    OneLaunchPerRequest
    CorruptTombstoneIsIsolated
    NoneMeansQuarantined
    NeverJoinsRetired
    OrdinalsDistinct
    LimitNeverLocksOut
PROPERTIES
    ImplementsLedger
    OutcomeIsFinal
