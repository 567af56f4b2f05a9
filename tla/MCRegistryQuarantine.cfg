SPECIFICATION Spec
CONSTANTS
    i1 = i1  i2 = i2  i3 = i3
    r1 = r1  r2 = r2  r3 = r3
    client = client
    Instances = {i1, i2, i3}
    Requests = {r1, r2}
    Roles = {client}
    MaxRecords = 2
    NoRequest = NoRequest
    NoInstance = NoInstance
    NoFile = NoFile
    CallStates = {"exited", "failed"}
    MaxDamage = 1
SYMMETRY MCSymmetry
PROPERTIES
    QuarantineBlocksLaunches
