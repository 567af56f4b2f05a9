SPECIFICATION Spec
CONSTANTS
    i1 = i1  i2 = i2
    r1 = r1  r2 = r2  r3 = r3
    p1 = p1  p2 = p2
    Instances = {i1}
    Requests = {r1, r2}
    Roles = {"terminal", "wrapper", "client"}
    MaxRecords = 2
    NoRequest = NoRequest
    NoInstance = NoInstance
    Pickers = {p1, p2}
    MaxReaders = 2
    Kinds = {"open"}
    Faults = {}
    MaxEnds = 2
    Additional = {}
PROPERTIES
    DispatchedIsNotPresumedDead
