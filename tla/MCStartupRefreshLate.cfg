SPECIFICATION Spec
CONSTANTS
    l1 = l1  l2 = l2
    Launchers = {l1, l2}
    NoTicket = NoTicket
    Signals = {"kill", "terminate", "close"}
    Watched = {l1, l2}
    Limit = 1
    MaxTime = 2
SYMMETRY MCSymmetry
PROPERTIES
    CannotPublishLate
CHECK_DEADLOCK FALSE
