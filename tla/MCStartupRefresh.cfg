SPECIFICATION FairSpec
CONSTANTS
    l1 = l1  l2 = l2
    Launchers = {l1, l2}
    NoTicket = NoTicket
    Signals = {"kill", "terminate", "close"}
    Watched = {l2}
    Limit = 1
    MaxTime = 2
INVARIANTS
    TypeOK
    OneWorker
    ResolvesItsOwn
    LastRedrawIsCurrent
PROPERTIES
    ImplementsTicket
    LeaseIsReleased
    MenuIsReleased
CHECK_DEADLOCK FALSE
