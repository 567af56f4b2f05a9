SPECIFICATION FairSpec
CONSTANTS
    self = self  h1 = h1  h2 = h2
    Hosts = {self, h1, h2}
    Local = self
    Routes <- MCRoutes
    MaxWorkers = 2
    HostTimeout = 1
    FleetTimeout = 2
INVARIANTS
    TypeOK
    ToldOnce
    HelpedOnce
    UnreachableIsTrue
    NothingRunsOn
PROPERTIES
    ReadEnds
CHECK_DEADLOCK FALSE
