SPECIFICATION FairSpec
CONSTANTS
    h1 = h1  h2 = h2  r1 = r1  r2 = r2
    u1 = u1  u2 = u2  d0 = d0  d1 = d1  d2 = d2
    codex = codex
    Hosts = {h1, h2}
    Selves = {h1}
    Providers = {}
    Users = {u1}
    Homes = {d0}
    DefaultHome = d0
    Refreshers = {r1, r2}
    NoUser = NoUser
    NoCatalog = NoCatalog
    NoAnswer = NoAnswer
    MaxHosts = 2
    MaxTargets = 2
    MaxChanges = 2
    MaxAborts = 1
INVARIANTS
    TypeOK
    MergesAreReadable
PROPERTIES
    MembershipSettles
