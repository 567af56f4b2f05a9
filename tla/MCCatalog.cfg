SPECIFICATION Spec
CONSTANTS
    h1 = h1  h2 = h2  r1 = r1  r2 = r2
    u1 = u1  u2 = u2  d0 = d0  d1 = d1  d2 = d2
    codex = codex
    Hosts = {h1}
    Selves = {h1}
    Providers = {codex}
    Users = {u1, u2}
    Homes = {d0, d1, d2}
    DefaultHome = d0
    Refreshers = {r1, r2}
    NoUser = NoUser
    NoCatalog = NoCatalog
    NoAnswer = NoAnswer
    MaxHosts = 1
    MaxTargets = 3
    MaxChanges = 1
    MaxAborts = 0
SYMMETRY MCSymmetry
INVARIANTS
    CompleteIsASnapshot
    MergesAreReadable
PROPERTIES
    PartialKeepsTargets
