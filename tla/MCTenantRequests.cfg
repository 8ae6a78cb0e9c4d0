CONSTANTS
    acme = acme
    globex = globex
    ada = ada
    bob = bob
    p1 = p1
    p2 = p2
    Orgs = {acme, globex}
    Projects = {p1, p2}
    Actors = {ada, bob}
    Founder <- MCFounder
    FirstHome <- MCFirstHome
    FirstShares <- MCFirstShares
    Reqs = {r1, r2}
    Conns = {c1, c2}
    None = None
    Empty = Empty
    JoinAs = {"member"}
    MaxChanges = 1
SPECIFICATION Spec
INVARIANTS
    TypeOK
    PinIsOwn
    ActsAreAuthorised
    ShownWasAllowed
CONSTRAINT OneDeletion
SYMMETRY Symmetry
CHECK_DEADLOCK FALSE
