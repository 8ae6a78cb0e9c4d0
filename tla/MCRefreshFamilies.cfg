SPECIFICATION Spec
CONSTANTS
    Actors = {a1}
    Families = {f1, f2}
    Jtis = {j1, j2, j3}
    Sweeps = {s1}
    None = None
    RefreshTTL = 2
    Horizon = 3
SYMMETRY Symmetry
INVARIANTS
    TypeOK
    ReplayEndsFamily
    CookieOutlivesFamily
    RevokeAllReach
PROPERTIES
    ImplementsChains
CHECK_DEADLOCK FALSE
