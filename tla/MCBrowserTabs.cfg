SPECIFICATION Spec
CONSTANTS
    Tabs = {t1, t2}
    Calls = {c1}
    Asks = {a1, a2}
    Families = {f1, f2}
    Jtis = {j1, j2, j3}
    MaxReloads = 0
    None = None
SYMMETRY Symmetry
INVARIANTS
    TypeOK
    ReplayNeedsOverlap
    LastWordHolds
    SignedOutStaysOut
CHECK_DEADLOCK FALSE
