SPECIFICATION Spec
CONSTANTS
    Actors = {a1, a2}
    Email <- OneAddress
    Passwords = {p1, p2}
    Links = {l1, l2}
    Families = {f1, f2}
    Jtis = {j1, j2}
    Txs = {t1, t2}
    None = None
    RefreshTTL = 1
    Horizon = 1
SYMMETRY Symmetry
INVARIANTS
    TypeOK
    ResetEndsEarlierSessions
    LinkOpensOneSession
    OneAccountPerEmail
PROPERTIES
    UsesRefreshFamilies
    EffectsSpendLinks
CHECK_DEADLOCK FALSE
