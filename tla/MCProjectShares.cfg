SPECIFICATION Spec
CONSTANTS
    Actors = {a1, a2}
    Shares = {s1, s2}
    Txs = {t1, t2}
    None = None
SYMMETRY Symmetry
INVARIANTS
    TypeOK
    GrantIsLinked
    RevocationSticks
PROPERTIES
    GrantConsumesShare
CHECK_DEADLOCK FALSE
