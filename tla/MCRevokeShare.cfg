SPECIFICATION Spec
CONSTANTS
    Actors = {a1, a2}
    Shares = {s1}
    Txs = {t1, t2}
    None = None
SYMMETRY Symmetry
INVARIANTS
    RevokedShareGrantsNothing
CHECK_DEADLOCK FALSE
