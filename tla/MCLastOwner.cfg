SPECIFICATION Spec
CONSTANTS
    Actors = {a1, a2}
    Projects = {}
    Invites = {i1}
    Txs = {t1, t2}
    Roles = {"owner", "member"}
    None = None
SYMMETRY Symmetry
INVARIANTS
    OwnerAlways
CHECK_DEADLOCK FALSE
