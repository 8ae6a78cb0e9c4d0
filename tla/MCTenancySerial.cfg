SPECIFICATION Spec
CONSTANTS
    Actors = {a1, a2, a3}
    Projects = {p1, p2}
    Invites = {i1, i2}
    Txs = {t1}
    Roles = {"owner", "viewer", "dpo"}
    None = None
SYMMETRY Symmetry
INVARIANTS
    OwnerAlways
    GrantsMatchRoles
    DeletedOrgGrantsNothing
CHECK_DEADLOCK FALSE
