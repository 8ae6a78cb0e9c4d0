SPECIFICATION Spec
CONSTANTS
    Actors = {a1, a2, a3}
    Projects = {}
    Invites = {i1, i2}
    Txs = {t1, t2}
    Roles = {"owner", "member"}
    None = None
SYMMETRY Symmetry
INVARIANTS
    TypeOK
    OutsiderHoldsNoOrgGrant
PROPERTIES
    OnlyMissedRemovalStrips
    JoinsByInvitation
CHECK_DEADLOCK FALSE
