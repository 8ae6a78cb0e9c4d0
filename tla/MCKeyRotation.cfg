CONSTANTS
    Procs = {p1, p2}
    Sessions = {s1}
    AccessTTL = 2
    StateTTL = 1
    MaxKid = 3
    MaxTime = 6
SPECIFICATION Spec
INVARIANTS
    TypeOK
    AccessKeepsVerifying
    UsedSessionsSurvive
    SignerVerifies
SYMMETRY ProcSymmetry
CHECK_DEADLOCK FALSE
