CONSTANTS
    ada = ada
    dpo = dpo
    home = home
    office = office
    Orgs = {acme, globex}
    Actors = {ada, dpo}
    Admins = {ada}
    Dpos = {dpo}
    IPs = {home, office}
    Themes = {plain, dark}
    NewTheme = plain
    Clients <- MCClients
    Filters <- MCFilters
    NoValue = NoValue
    Scrubbed = Scrubbed
    NoFilter = NoFilter
    NoRow = NoRow
    MaxTx = 4
SPECIFICATION Spec
INVARIANTS
    TypeOK
    TrailMatchesState
    EachErasureCountedOnce
    ScrubReaches
PROPERTY LedgerSpec
SYMMETRY OrgSymmetry
CHECK_DEADLOCK FALSE
