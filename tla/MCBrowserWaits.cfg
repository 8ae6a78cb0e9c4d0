SPECIFICATION FairSpec
CONSTANTS
    Tabs = {t1}
    Calls = {c1, c2}
    Asks = {a1, a2}
    Families = {f1}
    Jtis = {j1, j2}
    MaxReloads = 1
    None = None
PROPERTIES
    WaitsEnd
CHECK_DEADLOCK FALSE
