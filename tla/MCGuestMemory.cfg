SPECIFICATION Spec
CONSTANTS
    t1 = t1
    t2 = t2
    Thread = {t1, t2}
    Addr = {2, 3}
    StopAddr = {}
    InsnSize = {1}
    MaxRegion = 2
    ColdThreshold = 0
    GearSwitchThreshold = 1
    PagesPerByte = 2
    ProtectedPage = {}
    MaxLength = 2
    MaxWork = 3
SYMMETRY Symmetry
CHECK_DEADLOCK FALSE
INVARIANTS XbitIsExact NoStaleCode DiesOnlyOfItsPage
