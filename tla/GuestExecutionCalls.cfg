SPECIFICATION Spec
CONSTANTS
    t1 = t1
    t2 = t2
    Thread = {t1, t2}
    Addr = {2, 3}
    StopAddr = {3}
    InsnSize = {1}
    MaxRegion = 2
    ColdThreshold = 1
    GearSwitchThreshold = 1
    LoopingKind = {"LiteTranslated", "HeavyOptimized"}
    MaxInvalidations = 2
INVARIANTS InvalidatedIsNotified
PROPERTIES CacheSpec ObsoleteIsLeft DispatchEnds
