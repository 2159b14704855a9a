SPECIFICATION Spec
CONSTANTS
    t1 = t1
    t2 = t2
    Thread = {t1, t2}
    Addr = {2, 3, 4}
    StopAddr = {4}
    InsnSize = {1}
    MaxRegion = 2
    ColdThreshold = 1
    GearSwitchThreshold = 1
INVARIANTS NoObsoleteCode LockedEntryIsOwned
PROPERTIES StopIsPermanent OnlyOwnerUnlocks LockedIsReleased
