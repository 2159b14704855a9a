SPECIFICATION Spec
CONSTANTS
    t1 = t1
    t2 = t2
    r1 = r1
    e1 = e1
    Thread = {t1, t2}
    Region = {r1}
    Entry = {e1}
    Hash <- HashToOne
    Part = {1, 2}
    Value = {0, 1}
    Null = Null
    Locked = Locked
    HandlerThread = {t2}
INVARIANTS UninterruptedIsExclusive
PROPERTIES NeighboursSurvive LockIsReleased
