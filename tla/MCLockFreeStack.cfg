SPECIFICATION Spec
CONSTANTS
    Thread = {t1, t2}
    Node = {n1, n2, n3}
    CounterSize = 3
    Null = Null
SYMMETRY Symmetry
CHECK_DEADLOCK FALSE
INVARIANTS ExclusiveOwner StackIsLinked
