SPECIFICATION Spec
CONSTANTS
    p1 = p1
    p2 = p2
    n1 = n1
    n2 = n2
    n3 = n3
    Producer = {p1, p2}
    Node = {n1, n2, n3}
    SigNo = {1, 2}
    MaxSignals = 3
    Null = Null
    None = None
INVARIANTS NodeInOnePlace
PROPERTIES Linearizable Delivered
