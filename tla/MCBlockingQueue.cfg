CONSTANTS
    p1 = p1
    p2 = p2
    c1 = c1
    c2 = c2
    closer = closer
    a = a
    b = b
    Threads = {p1, p2, c1, c2, closer}
    Values = {a, b}
    Capacity = 2
    MayCall <- MCMayCall

SPECIFICATION Spec

INVARIANTS
    TypeOK
    NoLostWakeup
    ResultJustified

PROPERTIES
    ImplementsChannel
