CONSTANTS
    p1 = p1
    p2 = p2
    c1 = c1
    c2 = c2
    closer = closer
    a = a
    b = b
    Threads = {p1, c1, c2, closer}
    Values = {a}
    Capacity = 2
    MayCall <- MCLiveMayCall
SPECIFICATION FairSpec
PROPERTIES
    CloseReleases
    TimedReturns
    SleepersServed
