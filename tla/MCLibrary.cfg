SPECIFICATION Spec
CONSTANTS
    b1 = b1  b2 = b2
    Beaters = {b1, b2}
    Timeout = 1
    MaxTime = 4
    x1 = x1  x2 = x2  x3 = x3
    Buffers = {x1, x2, x3}
    Foreign = Foreign
    MaxExtra = 1
    w1 = w1  w2 = w2  w3 = w3
    Workers = {w1, w2, w3}
    f1 = f1  f2 = f2
    LogFiles = {f1, f2}
    MaxMessages = 4
    MinCode <- MCMinCode
    MaxCode = 3
    IntMin <- MCIntMin
    IntMax = 7
    Quarters <- MCQuarters
    ZeroPoints <- MCZeroPoints
    ClassCount = 4
    MaxLogit = 2
    One = 2
    NaN = NaN
INVARIANTS
    VerdictTrue
    BuffersAccounted
    LogWithoutGaps
    CodesNearest
    ClassIsBest
PROPERTIES
    StopAllReturns
CHECK_DEADLOCK FALSE
