\* The bridge and its engine against a driver that may fail at every call.
SPECIFICATION Spec
CONSTANTS
    c1 = c1  c2 = c2  c3 = c3
    m1 = m1  m2 = m2
    w1 = w1  w2 = w2
    Contexts <- MCContexts
    Models <- MCModels
    Classifies <- MCClassifies
    Windows <- MCWindows
    WithRknn = TRUE
INVARIANTS
    ContextAlive
    ReadyKeepsItsModel
PROPERTIES
    LostOnlyByReload
    ResultFromReadyModel
