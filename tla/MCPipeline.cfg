CONSTANTS
    QueueCapacity = 1
    WindowLength = 2
    MaxSamples = 10

SPECIFICATION FairSpec

INVARIANTS
    TypeOK
    NothingLost
    NothingReordered
    ReportedInOrder
    NoOrphanThread

PROPERTIES
    CallbackBeforeStopReturns
    OwnerReturns
    SubmitUnblocks
    WindowsReported
