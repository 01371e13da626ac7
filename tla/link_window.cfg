SPECIFICATION Spec

CONSTANTS
    K = 2
    W = 2
    Mod = 3
    T0 = 0
    T1 = 0
    T2 = 0
    T3 = 0
    Batch = 2
    PoolSize = 3
    NetCap = 0
    MaxAsdu <- BothWays

INVARIANTS
    TypeOK
    WindowRespected
    NoSequenceError
    AckedWasDelivered
    QueueOrderKept
    SlotsAccounted
    AckOwedIsTimed

PROPERTIES
    HighPriorityFirst
    ImplementsTransfer
