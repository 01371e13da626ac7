SPECIFICATION DeadPeerSpec

CONSTANTS
    K = 2
    W = 3
    Mod = 8
    T0 = 6
    T1 = 3
    T2 = 2
    T3 = 4
    Batch = 2
    PoolSize = 9
    NetCap = 9
    MaxAsdu <- InTurn

INVARIANTS
    StartedIsSupervised
    NoSpuriousT1
    T0OutlastsSilence

PROPERTIES
    DeadPeerDetected
    EventuallyDrained
