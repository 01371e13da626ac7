SPECIFICATION Spec

CONSTANTS
    K = 6
    W = 4
    Mod = 8
    T0 = 7
    T1 = 3
    T2 = 2
    T3 = 4
    Batch = 2
    PoolSize = 9
    NetCap = 9
    MaxAsdu <- FromSlave

INVARIANT
    NoSpuriousT0
