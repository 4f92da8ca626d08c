SPECIFICATION FairSpec
CONSTANTS
    Thread     = {"t1", "t2"}
    Calls     <- TwoThreads
    RX         = RX
    None       = None
    Socket     = {"s1", "s2"}
    BufSize    = 2
    PoolSize   = 2
    Chunk      = 2
    MaxRetries = 1
    MaxPackets = 1
    Prompt     = TRUE
    MaxPayload = 2
    MaxBytes   = 2
CHECK_DEADLOCK FALSE
INVARIANTS TypeOK SizesAgree StreamIntact NoBufferLost
PROPERTIES RxReturns CloseEnds
