SPECIFICATION FairSpec
CONSTANTS
    Thread     = {"t1"}
    Calls     <- OpenAndRead
    RX         = RX
    None       = None
    Socket     = {"s1"}
    BufSize    = 3
    PoolSize   = 2
    Chunk      = 2
    MaxRetries = 1
    MaxPackets = 2
    Prompt     = TRUE
    MaxPayload = 2
    MaxBytes   = 3
CHECK_DEADLOCK FALSE
PROPERTY ReaderWoken
