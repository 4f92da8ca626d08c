SPECIFICATION FairSpec
CONSTANTS
    N            = 4
    Pio          = {"pio0", "pio1"}
    PioOf       <- MCPioOf
    MaxInstances = 8
    OtherSms    <- MCOtherSms
    OtherMem     = {0, 6, 20}
    Capacity     = 2
INVARIANTS TypeOK ReadyWorks 
 
CHECK_DEADLOCK FALSE
