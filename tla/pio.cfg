SPECIFICATION Spec
CONSTANTS
    DataBits          = 2
    IsrBits           = 3
    SIDESET_BIT_COUNT = 1
    RxDepth           = 1
    TxDepth           = 1
    FarEnd            = {"device", "driver"}
    Word              = {0, 1, 2, 3}
    Out               = {1, 2}
    Slip              = 2
    Breaks            = {3, 20, 45}
CHECK_DEADLOCK FALSE
INVARIANTS TypeOK NoneMissed BitsSent
PROPERTY Delivered
