SPECIFICATION FairSpec
CONSTANTS
    BootTries   = 3
    MaxAutobaud = 5
    SetupCmds   = 4
    RssiCount   = 30
    CgattWaits  = 30
    MaxUrcs     = 2
    MaxLines    = 1
INVARIANT TypeOK
PROPERTIES BootTruth BootEnds
CHECK_DEADLOCK FALSE
