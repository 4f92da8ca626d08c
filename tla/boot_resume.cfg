SPECIFICATION Spec
CONSTANTS
    BootTries   = 1
    MaxAutobaud = 2
    SetupCmds   = 2
    RssiCount   = 1
    CgattWaits  = 2
    MaxUrcs     = 3
    MaxLines    = 1
INVARIANT ResumeRestores
CHECK_DEADLOCK FALSE
