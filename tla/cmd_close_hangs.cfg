SPECIFICATION FairSpec
CONSTANTS
    t1 = t1
    t2 = t2
    Thread      = {t1}
    NoThread    = NoThread
    Socket      = {0}
    Udp         = {}
    Calls       = {"connect", "send", "close"}
    Parts       = {1, 2}
    Late        = TRUE
    MaxInFlight = 2
CHECK_DEADLOCK FALSE
PROPERTY CloseReturns
