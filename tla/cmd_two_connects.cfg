SPECIFICATION Spec
CONSTANTS
    t1 = t1
    t2 = t2
    Thread      = {t1, t2}
    NoThread    = NoThread
    Socket      = {0, 1}
    Udp         = {}
    Calls       = {"connect"}
    Parts       = {1, 2}
    Late        = FALSE
    MaxInFlight = 2
CHECK_DEADLOCK FALSE
PROPERTY ConnectTruth
