SPECIFICATION FairSpec
CONSTANTS
    t1 = t1
    t2 = t2
    Thread      = {t1, t2}
    NoThread    = NoThread
    Socket      = {0}
    Udp         = {0}
    Calls       = {"connect", "send", "close"}
    Parts       = {1, 2}
    Late        = TRUE
    MaxInFlight = 1
CHECK_DEADLOCK FALSE
INVARIANT Framing
PROPERTIES CallsReturn ChannelUsed
