CONSTANTS
    Apps = {{"restart", "hangup"}}
    MissLimit = 2
    QueueSize = 4
    Overrun = FALSE
SPECIFICATION FairSpec
PROPERTIES
    DisconnectReturns
CHECK_DEADLOCK FALSE
