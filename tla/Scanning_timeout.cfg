CONSTANTS
    Peers = {p1}
    Active = TRUE
    QueueSize = 2
    Apps = {{"restart"}}
SPECIFICATION FairSpec
PROPERTIES
    ScanRspOrTimeout
CHECK_DEADLOCK FALSE
