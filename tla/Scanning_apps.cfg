CONSTANTS
    Peers = {p1, p2}
    Active = TRUE
    QueueSize = 2
    Apps = {{"restart", "refilter", "stopInCallback"},
            {"restart", "hangupInCallback", "stopInCallback"},
            {"restart", "connect"},
            {"restart", "stop", "hangup", "hangupUnlinked", "start"}}
SPECIFICATION BusySpec
INVARIANTS
    TypeOK
    PhaseInStep
    ScanTimed
    LinkReached
    CandidateCurrent
PROPERTIES
    ResponseFollowsReport
    ScanGoesOn
CHECK_DEADLOCK FALSE
