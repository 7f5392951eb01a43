CONSTANTS
    Apps = {{"restart", "hangupInCallback"},
            {"restart", "advertise", "hangup", "hangupInCallback"}}
    MissLimit = 3
    QueueSize = 4
    Overrun = FALSE
SPECIFICATION FairSpec
INVARIANTS
    TypeOK
    LinkDriven
    AppKnowsLink
    AdvertisingConnectable
    LinkTimed
    NoGhostLink
PROPERTIES
    AdvertisingResumes
    SilenceEndsSupervisedLink
CHECK_DEADLOCK FALSE
