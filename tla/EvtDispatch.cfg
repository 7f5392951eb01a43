CONSTANTS
    Size = 3
    Events = {connected, written}
    NoEvent = NoEvent
SPECIFICATION FairSpec
INVARIANTS
    TypeOK
    NoLostWakeup
PROPERTIES
    ImplementsQueue
    AcceptedDispatched
