CONSTANTS
    QueueDepth = 2
    Services <- NarrowFirst
    Mtu = 23
    Callers = {"main"}
    MaxCalls = 2
    MaxCommands = 2
    MaxValues = 2
    MaxPreempt = 1
SPECIFICATION FairSpec
INVARIANTS
    TypeOK
    ProcedureUnderWay
    IndicationGate
    DiscoveryFaithful
PROPERTIES
    ImplementsCall
    ProceduresEnd
CHECK_DEADLOCK FALSE
