CONSTANTS
    QueueDepth = 2
    Services <- NarrowFirst
    Mtu = 23
    Callers = {"main", "callback"}
    MaxCalls = 1
    MaxCommands = 0
    MaxValues = 2
    MaxPreempt = 1
SPECIFICATION Spec
INVARIANTS
    IndicationsOneAtATime
CHECK_DEADLOCK FALSE
