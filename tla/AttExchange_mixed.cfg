CONSTANTS
    QueueDepth = 2
    Services <- WideFirst
    Mtu = 23
    Callers = {"main"}
    MaxCalls = 1
    MaxCommands = 0
    MaxValues = 0
    MaxPreempt = 0
SPECIFICATION Spec
INVARIANTS
    AllServicesDiscovered
CHECK_DEADLOCK FALSE
