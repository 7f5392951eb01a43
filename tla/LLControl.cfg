CONSTANTS
    Params = {"fast", "slow"}
    InstantOffset = 1
    CounterMod = 4
    MissLimit = 2
    MaxCalls = 1
    MaxAsks = 1
    MaxPreempt = 1
SPECIFICATION FairSpec
INVARIANTS
    TypeOK
    ChainInStep
    ChainComplete
    RequestUnderWay
    ParametersAgree
PROPERTIES
    ProceduresEnd
    PhyDisagreementEnds
CHECK_DEADLOCK FALSE
