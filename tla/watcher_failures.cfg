SPECIFICATION FairSpec
CONSTANTS
    Orders = {o1, o2}
    Docs = {"a", "b"}
    NoDoc = NoDoc
    Faults = {"stream", "driver", "raises", "crash", "reset"}
    BatchSize = 2
    MaxWrites = 2
    MaxFaults = 2
CHECK_DEADLOCK FALSE
INVARIANTS
    TypeOK
    CacheCatchesUp
    BeforeChain
    OneUnsentPerFailure
    DriftIsMissed
PROPERTIES
    ReconciliationTells
    CatchesUp
