SPECIFICATION FairSpec
CONSTANTS
    Fields = {"status", "price", "algo_id"}
    Ignored = {}
    Values = {"pending", "shipped", "cancelled", "p1", "p2"}
    None = None
    NoDoc = NoDoc
    Orders = {o1}
    OrderDocs <- MCDocs
    Buffered = {"status_change", "price_correction", "other"}
    MaxEvents = 5
    MaxLapses = 2
CHECK_DEADLOCK FALSE
INVARIANTS
    TypeOK
    CountsAddUp
    OnlyUrgentOvertakes
    Seamless
    PairsExact
PROPERTY Drains
