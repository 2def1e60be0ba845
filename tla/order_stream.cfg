SPECIFICATION StreamSpec
CONSTANTS
    Fields = {"status", "price", "customer_name"}
    Ignored = {}
    Values = {"pending", "p1", "p2", "alice", "bob"}
    None = None
    NoDoc = NoDoc
    Orders = {o1}
    OrderDocs <- MCDocs
    Buffered = {"status_change", "price_correction", "other"}
    MaxEvents = 3
    MaxLapses = 1
    Clients = {c1}
    Queries <- MCQueries
    All = All
    MaxQueue = 2
    MaxStrikes = 2
CHECK_DEADLOCK FALSE
INVARIANTS
    InOrderInScope
    LossesCounted
    UrgentReaches
    AbsorbedByLater
