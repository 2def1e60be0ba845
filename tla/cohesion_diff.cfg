SPECIFICATION Spec
CONSTANTS
    Fields = {"status", "price", "algo_id"}
    Ignored = {}
    Values = {"pending", "shipped", "cancelled", "p1", "p2"}
    None = None
    NoDoc = NoDoc
    Orders = {o1}
    OrderDocs <- MCOpenDocs
    Buffered = {"status_change", "price_correction", "other"}
    MaxEvents = 4
    MaxLapses = 2
CHECK_DEADLOCK FALSE
INVARIANT DiffMatchesImages
