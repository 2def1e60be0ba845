SPECIFICATION FairSpec
CONSTANTS
    Clients = {c1, w1}
    WebSockets = {w1}
    EventKinds <- MCOneKind
    IntentNames <- MCIntents
    Queries <- MCOpenQuery
    All = All
    NoDoc = NoDoc
    MaxQueue = 1
    MaxStrikes = 2
    MaxEvents = 3
INVARIANTS
    TypeOK
    OnlyHelloLeaks
PROPERTY GoneIsForgotten
