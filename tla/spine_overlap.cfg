SPECIFICATION AuditSpec
CONSTANTS
    Procs = {p1, p2}
    UniqueSeq = TRUE
    Faults = {"late"}
    MaxAttempts = 2
    MaxEvents = 4
    p1 = p1
    p2 = p2
SYMMETRY Symmetry
INVARIANTS
    TypeOK
    ChainIntact
    CountMatchesHead
PROPERTIES
    ImplementsAuditLog
    BuildsOnLatest
