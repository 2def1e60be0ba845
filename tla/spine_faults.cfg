SPECIFICATION ResetSpec
CONSTANTS
    Procs = {p1, p2}
    UniqueSeq = TRUE
    Faults = {"rejected", "ackLost", "late"}
    MaxAttempts = 2
    MaxEvents = 3
    p1 = p1
    p2 = p2
SYMMETRY Symmetry
INVARIANTS
    OutboxAccounted
    RightAlarm
    RightReport
    ResetHeals
