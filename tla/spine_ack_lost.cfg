SPECIFICATION Spec
CONSTANTS
    Procs = {p1}
    UniqueSeq = TRUE
    Faults = {"ackLost"}
    MaxAttempts = 5
    MaxEvents = 3
    p1 = p1
PROPERTY BuildsOnLatest
