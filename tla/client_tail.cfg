SPECIFICATION FairSpec
CONSTANTS
    Orders = {o1, o2}
    Limit = 1
    MaxWrites = 3
INVARIANTS
    LiveIsCurrent
PROPERTIES
    SnapshotCovers
    ReplayCatchesUp
    Shown
