SPECIFICATION FairSpec
CONSTANTS
    MaxQueue = 2
    MaxStrikes = 2
    MaxSwitches = 2
INVARIANTS
    LossIsShown
PROPERTIES
    OutageIsShown
    PillSettles
