\* Two lanes: one prepares a batch while the other loads.
CONSTANTS
    k1 = k1
    k2 = k2
    None = None
    N = 2
    Keys = {k1}
    Lanes = {l1, l2}
    Base <- OneBase
    Size <- Sizes
    MaxFlights = 2
    MaxMembers = 2
    MaxBytes = 1
    MaxBytesTotal = 4
    MaxLoads = 1
    MaxBatches = 2
    MaxCancels = 0
    MayShutDown = FALSE
SPECIFICATION FairSpec
PROPERTY Completes
CHECK_DEADLOCK FALSE
