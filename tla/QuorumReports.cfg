\* One rank whose worker restarts, two entries of which one is asked for: the whole delta
\* and checkpoint protocol, with lost, repeated and overtaken reports of two processes.
CONSTANTS
    Ranks = {0}
    Digests = {1, 2}
    BatchSize = 1
    HistorySize = 1
    PendingLimit = 1
    RetiredLimit = 1
    HandshakeMax = 2
    Requested = {1}
    MaxSequence = 3
    MaxCycle = 7
    RestartCycles = 3
    MaxGeneration = 2
    MaxInFlight = 2
SPECIFICATION Spec
INVARIANTS TypeOK ExactBelief AdmissionSound FollowsWorker
PROPERTY NoRollback
CHECK_DEADLOCK FALSE
