\* One request through every fault, preemption and shutdown.
SPECIFICATION FairSpec
CONSTANTS
    r1 = r1
    r2 = r2
    Requests = {r1}
    Digest <- OwnDigests
    Span = 3
    BlockChunks = 2
    ChunksPerBatch = 1
    Depth = 2
    MaxLeasedBlocks = 3
    MaxSessions = 2
    Pool = 4
    MaxAttempts <- FirstTwice
    Faults = {"append", "manifest", "mapping", "timeout"}
    MayShutdown = TRUE
INVARIANT ClosedIsQuiet
PROPERTY Answered
CHECK_DEADLOCK FALSE
