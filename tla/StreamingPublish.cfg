\* Two requests publish at once, one of them is scheduled twice.
SPECIFICATION Spec
CONSTANTS
    r1 = r1
    r2 = r2
    Requests = {r1, r2}
    Digest <- OwnDigests
    Span = 2
    BlockChunks = 1
    ChunksPerBatch = 1
    Depth = 2
    MaxLeasedBlocks = 3
    MaxSessions = 2
    Pool = 4
    MaxAttempts <- FirstTwice
    Faults = {}
    MayShutdown = FALSE
INVARIANTS ExactManifests SourceHeld Agreement
CHECK_DEADLOCK FALSE
