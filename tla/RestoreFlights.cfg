\* Two requests with one trunk under fair scheduling, two ranks, and one
\* preemption or change of the quorum.
CONSTANTS
    dt = dt
    da = da
    dc = dc
    q1 = q1
    q2 = q2
    q3 = q3
    None = None
    Digests = {dt, da}
    Requests = {q1, q2}
    Ranks = {r1, r2}
    Blocks = {b1, b2}
    Span <- MCSpan
    Candidates <- Trunk
    RowStorage = TRUE
    MaxPendingRestores = 1
    MaxFollowers = 1
    MaxLeases = 1
    Reported = {{dt, da}}
    MaxEvents = 1
    MaxLocal = 0
SPECIFICATION FairSpec
INVARIANTS Coherent OnlyVerified
PROPERTY Progress
