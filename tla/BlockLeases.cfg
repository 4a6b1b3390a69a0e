\* Two threads, two requests, two blocks, two reservations.
CONSTANTS
    Threads = {t1, t2}
    Requests = {r1, r2}
    Blocks = {b1, b2}
    Free = free
    MaxLeases = 2
    MaxBlocks = 2
    MaxIds = 2
SPECIFICATION Spec
INVARIANTS Registry ReadsLeased SaidIsOver
PROPERTY Guarded
