\* Two publishers, one power failure, death, failed call or rotten file, one
\* invalidation or clear; a maintenance pass may delete three files.
CONSTANTS
    a = a
    b = b
    Writers = {w1, w2}
    Contexts <- TwoContexts
    Prefix <- Chain
    Absent = Absent
    Temp = Temp
    Modes = {"rows", "pages"}
    MaxFiles = 4
    LowFiles = 2
    Budget = 3
    Ttl = TRUE
    MaxOps = 2
    MaxFaults = 1
    MaxRemovals = 1
SPECIFICATION Spec
INVARIANTS CrashSafe PromisesKept SurvivorsUsable
PROPERTY Reclaimed
