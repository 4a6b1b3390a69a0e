\* One rank with two requests, and two ranks with one; two slots, two adverse events.
CONSTANTS
    Slots = {0, 1}
    Contexts = {q1, q2}
    NoContext = none
    Ranks = {r0, r1}
    Teams <- MCTeams
    Modes = {"jobs", "requests"}
    MaxJobs = 2
    MaxEvents = 2
    MaxFaults = 2
SYMMETRY Symmetry
SPECIFICATION Spec
INVARIANTS NothingReused AcknowledgedIsOver ReturnOwed Accounted QuarantineHolds
CONSTRAINT FewEvents
CHECK_DEADLOCK FALSE
