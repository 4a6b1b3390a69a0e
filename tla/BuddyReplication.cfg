\* Two generations, room for one transaction and one staged chunk, one fault.
CONSTANTS
    Keys <- Entries
    Size <- Pieces
    StreamModes = {TRUE, FALSE}
    MaxActive = 1
    MaxStaged = 1
    MaxContextChunks = 2
    RecentCommits = 2
    RecentGenerations = 1
    MaxInflight = 2
    RecentLocalOnly = 2
    MaxCredits = 1
    MaxFaults = 1
SPECIFICATION Spec
INVARIANT CommitBelieved
PROPERTIES PublishesWhole Superseded
CHECK_DEADLOCK FALSE
