\* Two handlers, two ids, two starts; no symmetry, for the sake of liveness.
SPECIFICATION FairSpec
CONSTANTS
    Node = {a, b}
    Worker = {w1, w2}
    Faults = TRUE
    MaxStarts = 2
INVARIANTS
    SoloWriteMatchesList
    LinkedWasListed
    CleanStopKeepsList
PROPERTIES
    RestartKeepsList
    StartAdmitsListed
    StopsTogether
CHECK_DEADLOCK FALSE
