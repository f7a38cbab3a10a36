\* Two overlapping calls on a disk that never fails.
SPECIFICATION AclSpec
CONSTANTS
    Node = {a, b}
    Worker = {w1, w2}
    Faults = FALSE
INVARIANTS
    FileMatchesList
