\* A peer lists a model the node has itself.
SPECIFICATION Spec
CONSTANTS
    m1 = m1
    m2 = m2
    Node = {a, b}
    Model = {m1}
    Lower <- OneModel
    Config <- OneProvider
    Path <- Completions
    MaxStarts = 1
SYMMETRY MCSymmetry
INVARIANT
    LocalFirst
