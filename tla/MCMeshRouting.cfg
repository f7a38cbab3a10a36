\* Two nodes, every kind of provider; no symmetry, for the sake of liveness.
SPECIFICATION FairSpec
CONSTANTS
    m1 = m1
    m2 = m2
    Node = {a, b}
    Model = {m1, m2}
    Lower <- MixedCase
    Config <- AllConfigs
    Path <- AllPaths
    MaxStarts = 2
INVARIANTS
    TypeOK
    NoSelfForward
    OneHop
    RoutesWereListed
    ExportsOwnModels
PROPERTIES
    ServedAsListed
    Answered
