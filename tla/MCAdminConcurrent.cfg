\* Two requests at a time about one node, every request, with restarts.
SPECIFICATION Spec
CONSTANTS
    Node = {n1}
    Worker = {w1, w2}
    Invite = {i1}
    Secret = {s1, s2, s3, s4}
    Op = {"create", "redeem", "listInvites", "deleteInvite", "login",
          "authorize", "register", "unregister", "deleteNode"}
    Faults = TRUE
    MaxTime = 3
    MaxBoot = 2
SYMMETRY MCSymmetry
INVARIANTS
    OneTimeBurned
    RegistrarIsAccepted
PROPERTIES
    ImplementsRegistry
