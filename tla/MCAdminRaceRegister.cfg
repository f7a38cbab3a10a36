\* A registration and a removal of the same node at the same time.
SPECIFICATION Spec
CONSTANTS
    Node = {n1}
    Worker = {w1, w2}
    Invite = {i1}
    Secret = {s1, s2, s3, s4}
    Op = {"create", "redeem", "login", "register", "unregister"}
    Faults = FALSE
    MaxTime = 3
    MaxBoot = 1
SYMMETRY MCSymmetry
INVARIANTS
    RegisteredOnAcl
