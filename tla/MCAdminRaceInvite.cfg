\* Two redemptions of one invite at the same time, nothing fails.
SPECIFICATION Spec
CONSTANTS
    Node = {n1}
    Worker = {w1, w2}
    Invite = {i1}
    Secret = {s1, s2, s3, s4}
    Op = {"create", "redeem", "listInvites"}
    Faults = FALSE
    MaxTime = 0
    MaxBoot = 1
SYMMETRY MCSymmetry
INVARIANTS
    OneTimeOnce
