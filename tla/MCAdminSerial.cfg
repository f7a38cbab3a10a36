\* One request at a time, with restarts and write errors.  Every request but the
\* login, which gives a node a token and changes nothing at the server.
SPECIFICATION Spec
CONSTANTS
    Node = {n1, n2}
    Worker = {w1}
    Invite = {i1}
    Secret = {s1, s2, s3}
    Op = {"create", "redeem", "listInvites", "deleteInvite",
          "authorize", "register", "unregister", "deleteNode"}
    Faults = TRUE
    MaxTime = 3
    MaxBoot = 2
SYMMETRY MCSymmetry
INVARIANTS
    TypeOK
    RegisteredOnAcl
    OneTimeOnce
PROPERTIES
    DeleteNodeRemovesAll
    RedeemedGetsIn
