\* Every interleaving of the loop with joins, leaves, restarts and faults; no
\* symmetry, for the sake of liveness.
SPECIFICATION FairSpec
CONSTANTS
    Node = {self, p, q}
    Self = self
    HandlerErrors = {"add", "remove"}
    MaxEpoch = 2
    MaxEvents = 5
INVARIANTS
    TypeOK
    NoMissedChange
    ToldIsLastPeers
PROPERTIES
    ToldInOrder
    Converges
    ReplacesRegistration
