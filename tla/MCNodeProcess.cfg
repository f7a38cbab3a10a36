\* One node, its directory and one peer; a handler next to the discovery loop.
SPECIFICATION FairSpec
CONSTANTS
    Id = {i1, i2}
    Secret = {s1, s2}
    Handler = {h1}
    Peer = {p}
INVARIANTS
    TypeOK
    RecordedIdIsKept
    JoinedGetsIn
    StreamsAreDirect
    KnownHasAddress
PROPERTIES
    KeyIsKept
    CallsEnd
    InterruptStops
