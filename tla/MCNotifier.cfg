\* Two connections; the queue has room for both ends of each and one more.
SPECIFICATION FairSpec
CONSTANTS
    Client = {c1, c2}
    QueueCap = 5
    WakeCap = 1
    MaxUpdates = 3
INVARIANTS
    StaleIsPending
    GoneStaysGone
PROPERTIES
    LeavesForGood
    EventuallyWoken
    NothingLeaks
CHECK_DEADLOCK FALSE
