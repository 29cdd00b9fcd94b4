\* A producer of each documented kind; the publisher is destroyed at some point.
CONSTANTS
    p1 = p1
    p2 = p2
    Producers = {p1, p2}
    Discipline <- Mixed
    MayDestroy = TRUE
    Nobody = Nobody
    MaxMessages = 3
SPECIFICATION FairSpec
INVARIANTS
    SentWholeInOrder
    OnlyTheLastLacksCrc
PROPERTIES
    DestructorReturns
CHECK_DEADLOCK FALSE
