\* Two producers that use trylock; the publisher may be stopped, not destroyed.
CONSTANTS
    p1 = p1
    p2 = p2
    Producers = {p1, p2}
    Discipline <- AllTryLock
    MayDestroy = FALSE
    Nobody = Nobody
    MaxMessages = 3
SPECIFICATION FairSpec
PROPERTIES
    SubmittedIsSent
    ImplementsMailbox
CHECK_DEADLOCK FALSE
