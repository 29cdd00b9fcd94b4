\* Two places, three threads, four Puts: rejection, eviction, stolen wakeups and
\* timeouts all happen.  No symmetry: some of the properties are temporal.
CONSTANTS
    Threads = {t1, t2, t3}
    MaxSize = 2
    UT_QUEUE_MAX_LEN = 100
    MaxPuts = 4
SPECIFICATION FairSpec
INVARIANTS
    LossIsReported
    InPutOrder
    NoLostWakeup
PROPERTIES
    BlockedGetIsServed
    ImplementsLossyBuffer
CHECK_DEADLOCK TRUE
