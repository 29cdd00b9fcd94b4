\* Five samples in batches of up to two through a queue of two.
CONSTANTS
    QueueLen = 2
    MaxSamples = 5
    MaxBatch = 2
SPECIFICATION FairSpec
INVARIANTS
    NothingRunsAfterClose
PROPERTIES
    NewestIsHandled
    CloseHangsOnlyInTheGap
    ImplementsSubscriber
\* The system stops when the reader is closed.
CHECK_DEADLOCK FALSE
