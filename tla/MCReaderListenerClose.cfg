CONSTANTS
    QueueLen = 1
    MaxSamples = 2
    MaxBatch = 1
SPECIFICATION FairSpec
PROPERTIES
    CloseReturns
CHECK_DEADLOCK FALSE
