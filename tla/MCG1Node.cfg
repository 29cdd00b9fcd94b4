\* Four datagrams of any kind through a socket buffer of two.
CONSTANTS
    SocketSize = 2
    MaxDatagrams = 4
SPECIFICATION FairSpec
INVARIANTS
    HandledInOrder
    NoSleepOverWork
PROPERTIES
    AcceptedIsHandled
    FailedBindEnds
\* main may have nothing to receive, or end.
CHECK_DEADLOCK FALSE
