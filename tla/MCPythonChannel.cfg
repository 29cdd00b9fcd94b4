\* Two Python threads, and as many readers as an init_channel on an open channel needs.
CONSTANTS
    Callers = {main, other}
    Main = main
    Readers = {r1, r2}
    None = None
SPECIFICATION FairSpec
INVARIANTS
    IdleIsConsistent
    NothingRunsAfterClose
PROPERTIES
    ImplementsCallbacks
    DropsOnlyWhenClosing
    CallsReturn
    ExitEnds
\* The system stops when the interpreter has ended.
CHECK_DEADLOCK FALSE
