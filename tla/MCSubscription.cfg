\* A machine just started, or up for as long as the timeouts; a time-out that is
\* lowered and raised; two samples and two calls of update in three ticks, with
\* system_clock set once, back to its epoch or three ticks past it.
CONSTANTS
    Word = 64
    InitTimeout = 1
    LossTimeout = 1
    JoyTimeout = 1
    Timeouts <- MCTimeouts
    Uptime <- MCUptime
    Wall <- MCWall
    Walls <- MCWalls
    MaxClock = 3
    MaxSamples = 2
    MaxUpdates = 2
    MaxSteps = 1
    Mixed = FALSE
SPECIFICATION FairSpec
INVARIANTS
    FalseAlarmOnlyInTheGap
    SilenceIsReported
    TimeoutIsExact
    JoystickTimeoutIsExact
PROPERTIES
    WaitReturns
