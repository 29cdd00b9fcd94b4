CONSTANTS
    Word = 64
    InitTimeout = 1
    LossTimeout = 1
    JoyTimeout = 1
    Timeouts <- MCTimeouts
    Uptime <- MCUptime
    Wall <- MCWall
    Walls <- MCWalls
    MaxClock = 5
    MaxSamples = 2
    MaxUpdates = 0
    MaxSteps = 0
    Mixed = FALSE
SPECIFICATION Spec
INVARIANTS
    NoFalseAlarm
