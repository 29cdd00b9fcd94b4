\* A ramp of three steps that starts at one; CTRL from two on.
CONSTANTS
    PdFull = 3
    PdInit = 1
    PdCtrl = 1
    Pads <- MCPads
    Quats <- MCQuats
    Poses = {p1, p2}
    NoPose = p0
SPECIFICATION FairSpec
INVARIANTS
    InputIsWhole
    GravityIsTurned
PROPERTIES
    GainsRise
    StopHasTheLastWord
    StopIsSent
    FallIsDamped
