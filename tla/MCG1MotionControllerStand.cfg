\* FREEZE and STAND last 2 s and 3 s: four ticks and six.
CONSTANTS
    NumMotors = 3
    NumJoints = 2
    FREEZE_TICKS = 4
    STAND_TICKS = 6
    Pose <- TwoPoses
    Output <- TwoOutputs
    DefaultPose <- Stand
    Clip = 3
SPECIFICATION Spec
PROPERTIES StandAdvances
CHECK_DEADLOCK FALSE
