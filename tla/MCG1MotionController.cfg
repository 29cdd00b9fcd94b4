\* Three messages with different poses, two inferences of which one is clipped.
CONSTANTS
    NumMotors = 3
    NumJoints = 2
    FREEZE_TICKS = 2
    STAND_TICKS = 2
    Pose <- ThreePoses
    Output <- TwoOutputs
    DefaultPose <- Stand
    Clip = 3
SPECIFICATION FairSpec
INVARIANTS
    ObservationIsRecent
    TargetsAreOnTheWay
PROPERTIES
    ReachesPolicy
    CommandIsOfOneAction
    ReportedServiceIsReleased
\* The process may end, and the bounded inferences run out.
CHECK_DEADLOCK FALSE
