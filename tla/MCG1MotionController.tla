------------------------ MODULE MCG1MotionController ------------------------
(* Small instances of G1MotionController for TLC. *)
EXTENDS G1MotionController

\* Three motors, of which the third has no Isaac joint.  No position lies on the
\* other side of the default pose, so that 0, the initial value of freeze_q_, is none
\* of the positions a command may contain.
Stand      == <<2, 6>>
TwoPoses   == <<<<3, 8, 5>>, <<5, 7, 6>>>>
ThreePoses == <<<<3, 8, 5>>, <<5, 7, 6>>, <<4, 9, 7>>>>

\* Within the clip, and beyond it.
TwoOutputs == <<<<2, -1>>, <<-9, 9>>>>
=============================================================================
