-------------------------- MODULE MCRobotController --------------------------
(* Small instances of RobotController for TLC. *)
EXTENDS RobotController

\* Nothing, each button of interest alone, and the ones that meet in a step.
MCPads == {{}, {"R2"}, {"R1", "A"}, {"L2"}, {"R2", "A", "L2", "B"}}

\* Upright, upside down, and one with four different components.
MCQuats == {<<1, 0, 0, 0>>, <<0, 1, 0, 0>>, <<4, 1, 2, 3>>}
=============================================================================
