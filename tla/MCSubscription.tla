--------------------------- MODULE MCSubscription ---------------------------
(* Small instances of Subscription for TLC. *)
EXTENDS Subscription

MCTimeouts == {0, 2}
MCUptime == {0, 1}

\* The clock starts near the epoch, and is set back to it or to a time longer after it
\* than the joystick's time-out.
MCWall == {0}
MCWalls == {0, 3}
=============================================================================
