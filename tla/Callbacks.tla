------------------------------ MODULE Callbacks ------------------------------
(***************************************************************************)
(* What a subscriber of the Python binding promises to Python code, without *)
(* readers' threads, the GIL and flags: a callback starts only while the    *)
(* channel is open or being opened; init_channel returns with the callbacks *)
(* of one reader left, or throws and leaves the channel open or closed,     *)
(* close_channel and the destructor return with none; after the interpreter *)
(* has begun to end none starts.  Of calls that overlap nothing is promised. *)
(***************************************************************************)
CONSTANT Sources  \* the readers

VARIABLES stage,   \* see Stages
          running  \* the sources a callback of which is running

vars == <<stage, running>>

Stages == {"closed", "opening", "open", "closing", "destroying", "gone", "exiting", "overlapped"}

Init == stage = "closed" /\ running = {}

\* The call of `call` begins, or a second one overlaps the one in progress.
Begin(call) ==
    /\ stage \in {"closed", "open"} /\ stage' = call
    /\ UNCHANGED running

Overlap ==
    /\ stage \in {"opening", "closing"} /\ stage' = "overlapped"
    /\ UNCHANGED running

\* With a new reader, or, if init_channel throws, with the one there was.
Opened ==
    /\ stage = "opening" /\ stage' = "open"
    /\ \A r, s \in running : r = s
    /\ UNCHANGED running

\* init_channel throws where there was no reader.
OpenFails ==
    /\ stage = "opening" /\ stage' = "closed"
    /\ running = {} /\ UNCHANGED running

Closed ==
    /\ \/ stage = "closing" /\ stage' = "closed"
       \/ stage = "destroying" /\ stage' = "gone"
    /\ running = {} /\ UNCHANGED running

\* While the channel is opened again a callback of the old reader may run beside one
\* of the new reader; otherwise they come one after the other.
Start(r) ==
    /\ stage = "opening" \/ (stage = "open" /\ running = {})
    /\ r \notin running /\ running' = running \cup {r}
    /\ UNCHANGED stage

Return(r) ==
    /\ r \in running /\ running' = running \ {r}
    /\ UNCHANGED stage

Exit ==
    /\ stage \in {"closed", "open", "gone"} /\ stage' = "exiting"
    /\ UNCHANGED running

Disorder ==
    /\ stage = "overlapped" /\ UNCHANGED stage
    /\ running' \in SUBSET Sources

Next == \/ \E call \in {"opening", "closing", "destroying"} : Begin(call)
        \/ Overlap \/ Opened \/ OpenFails \/ Closed \/ Exit \/ Disorder
        \/ \E r \in Sources : Start(r) \/ Return(r)

Spec == Init /\ [][Next]_vars
=============================================================================
