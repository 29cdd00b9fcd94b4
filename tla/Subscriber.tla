----------------------------- MODULE Subscriber -----------------------------
(***************************************************************************)
(* What a subscription promises to the user's handler, without queues,      *)
(* threads, batches or wakeups: it runs on one sample at a time, in the      *)
(* order of arrival; a sample is passed over only when Capacity newer ones  *)
(* have arrived; closing lets one more sample through at most, and when it   *)
(* ends the handler is not running and never runs again.                    *)
(***************************************************************************)
EXTENDS Integers

CONSTANTS Capacity,  \* samples kept for a handler that is busy
          MaxCame    \* bound: samples that arrive in a behaviour

VARIABLES came,     \* rank of the last sample that has arrived
          last,     \* rank of the last sample the handler was called with; 0 at first
          running,  \* is the handler running?
          stage     \* "open"; "detached": nothing arrives any more; "quitting": one
                    \* sample may still be handled; "spent": it has been; "closed"

vars == <<came, last, running, stage>>

Init == came = 0 /\ last = 0 /\ running = FALSE /\ stage = "open"

Arrive ==
    /\ stage = "open"
    /\ \E n \in 1..MaxCame : n > came /\ came' = n
    /\ UNCHANGED <<last, running, stage>>

\* The next sample that is handled: those between are lost to newer ones.
Start ==
    /\ ~running /\ running' = TRUE
    /\ \E m \in 1..came :
          /\ last < m /\ last' = m
          /\ m = last + 1 \/ m + Capacity <= came + 1
    /\ stage \in {"open", "detached", "quitting"}
    /\ stage' = IF stage = "quitting" THEN "spent" ELSE stage
    /\ came' = came

Return ==
    /\ running /\ running' = FALSE
    /\ UNCHANGED <<came, last, stage>>

Detach == stage = "open" /\ stage' = "detached" /\ UNCHANGED <<came, last, running>>

Quit == stage = "detached" /\ stage' = "quitting" /\ UNCHANGED <<came, last, running>>

\* A subscription without a queue has nothing to wait for once it is detached.
Close ==
    /\ ~running /\ (stage = "open" => last = came)
    /\ stage \in {"open", "quitting", "spent"} /\ stage' = "closed"
    /\ UNCHANGED <<came, last, running>>

Next == Arrive \/ Start \/ Return \/ Detach \/ Quit \/ Close

Spec == Init /\ [][Next]_vars
=============================================================================
