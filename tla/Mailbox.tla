------------------------------- MODULE Mailbox ------------------------------
(***************************************************************************)
(* What a publisher with one slot promises to producers that ask for it     *)
(* before they write: a message put into the slot stays there until it is   *)
(* picked up, and is sent once, in order, unless the publisher is closed.   *)
(***************************************************************************)
EXTENDS Integers, Sequences

CONSTANTS Messages,  \* a set of numbers: a message is its place in the order of writing
          None       \* not a message

VARIABLES slot,     \* the message waiting to be picked up, or None
          inflight, \* the message being sent, or None
          last,     \* the last message put
          sent,     \* the messages sent
          open

vars == <<slot, inflight, last, sent, open>>

Init == slot = None /\ inflight = None /\ last = 0 /\ sent = <<>> /\ open = TRUE

Put ==
    /\ slot = None
    /\ \E m \in Messages : m > last /\ slot' = m /\ last' = m
    /\ UNCHANGED <<inflight, sent, open>>

Pick ==
    /\ slot # None /\ inflight = None
    /\ slot' = None
    /\ inflight' = IF open THEN slot ELSE None
    /\ UNCHANGED <<last, sent, open>>

Send ==
    /\ inflight # None
    /\ sent' = Append(sent, inflight)
    /\ inflight' = None
    /\ UNCHANGED <<slot, last, open>>

\* A message being sent when the publisher is closed may still be sent.
Close ==
    /\ open
    /\ open' = FALSE /\ inflight' \in {inflight, None}
    /\ UNCHANGED <<slot, last, sent>>

Next == Put \/ Pick \/ Send \/ Close

Spec == Init /\ [][Next]_vars
=============================================================================
