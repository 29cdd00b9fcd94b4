----------------------------- MODULE LossyBuffer ----------------------------
(***************************************************************************)
(* What a bounded queue promises to its users, without threads, locks or    *)
(* counters: elements come out from the front, one at a time and once, and  *)
(* nothing is ever lost while there is room.                                *)
(***************************************************************************)
EXTENDS Integers, Sequences

CONSTANTS Capacity,  \* elements the buffer can hold
          MaxOffers  \* bound: number of elements offered in a behaviour

VARIABLES buffer,   \* the elements held, front first
          offered,  \* how many elements have been offered; the name of the last one
          taken,    \* the elements taken, in order
          lost      \* the elements dropped or refused

vars == <<buffer, offered, taken, lost>>

Init == buffer = <<>> /\ offered = 0 /\ taken = <<>> /\ lost = {}

\* One of the two ends of q receives the element offered.
AtAnEnd(q) == {Append(q, offered + 1), <<offered + 1>> \o q}

Store ==
    /\ Len(buffer) < Capacity
    /\ buffer' \in AtAnEnd(buffer)
    /\ lost' = lost

StoreDroppingOldest ==
    /\ Len(buffer) = Capacity
    /\ buffer' \in AtAnEnd(Tail(buffer))
    /\ lost' = lost \cup {Head(buffer)}

Refuse ==
    /\ Len(buffer) = Capacity
    /\ buffer' = buffer
    /\ lost' = lost \cup {offered + 1}

Offer ==
    /\ offered < MaxOffers
    /\ offered' = offered + 1
    /\ taken' = taken
    /\ Store \/ StoreDroppingOldest \/ Refuse

Take ==
    /\ buffer # <<>>
    /\ taken' = Append(taken, Head(buffer))
    /\ buffer' = Tail(buffer)
    /\ UNCHANGED <<offered, lost>>

Next == Offer \/ Take

Spec == Init /\ [][Next]_vars
=============================================================================
