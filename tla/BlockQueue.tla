----------------------------- MODULE BlockQueue -----------------------------
(***************************************************************************)
(* unitree::common::BlockQueue<T>, the bounded queue between a DDS reader   *)
(* (or any producer) and the threads that consume its messages.             *)
(*                                                                          *)
(* Every public operation holds mMutexCond for its whole body, so each is   *)
(* one atomic step, except Get: a Get that finds the queue empty gives the  *)
(* mutex up inside the condition variable and goes on when it is woken or   *)
(* its timeout ends.  Get waits ONCE: there is no loop around the wait.     *)
(*                                                                          *)
(* An element is represented by its rank in the order of the Puts.          *)
(***************************************************************************)
EXTENDS Integers, Sequences, FiniteSets

CONSTANTS Threads,          \* the threads that call the queue
          MaxSize,          \* argument of the constructor; 0 means the default
          UT_QUEUE_MAX_LEN, \* the default (INT_MAX in the code)
          MaxPuts           \* bound: number of Puts in a behaviour

ASSUME QueueAssumption ==
    /\ IsFiniteSet(Threads)
    /\ MaxSize \in Nat
    /\ UT_QUEUE_MAX_LEN \in Nat \ {0}
    /\ MaxPuts \in Nat

\* The constructor replaces a size of 0 by the default.
mMaxSize == IF MaxSize = 0 THEN UT_QUEUE_MAX_LEN ELSE MaxSize

VARIABLES
    mQueue,    \* the list, front first
    mCurSize,  \* its size, counted separately by the code
    phase,     \* where each thread is: see Phases
    puts,      \* number of Puts so far, the rank of the last one
    front,     \* history: elements put at the front
    delivered, \* history: elements returned by Get, in order
    evicted,   \* history: elements a full queue dropped to make room
    rejected,  \* history: elements a full queue refused
    falsePuts  \* history: number of Puts that returned false

history == <<puts, front, delivered, evicted, rejected, falsePuts>>
vars == <<mQueue, mCurSize, phase, history>>

(***************************************************************************)
(* "waiting" and "timedWaiting" threads are blocked in the condition        *)
(* variable.  The others have left it and compete for the mutex: "notified" *)
(* by a Put, "interrupted" by Interrupt or by nobody (a spurious wakeup),   *)
(* "expired" because the timeout ended.                                     *)
(***************************************************************************)
Phases == {"idle", "waiting", "timedWaiting", "notified", "interrupted", "expired"}

In(p)   == {t \in Threads : phase[t] = p}
Blocked == In("waiting") \cup In("timedWaiting")

TypeOK ==
    /\ puts \in 0..MaxPuts
    /\ mQueue \in Seq(1..puts) /\ delivered \in Seq(1..puts)
    /\ front \subseteq 1..puts /\ evicted \subseteq 1..puts /\ rejected \subseteq 1..puts
    /\ mCurSize \in 0..mMaxSize /\ falsePuts \in Nat
    /\ phase \in [Threads -> Phases]

Init ==
    /\ mQueue = <<>> /\ mCurSize = 0
    /\ phase = [t \in Threads |-> "idle"]
    /\ puts = 0 /\ front = {} /\ delivered = <<>>
    /\ evicted = {} /\ rejected = {} /\ falsePuts = 0

-----------------------------------------------------------------------------
(***************************************************************************)
(* MutexCond::Notify wakes one blocked thread, whichever the system picks,  *)
(* and does nothing when no thread is blocked.                              *)
(***************************************************************************)
Notify ==
    \/ /\ Blocked = {}
       /\ UNCHANGED phase
    \/ \E t \in Blocked : phase' = [phase EXCEPT ![t] = "notified"]

Full_OffByOne == mCurSize > mMaxSize   \* mutation

Full == mCurSize >= mMaxSize

\* Full and not allowed to replace: the element is refused.
PutRejected(replace) ==
    /\ Full /\ ~replace
    /\ rejected' = rejected \cup {puts + 1}
    /\ falsePuts' = falsePuts + 1
    /\ UNCHANGED <<mQueue, mCurSize, phase, front, evicted>>

Insert_AtFront(q, putfront) == <<puts + 1>> \o q   \* mutation: emplace_front for both

Insert(q, putfront) == IF putfront THEN <<puts + 1>> \o q ELSE Append(q, puts + 1)

PutPlain_NotifiesOnce(putfront) ==   \* mutation: "somebody has been told already"
    /\ ~Full
    /\ mQueue' = Insert(mQueue, putfront)
    /\ mCurSize' = mCurSize + 1
    /\ IF mQueue = <<>> THEN Notify ELSE UNCHANGED phase
    /\ UNCHANGED <<evicted, rejected, falsePuts>>

\* There is room: the element is stored.
PutPlain(putfront) ==
    /\ ~Full
    /\ mQueue' = Insert(mQueue, putfront)
    /\ mCurSize' = mCurSize + 1
    /\ Notify
    /\ UNCHANGED <<evicted, rejected, falsePuts>>

PutReplacing_Silent(putfront) ==   \* mutation: noneReplaced stays true
    /\ Full
    /\ evicted' = evicted \cup {Head(mQueue)}
    /\ mQueue' = Insert(Tail(mQueue), putfront)
    /\ Notify
    /\ UNCHANGED <<mCurSize, rejected, falsePuts>>

\* Full: the front element is dropped, the new one is stored, and the call
\* returns false although the new element is in the queue.
PutReplacing(putfront) ==
    /\ Full
    /\ evicted' = evicted \cup {Head(mQueue)}
    /\ mQueue' = Insert(Tail(mQueue), putfront)
    /\ mCurSize' = (mCurSize - 1) + 1
    /\ falsePuts' = falsePuts + 1
    /\ Notify
    /\ UNCHANGED rejected

\* Any thread that is not inside Get may call Put.
Put(replace, putfront) ==
    /\ In("idle") # {} /\ puts < MaxPuts
    /\ puts' = puts + 1
    /\ \/ PutRejected(replace)
       \/ /\ PutPlain(putfront) \/ (replace /\ PutReplacing(putfront))
          /\ front' = IF putfront THEN front \cup {puts + 1} ELSE front
    /\ UNCHANGED delivered

TakeFront ==
    /\ delivered' = Append(delivered, Head(mQueue))
    /\ mQueue' = Tail(mQueue)
    /\ mCurSize' = mCurSize - 1
    /\ UNCHANGED <<puts, front, evicted, rejected, falsePuts>>

\* Get enters: it takes the front element, or blocks on the empty queue (an
\* untimed wait when microsec is 0).
Get(t, timed) ==
    /\ phase[t] = "idle"
    /\ \/ /\ mQueue # <<>>
          /\ TakeFront
          /\ UNCHANGED phase
       \/ /\ mQueue = <<>>
          /\ phase' = [phase EXCEPT ![t] = IF timed THEN "timedWaiting" ELSE "waiting"]
          /\ UNCHANGED <<mQueue, mCurSize, history>>

\* A woken Get has the mutex again: it takes the front element, or returns
\* false when the queue is (again) empty.
GetWoken(t) ==
    /\ phase[t] \in {"notified", "interrupted"}
    /\ phase' = [phase EXCEPT ![t] = "idle"]
    /\ \/ mQueue # <<>> /\ TakeFront
       \/ mQueue = <<>> /\ UNCHANGED <<mQueue, mCurSize, history>>

\* A Get whose timeout ended has the mutex again: it returns false without
\* another look at the queue.
GetExpired(t) ==
    /\ phase[t] = "expired"
    /\ phase' = [phase EXCEPT ![t] = "idle"]
    /\ UNCHANGED <<mQueue, mCurSize, history>>

-----------------------------------------------------------------------------
\* Interrupt(all) wakes every blocked thread, or one of them.
Interrupt(all) ==
    /\ In("idle") # {} /\ Blocked # {}
    /\ \E S \in IF all THEN {Blocked} ELSE {{t} : t \in Blocked} :
          phase' = [t \in Threads |-> IF t \in S THEN "interrupted" ELSE phase[t]]
    /\ UNCHANGED <<mQueue, mCurSize, history>>

\* The condition variable: a timed wait may end, and any wait may end for no
\* reason (POSIX allows spurious wakeups).
WaitTimeout(t) ==
    /\ phase[t] = "timedWaiting"
    /\ phase' = [phase EXCEPT ![t] = "expired"]
    /\ UNCHANGED <<mQueue, mCurSize, history>>

SpuriousWakeup(t) ==
    /\ t \in Blocked
    /\ phase' = [phase EXCEPT ![t] = "interrupted"]
    /\ UNCHANGED <<mQueue, mCurSize, history>>

Next ==
    \/ \E replace, putfront \in BOOLEAN : Put(replace, putfront)
    \/ \E t \in Threads, timed \in BOOLEAN : Get(t, timed)
    \/ \E t \in Threads : GetWoken(t) \/ GetExpired(t)
    \/ \E all \in BOOLEAN : Interrupt(all)
    \/ \E t \in Threads : WaitTimeout(t) \/ SpuriousWakeup(t)

Spec == Init /\ [][Next]_vars

\* A thread that has been woken runs again: the mutex is only ever held for a
\* bounded time, and the system schedules every runnable thread.
Fairness == \A t \in Threads : WF_vars(GetWoken(t))

FairSpec == Spec /\ Fairness
-----------------------------------------------------------------------------
\* mCurSize, which Put and Get maintain by hand beside the list and which
\* decides when the queue is full, is the length of the list.
SizeIsExact == mCurSize = Len(mQueue)

\* The result of Put tells about losses, not about the element handed in: the
\* calls that returned false are as many as the elements lost
\* ("if queue is full or full-replaced occured return false").
LossIsReported == falsePuts = Cardinality(evicted) + Cardinality(rejected)

\* Elements put at the back are returned in the order of their Puts whatever is
\* evicted, refused, or put at the front in between; elements put at the front
\* stay ahead of the others, the latest first.
InPutOrder ==
    LET all == delivered \o mQueue
    IN  /\ \A i, j \in DOMAIN all :
              (i < j /\ all[i] \notin front /\ all[j] \notin front) => all[i] < all[j]
        /\ \A i, j \in DOMAIN mQueue :
              (i < j /\ mQueue[j] \in front) => /\ mQueue[i] \in front
                                                /\ mQueue[i] > mQueue[j]

\* No lost wakeup: while a thread is still blocked on the queue, every queued
\* element has a thread a Put has notified for it.
NoLostWakeup == Blocked # {} => Len(mQueue) <= Cardinality(In("notified"))

\* What a blocked Get relies on: if the queue holds elements while threads are
\* blocked, then the queue is emptied or every blocked thread leaves the wait.
BlockedGetIsServed == (mQueue # <<>> /\ Blocked # {}) ~> (mQueue = <<>> \/ Blocked = {})

\* The queue behaves as a bounded buffer that loses elements only when full.
Lossy == INSTANCE LossyBuffer WITH Capacity <- mMaxSize, MaxOffers <- MaxPuts,
            buffer <- mQueue, offered <- puts, taken <- delivered,
            lost <- evicted \cup rejected
ImplementsLossyBuffer == Lossy!Spec
=============================================================================
