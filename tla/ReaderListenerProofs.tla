------------------------ MODULE ReaderListenerProofs ------------------------
(***************************************************************************)
(* The listener with a queue of any length, or none, and any number of      *)
(* samples: what its handler sees, and what is left of it when it closes.   *)
(***************************************************************************)
EXTENDS ReaderListener, TLAPS

Increasing(s) == \A i, j \in DOMAIN s : i < j => s[i] < s[j]
Before(s, q)  == \A i \in DOMAIN s, j \in DOMAIN q : s[i] < q[j]

QueueInv == Queue!TypeOK /\ Queue!SizeIsExact

\* What has been handled is what Get has returned, and what is queued comes later.
FlowInv ==
    /\ mHasQueue  => handled = delivered /\ puts = arrived
    /\ ~mHasQueue => mQueue = <<>> /\ delivered = <<>> /\ puts = 0
    /\ Increasing(handled) /\ Increasing(mQueue) /\ Before(handled, mQueue)
    /\ Len(handled) + Len(mQueue) <= arrived /\ arrived + batch <= MaxSamples

\* Where worker and closer are, and what that says of the handler.  A worker on its
\* way into Get when mQuit is set has still to bring the one sample more.
CloseInv ==
    /\ workerPc = "none" <=> ~mHasQueue
    /\ mHasQueue /\ current # 0 => workerPc = "handler"
    /\ closerPc # "open" => batch = 0 /\ (~mHasQueue => current = 0)
    /\ closerPc \in {"setQuit", "interrupt", "join"} => mHasQueue
    /\ closerPc = "closed" => workerPc \in {"none", "exited"}
    /\ mQuit => /\ mHasQueue
                /\ Len(handled) <= atQuit + 1
                /\ workerPc \in {"callGet", "inGet"} => Len(handled) = atQuit

ListenerInv == TypeOK /\ QueueInv /\ FlowInv /\ CloseInv
-----------------------------------------------------------------------------
(* The queue's part.                                                       *)

LEMMA QueueConstants ==
    /\ Queue!mMaxSize = QueueLen /\ QueueLen \in Nat \ {0} /\ MaxSamples \in Nat
    /\ MaxBatch \in Nat \ {0}
    /\ worker \in Threads /\ worker # "dds"
  BY ListenerAssumption DEF Queue!mMaxSize, Threads, worker

\* An element more at the back, and one more has been put.
LEMMA AppendType ==
    ASSUME NEW n \in Nat, NEW q \in Seq(1..n)
    PROVE  /\ q \in Seq(1..(n + 1)) /\ Append(q, n + 1) \in Seq(1..(n + 1))
           /\ Len(Append(q, n + 1)) = Len(q) + 1
  <1>1. q \in Seq(1..(n + 1)) /\ n + 1 \in 1..(n + 1)
    OBVIOUS
  <1>. QED
    BY <1>1

LEMMA QueueInit == Init => QueueInv
  <1>. SUFFICES ASSUME Init PROVE QueueInv
    OBVIOUS
  <1>1. phase \in [Threads -> Queue!Phases]
    BY DEF Init, Queue!Init, Queue!Phases
  <1>. QED
    BY <1>1, QueueConstants
    DEF Init, Queue!Init, QueueInv, Queue!TypeOK, Queue!SizeIsExact

LEMMA NotifyKeeps ==
    ASSUME phase \in [Threads -> Queue!Phases], Queue!Notify
    PROVE  phase' \in [Threads -> Queue!Phases]
  BY DEF Queue!Notify, Queue!Phases, Queue!Blocked, Queue!In

\* Put with replacement stores its element, in the place of the oldest if need be.
LEMMA Stored ==
    ASSUME QueueInv, Queue!Put(TRUE, FALSE)
    PROVE  /\ QueueInv' /\ puts' = puts + 1 /\ delivered' = delivered
           /\ \E q \in {mQueue} \cup (IF mQueue = <<>> THEN {} ELSE {Tail(mQueue)}) :
                 mQueue' = Append(q, puts + 1)
           /\ \/ Len(mQueue) < QueueLen /\ mQueue' = Append(mQueue, puts + 1)
              \/ /\ Len(mQueue) = QueueLen /\ mQueue # <<>>
                 /\ mQueue' = Append(Tail(mQueue), puts + 1)
  <1>. USE QueueConstants DEF QueueInv, Queue!TypeOK, Queue!SizeIsExact
  <1>1. /\ puts \in Nat /\ puts' = puts + 1 /\ puts' \in 0..MaxSamples
        /\ UNCHANGED <<delivered, rejected, front>>
        /\ Queue!PutPlain(FALSE) \/ Queue!PutReplacing(FALSE)
    <2>1. puts \in Nat /\ puts' = puts + 1 /\ puts' \in 0..MaxSamples
      BY DEF Queue!Put
    <2>. QED
      BY <2>1 DEF Queue!Put, Queue!PutRejected, Queue!PutPlain, Queue!PutReplacing
  <1>2. /\ delivered \in Seq(1..(puts + 1)) /\ front \subseteq 1..(puts + 1)
        /\ rejected \subseteq 1..(puts + 1) /\ evicted \subseteq 1..(puts + 1)
    BY <1>1
  <1>3. CASE Queue!PutPlain(FALSE)
    <2>1. mQueue' = Append(mQueue, puts + 1) /\ mCurSize' = mCurSize + 1
      BY <1>3 DEF Queue!PutPlain, Queue!Insert
    <2>2. mQueue' \in Seq(1..(puts + 1)) /\ Len(mQueue') = Len(mQueue) + 1
      BY <1>1, <2>1, AppendType
    <2>3. mCurSize' \in 0..QueueLen
      BY <1>3, <2>1 DEF Queue!PutPlain, Queue!Full
    <2>4. phase' \in [Threads -> Queue!Phases] /\ UNCHANGED <<evicted, falsePuts>>
      BY <1>3, NotifyKeeps DEF Queue!PutPlain
    <2>5. Len(mQueue) < QueueLen
      BY <1>3 DEF Queue!PutPlain, Queue!Full
    <2>. QED
      BY <1>1, <1>2, <2>1, <2>2, <2>3, <2>4, <2>5
  <1>4. CASE Queue!PutReplacing(FALSE)
    <2>1. mQueue # <<>> /\ Len(mQueue) = QueueLen
      BY <1>4 DEF Queue!PutReplacing, Queue!Full
    <2>2. /\ Tail(mQueue) \in Seq(1..puts) /\ Len(Tail(mQueue)) = Len(mQueue) - 1
          /\ Head(mQueue) \in 1..puts
      BY <2>1
    <2>3. mQueue' = Append(Tail(mQueue), puts + 1) /\ mCurSize' = mCurSize
      BY <1>4 DEF Queue!PutReplacing, Queue!Insert
    <2>4. mQueue' \in Seq(1..(puts + 1)) /\ Len(mQueue') = Len(mQueue)
      BY <1>1, <2>2, <2>3, AppendType
    <2>5. /\ phase' \in [Threads -> Queue!Phases] /\ falsePuts' \in Nat
          /\ evicted' = evicted \cup {Head(mQueue)}
      BY <1>4, NotifyKeeps DEF Queue!PutReplacing
    <2>6. evicted' \subseteq 1..(puts + 1)
      <3>1. Head(mQueue) \in 1..(puts + 1)
        BY <1>1, <2>2
      <3>. QED
        BY <1>2, <2>5, <3>1
    <2>. QED
      BY <1>1, <1>2, <2>1, <2>3, <2>4, <2>5, <2>6
  <1>. QED
    BY <1>1, <1>3, <1>4

\* What a Get does to the queue: it takes the front element or leaves it as it is.
Takes == /\ mQueue # <<>> /\ mQueue' = Tail(mQueue)
         /\ delivered' = Append(delivered, Head(mQueue)) /\ puts' = puts
Keeps == UNCHANGED <<mQueue, delivered, puts>>

LEMMA TakeFrontTakes ==
    ASSUME QueueInv, mQueue # <<>>, Queue!TakeFront, phase' \in [Threads -> Queue!Phases]
    PROVE  QueueInv' /\ Takes
  <1>. USE DEF QueueInv, Queue!TypeOK, Queue!SizeIsExact
  <1>1. /\ Tail(mQueue) \in Seq(1..puts) /\ Len(Tail(mQueue)) = Len(mQueue) - 1
        /\ Head(mQueue) \in 1..puts
    OBVIOUS
  <1>2. /\ mQueue' = Tail(mQueue) /\ delivered' = Append(delivered, Head(mQueue))
        /\ mCurSize' = mCurSize - 1 /\ UNCHANGED <<puts, front, evicted, rejected, falsePuts>>
    BY DEF Queue!TakeFront
  <1>3. mCurSize' \in 0..Queue!mMaxSize
    BY <1>1, <1>2, QueueConstants
  <1>4. delivered' \in Seq(1..puts)
    BY <1>1, <1>2
  <1>. QED
    BY <1>1, <1>2, <1>3, <1>4 DEF Takes

\* Steps that concern the threads in the condition variable only.
LEMMA PhaseKeeps ==
    ASSUME QueueInv, phase' \in [Threads -> Queue!Phases],
           UNCHANGED <<mQueue, mCurSize, puts, front, delivered, evicted, rejected, falsePuts>>
    PROVE  QueueInv' /\ Keeps
  BY DEF QueueInv, Queue!TypeOK, Queue!SizeIsExact, Keeps

LEMMA GetTakesOrKeeps ==
    ASSUME QueueInv, Queue!Get(worker, FALSE) \/ Queue!GetWoken(worker)
    PROVE  QueueInv' /\ (Takes \/ Keeps)
  <1>1. phase' \in [Threads -> Queue!Phases]
    BY DEF QueueInv, Queue!TypeOK, Queue!Get, Queue!GetWoken, Queue!Phases
  <1>. QED
    BY <1>1, TakeFrontTakes, PhaseKeeps DEF Queue!Get, Queue!GetWoken, Queue!history

LEMMA WakeupKeeps ==
    ASSUME QueueInv, Queue!Interrupt(FALSE) \/ Queue!SpuriousWakeup(worker)
    PROVE  QueueInv' /\ Keeps
  <1>1. phase' \in [Threads -> Queue!Phases]
    BY DEF QueueInv, Queue!TypeOK, Queue!Interrupt, Queue!SpuriousWakeup, Queue!Phases
  <1>. QED
    BY <1>1, PhaseKeeps DEF Queue!Interrupt, Queue!SpuriousWakeup, Queue!history

LEMMA QueueUnchanged ==
    ASSUME QueueInv, UNCHANGED queueVars
    PROVE  QueueInv' /\ Keeps
  BY PhaseKeeps DEF queueVars, QueueInv, Queue!TypeOK
-----------------------------------------------------------------------------
(* The order of what is handled and of what is queued.                     *)

LEMMA NewestLast ==
    ASSUME NEW n \in Nat, NEW d \in Seq(1..n), NEW q \in Seq(1..n), Increasing(q), Before(d, q)
    PROVE  Increasing(Append(q, n + 1)) /\ Before(d, Append(q, n + 1))
  <1>1. /\ Append(q, n + 1) \in Seq(1..(n + 1)) /\ Len(Append(q, n + 1)) = Len(q) + 1
        /\ \A i \in 1..Len(q) : Append(q, n + 1)[i] = q[i] /\ q[i] \in 1..n
        /\ Append(q, n + 1)[Len(q) + 1] = n + 1
    BY AppendType
  <1>2. DOMAIN d = 1..Len(d) /\ \A i \in 1..Len(d) : d[i] \in 1..n
    OBVIOUS
  <1>3. DOMAIN q = 1..Len(q) /\ DOMAIN Append(q, n + 1) = 1..(Len(q) + 1) /\ Len(q) \in Nat
    BY <1>1
  <1>4. \A i \in 1..(Len(q) + 1) : i \in 1..Len(q) \/ i = Len(q) + 1
    BY <1>3
  <1>5. Increasing(Append(q, n + 1))
    <2>. SUFFICES ASSUME NEW i \in 1..(Len(q) + 1), NEW j \in 1..(Len(q) + 1), i < j
                  PROVE  Append(q, n + 1)[i] < Append(q, n + 1)[j]
      BY <1>3 DEF Increasing
    <2>1. i \in 1..Len(q)
      BY <1>3
    <2>2. CASE j \in 1..Len(q)
      BY <1>1, <1>3, <2>1, <2>2 DEF Increasing
    <2>3. CASE j = Len(q) + 1
      BY <1>1, <2>1, <2>3
    <2>. QED
      BY <1>4, <2>2, <2>3
  <1>6. Before(d, Append(q, n + 1))
    <2>. SUFFICES ASSUME NEW i \in 1..Len(d), NEW j \in 1..(Len(q) + 1)
                  PROVE  d[i] < Append(q, n + 1)[j]
      BY <1>2, <1>3 DEF Before
    <2>1. CASE j \in 1..Len(q)
      BY <1>1, <1>2, <1>3, <2>1 DEF Before
    <2>2. CASE j = Len(q) + 1
      BY <1>1, <1>2, <2>2
    <2>. QED
      BY <1>4, <2>1, <2>2
  <1>. QED
    BY <1>5, <1>6

LEMMA OldestTaken ==
    ASSUME NEW n \in Nat, NEW d \in Seq(1..n), NEW q \in Seq(1..n), q # <<>>,
           Increasing(d), Increasing(q), Before(d, q)
    PROVE  /\ Increasing(Append(d, Head(q))) /\ Increasing(Tail(q))
           /\ Before(d, Tail(q)) /\ Before(Append(d, Head(q)), Tail(q))
  <1>1. /\ Tail(q) \in Seq(1..n) /\ Len(Tail(q)) = Len(q) - 1
        /\ \A j \in 1..Len(Tail(q)) : Tail(q)[j] = q[j + 1] /\ j + 1 \in 1..Len(q)
        /\ Head(q) = q[1] /\ 1 \in 1..Len(q)
    OBVIOUS
  <1>2. /\ Append(d, Head(q)) \in Seq(1..n) /\ Len(Append(d, Head(q))) = Len(d) + 1
        /\ \A i \in 1..Len(d) : Append(d, Head(q))[i] = d[i]
        /\ Append(d, Head(q))[Len(d) + 1] = q[1]
    BY <1>1
  <1>3. Increasing(Tail(q))
    BY <1>1, SMTT(30) DEF Increasing
  <1>4. Before(d, Tail(q))
    BY <1>1, SMTT(30) DEF Before
  <1>5. Increasing(Append(d, Head(q)))
    BY <1>1, <1>2, SMTT(30) DEF Increasing, Before
  <1>6. Before(Append(d, Head(q)), Tail(q))
    <2>1. \A m \in Nat : \A k \in 1..(m + 1) : k \in 1..m \/ k = m + 1
      OBVIOUS
    <2>2. Len(d) \in Nat
      OBVIOUS
    <2>. SUFFICES ASSUME NEW i \in DOMAIN Append(d, Head(q)), NEW j \in DOMAIN Tail(q)
                  PROVE  Append(d, Head(q))[i] < Tail(q)[j]
      BY DEF Before
    <2>3. /\ i \in 1..Len(d) \/ i = Len(d) + 1
          /\ j \in 1..Len(Tail(q))
      <3>1. Len(d) \in Nat /\ DOMAIN Append(d, Head(q)) = 1..(Len(d) + 1)
        BY <1>1, <1>2
      <3>2. DOMAIN Tail(q) = 1..Len(Tail(q))
        BY <1>1
      <3>3. i \in 1..(Len(d) + 1) /\ j \in 1..Len(Tail(q))
        BY <3>1, <3>2, Zenon
      <3>. QED
        BY <2>1, <2>2, <3>3, Zenon
    <2>4. CASE i \in 1..Len(d)
      <3>1. \A k \in 1..Len(d), l \in 1..Len(q) : d[k] < q[l]
        BY SMTT(30) DEF Before
      <3>2. /\ j + 1 \in 1..Len(q) /\ Tail(q)[j] = q[j + 1]
            /\ Append(d, Head(q))[i] = d[i]
        BY <1>1, <1>2, <2>3, <2>4, Zenon
      <3>3. d[i] < q[j + 1]
        BY <2>4, <3>1, <3>2, Zenon
      <3>. QED
        BY <3>2, <3>3, Zenon
    <2>5. CASE i = Len(d) + 1
      <3>1. 1 < j + 1
        BY <1>1, <2>3
      <3>. QED
        BY <1>1, <1>2, <2>3, <2>5, <3>1, SMTT(30) DEF Increasing
    <2>. QED
      BY <2>3, <2>4, <2>5
  <1>. QED
    BY <1>3, <1>4, <1>5, <1>6

-----------------------------------------------------------------------------
(* The steps of the listener.                                              *)

Typed ==
    /\ mHasQueue \in BOOLEAN /\ mQuit \in BOOLEAN
    /\ workerPc \in WorkerPcs /\ closerPc \in CloserPcs
    /\ batch \in 0..MaxBatch /\ arrived \in 0..MaxSamples /\ current \in 0..arrived
    /\ handled \in Seq(1..arrived) /\ atQuit \in 0..MaxSamples

LEMMA TypedType == TypeOK <=> Typed /\ Queue!TypeOK
  BY DEF TypeOK, Typed

LEMMA InvInit == Init => ListenerInv
  <1>. SUFFICES ASSUME Init PROVE ListenerInv
    OBVIOUS
  <1>1. Typed
    <2>1. /\ mHasQueue \in BOOLEAN /\ mQuit \in BOOLEAN
          /\ workerPc \in WorkerPcs /\ closerPc \in CloserPcs
      BY DEF Init, WorkerPcs, CloserPcs
    <2>2. batch = 0 /\ arrived = 0 /\ current = 0 /\ handled = <<>> /\ atQuit = 0
      BY DEF Init
    <2>3. /\ batch \in 0..MaxBatch /\ arrived \in 0..MaxSamples /\ current \in 0..arrived
          /\ handled \in Seq(1..arrived) /\ atQuit \in 0..MaxSamples
      BY <2>2, QueueConstants
    <2>. QED
      BY <2>1, <2>3 DEF Typed
  <1>2. FlowInv
    BY QueueConstants DEF Init, Queue!Init, FlowInv, Increasing, Before
  <1>3. CloseInv
    BY DEF Init, CloseInv
  <1>. QED
    BY <1>1, <1>2, <1>3, QueueInit, TypedType DEF ListenerInv, QueueInv

\* A sample goes into the queue: it is newer than all that is there or was.
LEMMA PassOnQueues ==
    ASSUME ListenerInv, PassOn, mHasQueue
    PROVE  Typed' /\ QueueInv' /\ FlowInv' /\ CloseInv'
  <1>1. /\ batch > 0 /\ batch' = batch - 1 /\ arrived' = arrived + 1
        /\ Queue!Put(TRUE, FALSE)
        /\ UNCHANGED <<current, handled, mHasQueue, mQuit, workerPc, closerPc, atQuit>>
    BY DEF PassOn, PassOnBy
  <1>2. /\ QueueInv' /\ puts' = puts + 1 /\ delivered' = delivered
        /\ puts \in Nat /\ puts = arrived /\ handled = delivered
        /\ mQueue \in Seq(1..puts) /\ delivered \in Seq(1..puts)
    <2>1. QueueInv' /\ puts' = puts + 1 /\ delivered' = delivered
      BY <1>1, Stored DEF ListenerInv
    <2>2. puts \in Nat /\ mQueue \in Seq(1..puts) /\ delivered \in Seq(1..puts)
      BY QueueConstants DEF ListenerInv, QueueInv, Queue!TypeOK
    <2>3. puts = arrived /\ handled = delivered
      BY <1>1 DEF ListenerInv, FlowInv
    <2>. QED
      BY <2>1, <2>2, <2>3
  <1>3. PICK q \in {mQueue} \cup (IF mQueue = <<>> THEN {} ELSE {Tail(mQueue)}) :
               mQueue' = Append(q, puts + 1)
    BY <1>1, Stored DEF ListenerInv
  <1>4. q \in Seq(1..puts) /\ Increasing(q) /\ Before(delivered, q) /\ Len(q) <= Len(mQueue)
    <2>1. CASE q = mQueue
      BY <1>2, <2>1 DEF ListenerInv, FlowInv
    <2>2. CASE mQueue # <<>> /\ q = Tail(mQueue)
      <3>1. Increasing(delivered) /\ Increasing(mQueue) /\ Before(delivered, mQueue)
        BY <1>2 DEF ListenerInv, FlowInv
      <3>2. Increasing(q) /\ Before(delivered, q)
        BY <1>2, <2>2, <3>1, OldestTaken
      <3>. QED
        BY <1>2, <2>2, <3>2
    <2>. QED
      BY <1>3, <2>1, <2>2
  <1>5. Increasing(mQueue') /\ Before(handled', mQueue')
    BY <1>1, <1>2, <1>3, <1>4, NewestLast
  <1>6. Len(mQueue') = Len(q) + 1 /\ handled \in Seq(1..(arrived + 1))
    BY <1>2, <1>3, <1>4, AppendType
  <1>7. /\ Len(handled') + Len(mQueue') <= arrived' /\ arrived' + batch' <= MaxSamples
        /\ batch' \in 0..MaxBatch /\ arrived' \in 0..MaxSamples /\ current' \in 0..arrived'
    BY <1>1, <1>2, <1>4, <1>6, QueueConstants DEF ListenerInv, FlowInv, TypeOK
  <1>8. Typed'
    BY <1>1, <1>6, <1>7 DEF ListenerInv, TypeOK, Typed
  <1>9. FlowInv'
    BY <1>1, <1>2, <1>5, <1>7 DEF ListenerInv, FlowInv
  <1>10. CloseInv'
    BY <1>1 DEF ListenerInv, CloseInv, TypeOK
  <1>. QED
    BY <1>2, <1>8, <1>9, <1>10

\* Without a queue the handler gets the sample itself.
LEMMA PassOnHandles ==
    ASSUME ListenerInv, PassOn, ~mHasQueue
    PROVE  Typed' /\ QueueInv' /\ FlowInv' /\ CloseInv'
  <1>1. /\ batch > 0 /\ batch' = batch - 1 /\ arrived' = arrived + 1
        /\ current' = arrived + 1 /\ handled' = Append(handled, arrived + 1)
        /\ UNCHANGED <<queueVars, mHasQueue, mQuit, workerPc, closerPc, atQuit>>
    BY DEF PassOn, PassOnBy, StartHandler
  <1>2. /\ arrived \in Nat /\ handled \in Seq(1..arrived) /\ Increasing(handled)
        /\ mQueue = <<>> /\ delivered = <<>> /\ puts = 0
    BY QueueConstants DEF ListenerInv, TypeOK, FlowInv
  <1>3. QueueInv' /\ Keeps
    BY <1>1, QueueUnchanged DEF ListenerInv
  <1>4. Increasing(handled')
    <2>1. <<>> \in Seq(1..arrived) /\ Before(<<>>, handled)
      BY DEF Before
    <2>. QED
      BY <1>1, <1>2, <2>1, NewestLast
  <1>5. handled' \in Seq(1..(arrived + 1)) /\ Len(handled') = Len(handled) + 1
    BY <1>1, <1>2, AppendType
  <1>6. mQueue' = <<>> /\ delivered' = <<>> /\ puts' = 0
    BY <1>2, <1>3 DEF Keeps
  <1>7. Before(handled', mQueue') /\ Increasing(mQueue') /\ Len(mQueue') = 0 /\ Len(mQueue) = 0
    BY <1>2, <1>6 DEF Before, Increasing
  <1>8. /\ Len(handled') + Len(mQueue') <= arrived' /\ arrived' + batch' <= MaxSamples
        /\ batch' \in 0..MaxBatch /\ arrived' \in 0..MaxSamples /\ current' \in 0..arrived'
    BY <1>1, <1>2, <1>5, <1>7, QueueConstants DEF ListenerInv, FlowInv, TypeOK
  <1>9. Typed'
    BY <1>1, <1>5, <1>8 DEF ListenerInv, TypeOK, Typed
  <1>10. FlowInv'
    BY <1>1, <1>4, <1>6, <1>7, <1>8 DEF FlowInv
  <1>11. batch # 0 /\ closerPc = "open"
    BY <1>1 DEF ListenerInv, CloseInv, TypeOK
  <1>12. CloseInv'
    BY <1>1, <1>11 DEF ListenerInv, CloseInv
  <1>. QED
    BY <1>3, <1>9, <1>10, <1>12

\* Get has returned: with the next sample, for which the handler is called, or
\* without one.
LEMMA GetReturns ==
    ASSUME ListenerInv, workerPc \in {"callGet", "inGet"}, Takes \/ Keeps, AfterGet,
           QueueInv', WorkerUnchanged
    PROVE  Typed' /\ FlowInv' /\ CloseInv'
  <1>1. /\ mHasQueue /\ handled = delivered /\ puts = arrived /\ puts \in Nat
        /\ mQueue \in Seq(1..puts) /\ delivered \in Seq(1..puts)
        /\ Increasing(handled) /\ Increasing(mQueue) /\ Before(handled, mQueue)
    BY DEF ListenerInv, CloseInv, FlowInv, QueueInv, Queue!TypeOK
  <1>2. UNCHANGED <<mHasQueue, mQuit, closerPc, batch, arrived, atQuit>>
    BY DEF WorkerUnchanged
  <1>3. CASE Takes
    <2>1. /\ mQueue # <<>> /\ mQueue' = Tail(mQueue) /\ puts' = puts
          /\ delivered' = Append(delivered, Head(mQueue))
      BY <1>3 DEF Takes
    <2>2. /\ Head(mQueue) \in 1..puts /\ delivered' \in Seq(1..puts)
          /\ Len(delivered') = Len(delivered) + 1 /\ delivered'[Len(delivered')] = Head(mQueue)
          /\ Len(mQueue') = Len(mQueue) - 1
      BY <1>1, <2>1
    <2>3. Len(delivered') > Len(delivered)
      BY <1>1, <2>2
    <2>4. workerPc' = "handler" /\ current' = Head(mQueue) /\ handled' = delivered'
      BY <1>1, <2>1, <2>2, <2>3 DEF AfterGet, StartHandler
    <2>5. Increasing(handled') /\ Increasing(mQueue') /\ Before(handled', mQueue')
      BY <1>1, <2>1, <2>4, OldestTaken
    <2>6. /\ current' \in 0..arrived /\ handled' \in Seq(1..arrived)
          /\ Len(handled') = Len(handled) + 1
          /\ Len(handled') + Len(mQueue') <= arrived
      BY <1>1, <2>2, <2>4 DEF ListenerInv, FlowInv
    <2>7. Typed'
      BY <1>2, <2>4, <2>6 DEF ListenerInv, TypeOK, Typed, WorkerPcs
    <2>8. FlowInv'
      BY <1>1, <1>2, <2>1, <2>4, <2>5, <2>6 DEF ListenerInv, FlowInv
    <2>9. mQuit => Len(handled') <= atQuit + 1
      BY <2>6 DEF ListenerInv, CloseInv, TypeOK
    <2>10. CloseInv'
      BY <1>1, <1>2, <2>4, <2>9 DEF ListenerInv, CloseInv
    <2>. QED
      BY <2>7, <2>8, <2>10
  <1>4. CASE Keeps
    <2>1. UNCHANGED <<mQueue, delivered, puts>>
      BY <1>4 DEF Keeps
    <2>2. ~(Len(delivered') > Len(delivered))
      BY <1>1, <2>1
    <2>3. workerPc' = "checkQuit" /\ UNCHANGED <<current, handled>>
      BY <2>2 DEF AfterGet
    <2>4. current = 0
      BY <1>1 DEF ListenerInv, CloseInv
    <2>5. Typed'
      BY <1>2, <2>3 DEF ListenerInv, TypeOK, Typed, WorkerPcs
    <2>6. FlowInv'
      BY <1>2, <2>1, <2>3 DEF ListenerInv, FlowInv
    <2>7. CloseInv'
      BY <1>1, <1>2, <2>3, <2>4 DEF ListenerInv, CloseInv
    <2>. QED
      BY <2>5, <2>6, <2>7
  <1>. QED
    BY <1>3, <1>4

LEMMA WorkerKeeps ==
    ASSUME ListenerInv, WorkerThread
    PROVE  Typed' /\ QueueInv' /\ FlowInv' /\ CloseInv'
  <1>1. WorkerUnchanged
    BY DEF WorkerThread, WorkerChecksQuit, WorkerCallsGet, WorkerReturnsFromGet, WorkerHandlerReturns
  <1>2. UNCHANGED <<mHasQueue, mQuit, closerPc, batch, arrived, atQuit>>
    BY <1>1 DEF WorkerUnchanged
  <1>3. CASE WorkerChecksQuit \/ WorkerHandlerReturns
    <2>1. QueueInv' /\ Keeps
      BY <1>3, QueueUnchanged DEF ListenerInv, WorkerChecksQuit, WorkerHandlerReturns
    <2>2. /\ handled' = handled /\ workerPc' \in {"checkQuit", "callGet", "exited"}
          /\ workerPc \in {"checkQuit", "handler"} /\ (mQuit => workerPc' # "callGet")
          /\ current' \in {0, current} /\ (workerPc = "handler" => current' = 0)
      BY <1>3 DEF WorkerChecksQuit, WorkerHandlerReturns
    <2>3. Typed'
      BY <1>2, <2>2 DEF ListenerInv, TypeOK, Typed, WorkerPcs
    <2>4. FlowInv'
      BY <1>2, <2>1, <2>2 DEF Keeps, ListenerInv, FlowInv
    <2>5. CloseInv'
      BY <1>2, <2>2 DEF ListenerInv, CloseInv
    <2>. QED
      BY <2>1, <2>3, <2>4, <2>5
  <1>4. CASE WorkerCallsGet
    <2>1. QueueInv' /\ (Takes \/ Keeps) /\ workerPc = "callGet"
      BY <1>4, GetTakesOrKeeps DEF ListenerInv, WorkerCallsGet
    <2>2. CASE phase'[worker] = "idle"
      BY <1>1, <1>4, <2>1, <2>2, GetReturns DEF WorkerCallsGet
    <2>3. CASE phase'[worker] # "idle"
      <3>1. QueueInv' /\ Keeps
        <4>1. UNCHANGED <<mQueue, mCurSize, puts, front, delivered, evicted, rejected, falsePuts>>
          BY <1>4, <2>3 DEF WorkerCallsGet, Queue!Get, Queue!history
        <4>. QED
          BY <2>1, <4>1 DEF Keeps
      <3>2. workerPc' = "inGet" /\ UNCHANGED <<current, handled>>
        BY <1>4, <2>3 DEF WorkerCallsGet
      <3>3. Typed'
        BY <1>2, <3>2 DEF ListenerInv, TypeOK, Typed, WorkerPcs
      <3>4. FlowInv'
        BY <1>2, <3>1, <3>2 DEF Keeps, ListenerInv, FlowInv
      <3>5. CloseInv'
        BY <1>2, <2>1, <3>2 DEF ListenerInv, CloseInv
      <3>. QED
        BY <3>1, <3>3, <3>4, <3>5
    <2>. QED
      BY <2>2, <2>3
  <1>5. CASE WorkerReturnsFromGet
    BY <1>1, <1>5, GetTakesOrKeeps, GetReturns DEF ListenerInv, WorkerReturnsFromGet
  <1>. QED
    BY <1>3, <1>4, <1>5 DEF WorkerThread

\* Steps that leave the samples where they are.
LEMMA FlowKeeps ==
    ASSUME ListenerInv, Keeps, UNCHANGED <<mHasQueue, arrived, handled>>,
           arrived + batch' <= MaxSamples
    PROVE  FlowInv'
  BY DEF Keeps, ListenerInv, FlowInv

LEMMA DdsKeeps ==
    ASSUME ListenerInv, TakeSamples \/ DirectHandlerReturns \/ SpuriousWakeup
    PROVE  Typed' /\ QueueInv' /\ FlowInv' /\ CloseInv'
  <1>1. UNCHANGED <<mHasQueue, mQuit, workerPc, closerPc, arrived, handled, atQuit>>
    BY DEF TakeSamples, DirectHandlerReturns, SpuriousWakeup, WorkerUnchanged
  <1>2. QueueInv' /\ Keeps
    BY QueueUnchanged, WakeupKeeps
    DEF ListenerInv, TakeSamples, DirectHandlerReturns, SpuriousWakeup
  <1>3. /\ batch' \in 0..MaxBatch /\ arrived + batch' <= MaxSamples
        /\ current' \in {0, current} /\ (current' # current => ~mHasQueue)
        /\ batch' # batch => closerPc = "open"
    BY QueueConstants
    DEF TakeSamples, DirectHandlerReturns, SpuriousWakeup, WorkerUnchanged, ListenerInv, FlowInv,
        TypeOK
  <1>4. Typed'
    BY <1>1, <1>3 DEF ListenerInv, TypeOK, Typed
  <1>5. FlowInv'
    BY <1>1, <1>2, <1>3, FlowKeeps
  <1>6. CloseInv'
    BY <1>1, <1>3 DEF ListenerInv, CloseInv
  <1>. QED
    BY <1>2, <1>4, <1>5, <1>6

\* The destructor goes on only when nothing runs that it would not wait for.
LEMMA CloserKeeps ==
    ASSUME ListenerInv, CloserThread
    PROVE  Typed' /\ QueueInv' /\ FlowInv' /\ CloseInv'
  <1>1. UNCHANGED <<mHasQueue, workerPc, batch, current, arrived, handled>>
    BY DEF CloserThread, CloserDetaches, CloserSetsQuit, CloserInterrupts, CloserJoins,
        CloserUnchanged
  <1>2. QueueInv' /\ Keeps
    BY QueueUnchanged, WakeupKeeps
    DEF ListenerInv, CloserThread, CloserDetaches, CloserSetsQuit, CloserInterrupts, CloserJoins
  <1>3. FlowInv'
    BY <1>1, <1>2, FlowKeeps DEF ListenerInv, FlowInv
  <1>4. Len(handled) \in 0..MaxSamples
    BY QueueConstants DEF ListenerInv, FlowInv, TypeOK, QueueInv, Queue!TypeOK
  <1>5. mQuit' \in BOOLEAN /\ closerPc' \in CloserPcs /\ atQuit' \in 0..MaxSamples
    BY <1>4
    DEF ListenerInv, TypeOK, CloserPcs, CloserThread, CloserDetaches, CloserSetsQuit,
        CloserInterrupts, CloserJoins
  <1>6. Typed'
    BY <1>1, <1>5 DEF ListenerInv, TypeOK, Typed
  <1>7. CloseInv'
    <2>1. CASE CloserDetaches
      BY <1>1, <2>1 DEF CloserDetaches, InDataAvailable, ListenerInv, CloseInv, TypeOK
    <2>2. CASE CloserSetsQuit
      BY <1>1, <1>4, <2>2 DEF CloserSetsQuit, ListenerInv, CloseInv
    <2>3. CASE CloserInterrupts
      BY <1>1, <2>3 DEF CloserInterrupts, ListenerInv, CloseInv
    <2>4. CASE CloserJoins
      BY <1>1, <2>4 DEF CloserJoins, ListenerInv, CloseInv
    <2>. QED
      BY <2>1, <2>2, <2>3, <2>4 DEF CloserThread
  <1>. QED
    BY <1>2, <1>3, <1>6, <1>7

LEMMA InvStep == ListenerInv /\ [Next]_vars => ListenerInv'
  <1>. SUFFICES ASSUME ListenerInv, [Next]_vars
                PROVE  Typed' /\ QueueInv' /\ FlowInv' /\ CloseInv'
    BY TypedType DEF ListenerInv, QueueInv, TypeOK, Typed
  <1>1. CASE UNCHANGED vars
    <2>1. /\ UNCHANGED queueVars
          /\ UNCHANGED <<mHasQueue, mQuit, workerPc, closerPc, batch, current, arrived, handled, atQuit>>
      BY <1>1 DEF vars
    <2>2. QueueInv' /\ Keeps
      BY <2>1, QueueUnchanged DEF ListenerInv
    <2>3. Typed' /\ CloseInv'
      BY <2>1 DEF ListenerInv, TypeOK, Typed, CloseInv
    <2>4. FlowInv'
      BY <2>1, <2>2, FlowKeeps DEF ListenerInv, FlowInv
    <2>. QED
      BY <2>2, <2>3, <2>4
  <1>2. CASE PassOn
    BY <1>2, PassOnQueues, PassOnHandles
  <1>. QED
    BY <1>1, <1>2, WorkerKeeps, DdsKeeps, CloserKeeps DEF Next, DdsThread

LEMMA InvHolds == Spec => []ListenerInv
  BY InvInit, InvStep, PTL DEF Spec

-----------------------------------------------------------------------------
(* Who waits for whom while the reader is being closed.                    *)

\* Only the worker is ever inside the queue's condition variable.
WakeInv ==
    /\ phase \in [Threads -> {"idle", "waiting", "notified", "interrupted"}]
    /\ \A t \in Threads : phase[t] # "idle" <=> t = worker /\ workerPc = "inGet"
    /\ closerPc \in {"interrupt", "join"} => mQuit

LEMMA WakeInit == Init => WakeInv
  BY DEF Init, Queue!Init, WakeInv, Threads, worker

LEMMA BlockedIsWorker ==
    ASSUME WakeInv
    PROVE  Queue!Blocked = IF phase[worker] = "waiting" THEN {worker} ELSE {}
  BY DEF WakeInv, Queue!Blocked, Queue!In, Threads, worker

\* Waking somebody moves the worker, if it waits, and nobody else.
LEMMA OnlyWorkerMoves ==
    ASSUME WakeInv, NEW p \in {"notified", "interrupted"},
           \/ UNCHANGED phase
           \/ \E t \in Queue!Blocked : phase' = [phase EXCEPT ![t] = p],
           UNCHANGED <<workerPc, closerPc, mQuit>>
    PROVE  WakeInv'
  BY BlockedIsWorker DEF WakeInv, Threads, worker

LEMMA InterruptMoves ==
    ASSUME WakeInv, Queue!Interrupt(FALSE)
    PROVE  /\ phase[worker] = "waiting"
           /\ phase' = [phase EXCEPT ![worker] = "interrupted"]
  <1>1. Queue!Blocked = {worker} /\ phase[worker] = "waiting"
    BY BlockedIsWorker DEF Queue!Interrupt
  <1>2. phase' = [t \in Threads |-> IF t \in {worker} THEN "interrupted" ELSE phase[t]]
    BY <1>1 DEF Queue!Interrupt
  <1>. QED
    BY <1>1, <1>2 DEF WakeInv, Threads, worker

LEMMA WakeStep ==
    ASSUME ListenerInv, WakeInv, [Next]_vars
    PROVE  WakeInv'
  <1>1. CASE UNCHANGED vars
    BY <1>1 DEF vars, queueVars, WakeInv
  <1>2. CASE PassOn
    <2>1. UNCHANGED <<workerPc, closerPc, mQuit>>
      BY <1>2 DEF PassOn, PassOnBy
    <2>2. \/ UNCHANGED phase
          \/ \E t \in Queue!Blocked : phase' = [phase EXCEPT ![t] = "notified"]
      BY <1>2
      DEF PassOn, PassOnBy, Queue!Put, Queue!PutRejected, Queue!PutPlain, Queue!PutReplacing,
          Queue!Notify, queueVars
    <2>. QED
      BY <2>1, <2>2, OnlyWorkerMoves
  <1>3. CASE TakeSamples \/ DirectHandlerReturns
    BY <1>3 DEF TakeSamples, DirectHandlerReturns, queueVars, WakeInv
  <1>4. CASE SpuriousWakeup
    <2>1. /\ UNCHANGED <<workerPc, closerPc, mQuit>>
          /\ worker \in Queue!Blocked /\ phase' = [phase EXCEPT ![worker] = "interrupted"]
      BY <1>4 DEF SpuriousWakeup, WorkerUnchanged, Queue!SpuriousWakeup
    <2>. QED
      BY <2>1, OnlyWorkerMoves
  <1>5. CASE WorkerChecksQuit \/ WorkerHandlerReturns
    BY <1>5
    DEF WorkerChecksQuit, WorkerHandlerReturns, WorkerUnchanged, queueVars, WakeInv
  <1>6. CASE WorkerCallsGet
    <2>1. /\ workerPc = "callGet" /\ UNCHANGED <<closerPc, mQuit>>
          /\ IF phase'[worker] = "idle" THEN workerPc' \in {"handler", "checkQuit"}
             ELSE workerPc' = "inGet"
      BY <1>6 DEF WorkerCallsGet, WorkerUnchanged, AfterGet
    <2>2. UNCHANGED phase \/ phase' = [phase EXCEPT ![worker] = "waiting"]
      BY <1>6 DEF WorkerCallsGet, Queue!Get
    <2>. QED
      BY <2>1, <2>2 DEF WakeInv, Threads, worker
  <1>7. CASE WorkerReturnsFromGet
    <2>1. /\ workerPc' \in {"handler", "checkQuit"} /\ UNCHANGED <<closerPc, mQuit>>
          /\ phase' = [phase EXCEPT ![worker] = "idle"]
      BY <1>7 DEF WorkerReturnsFromGet, WorkerUnchanged, AfterGet, Queue!GetWoken
    <2>. QED
      BY <2>1 DEF WakeInv, Threads, worker
  <1>8. CASE CloserDetaches \/ CloserSetsQuit \/ CloserJoins
    BY <1>8
    DEF CloserDetaches, CloserSetsQuit, CloserJoins, CloserUnchanged, queueVars, WakeInv
  <1>9. CASE CloserInterrupts
    <2>1. /\ closerPc = "interrupt" /\ UNCHANGED <<workerPc, mQuit>>
          /\ UNCHANGED phase \/ Queue!Interrupt(FALSE)
      BY <1>9 DEF CloserInterrupts, CloserUnchanged, queueVars
    <2>. QED
      BY <2>1, InterruptMoves, BlockedIsWorker DEF WakeInv, Threads, worker
  <1>. QED
    BY <1>1, <1>2, <1>3, <1>4, <1>5, <1>6, <1>7, <1>8, <1>9
    DEF Next, DdsThread, WorkerThread, CloserThread

LEMMA WakeHolds == Spec => [](ListenerInv /\ WakeInv)
  <1>1. Init => ListenerInv /\ WakeInv
    BY InvInit, WakeInit
  <1>2. ListenerInv /\ WakeInv /\ [Next]_vars => (ListenerInv /\ WakeInv)'
    BY InvStep, WakeStep
  <1>. QED
    BY <1>1, <1>2, PTL DEF Spec

\* With mQuit set each step of the worker is one on its way out.
LEMMA WorkerGoesOut ==
    ASSUME ListenerInv, Next, mQuit, workerPc' # workerPc
    PROVE  wayOut[workerPc'] < wayOut[workerPc]
  <1>1. WorkerThread
    BY DEF Next, DdsThread, CloserThread, TakeSamples, PassOn, PassOnBy, DirectHandlerReturns,
           SpuriousWakeup, WorkerUnchanged, CloserDetaches, CloserSetsQuit, CloserInterrupts,
           CloserJoins, CloserUnchanged
  <1>2. \/ workerPc = "checkQuit" /\ workerPc' = "exited"
        \/ workerPc = "callGet" /\ workerPc' \in {"inGet", "handler", "checkQuit"}
        \/ workerPc = "inGet" /\ workerPc' \in {"handler", "checkQuit"}
        \/ workerPc = "handler" /\ workerPc' = "checkQuit"
    BY <1>1
    DEF WorkerThread, WorkerChecksQuit, WorkerCallsGet, WorkerReturnsFromGet,
        WorkerHandlerReturns, AfterGet
  <1>3. /\ wayOut["callGet"] = 4 /\ wayOut["inGet"] = 3 /\ wayOut["handler"] = 2
        /\ wayOut["checkQuit"] = 1 /\ wayOut["exited"] = 0
    BY DEF wayOut, WorkerPcs
  <1>. QED
    BY <1>2, <1>3

\* A worker that needs nobody does not come to need anybody.
LEMMA HangBegins ==
    ASSUME ListenerInv, WakeInv, Next, Hangs', ~Hangs
    PROVE  closerPc = "interrupt" /\ workerPc = "callGet" /\ mQueue = <<>>
  <1>1. closerPc' = "join" /\ workerPc' # "exited" /\ ~NeedsNobody'
    BY DEF Hangs
  <1>2. closerPc \in {"interrupt", "join"} /\ mQuit /\ mHasQueue /\ batch = 0
    <2>1. closerPc \in {"interrupt", "join"}
      BY <1>1
      DEF Next, DdsThread, TakeSamples, PassOn, PassOnBy, DirectHandlerReturns, SpuriousWakeup,
          WorkerThread, WorkerChecksQuit, WorkerCallsGet, WorkerReturnsFromGet,
          WorkerHandlerReturns, WorkerUnchanged, CloserThread, CloserDetaches, CloserSetsQuit,
          CloserInterrupts, CloserJoins
    <2>. QED
      BY <2>1 DEF WakeInv, ListenerInv, CloseInv
  <1>3. WakeInv' /\ workerPc' \in WorkerPcs /\ workerPc' # "none"
    BY <1>2, WakeStep, InvStep DEF ListenerInv, TypeOK, CloseInv, Next, DdsThread, TakeSamples,
          PassOn, PassOnBy, DirectHandlerReturns, SpuriousWakeup,
          WorkerThread, WorkerChecksQuit, WorkerCallsGet, WorkerReturnsFromGet,
          WorkerHandlerReturns, WorkerUnchanged, CloserThread, CloserDetaches, CloserSetsQuit,
          CloserInterrupts, CloserJoins, CloserUnchanged
  <1>4. \/ workerPc' = "callGet" /\ mQueue' = <<>>
        \/ workerPc' = "inGet" /\ phase'[worker] = "waiting"
    <2>1. phase'[worker] \in {"idle", "waiting", "notified", "interrupted"}
      BY <1>3 DEF WakeInv, Threads, worker
    <2>2. phase'[worker] # "idle" <=> workerPc' = "inGet"
      BY <1>3 DEF WakeInv, Threads, worker
    <2>. QED
      BY <1>1, <1>3, <2>1, <2>2 DEF NeedsNobody, WorkerPcs
  <1>5. CASE closerPc = "join"
    <2>1. workerPc = "exited" \/ NeedsNobody
      BY <1>5 DEF Hangs
    <2>2. ~PassOn /\ ~TakeSamples /\ ~CloserThread
      <3>1. ~CloserThread
        BY <1>1, <1>5
        DEF CloserThread, CloserDetaches, CloserSetsQuit, CloserInterrupts, CloserJoins
      <3>2. ~TakeSamples
        BY <1>5 DEF TakeSamples
      <3>3. ~PassOn
        BY <1>2 DEF PassOn, PassOnBy
      <3>. QED
        BY <3>1, <3>2, <3>3
    <2>3. CASE WorkerThread
      BY <1>2, <1>4, <2>1, <2>3
      DEF WorkerThread, WorkerChecksQuit, WorkerCallsGet, WorkerReturnsFromGet,
          WorkerHandlerReturns, AfterGet, NeedsNobody, Queue!Get
    <2>4. CASE SpuriousWakeup
      BY <1>4, <2>1, <2>4, BlockedIsWorker
      DEF SpuriousWakeup, Queue!SpuriousWakeup, NeedsNobody, WakeInv, Threads, worker
    <2>5. CASE DirectHandlerReturns
      BY <1>2, <2>5 DEF DirectHandlerReturns
    <2>. QED
      BY <2>2, <2>3, <2>4, <2>5 DEF Next, DdsThread
  <1>6. CASE closerPc = "interrupt"
    <2>1. CloserInterrupts
      BY <1>1, <1>6
      DEF Next, DdsThread, TakeSamples, PassOn, PassOnBy, DirectHandlerReturns, SpuriousWakeup,
          WorkerThread, WorkerChecksQuit, WorkerCallsGet, WorkerReturnsFromGet,
          WorkerHandlerReturns, WorkerUnchanged, CloserThread, CloserDetaches, CloserSetsQuit,
          CloserJoins
    <2>2. /\ workerPc' = workerPc /\ mQueue' = mQueue
          /\ Queue!Interrupt(FALSE) \/ (Queue!Blocked = {} /\ phase' = phase)
      BY <2>1 DEF CloserInterrupts, CloserUnchanged, Queue!Interrupt, queueVars
    <2>3. phase'[worker] # "waiting"
      BY <2>2, InterruptMoves, BlockedIsWorker DEF WakeInv, Threads, worker
    <2>. QED
      BY <1>4, <1>6, <2>2, <2>3
  <1>. QED
    BY <1>2, <1>5, <1>6

-----------------------------------------------------------------------------
\* The types, for every length of the queue and number of samples; with them goes
\* that mCurSize is the length of the list, as in BlockQueueProofs.
THEOREM TypeCorrect == Spec => []TypeOK
  <1>1. ListenerInv => TypeOK
    BY DEF ListenerInv
  <1>. QED
    BY <1>1, InvHolds, PTL

\* The handler sees the samples in the order of their arrival and none twice,
\* whatever the queue has dropped.
THEOREM OrderCorrect == Spec => []HandledInOrder
  <1>1. ListenerInv => HandledInOrder
    BY DEF ListenerInv, FlowInv, Increasing, HandledInOrder
  <1>. QED
    BY <1>1, InvHolds, PTL

\* After mQuit has been set the handler is called once more at most.
THEOREM QuitCorrect == Spec => []AtMostOneAfterQuit
  <1>1. ListenerInv => AtMostOneAfterQuit
    BY DEF ListenerInv, CloseInv, AtMostOneAfterQuit
  <1>. QED
    BY <1>1, InvHolds, PTL

\* When the destructor has returned no handler runs, nothing is left to pass on, and
\* the worker is gone.
THEOREM CloseCorrect == Spec => []NothingRunsAfterClose
  <1>1. ListenerInv => NothingRunsAfterClose
    BY DEF ListenerInv, CloseInv, NothingRunsAfterClose
  <1>. QED
    BY <1>1, InvHolds, PTL

\* The destructor comes to wait for a worker that will not end by itself only by an
\* Interrupt in the gap, and from mQuit on the worker has four steps at most to go.
THEOREM CloseGoesOnCorrect == Spec => CloseGoesOn
  <1>1. ListenerInv /\ WakeInv /\ [Next]_vars =>
            [/\ Hangs' => Hangs \/ (closerPc = "interrupt" /\ workerPc = "callGet" /\ mQueue = <<>>)
             /\ mQuit /\ workerPc' # workerPc => wayOut[workerPc'] < wayOut[workerPc]]_vars
    BY HangBegins, WorkerGoesOut
  <1>. QED
    BY <1>1, WakeHolds, PTL DEF Spec, CloseGoesOn

-----------------------------------------------------------------------------
(* The listener implements Subscriber: passing a sample on maps to Arrive    *)
(* (with a queue) or Start (without), a Get that takes one to Start, the end  *)
(* of the handler to Return, the destructor's steps to Detach, Quit, Close.  *)

\* q holds the newest of n samples, all of them after l, and only a full queue has
\* lost any.
Window(q, n, l) ==
    /\ \A i \in DOMAIN q : q[i] = (n - Len(q)) + i
    /\ Len(q) <= QueueLen /\ l <= n - Len(q)
    /\ l < n - Len(q) => Len(q) = QueueLen

WindowInv ==
    /\ mHasQueue  => Window(mQueue, arrived, lastHandled)
    /\ ~mHasQueue => lastHandled = arrived

LEMMA WindowGrows ==
    ASSUME NEW n \in Nat, NEW l \in Nat, NEW q \in Seq(1..n), Window(q, n, l),
           Len(q) < QueueLen
    PROVE  Window(Append(q, n + 1), n + 1, l)
  <1>1. /\ Append(q, n + 1) \in Seq(1..(n + 1)) /\ Len(Append(q, n + 1)) = Len(q) + 1
        /\ \A i \in 1..Len(q) : Append(q, n + 1)[i] = q[i]
        /\ Append(q, n + 1)[Len(q) + 1] = n + 1
    BY AppendType
  <1>2. DOMAIN Append(q, n + 1) = 1..(Len(q) + 1) /\ DOMAIN q = 1..Len(q) /\ Len(q) \in Nat
    BY <1>1
  <1>3. \A i \in 1..(Len(q) + 1) : i \in 1..Len(q) \/ i = Len(q) + 1
    BY <1>2
  <1>4. l = n - Len(q) /\ (n + 1) - (Len(q) + 1) = n - Len(q)
    <2>1. l <= n - Len(q) /\ (l < n - Len(q) => Len(q) = QueueLen) /\ Len(q) # QueueLen
      BY QueueConstants DEF Window
    <2>. QED
      BY <1>2, <2>1
  <1>5. \A i \in 1..(Len(q) + 1) : Append(q, n + 1)[i] = (n - Len(q)) + i
    <2>. SUFFICES ASSUME NEW i \in 1..(Len(q) + 1)
                  PROVE  Append(q, n + 1)[i] = (n - Len(q)) + i
      OBVIOUS
    <2>1. CASE i \in 1..Len(q)
      BY <1>1, <1>2, <2>1 DEF Window
    <2>2. CASE i = Len(q) + 1
      BY <1>1, <1>2, <2>2
    <2>. QED
      BY <1>3, <2>1, <2>2
  <1>6. Len(q) + 1 <= QueueLen
    BY <1>2, QueueConstants
  <1>. DEFINE r == Append(q, n + 1)
  <1>8. /\ DOMAIN r = 1..Len(r) /\ Len(r) = Len(q) + 1
        /\ \A i \in 1..Len(r) : r[i] = (n + 1 - Len(r)) + i
        /\ n + 1 - Len(r) = l
    BY <1>1, <1>2, <1>4, <1>5
  <1>. HIDE DEF r
  <1>9. Window(r, n + 1, l)
    <2>1. Len(r) <= QueueLen /\ l <= n + 1 - Len(r) /\ ~(l < n + 1 - Len(r))
      BY <1>6, <1>8
    <2>. QED
      BY <1>8, <2>1 DEF Window
  <1>. QED
    BY <1>9 DEF r

\* The front leaves: taken, it is the next sample unless the queue was full;
\* dropped, the queue was.
LEMMA WindowShrinks ==
    ASSUME NEW n \in Nat, NEW l \in Nat, NEW q \in Seq(1..n), Window(q, n, l), q # <<>>
    PROVE  /\ Window(Tail(q), n, Head(q))
           /\ Head(q) \in 1..n /\ l < Head(q)
           /\ Head(q) = l + 1 \/ Head(q) + QueueLen <= n + 1
  <1>1. /\ Tail(q) \in Seq(1..n) /\ Len(Tail(q)) = Len(q) - 1 /\ Len(q) \in Nat \ {0}
        /\ \A j \in 1..Len(Tail(q)) : Tail(q)[j] = q[j + 1] /\ j + 1 \in 1..Len(q)
        /\ Head(q) = q[1] /\ 1 \in 1..Len(q) /\ Head(q) \in 1..n
    OBVIOUS
  <1>2. DOMAIN Tail(q) = 1..Len(Tail(q)) /\ DOMAIN q = 1..Len(q)
    BY <1>1
  <1>3. Head(q) = (n - Len(q)) + 1
    BY <1>1, <1>2 DEF Window
  <1>4. \A j \in 1..Len(Tail(q)) : Tail(q)[j] = (n - Len(q)) + (j + 1)
    BY <1>1, <1>2 DEF Window
  <1>5. \A j \in 1..Len(Tail(q)) : Tail(q)[j] = (n - Len(Tail(q))) + j
    BY <1>1, <1>4
  <1>6. Len(q) <= QueueLen /\ l <= n - Len(q) /\ (l < n - Len(q) => Len(q) = QueueLen)
    BY DEF Window
  <1>7. Window(Tail(q), n, Head(q))
    <2>. DEFINE r == Tail(q)
               h == Head(q)
    <2>1. /\ DOMAIN r = 1..Len(r) /\ Len(r) <= QueueLen /\ h = n - Len(r)
          /\ \A i \in 1..Len(r) : r[i] = (n - Len(r)) + i
          /\ h <= n - Len(r) /\ ~(h < n - Len(r))
      <3>1. DOMAIN r = 1..Len(r) /\ Len(r) \in Nat /\ Len(r) = Len(q) - 1
        BY <1>1, <1>2
      <3>. DEFINE k == Len(q)
                 j == Len(r)
      <3>2. k \in Int /\ j \in Int /\ j = k - 1 /\ h = (n - k) + 1 /\ k <= QueueLen
        BY <1>1, <1>3, <1>6, <3>1
      <3>3. h = n - j /\ j <= QueueLen
        <4>. HIDE DEF k, j, r, h
        <4>1. QueueLen \in Int
          BY QueueConstants
        <4>. QED
          BY <3>2, <4>1
      <3>4. h <= n - Len(r) /\ ~(h < n - Len(r))
        BY <1>1, <3>1, <3>3
      <3>. QED
        BY <1>5, <3>1, <3>3, <3>4
    <2>. HIDE DEF r, h
    <2>2. Window(r, n, h)
      BY <2>1 DEF Window
    <2>. QED
      BY <2>2 DEF r, h
  <1>8. l < Head(q) /\ (Head(q) = l + 1 \/ Head(q) + QueueLen <= n + 1)
    <2>. DEFINE k == Len(q)
    <2>1. k \in Nat /\ Head(q) = (n - k) + 1 /\ l <= n - k /\ (l < n - k => k = QueueLen)
      BY <1>1, <1>3, <1>6
    <2>. HIDE DEF k
    <2>2. CASE l < n - k
      <3>1. k = QueueLen /\ QueueLen \in Nat
        BY <2>1, <2>2, QueueConstants
      <3>. QED
        BY <2>1, <2>2, <3>1
    <2>3. CASE l = n - k
      BY <2>1, <2>3
    <2>. QED
      BY <2>1, <2>2, <2>3
  <1>. QED
    BY <1>1, <1>7, <1>8

LEMMA WindowReplaces ==
    ASSUME NEW n \in Nat, NEW l \in Nat, NEW q \in Seq(1..n), Window(q, n, l),
           q # <<>>, Len(q) = QueueLen
    PROVE  Window(Append(Tail(q), n + 1), n + 1, l)
  <1>1. Window(Tail(q), n, Head(q)) /\ Head(q) \in 1..n /\ l < Head(q)
    BY WindowShrinks
  <1>2. Tail(q) \in Seq(1..n) /\ Len(Tail(q)) = Len(q) - 1 /\ Len(q) \in Nat \ {0}
    OBVIOUS
  <1>3. Window(Append(Tail(q), n + 1), n + 1, Head(q))
    <2>1. Len(Tail(q)) < QueueLen /\ Head(q) \in Nat
      BY <1>1, <1>2
    <2>. QED
      BY <1>1, <1>2, <2>1, WindowGrows
  <1>4. Len(Append(Tail(q), n + 1)) = QueueLen
    BY <1>2, AppendType
  <1>. QED
    BY <1>1, <1>3, <1>4, QueueConstants DEF Window

\* The last sample handled, after another has been.
LEMMA LastOfAppend ==
    ASSUME NEW n \in Nat, handled \in Seq(1..n), NEW x \in 1..n, handled' = Append(handled, x)
    PROVE  lastHandled' = x /\ Len(handled') = Len(handled) + 1
  BY DEF lastHandled

LEMMA LastType == ListenerInv => lastHandled \in 0..arrived /\ arrived \in Nat
  <1>. SUFFICES ASSUME ListenerInv PROVE lastHandled \in 0..arrived /\ arrived \in Nat
    OBVIOUS
  <1>1. handled \in Seq(1..arrived) /\ arrived \in Nat
    BY QueueConstants DEF ListenerInv, TypeOK
  <1>2. CASE handled # <<>>
    <2>1. Len(handled) \in 1..Len(handled)
      BY <1>1, <1>2
    <2>. QED
      BY <1>1, <1>2, <2>1 DEF lastHandled
  <1>. QED
    BY <1>1, <1>2 DEF lastHandled

LEMMA WindowInit == Init => WindowInv
  BY QueueConstants DEF Init, Queue!Init, WindowInv, Window, lastHandled

\* What a step does to the samples: nothing; one more is queued; one is handled,
\* out of the queue or directly.
Same == /\ UNCHANGED <<mQueue, arrived, handled, mHasQueue>>
Queues == /\ mHasQueue /\ UNCHANGED <<handled, mHasQueue>>
          /\ arrived' = arrived + 1 /\ mQueue \in Seq(1..arrived)
          /\ \/ Len(mQueue) < QueueLen /\ mQueue' = Append(mQueue, arrived + 1)
             \/ /\ Len(mQueue) = QueueLen /\ mQueue # <<>>
                /\ mQueue' = Append(Tail(mQueue), arrived + 1)
Handles == /\ mHasQueue /\ UNCHANGED <<arrived, mHasQueue>>
           /\ mQueue # <<>> /\ mQueue \in Seq(1..arrived) /\ mQueue' = Tail(mQueue)
           /\ handled' = Append(handled, Head(mQueue))
HandlesDirectly ==
    /\ ~mHasQueue /\ UNCHANGED mHasQueue
    /\ arrived' = arrived + 1 /\ handled' = Append(handled, arrived + 1)

LEMMA WindowKept ==
    ASSUME ListenerInv, WindowInv, Same \/ Queues \/ Handles \/ HandlesDirectly
    PROVE  WindowInv'
  <1>1. /\ lastHandled \in Nat /\ arrived \in Nat /\ handled \in Seq(1..arrived)
        /\ handled \in Seq(1..(arrived + 1)) /\ mHasQueue \in BOOLEAN
    <2>1. /\ lastHandled \in Nat /\ arrived \in Nat /\ handled \in Seq(1..arrived)
          /\ mHasQueue \in BOOLEAN
      BY LastType DEF ListenerInv, TypeOK
    <2>. QED
      BY <2>1, AppendType
  <1>2. CASE Same
    BY <1>2 DEF Same, WindowInv, lastHandled
  <1>3. CASE Queues
    <2>1. Window(mQueue', arrived', lastHandled)
      BY <1>1, <1>3, WindowGrows, WindowReplaces DEF Queues, WindowInv
    <2>2. lastHandled' = lastHandled /\ mHasQueue'
      BY <1>3 DEF Queues, lastHandled
    <2>. QED
      BY <2>1, <2>2 DEF WindowInv
  <1>4. CASE Handles
    <2>1. /\ Window(Tail(mQueue), arrived, Head(mQueue)) /\ Head(mQueue) \in 1..arrived
          /\ mQueue' = Tail(mQueue) /\ arrived' = arrived /\ mHasQueue'
          /\ handled' = Append(handled, Head(mQueue))
      BY <1>1, <1>4, WindowShrinks DEF Handles, WindowInv
    <2>2. lastHandled' = Head(mQueue)
      BY <1>1, <2>1, LastOfAppend
    <2>. QED
      BY <2>1, <2>2 DEF WindowInv
  <1>5. CASE HandlesDirectly
    <2>1. arrived + 1 \in 1..(arrived + 1) /\ arrived + 1 \in Nat
      BY <1>1
    <2>2. lastHandled' = arrived + 1
      BY <1>1, <1>5, <2>1, LastOfAppend DEF HandlesDirectly
    <2>. QED
      BY <1>5, <2>2 DEF HandlesDirectly, WindowInv
  <1>. QED
    BY <1>2, <1>3, <1>4, <1>5

\* The variables of Subscriber under the mapping.
Came    == IF mHasQueue THEN arrived ELSE arrived + batch
Running == current # 0

LEMMA MapsArrive ==
    ASSUME NEW n \in 1..MaxSamples, closerPc = "open", n > Came, Came' = n,
           UNCHANGED <<handled, current, closerPc>>
    PROVE  Sub!Arrive
  <1>1. closeStage = "open" /\ closeStage' = closeStage
    BY DEF closeStage
  <1>2. lastHandled' = lastHandled
    BY DEF lastHandled
  <1>. QED
    BY <1>1, <1>2 DEF Sub!Arrive, Came

\* The handler is called with m.
LEMMA MapsStart ==
    ASSUME ListenerInv, NEW m \in 1..Came, handled' = Append(handled, m), m > lastHandled,
           m = lastHandled + 1 \/ m + QueueLen <= Came + 1,
           handled \in Seq(1..Came), Came \in Nat,
           current = 0, current' = m, UNCHANGED <<Came, closerPc, mQuit, atQuit>>,
           closerPc # "closed", closerPc \in {"interrupt", "join"} => Len(handled) = atQuit
    PROVE  Sub!Start
  <1>1. lastHandled' = m /\ Len(handled') = Len(handled) + 1 /\ Len(handled) \in Nat
    BY LastOfAppend
  <1>2. /\ closeStage \in {"open", "detached", "quitting"}
        /\ closeStage' = IF closeStage = "quitting" THEN "spent" ELSE closeStage
    <2>1. closerPc \in {"open", "setQuit", "interrupt", "join"}
      BY DEF ListenerInv, TypeOK, CloserPcs
    <2>2. CASE closerPc \in {"open", "setQuit"}
      BY <2>2 DEF closeStage
    <2>3. CASE closerPc \in {"interrupt", "join"}
      <3>1. Len(handled) = atQuit /\ Len(handled') # atQuit'
        BY <1>1, <2>3
      <3>. QED
        BY <2>3, <3>1 DEF closeStage
    <2>. QED
      BY <2>1, <2>2, <2>3
  <1>3. ~Running /\ Running'
    BY DEF Running
  <1>. QED
    BY <1>1, <1>2, <1>3 DEF Sub!Start, Came, Running

\* Steps that change nothing the handler or the middleware can see.
LEMMA MapsStutter ==
    ASSUME UNCHANGED <<Came, handled, Running, closeStage>>
    PROVE  UNCHANGED Sub!vars
  <1>1. lastHandled' = lastHandled
    BY DEF lastHandled
  <1>. QED
    BY <1>1 DEF Sub!vars, Came, Running

LEMMA StageUnchanged ==
    ASSUME UNCHANGED <<closerPc, handled, atQuit>>
    PROVE  closeStage' = closeStage
  BY DEF closeStage

SubInv == ListenerInv /\ WakeInv /\ WindowInv

\* Each action: what it does to the samples, and what it is for Subscriber.
LEMMA DdsMaps ==
    ASSUME SubInv, DdsThread
    PROVE  (Same \/ Queues \/ HandlesDirectly) /\ [Sub!Next]_(Sub!vars)
  <1>1. /\ lastHandled \in 0..arrived /\ arrived \in Nat /\ handled \in Seq(1..arrived)
        /\ mHasQueue \in BOOLEAN /\ batch \in Nat /\ arrived + batch <= MaxSamples
        /\ MaxSamples \in Nat
    BY LastType, QueueConstants DEF SubInv, ListenerInv, TypeOK, FlowInv
  <1>2. CASE TakeSamples
    <2>1. /\ closerPc = "open" /\ batch = 0 /\ batch' \in 1..MaxBatch
          /\ arrived + batch' <= MaxSamples
          /\ UNCHANGED <<mHasQueue, closerPc, current, arrived, handled, atQuit, mQueue>>
      <3>1. /\ closerPc = "open" /\ ~(batch > 0) /\ batch' \in 1..MaxBatch
            /\ arrived + batch' <= MaxSamples
            /\ UNCHANGED <<mHasQueue, closerPc, current, arrived, handled, atQuit, mQueue>>
        BY <1>2 DEF TakeSamples, InDataAvailable, queueVars
      <3>2. batch = 0
        BY <1>1, <3>1
      <3>. QED
        BY <3>1, <3>2
    <2>2. CASE mHasQueue
      <3>1. UNCHANGED <<Came, handled, Running, closeStage>>
        BY <2>1, <2>2, StageUnchanged DEF Came, Running
      <3>. QED
        BY <2>1, <3>1, MapsStutter DEF Same
    <2>3. CASE ~mHasQueue
      <3>1. Came = arrived /\ Came' = arrived + batch' /\ batch' \in Nat \ {0}
        BY <1>1, <2>1, <2>3, QueueConstants DEF Came
      <3>2. arrived + batch' \in 1..MaxSamples /\ arrived + batch' > Came
        <4>1. arrived \in Nat /\ arrived + batch' <= MaxSamples /\ MaxSamples \in Nat
          BY <1>1, <2>1
        <4>2. batch' \in Nat /\ batch' > 0
          BY <3>1
        <4>3. \A a, b, n \in Nat : b > 0 /\ a + b <= n => a + b \in 1..n /\ a + b > a
          OBVIOUS
        <4>. QED
          BY <3>1, <4>1, <4>2, <4>3, Zenon
      <3>3. Sub!Arrive
        BY <2>1, <3>1, <3>2, MapsArrive
      <3>. QED
        BY <2>1, <3>3 DEF Same, Sub!Next
    <2>. QED
      BY <2>2, <2>3
  <1>3. CASE PassOn /\ mHasQueue
    <2>1. /\ batch > 0 /\ arrived' = arrived + 1 /\ Queue!Put(TRUE, FALSE)
          /\ UNCHANGED <<handled, current, mHasQueue, closerPc>>
      BY <1>3 DEF PassOn, PassOnBy
    <2>2. puts = arrived /\ mQueue \in Seq(1..arrived)
      BY <1>3 DEF SubInv, ListenerInv, FlowInv, QueueInv, Queue!TypeOK
    <2>3. Queues
      BY <1>3, <2>1, <2>2, Stored DEF Queues, SubInv, ListenerInv
    <2>4. closerPc = "open"
      BY <1>1, <2>1 DEF SubInv, ListenerInv, CloseInv
    <2>5. arrived + 1 \in 1..MaxSamples /\ Came = arrived /\ Came' = arrived + 1
      BY <1>1, <1>3, <2>1 DEF Came
    <2>6. arrived + 1 > Came
      BY <1>1, <2>5
    <2>7. Sub!Arrive
      BY <2>1, <2>4, <2>5, <2>6, MapsArrive
    <2>. QED
      BY <2>3, <2>7 DEF Sub!Next
  <1>4. CASE PassOn /\ ~mHasQueue
    <2>1. /\ batch > 0 /\ batch' = batch - 1 /\ arrived' = arrived + 1
          /\ current = 0 /\ current' = arrived + 1
          /\ handled' = Append(handled, arrived + 1)
          /\ UNCHANGED <<mHasQueue, mQuit, closerPc, atQuit>>
      BY <1>4 DEF PassOn, PassOnBy, StartHandler
    <2>2. HandlesDirectly
      BY <1>4, <2>1 DEF HandlesDirectly
    <2>3. closerPc = "open" /\ lastHandled = arrived
      BY <1>1, <1>4, <2>1 DEF SubInv, ListenerInv, CloseInv, WindowInv
    <2>4. /\ Came = arrived + batch /\ Came' = Came
          /\ arrived + 1 \in 1..Came /\ Came \in Nat /\ arrived + 1 > lastHandled
          /\ arrived + 1 = lastHandled + 1
      BY <1>1, <1>4, <2>1, <2>3 DEF Came
    <2>5. handled \in Seq(1..Came)
      BY <1>1, <2>4
    <2>6. Sub!Start
      BY <2>1, <2>3, <2>4, <2>5, MapsStart DEF SubInv
    <2>. QED
      BY <2>2, <2>6 DEF Sub!Next
  <1>5. CASE DirectHandlerReturns
    <2>1. /\ current # 0 /\ current' = 0
          /\ UNCHANGED <<mHasQueue, closerPc, batch, arrived, handled, atQuit, mQueue>>
      BY <1>5 DEF DirectHandlerReturns, queueVars
    <2>2. closeStage' = closeStage /\ lastHandled' = lastHandled
      BY <2>1, StageUnchanged DEF lastHandled
    <2>3. Sub!Return
      BY <2>1, <2>2 DEF Sub!Return
    <2>. QED
      BY <2>1, <2>3 DEF Same, Sub!Next
  <1>. QED
    BY <1>2, <1>3, <1>4, <1>5 DEF DdsThread

\* A Get that has returned: with a sample the handler is called.
LEMMA GetMaps ==
    ASSUME SubInv, workerPc \in {"callGet", "inGet"}, Takes \/ Keeps, AfterGet,
           WorkerUnchanged
    PROVE  (Same \/ Handles) /\ [Sub!Next]_(Sub!vars)
  <1>1. /\ mHasQueue /\ handled = delivered /\ puts = arrived /\ arrived \in Nat
        /\ mQueue \in Seq(1..arrived) /\ handled \in Seq(1..arrived) /\ current = 0
        /\ closerPc # "closed"
        /\ closerPc \in {"interrupt", "join"} => Len(handled) = atQuit
        /\ lastHandled \in Nat /\ Window(mQueue, arrived, lastHandled)
    <2>1. /\ mHasQueue /\ handled = delivered /\ puts = arrived /\ current = 0
          /\ closerPc # "closed" /\ (mQuit => Len(handled) = atQuit)
      BY DEF SubInv, ListenerInv, CloseInv, FlowInv
    <2>2. closerPc \in {"interrupt", "join"} => mQuit
      BY DEF SubInv, WakeInv
    <2>3. /\ arrived \in Nat /\ mQueue \in Seq(1..arrived) /\ handled \in Seq(1..arrived)
          /\ lastHandled \in Nat
      BY <2>1, LastType DEF SubInv, ListenerInv, TypeOK, QueueInv, Queue!TypeOK
    <2>. QED
      BY <2>1, <2>2, <2>3 DEF SubInv, WindowInv
  <1>2. UNCHANGED <<mHasQueue, mQuit, closerPc, batch, arrived, atQuit>>
    BY DEF WorkerUnchanged
  <1>3. Came = arrived /\ Came' = arrived
    BY <1>1, <1>2 DEF Came
  <1>4. CASE Takes
    <2>1. /\ mQueue # <<>> /\ mQueue' = Tail(mQueue)
          /\ delivered' = Append(handled, Head(mQueue))
      BY <1>1, <1>4 DEF Takes
    <2>2. /\ Head(mQueue) \in 1..arrived /\ lastHandled < Head(mQueue)
          /\ Head(mQueue) = lastHandled + 1 \/ Head(mQueue) + QueueLen <= arrived + 1
      BY <1>1, <2>1, WindowShrinks
    <2>3. /\ Len(delivered') = Len(delivered) + 1 /\ Len(delivered) \in Nat
          /\ delivered'[Len(delivered')] = Head(mQueue)
      BY <1>1, <2>1, <2>2
    <2>4. current' = Head(mQueue) /\ handled' = Append(handled, Head(mQueue))
      <3>1. Len(delivered') > Len(delivered)
        BY <2>3
      <3>. QED
        BY <2>3, <3>1 DEF AfterGet, StartHandler
    <2>5. Handles
      BY <1>1, <1>2, <2>1, <2>4 DEF Handles
    <2>6. Head(mQueue) > lastHandled
      BY <1>1, <2>2
    <2>. DEFINE m == Head(mQueue)
    <2>7. /\ m \in 1..Came /\ m > lastHandled /\ Came \in Nat /\ handled \in Seq(1..Came)
          /\ m = lastHandled + 1 \/ m + QueueLen <= Came + 1
          /\ handled' = Append(handled, m) /\ current' = m
      BY <1>1, <1>3, <2>2, <2>4, <2>6
    <2>8. UNCHANGED <<Came, closerPc, mQuit, atQuit>>
      BY <1>2, <1>3
    <2>. HIDE DEF m
    <2>9. Sub!Start
      <3>1. ListenerInv /\ current = 0 /\ closerPc # "closed"
        BY <1>1 DEF SubInv
      <3>2. closerPc \in {"interrupt", "join"} => Len(handled) = atQuit
        BY <1>1
      <3>. QED
        BY <2>7, <2>8, <3>1, <3>2, MapsStart, Zenon
    <2>. QED
      BY <2>5, <2>9 DEF Sub!Next
  <1>5. CASE Keeps
    <2>1. UNCHANGED <<mQueue, delivered>>
      BY <1>5 DEF Keeps
    <2>2. Len(delivered) \in Nat /\ ~(Len(delivered') > Len(delivered))
      BY <1>1, <2>1
    <2>3. UNCHANGED <<current, handled>>
      BY <2>2 DEF AfterGet
    <2>4. UNCHANGED <<Came, handled, Running, closeStage>>
      BY <1>2, <1>3, <2>3, StageUnchanged DEF Running
    <2>. QED
      BY <1>2, <2>1, <2>3, <2>4, MapsStutter DEF Same
  <1>. QED
    BY <1>4, <1>5

LEMMA WorkerMaps ==
    ASSUME SubInv, WorkerThread \/ SpuriousWakeup
    PROVE  (Same \/ Handles) /\ [Sub!Next]_(Sub!vars)
  <1>1. CASE WorkerChecksQuit \/ WorkerHandlerReturns
    <2>1. UNCHANGED <<mQueue, mHasQueue, mQuit, closerPc, batch, arrived, atQuit, handled>>
      BY <1>1 DEF WorkerChecksQuit, WorkerHandlerReturns, WorkerUnchanged, queueVars
    <2>2. /\ Came' = Came /\ closeStage' = closeStage /\ lastHandled' = lastHandled
      BY <2>1, StageUnchanged DEF Came, lastHandled
    <2>3. current' = current \/ (current # 0 /\ current' = 0)
      BY <1>1 DEF WorkerChecksQuit, WorkerHandlerReturns
    <2>4. CASE current' = current
      BY <2>1, <2>2, <2>4, MapsStutter DEF Same, Running
    <2>5. CASE current # 0 /\ current' = 0
      <3>1. Sub!Return
        BY <2>1, <2>2, <2>5 DEF Sub!Return, Came
      <3>. QED
        BY <2>1, <3>1 DEF Same, Sub!Next
    <2>. QED
      BY <2>3, <2>4, <2>5
  <1>2. CASE WorkerCallsGet
    <2>1. WorkerUnchanged /\ (Takes \/ Keeps) /\ workerPc = "callGet"
      BY <1>2, GetTakesOrKeeps DEF SubInv, ListenerInv, WorkerCallsGet
    <2>2. CASE phase'[worker] = "idle"
      BY <1>2, <2>1, <2>2, GetMaps DEF WorkerCallsGet
    <2>3. CASE phase'[worker] # "idle"
      <3>1. UNCHANGED <<mQueue, current, handled>>
        BY <1>2, <2>3 DEF WorkerCallsGet, Queue!Get, Queue!history, SubInv, WakeInv, Threads, worker
      <3>2. UNCHANGED <<Came, handled, Running, closeStage, mHasQueue, arrived>>
        BY <2>1, <3>1, StageUnchanged DEF WorkerUnchanged, Came, Running
      <3>. QED
        BY <3>1, <3>2, MapsStutter DEF Same
    <2>. QED
      BY <2>2, <2>3
  <1>3. CASE WorkerReturnsFromGet
    <2>1. WorkerUnchanged /\ AfterGet /\ (Takes \/ Keeps) /\ workerPc = "inGet"
      BY <1>3, GetTakesOrKeeps DEF SubInv, ListenerInv, WorkerReturnsFromGet
    <2>. QED
      BY <2>1, GetMaps
  <1>4. CASE SpuriousWakeup
    <2>1. UNCHANGED <<mQueue, current, handled, mHasQueue, closerPc, batch, arrived, atQuit>>
      BY <1>4 DEF SpuriousWakeup, WorkerUnchanged, Queue!SpuriousWakeup
    <2>2. UNCHANGED <<Came, handled, Running, closeStage>>
      BY <2>1, StageUnchanged DEF Came, Running
    <2>. QED
      BY <2>1, <2>2, MapsStutter DEF Same
  <1>. QED
    BY <1>1, <1>2, <1>3, <1>4 DEF WorkerThread

LEMMA CloserMaps ==
    ASSUME SubInv, CloserThread
    PROVE  Same /\ [Sub!Next]_(Sub!vars)
  <1>1. UNCHANGED <<mHasQueue, batch, current, arrived, handled, mQueue>>
    BY DEF CloserThread, CloserDetaches, CloserSetsQuit, CloserInterrupts, CloserJoins,
        CloserUnchanged, queueVars, Queue!Interrupt
  <1>2. Came' = Came /\ lastHandled' = lastHandled /\ Running' = Running
    BY <1>1 DEF Came, lastHandled, Running
  <1>3. CASE CloserDetaches
    <2>1. /\ closerPc = "open" /\ closeStage = "open"
          /\ closerPc' = IF mHasQueue THEN "setQuit" ELSE "closed"
          /\ ~(batch > 0) /\ (~mHasQueue => current = 0)
      BY <1>3 DEF CloserDetaches, InDataAvailable, closeStage
    <2>2. CASE mHasQueue
      <3>1. closeStage' = "detached"
        BY <2>1, <2>2 DEF closeStage
      <3>2. Sub!Detach
        BY <1>2, <2>1, <3>1 DEF Sub!Detach, Came, Running
      <3>. QED
        BY <1>1, <3>2 DEF Same, Sub!Next
    <2>3. CASE ~mHasQueue
      <3>1. closeStage' = "closed"
        BY <2>1, <2>3 DEF closeStage
      <3>2. lastHandled = arrived /\ arrived \in Nat /\ batch = 0
        BY <2>1, <2>3, LastType DEF SubInv, WindowInv, ListenerInv, TypeOK
      <3>3. lastHandled = Came
        BY <2>3, <3>2 DEF Came
      <3>4. Sub!Close
        BY <1>2, <2>1, <2>3, <3>1, <3>3 DEF Sub!Close, Came, Running
      <3>. QED
        BY <1>1, <3>4 DEF Same, Sub!Next
    <2>. QED
      BY <2>2, <2>3
  <1>4. CASE CloserSetsQuit
    <2>1. closeStage = "detached" /\ closeStage' = "quitting"
      BY <1>1, <1>4 DEF CloserSetsQuit, closeStage
    <2>2. Sub!Quit
      BY <1>2, <2>1 DEF Sub!Quit, Came, Running
    <2>. QED
      BY <1>1, <2>2 DEF Same, Sub!Next
  <1>5. CASE CloserInterrupts
    <2>1. closeStage' = closeStage
      BY <1>1, <1>5 DEF CloserInterrupts, closeStage
    <2>. QED
      BY <1>1, <1>2, <2>1, MapsStutter DEF Same
  <1>6. CASE CloserJoins
    <2>1. /\ closeStage \in {"quitting", "spent"} /\ closeStage' = "closed"
          /\ closerPc = "join" /\ workerPc = "exited"
      BY <1>6 DEF CloserJoins, closeStage
    <2>2. current = 0
      BY <2>1 DEF SubInv, ListenerInv, CloseInv
    <2>3. Sub!Close
      BY <1>2, <2>1, <2>2 DEF Sub!Close, Came, Running
    <2>. QED
      BY <1>1, <2>3 DEF Same, Sub!Next
  <1>. QED
    BY <1>3, <1>4, <1>5, <1>6 DEF CloserThread

\* The listener, with a queue of any length or without, is a subscriber: nothing is
\* handled twice or out of order, nothing is passed over but for QueueLen newer
\* samples, and one more sample at most is handled once close has begun.
THEOREM ListenerIsSubscriber == Spec => ImplementsSubscriber
  <1>1. Init => SubInv /\ Sub!Init
    <2>. SUFFICES ASSUME Init PROVE SubInv /\ Sub!Init
      OBVIOUS
    <2>1. SubInv
      BY InvInit, WakeInit, WindowInit DEF SubInv
    <2>2. /\ lastHandled = 0 /\ closeStage = "open" /\ Came = 0 /\ ~Running
      BY DEF Init, lastHandled, closeStage, Came, Running
    <2>. QED
      BY <2>1, <2>2 DEF Sub!Init, Came, Running
  <1>2. SubInv /\ [Next]_vars => SubInv' /\ [Sub!Next]_(Sub!vars)
    <2>. SUFFICES ASSUME SubInv, [Next]_vars
                  PROVE  (Same \/ Queues \/ Handles \/ HandlesDirectly)
                         /\ [Sub!Next]_(Sub!vars)
      BY InvStep, WakeStep, WindowKept DEF SubInv
    <2>1. CASE UNCHANGED vars
      <3>1. UNCHANGED <<Came, handled, Running, closeStage>>
        BY <2>1, StageUnchanged DEF vars, Came, Running
      <3>. QED
        BY <2>1, <3>1, MapsStutter DEF vars, queueVars, Same
    <2>. QED
      BY <2>1, DdsMaps, WorkerMaps, CloserMaps DEF Next
  <1>. QED
    BY <1>1, <1>2, PTL DEF Spec, ImplementsSubscriber, Sub!Spec
=============================================================================
