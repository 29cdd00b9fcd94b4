-------------------------- MODULE BlockQueueProofs --------------------------
(* Theorems about BlockQueue, for any set of threads, any size, any number of Puts. *)
EXTENDS BlockQueue, FiniteSetTheorems, TLAPS

LEMMA MaxSizePositive == mMaxSize \in Nat \ {0}
  BY QueueAssumption DEF mMaxSize

-----------------------------------------------------------------------------
(***************************************************************************)
(* The types and the size.  They are one invariant: mCurSize stays within   *)
(* 0..mMaxSize only because it counts the elements of the list, and the     *)
(* list has a front to drop when it is full only for the same reason.       *)
(***************************************************************************)
SizeInv == TypeOK /\ SizeIsExact

LEMMA InsertType ==
  ASSUME NEW q \in Seq(1..puts), puts \in Nat, NEW putfront \in BOOLEAN
  PROVE  /\ Insert(q, putfront) \in Seq(1..(puts + 1))
         /\ Len(Insert(q, putfront)) = Len(q) + 1
  <1>1. q \in Seq(1..(puts + 1))
    OBVIOUS
  <1>2. puts + 1 \in 1..(puts + 1)
    OBVIOUS
  <1>3. <<puts + 1>> \o q \in Seq(1..(puts + 1)) /\ Len(<<puts + 1>> \o q) = Len(q) + 1
    BY <1>1, <1>2
  <1>4. Append(q, puts + 1) \in Seq(1..(puts + 1)) /\ Len(Append(q, puts + 1)) = Len(q) + 1
    BY <1>1, <1>2
  <1> QED BY <1>3, <1>4 DEF Insert

LEMMA NotifyType ==
  ASSUME phase \in [Threads -> Phases], Notify
  PROVE  phase' \in [Threads -> Phases]
  BY DEF Notify, Phases, Blocked, In

LEMMA TakeFrontSize ==
  ASSUME SizeInv, mQueue # <<>>, TakeFront
  PROVE  /\ mQueue' \in Seq(1..puts) /\ Len(mQueue') = Len(mQueue) - 1
         /\ delivered' \in Seq(1..puts)
         /\ mCurSize' = mCurSize - 1 /\ mCurSize' \in 0..mMaxSize
  BY MaxSizePositive DEF SizeInv, TypeOK, SizeIsExact, TakeFront

LEMMA SizeInvInit == Init => SizeInv
  BY MaxSizePositive, QueueAssumption DEF Init, SizeInv, TypeOK, SizeIsExact, Phases

LEMMA SizeInvNext == SizeInv /\ [Next]_vars => SizeInv'
  <1> SUFFICES ASSUME SizeInv, [Next]_vars PROVE SizeInv'
    OBVIOUS
  <1> USE DEF SizeInv, TypeOK, SizeIsExact
  <1>1. ASSUME NEW replace \in BOOLEAN, NEW putfront \in BOOLEAN, Put(replace, putfront)
        PROVE  SizeInv'
    <2>1. /\ puts' = puts + 1 /\ puts' \in 0..MaxPuts /\ delivered' = delivered
          /\ delivered \in Seq(1..puts')
      BY <1>1, QueueAssumption DEF Put
    <2>1a. front' \subseteq 1..puts'
      <3>1. front' \in {front, front \cup {puts + 1}}
        BY <1>1 DEF Put, PutRejected
      <3>2. front \subseteq 1..(puts + 1) /\ puts + 1 \in 1..(puts + 1)
        OBVIOUS
      <3> QED BY <2>1, <3>1, <3>2
    <2>2. CASE PutRejected(replace)
      <3>1. mQueue \in Seq(1..puts')
        BY <2>1
      <3> QED BY <1>1, <2>1, <2>2, <3>1 DEF Put, PutRejected
    <2>3. CASE PutPlain(putfront)
      <3>1. /\ mQueue' = Insert(mQueue, putfront)
            /\ mQueue' \in Seq(1..puts') /\ Len(mQueue') = Len(mQueue) + 1
        BY <2>1, <2>3, InsertType DEF PutPlain
      <3>2. mCurSize' \in 0..mMaxSize
        BY <2>3, MaxSizePositive DEF PutPlain, Full
      <3>3. front' \subseteq 1..puts'
        BY <2>1a
      <3>4. phase' \in [Threads -> Phases]
        BY <2>3, NotifyType DEF PutPlain
      <3> QED BY <2>1, <2>3, <3>1, <3>2, <3>3, <3>4 DEF PutPlain
    <2>4. CASE PutReplacing(putfront)
      <3>1. mQueue # <<>> /\ Head(mQueue) \in 1..puts
        BY <2>4, MaxSizePositive DEF PutReplacing, Full
      <3>2. Tail(mQueue) \in Seq(1..puts) /\ Len(Tail(mQueue)) = Len(mQueue) - 1
        BY <3>1
      <3>3. /\ mQueue' = Insert(Tail(mQueue), putfront)
            /\ mQueue' \in Seq(1..puts') /\ Len(mQueue') = Len(mQueue)
        <4>1. mQueue' = Insert(Tail(mQueue), putfront)
          BY <2>4 DEF PutReplacing
        <4>2. puts \in Nat
          BY QueueAssumption
        <4>3. /\ Insert(Tail(mQueue), putfront) \in Seq(1..(puts + 1))
              /\ Len(Insert(Tail(mQueue), putfront)) = Len(Tail(mQueue)) + 1
          BY <3>2, <4>2, InsertType
        <4> QED BY <2>1, <3>2, <4>1, <4>3
      <3>4. front' \subseteq 1..puts'
        BY <2>1a
      <3>5. phase' \in [Threads -> Phases]
        BY <2>4, NotifyType DEF PutReplacing
      <3>6. evicted' \subseteq 1..puts' /\ rejected' \subseteq 1..puts'
        <4>1. evicted' = evicted \cup {Head(mQueue)} /\ rejected' = rejected
          BY <2>4 DEF PutReplacing
        <4>2. puts \in Nat /\ puts' = puts + 1
          BY <2>1, QueueAssumption
        <4>3. 1..puts \subseteq 1..puts'
          BY <4>2
        <4>4. evicted \subseteq 1..puts' /\ rejected \subseteq 1..puts'
          BY <4>3
        <4>5. Head(mQueue) \in 1..puts'
          BY <3>1, <4>3
        <4> QED BY <4>1, <4>4, <4>5
      <3>7. mCurSize' = mCurSize /\ falsePuts' \in Nat
        BY <2>4 DEF PutReplacing
      <3> QED BY <2>1, <3>3, <3>4, <3>5, <3>6, <3>7
    <2> QED BY <1>1, <2>2, <2>3, <2>4 DEF Put
  <1>2. ASSUME NEW t \in Threads, NEW timed \in BOOLEAN, Get(t, timed)
        PROVE  SizeInv'
    <2>1. CASE mQueue # <<>> /\ TakeFront /\ UNCHANGED phase
      BY <2>1, TakeFrontSize DEF TakeFront
    <2>2. CASE UNCHANGED <<mQueue, mCurSize, history>>
      BY <1>2, <2>2 DEF Get, history, Phases, TakeFront
    <2> QED BY <1>2, <2>1, <2>2 DEF Get
  <1>3. ASSUME NEW t \in Threads, GetWoken(t)
        PROVE  SizeInv'
    <2>1. phase' \in [Threads -> Phases]
      BY <1>3 DEF GetWoken, Phases
    <2>2. CASE mQueue # <<>> /\ TakeFront
      BY <2>1, <2>2, TakeFrontSize DEF TakeFront
    <2>3. CASE UNCHANGED <<mQueue, mCurSize, history>>
      BY <2>1, <2>3 DEF history
    <2> QED BY <1>3, <2>2, <2>3 DEF GetWoken
  <1>4. ASSUME NEW t \in Threads, GetExpired(t) \/ WaitTimeout(t) \/ SpuriousWakeup(t)
        PROVE  SizeInv'
    BY <1>4 DEF GetExpired, WaitTimeout, SpuriousWakeup, history, Phases
  <1>5. ASSUME NEW all \in BOOLEAN, Interrupt(all)
        PROVE  SizeInv'
    BY <1>5 DEF Interrupt, history, Phases
  <1>6. CASE UNCHANGED vars
    BY <1>6 DEF vars, history
  <1> QED BY <1>1, <1>2, <1>3, <1>4, <1>5, <1>6 DEF Next

\* Every variable of the queue keeps its type.  In particular the unsigned
\* mCurSize never wraps below zero and never exceeds mMaxSize.
THEOREM TypeCorrect == Spec => []TypeOK
  <1>1. Spec => []SizeInv
    BY SizeInvInit, SizeInvNext, PTL DEF Spec
  <1>2. SizeInv => TypeOK
    BY DEF SizeInv
  <1> QED BY <1>1, <1>2, PTL

\* The hand-kept size is the length of the list after every operation.
THEOREM SizeCorrect == Spec => []SizeIsExact
  <1>1. Spec => []SizeInv
    BY SizeInvInit, SizeInvNext, PTL DEF Spec
  <1>2. SizeInv => SizeIsExact
    BY DEF SizeInv
  <1> QED BY <1>1, <1>2, PTL

-----------------------------------------------------------------------------
(***************************************************************************)
(* No lost wakeup.  A Put that finds a blocked thread moves one to          *)
(* "notified" for the element it adds; a thread leaves "notified" only in   *)
(* GetWoken, which removes an element unless none is left; and a thread     *)
(* blocks only when the queue is empty.                                     *)
(***************************************************************************)
LEMMA NotifiedFinite ==
  /\ IsFiniteSet(In("notified")) /\ Cardinality(In("notified")) \in Nat
  /\ IsFiniteSet(In("notified"))' /\ Cardinality(In("notified"))' \in Nat
  <1>1. In("notified") \subseteq Threads /\ In("notified")' \subseteq Threads
    BY DEF In
  <1>2. IsFiniteSet(In("notified")) /\ IsFiniteSet(In("notified")')
    BY <1>1, QueueAssumption, FS_Subset
  <1> QED BY <1>2, FS_CardinalityType

LEMMA NotifyCounts ==
  ASSUME phase \in [Threads -> Phases], Notify
  PROVE  /\ Blocked' # {} => Blocked # {}
         /\ Blocked' # {} =>
               Cardinality(In("notified"))' = Cardinality(In("notified")) + 1
  <1>1. CASE Blocked = {} /\ UNCHANGED phase
    BY <1>1 DEF Blocked, In
  <1>2. ASSUME NEW t \in Blocked, phase' = [phase EXCEPT ![t] = "notified"]
        PROVE  Cardinality(In("notified"))' = Cardinality(In("notified")) + 1
    <2>1. In("notified")' = In("notified") \cup {t} /\ t \notin In("notified")
      BY <1>2 DEF Blocked, In
    <2> QED BY <2>1, NotifiedFinite, FS_AddElement
  <1> QED BY <1>1, <1>2 DEF Notify

LEMMA NoLostWakeupInit == Init => NoLostWakeup
  BY DEF Init, NoLostWakeup, Blocked, In

LEMMA NoLostWakeupNext == SizeInv /\ NoLostWakeup /\ [Next]_vars => NoLostWakeup'
  <1> SUFFICES ASSUME SizeInv, NoLostWakeup, [Next]_vars, Blocked' # {}
               PROVE  Len(mQueue') <= Cardinality(In("notified"))'
    BY DEF NoLostWakeup
  <1> USE DEF SizeInv, TypeOK
  <1>0. Len(mQueue) \in Nat
    OBVIOUS
  <1>1. ASSUME NEW replace \in BOOLEAN, NEW putfront \in BOOLEAN, Put(replace, putfront)
        PROVE  Len(mQueue') <= Cardinality(In("notified"))'
    <2>1. CASE PutRejected(replace)
      BY <2>1 DEF PutRejected, NoLostWakeup, Blocked, In
    <2>2. CASE PutPlain(putfront)
      <3>1. Len(mQueue') = Len(mQueue) + 1
        BY <2>2, InsertType, QueueAssumption DEF PutPlain
      <3> QED BY <1>0, <2>2, <3>1, NotifyCounts, NotifiedFinite DEF PutPlain, NoLostWakeup
    <2>3. CASE PutReplacing(putfront)
      <3>1. mQueue # <<>>
        BY <2>3, MaxSizePositive DEF PutReplacing, Full, SizeIsExact
      <3>2. Tail(mQueue) \in Seq(1..puts) /\ Len(Tail(mQueue)) = Len(mQueue) - 1
        BY <3>1
      <3>3. Len(Insert(Tail(mQueue), putfront)) = Len(Tail(mQueue)) + 1
        <4>1. puts \in Nat
          BY QueueAssumption
        <4> QED BY <3>2, <4>1, InsertType
      <3>4. Len(mQueue') = Len(mQueue)
        BY <1>0, <2>3, <3>2, <3>3 DEF PutReplacing
      <3> QED BY <1>0, <2>3, <3>4, NotifyCounts, NotifiedFinite DEF PutReplacing, NoLostWakeup
    <2> QED BY <1>1, <2>1, <2>2, <2>3 DEF Put
  <1>2. ASSUME NEW t \in Threads, NEW timed \in BOOLEAN, Get(t, timed)
        PROVE  Len(mQueue') <= Cardinality(In("notified"))'
    <2>1. CASE mQueue # <<>> /\ TakeFront /\ UNCHANGED phase
      <3>1. Len(mQueue') = Len(mQueue) - 1
        BY <2>1, TakeFrontSize
      <3> QED BY <1>0, <2>1, <3>1, NotifiedFinite DEF NoLostWakeup, Blocked, In
    <2>2. CASE mQueue = <<>> /\ UNCHANGED mQueue
      BY <2>2, NotifiedFinite
    <2> QED BY <1>2, <2>1, <2>2 DEF Get
  <1>3. ASSUME NEW t \in Threads, GetWoken(t)
        PROVE  Len(mQueue') <= Cardinality(In("notified"))'
    <2>1. In("notified")' = In("notified") \ {t} /\ Blocked' = Blocked
      BY <1>3 DEF GetWoken, In, Blocked
    <2>2. Cardinality(In("notified"))' >= Cardinality(In("notified")) - 1
      <3>1. Cardinality(In("notified") \ {t}) >= Cardinality(In("notified")) - 1
        <4> DEFINE N == In("notified")
        <4>1. IsFiniteSet(N) /\ Cardinality(N) \in Nat
          BY NotifiedFinite
        <4> HIDE DEF N
        <4>2. Cardinality(N \ {t}) = IF t \in N THEN Cardinality(N) - 1 ELSE Cardinality(N)
          BY <4>1, FS_RemoveElement
        <4>3. Cardinality(N \ {t}) >= Cardinality(N) - 1
          BY <4>1, <4>2
        <4> QED BY <4>3 DEF N
      <3> QED BY <2>1, <3>1
    <2>3. CASE mQueue # <<>> /\ TakeFront
      <3>1. Len(mQueue') = Len(mQueue) - 1
        BY <2>3, TakeFrontSize
      <3> QED BY <1>0, <2>1, <2>2, <3>1, NotifiedFinite DEF NoLostWakeup
    <2>4. CASE mQueue = <<>> /\ UNCHANGED mQueue
      BY <2>4, NotifiedFinite
    <2> QED BY <1>3, <2>3, <2>4 DEF GetWoken
  <1>4. ASSUME NEW t \in Threads, GetExpired(t) \/ WaitTimeout(t) \/ SpuriousWakeup(t)
        PROVE  Len(mQueue') <= Cardinality(In("notified"))'
    <2>1. mQueue' = mQueue /\ In("notified")' = In("notified")
      BY <1>4 DEF GetExpired, WaitTimeout, SpuriousWakeup, In, Blocked
    <2>2. Blocked' \subseteq Blocked
      BY <1>4 DEF GetExpired, WaitTimeout, SpuriousWakeup, In, Blocked
    <2> QED BY <2>1, <2>2 DEF NoLostWakeup
  <1>5. ASSUME NEW all \in BOOLEAN, Interrupt(all)
        PROVE  Len(mQueue') <= Cardinality(In("notified"))'
    <2>1. PICK S \in SUBSET Blocked :
             phase' = [t \in Threads |-> IF t \in S THEN "interrupted" ELSE phase[t]]
      BY <1>5 DEF Interrupt
    <2>2. mQueue' = mQueue
      BY <1>5 DEF Interrupt
    <2>3. In("notified")' = In("notified") /\ Blocked' \subseteq Blocked
      BY <2>1 DEF In, Blocked
    <2> QED BY <2>2, <2>3 DEF NoLostWakeup
  <1>6. CASE UNCHANGED vars
    BY <1>6 DEF vars, NoLostWakeup, Blocked, In
  <1> QED BY <1>1, <1>2, <1>3, <1>4, <1>5, <1>6 DEF Next

\* While a thread stays blocked in Get, the elements in the queue are at most as
\* many as the threads already notified to come for them.
THEOREM NoWakeupIsLost == Spec => []NoLostWakeup
  <1>1. Spec => [](SizeInv /\ NoLostWakeup)
    BY SizeInvInit, SizeInvNext, NoLostWakeupInit, NoLostWakeupNext, PTL DEF Spec
  <1> QED BY <1>1, PTL

-----------------------------------------------------------------------------
(***************************************************************************)
(* BlockQueue implements LossyBuffer: a Put maps to an Offer with the       *)
(* matching outcome, a Get that returns an element to a Take, everything    *)
(* else (blocking, waking, failing) to a stuttering step.                   *)
(***************************************************************************)
LEMMA RefinesInit == Init => Lossy!Init
  BY DEF Init, Lossy!Init

LEMMA InsertAtAnEnd ==
  ASSUME NEW q, NEW putfront \in BOOLEAN
  PROVE  Insert(q, putfront) \in Lossy!AtAnEnd(q)
  BY DEF Insert, Lossy!AtAnEnd

LEMMA TakeFrontIsTake ==
  ASSUME mQueue # <<>>, TakeFront
  PROVE  Lossy!Take
  BY DEF TakeFront, Lossy!Take

LEMMA RefinesNext == SizeInv /\ [Next]_vars => [Lossy!Next]_(Lossy!vars)
  <1> SUFFICES ASSUME SizeInv, [Next]_vars
               PROVE  Lossy!Next \/ UNCHANGED Lossy!vars
    OBVIOUS
  <1>1. ASSUME NEW replace \in BOOLEAN, NEW putfront \in BOOLEAN, Put(replace, putfront)
        PROVE  Lossy!Offer
    <2>1. puts < MaxPuts /\ puts' = puts + 1 /\ delivered' = delivered
      BY <1>1 DEF Put
    <2>2. Full => Len(mQueue) = mMaxSize
      BY MaxSizePositive DEF Full, SizeInv, TypeOK, SizeIsExact
    <2>3. CASE PutRejected(replace)
      <3>1. Lossy!Refuse
        BY <2>2, <2>3 DEF PutRejected, Lossy!Refuse
      <3> QED BY <2>1, <3>1 DEF Lossy!Offer
    <2>4. CASE PutPlain(putfront)
      <3>1. Len(mQueue) < mMaxSize
        BY <2>4, MaxSizePositive DEF PutPlain, Full, SizeInv, TypeOK, SizeIsExact
      <3>2. Lossy!Store
        BY <2>4, <3>1, InsertAtAnEnd DEF PutPlain, Lossy!Store
      <3> QED BY <2>1, <3>2 DEF Lossy!Offer
    <2>5. CASE PutReplacing(putfront)
      <3>1. mQueue' \in Lossy!AtAnEnd(Tail(mQueue))
        BY <2>5, InsertAtAnEnd DEF PutReplacing
      <3>2. (evicted \cup rejected)' = (evicted \cup rejected) \cup {Head(mQueue)}
        BY <2>5 DEF PutReplacing
      <3>3. Lossy!StoreDroppingOldest
        BY <2>2, <2>5, <3>1, <3>2 DEF PutReplacing, Lossy!StoreDroppingOldest
      <3> QED BY <2>1, <3>3 DEF Lossy!Offer
    <2> QED BY <1>1, <2>3, <2>4, <2>5 DEF Put
  <1>2. ASSUME UNCHANGED <<mQueue, mCurSize, history>>
        PROVE  UNCHANGED Lossy!vars
    BY <1>2 DEF history, Lossy!vars
  <1>3. ASSUME NEW t \in Threads, NEW timed \in BOOLEAN, Get(t, timed)
        PROVE  Lossy!Take \/ UNCHANGED Lossy!vars
    BY <1>2, <1>3, TakeFrontIsTake DEF Get
  <1>4. ASSUME NEW t \in Threads, GetWoken(t)
        PROVE  Lossy!Take \/ UNCHANGED Lossy!vars
    BY <1>2, <1>4, TakeFrontIsTake DEF GetWoken
  <1>5. ASSUME NEW t \in Threads, GetExpired(t) \/ WaitTimeout(t) \/ SpuriousWakeup(t)
        PROVE  UNCHANGED Lossy!vars
    BY <1>2, <1>5 DEF GetExpired, WaitTimeout, SpuriousWakeup
  <1>6. ASSUME NEW all \in BOOLEAN, Interrupt(all)
        PROVE  UNCHANGED Lossy!vars
    BY <1>2, <1>6 DEF Interrupt
  <1>7. CASE UNCHANGED vars
    BY <1>2, <1>7 DEF vars
  <1> QED BY <1>1, <1>3, <1>4, <1>5, <1>6, <1>7 DEF Next, Lossy!Next

\* BlockQueue implements the bounded buffer that loses elements only when full.
THEOREM QueueRefinesBuffer == Spec => ImplementsLossyBuffer
  <1>1. Spec => []SizeInv
    BY SizeInvInit, SizeInvNext, PTL DEF Spec
  <1>2. Spec => Lossy!Spec
    BY <1>1, RefinesInit, RefinesNext, PTL DEF Spec, Lossy!Spec
  <1> QED BY <1>2 DEF ImplementsLossyBuffer
-----------------------------------------------------------------------------
(***************************************************************************)
(* What an operation does to the list, for the theorems about its content.  *)
(***************************************************************************)
Stores(q, putfront) ==
    /\ puts' = puts + 1 /\ delivered' = delivered
    /\ mQueue' = Insert(q, putfront)
    /\ front' = IF putfront THEN front \cup {puts + 1} ELSE front

Takes == /\ mQueue # <<>> /\ mQueue' = Tail(mQueue)
         /\ delivered' = Append(delivered, Head(mQueue))
         /\ UNCHANGED <<puts, front, evicted, rejected, falsePuts>>

LEMMA ListSteps ==
    ASSUME SizeInv, [Next]_vars
    PROVE  \/ \E putfront \in BOOLEAN :
                 Stores(mQueue, putfront) /\ UNCHANGED <<evicted, rejected, falsePuts>>
           \/ /\ mQueue # <<>> /\ \E putfront \in BOOLEAN : Stores(Tail(mQueue), putfront)
              /\ evicted' = evicted \cup {Head(mQueue)}
              /\ falsePuts' = falsePuts + 1 /\ rejected' = rejected
           \/ /\ puts' = puts + 1 /\ rejected' = rejected \cup {puts + 1}
              /\ falsePuts' = falsePuts + 1
              /\ UNCHANGED <<mQueue, delivered, front, evicted>>
           \/ Takes
           \/ UNCHANGED <<mQueue, history>>
  <1>1. ASSUME NEW replace \in BOOLEAN, NEW putfront \in BOOLEAN, Put(replace, putfront),
               PutPlain(putfront), front' = IF putfront THEN front \cup {puts + 1} ELSE front
        PROVE  Stores(mQueue, putfront) /\ UNCHANGED <<evicted, rejected, falsePuts>>
    BY <1>1 DEF Put, PutPlain, Stores
  <1>2. ASSUME NEW replace \in BOOLEAN, NEW putfront \in BOOLEAN, Put(replace, putfront),
               PutReplacing(putfront), front' = IF putfront THEN front \cup {puts + 1} ELSE front
        PROVE  /\ mQueue # <<>> /\ Stores(Tail(mQueue), putfront)
               /\ evicted' = evicted \cup {Head(mQueue)}
               /\ falsePuts' = falsePuts + 1 /\ rejected' = rejected
    <2>1. mQueue # <<>>
      BY <1>2, MaxSizePositive DEF PutReplacing, Full, SizeInv, SizeIsExact
    <2>. QED
      BY <1>2, <2>1 DEF Put, PutReplacing, Stores
  <1>3. ASSUME NEW replace \in BOOLEAN, NEW putfront \in BOOLEAN, Put(replace, putfront),
               PutRejected(replace)
        PROVE  /\ puts' = puts + 1 /\ rejected' = rejected \cup {puts + 1}
               /\ falsePuts' = falsePuts + 1
               /\ UNCHANGED <<mQueue, delivered, front, evicted>>
    BY <1>3 DEF Put, PutRejected
  <1>4. ASSUME NEW t \in Threads,
               GetWoken(t) \/ GetExpired(t) \/ WaitTimeout(t) \/ SpuriousWakeup(t)
                   \/ \E timed \in BOOLEAN : Get(t, timed)
        PROVE  Takes \/ UNCHANGED <<mQueue, history>>
    BY <1>4
    DEF Get, GetWoken, GetExpired, WaitTimeout, SpuriousWakeup, TakeFront, Takes, history
  <1>5. ASSUME NEW all \in BOOLEAN, Interrupt(all) PROVE UNCHANGED <<mQueue, history>>
    BY <1>5 DEF Interrupt
  <1>6. ASSUME NEW replace \in BOOLEAN, NEW putfront \in BOOLEAN, Put(replace, putfront)
        PROVE  \/ PutRejected(replace)
               \/ /\ PutPlain(putfront) \/ PutReplacing(putfront)
                  /\ front' = IF putfront THEN front \cup {puts + 1} ELSE front
    BY <1>6 DEF Put
  <1>. QED
    BY <1>1, <1>2, <1>3, <1>4, <1>5, <1>6 DEF Next, vars

(***************************************************************************)
(* Losses.  A dropped element is counted as one more because it has not     *)
(* been dropped before: no element is in the list twice, or in the list and *)
(* dropped.                                                                 *)
(***************************************************************************)
Distinct(q)  == \A i, j \in DOMAIN q : i # j => q[i] # q[j]
Avoids(q, S) == \A i \in DOMAIN q : q[i] \notin S

LossInv ==
    SizeInv /\ LossIsReported /\ Distinct(mQueue) /\ Avoids(mQueue, evicted)

LEMMA InsertDistinct ==
    ASSUME NEW q \in Seq(1..puts), puts \in Nat, NEW putfront \in BOOLEAN, Distinct(q),
           NEW S \in SUBSET (1..puts), Avoids(q, S)
    PROVE  Distinct(Insert(q, putfront)) /\ Avoids(Insert(q, putfront), S)
  <1>1. DOMAIN q = 1..Len(q) /\ Len(q) \in Nat /\ \A i \in 1..Len(q) : q[i] \in 1..puts
    OBVIOUS
  <1>2. puts + 1 \notin S /\ \A i \in 1..Len(q) : q[i] # puts + 1
    BY <1>1
  <1>3. CASE putfront
    <2>. DEFINE r == <<puts + 1>> \o q
    <2>1. /\ DOMAIN r = 1..(Len(q) + 1) /\ r[1] = puts + 1
          /\ \A i \in 1..(Len(q) + 1) : i # 1 => i - 1 \in 1..Len(q) /\ r[i] = q[i - 1]
      BY <1>1
    <2>. HIDE DEF r
    <2>2. \A i, j \in 1..(Len(q) + 1) : i # j => i - 1 # j - 1
      BY <1>1
    <2>3. Avoids(r, S)
      BY <1>1, <1>2, <2>1 DEF Avoids
    <2>4. ASSUME NEW i \in 1..(Len(q) + 1), NEW j \in 1..(Len(q) + 1), i # j
          PROVE  r[i] # r[j]
      <3>1. CASE i = 1
        BY <1>2, <2>1, <2>4, <3>1
      <3>2. CASE j = 1
        BY <1>2, <2>1, <2>4, <3>2
      <3>3. CASE i # 1 /\ j # 1
        BY <1>1, <2>1, <2>2, <2>4, <3>3 DEF Distinct
      <3>. QED
        BY <3>1, <3>2, <3>3
    <2>. QED
      BY <1>3, <2>1, <2>3, <2>4 DEF Insert, Distinct, r
  <1>4. CASE ~putfront
    <2>. DEFINE r == Append(q, puts + 1)
    <2>1. /\ DOMAIN r = 1..(Len(q) + 1) /\ r[Len(q) + 1] = puts + 1
          /\ \A i \in 1..(Len(q) + 1) : i # Len(q) + 1 => i \in 1..Len(q) /\ r[i] = q[i]
      BY <1>1
    <2>. HIDE DEF r
    <2>2. Distinct(r) /\ Avoids(r, S)
      BY <1>1, <1>2, <2>1 DEF Distinct, Avoids
    <2>. QED
      BY <1>4, <2>2 DEF Insert, r
  <1>. QED
    BY <1>3, <1>4

LEMMA TailDistinct ==
    ASSUME puts \in Nat, NEW q \in Seq(1..puts), q # <<>>, Distinct(q), NEW S, Avoids(q, S)
    PROVE  /\ Head(q) \in 1..puts /\ Head(q) \notin S /\ Tail(q) \in Seq(1..puts)
           /\ Distinct(Tail(q)) /\ Avoids(Tail(q), S) /\ Avoids(Tail(q), S \cup {Head(q)})
  <1>1. /\ Head(q) = q[1] /\ 1 \in DOMAIN q /\ q[1] \in 1..puts /\ Tail(q) \in Seq(1..puts)
        /\ \A i \in DOMAIN Tail(q) : i + 1 \in DOMAIN q /\ Tail(q)[i] = q[i + 1] /\ i + 1 # 1
        /\ \A i, j \in DOMAIN Tail(q) : i # j => i + 1 # j + 1
    <2>1. /\ DOMAIN q = 1..Len(q) /\ Len(q) \in Nat /\ Len(q) # 0
          /\ DOMAIN Tail(q) = 1..(Len(q) - 1) /\ Tail(q) \in Seq(1..puts)
      OBVIOUS
    <2>2. \A i \in 1..(Len(q) - 1) : Tail(q)[i] = q[i + 1]
      BY <2>1
    <2>3. /\ \A i \in 1..(Len(q) - 1) : i + 1 \in 1..Len(q) /\ i + 1 # 1
          /\ \A i, j \in 1..(Len(q) - 1) : i # j => i + 1 # j + 1
      BY <2>1
    <2>4. Head(q) = q[1]
      OBVIOUS
    <2>5. 1 \in 1..Len(q)
      BY <2>1
    <2>6. \A i \in 1..Len(q) : q[i] \in 1..puts
      OBVIOUS
    <2>. QED
      BY <2>1, <2>2, <2>3, <2>4, <2>5, <2>6, Zenon
  <1>2. Distinct(Tail(q))
    BY <1>1 DEF Distinct
  <1>3. Avoids(Tail(q), S) /\ Avoids(Tail(q), S \cup {Head(q)}) /\ Head(q) \notin S
    BY <1>1 DEF Distinct, Avoids
  <1>. QED
    BY <1>1, <1>2, <1>3

LEMMA LossesFinite ==
    ASSUME TypeOK
    PROVE  /\ IsFiniteSet(evicted) /\ IsFiniteSet(rejected)
           /\ Cardinality(evicted) \in Nat /\ Cardinality(rejected) \in Nat
  <1>1. puts \in Nat
    BY QueueAssumption DEF TypeOK
  <1>2. IsFiniteSet(1..puts)
    BY <1>1, FS_Interval
  <1>3. IsFiniteSet(evicted) /\ IsFiniteSet(rejected)
    BY <1>2, FS_Subset DEF TypeOK
  <1>. QED
    BY <1>3, FS_CardinalityType

LEMMA LossInit == Init => LossInv
  <1>. SUFFICES ASSUME Init PROVE LossInv
    OBVIOUS
  <1>1. LossIsReported
    BY FS_EmptySet DEF Init, LossIsReported
  <1>2. Distinct(mQueue) /\ Avoids(mQueue, evicted)
    BY DEF Init, Distinct, Avoids
  <1>. QED
    BY <1>1, <1>2, SizeInvInit DEF LossInv

LEMMA LossNext == LossInv /\ [Next]_vars => LossInv'
  <1>. SUFFICES ASSUME LossInv, [Next]_vars
                PROVE  LossIsReported' /\ Distinct(mQueue)' /\ Avoids(mQueue, evicted)'
    BY SizeInvNext DEF LossInv
  <1>0. /\ puts \in Nat /\ mQueue \in Seq(1..puts) /\ evicted \subseteq 1..puts
        /\ rejected \subseteq 1..puts /\ falsePuts \in Nat
        /\ IsFiniteSet(evicted) /\ IsFiniteSet(rejected)
        /\ Cardinality(evicted) \in Nat /\ Cardinality(rejected) \in Nat
        /\ falsePuts = Cardinality(evicted) + Cardinality(rejected)
        /\ Distinct(mQueue) /\ Avoids(mQueue, evicted)
    BY QueueAssumption, LossesFinite DEF LossInv, SizeInv, TypeOK, LossIsReported
  <1>1. ASSUME NEW putfront \in BOOLEAN, Stores(mQueue, putfront),
               UNCHANGED <<evicted, rejected, falsePuts>>
        PROVE  LossIsReported' /\ Distinct(mQueue)' /\ Avoids(mQueue, evicted)'
    <2>1. mQueue' = Insert(mQueue, putfront)
      BY <1>1 DEF Stores
    <2>2. Distinct(Insert(mQueue, putfront)) /\ Avoids(Insert(mQueue, putfront), evicted)
      BY <1>0, InsertDistinct
    <2>3. LossIsReported'
      BY <1>0, <1>1 DEF LossIsReported
    <2>. QED
      BY <1>1, <2>1, <2>2, <2>3
  <1>2. ASSUME NEW putfront \in BOOLEAN, mQueue # <<>>, Stores(Tail(mQueue), putfront),
               evicted' = evicted \cup {Head(mQueue)}, falsePuts' = falsePuts + 1,
               rejected' = rejected
        PROVE  LossIsReported' /\ Distinct(mQueue)' /\ Avoids(mQueue, evicted)'
    <2>1. /\ Head(mQueue) \in 1..puts /\ Head(mQueue) \notin evicted
          /\ Tail(mQueue) \in Seq(1..puts) /\ Distinct(Tail(mQueue))
          /\ Avoids(Tail(mQueue), evicted \cup {Head(mQueue)})
      BY <1>0, <1>2, TailDistinct
    <2>2. evicted' \in SUBSET (1..puts)
      BY <1>0, <1>2, <2>1
    <2>3. mQueue' = Insert(Tail(mQueue), putfront)
      BY <1>2 DEF Stores
    <2>4. Distinct(Insert(Tail(mQueue), putfront)) /\ Avoids(Insert(Tail(mQueue), putfront), evicted')
      BY <1>0, <1>2, <2>1, <2>2, InsertDistinct
    <2>5. Cardinality(evicted') = Cardinality(evicted) + 1
      BY <1>0, <1>2, <2>1, FS_AddElement
    <2>6. LossIsReported'
      BY <1>0, <1>2, <2>5 DEF LossIsReported
    <2>. QED
      BY <2>3, <2>4, <2>6
  <1>3. ASSUME rejected' = rejected \cup {puts + 1}, falsePuts' = falsePuts + 1,
               UNCHANGED <<mQueue, evicted>>
        PROVE  LossIsReported' /\ Distinct(mQueue)' /\ Avoids(mQueue, evicted)'
    <2>1. puts + 1 \notin rejected
      BY <1>0
    <2>2. Cardinality(rejected') = Cardinality(rejected) + 1
      BY <1>0, <1>3, <2>1, FS_AddElement
    <2>3. LossIsReported'
      BY <1>0, <1>3, <2>2 DEF LossIsReported
    <2>. QED
      BY <1>0, <1>3, <2>3
  <1>4. CASE Takes
    <2>1. Distinct(Tail(mQueue)) /\ Avoids(Tail(mQueue), evicted)
      BY <1>0, <1>4, TailDistinct DEF Takes
    <2>2. mQueue' = Tail(mQueue) /\ UNCHANGED <<evicted, rejected, falsePuts>>
      BY <1>4 DEF Takes
    <2>3. LossIsReported'
      BY <1>0, <2>2 DEF LossIsReported
    <2>. QED
      BY <2>1, <2>2, <2>3
  <1>5. CASE UNCHANGED <<mQueue, history>>
    BY <1>0, <1>5 DEF history, LossIsReported
  <1>. QED
    BY <1>1, <1>2, <1>3, <1>4, <1>5, ListSteps DEF LossInv

\* The calls of Put that returned false are as many as the elements lost.
THEOREM LossCorrect == Spec => []LossIsReported
  <1>1. Spec => []LossInv
    BY LossInit, LossNext, PTL DEF Spec
  <1>2. LossInv => LossIsReported
    BY DEF LossInv
  <1>. QED
    BY <1>1, <1>2, PTL

(***************************************************************************)
(* Order.  Of the elements put at the back those returned come before those *)
(* in the list, each in the order of the Puts; those put at the front are    *)
(* at the front of the list, the latest first.                              *)
(***************************************************************************)
Rises(s, S)     == \A i, j \in DOMAIN s : i < j /\ s[i] \notin S /\ s[j] \notin S => s[i] < s[j]
Precedes(d, q, S) == \A i \in DOMAIN d, j \in DOMAIN q : d[i] \notin S /\ q[j] \notin S => d[i] < q[j]
FrontFirst(q, S) == \A i, j \in DOMAIN q : i < j /\ q[j] \in S => q[i] \in S /\ q[i] > q[j]

Ordered(d, q, S) == Rises(d, S) /\ Rises(q, S) /\ Precedes(d, q, S) /\ FrontFirst(q, S)

LEMMA OrderOfAll ==
    ASSUME NEW n \in Nat, NEW d \in Seq(1..n), NEW q \in Seq(1..n), NEW S, Ordered(d, q, S)
    PROVE  Rises(d \o q, S)
  <1>. DEFINE a == d \o q
  <1>1. /\ DOMAIN d = 1..Len(d) /\ DOMAIN q = 1..Len(q) /\ Len(d) \in Nat /\ Len(q) \in Nat
        /\ DOMAIN a = 1..(Len(d) + Len(q))
        /\ \A i \in 1..Len(d) : a[i] = d[i]
        /\ \A i \in 1..(Len(d) + Len(q)) : i > Len(d) => a[i] = q[i - Len(d)]
    OBVIOUS
  <1>. HIDE DEF a
  <1>2. ASSUME NEW i \in 1..(Len(d) + Len(q)), NEW j \in 1..(Len(d) + Len(q)), i < j,
               a[i] \notin S, a[j] \notin S
        PROVE  a[i] < a[j]
    <2>1. CASE j <= Len(d)
      <3>1. i \in 1..Len(d) /\ j \in 1..Len(d)
        BY <1>1, <1>2, <2>1
      <3>. QED
        BY <1>1, <1>2, <3>1 DEF Ordered, Rises
    <2>2. CASE i <= Len(d) /\ j > Len(d)
      <3>1. i \in 1..Len(d) /\ j - Len(d) \in 1..Len(q)
        BY <1>1, <1>2, <2>2
      <3>. QED
        BY <1>1, <1>2, <2>2, <3>1 DEF Ordered, Precedes
    <2>3. CASE i > Len(d)
      <3>1. /\ i - Len(d) \in 1..Len(q) /\ j - Len(d) \in 1..Len(q)
            /\ i - Len(d) < j - Len(d) /\ j > Len(d)
        BY <1>1, <1>2, <2>3
      <3>. QED
        BY <1>1, <1>2, <2>3, <3>1 DEF Ordered, Rises
    <2>. QED
      BY <1>1, <1>2, <2>1, <2>2, <2>3
  <1>. QED
    BY <1>1, <1>2 DEF Rises, a

LEMMA StoredBehind ==
    ASSUME NEW n \in Nat, NEW d \in Seq(1..n), NEW q \in Seq(1..n), NEW S \in SUBSET (1..n),
           Ordered(d, q, S)
    PROVE  Ordered(d, Append(q, n + 1), S)
  <1>. DEFINE r == Append(q, n + 1)
  <1>1. /\ DOMAIN d = 1..Len(d) /\ DOMAIN q = 1..Len(q) /\ Len(d) \in Nat /\ Len(q) \in Nat
        /\ \A i \in 1..Len(d) : d[i] \in 1..n
        /\ \A i \in 1..Len(q) : q[i] \in 1..n
        /\ DOMAIN r = 1..(Len(q) + 1) /\ r[Len(q) + 1] = n + 1
        /\ \A i \in 1..Len(q) : r[i] = q[i]
    OBVIOUS
  <1>. HIDE DEF r
  <1>2. n + 1 \notin S
    OBVIOUS
  <1>3. \A i \in 1..(Len(q) + 1) : i \in 1..Len(q) \/ i = Len(q) + 1
    BY <1>1
  <1>4. \A i, j \in 1..(Len(q) + 1) : i < j => i \in 1..Len(q)
    BY <1>1
  <1>5. Rises(r, S)
    <2>. SUFFICES ASSUME NEW i \in 1..(Len(q) + 1), NEW j \in 1..(Len(q) + 1), i < j,
                         r[i] \notin S, r[j] \notin S
                  PROVE  r[i] < r[j]
      BY <1>1 DEF Rises
    <2>1. i \in 1..Len(q)
      BY <1>4
    <2>2. CASE j \in 1..Len(q)
      BY <1>1, <2>1, <2>2 DEF Ordered, Rises
    <2>3. CASE j = Len(q) + 1
      BY <1>1, <2>1, <2>3
    <2>. QED
      BY <1>3, <2>2, <2>3
  <1>6. Precedes(d, r, S)
    <2>. SUFFICES ASSUME NEW i \in 1..Len(d), NEW j \in 1..(Len(q) + 1),
                         d[i] \notin S, r[j] \notin S
                  PROVE  d[i] < r[j]
      BY <1>1 DEF Precedes
    <2>1. CASE j \in 1..Len(q)
      BY <1>1, <2>1 DEF Ordered, Precedes
    <2>2. CASE j = Len(q) + 1
      BY <1>1, <2>2
    <2>. QED
      BY <1>3, <2>1, <2>2
  <1>7. FrontFirst(r, S)
    <2>. SUFFICES ASSUME NEW i \in 1..(Len(q) + 1), NEW j \in 1..(Len(q) + 1), i < j, r[j] \in S
                  PROVE  r[i] \in S /\ r[i] > r[j]
      BY <1>1 DEF FrontFirst
    <2>1. i \in 1..Len(q) /\ j \in 1..Len(q)
      BY <1>1, <1>2, <1>3, <1>4
    <2>. QED
      BY <1>1, <2>1 DEF Ordered, FrontFirst
  <1>. QED
    BY <1>5, <1>6, <1>7 DEF Ordered, r

LEMMA StoredInFront ==
    ASSUME NEW n \in Nat, NEW d \in Seq(1..n), NEW q \in Seq(1..n), NEW S \in SUBSET (1..n),
           Ordered(d, q, S)
    PROVE  Ordered(d, <<n + 1>> \o q, S \cup {n + 1})
  <1>. DEFINE r == <<n + 1>> \o q
              T == S \cup {n + 1}
  <1>1. /\ DOMAIN d = 1..Len(d) /\ DOMAIN q = 1..Len(q) /\ Len(d) \in Nat /\ Len(q) \in Nat
        /\ \A i \in 1..Len(d) : d[i] \in 1..n
        /\ \A i \in 1..Len(q) : q[i] \in 1..n
        /\ DOMAIN r = 1..(Len(q) + 1) /\ r[1] = n + 1
        /\ \A i \in 1..(Len(q) + 1) : i # 1 => i - 1 \in 1..Len(q) /\ r[i] = q[i - 1]
    OBVIOUS
  <1>2. n + 1 \in T /\ \A x \in 1..n : x \in T <=> x \in S
    OBVIOUS
  <1>. HIDE DEF r, T
  <1>3. Rises(d, T)
    BY <1>1, <1>2 DEF Ordered, Rises
  <1>4. Rises(r, T)
    <2>. SUFFICES ASSUME NEW i \in 1..(Len(q) + 1), NEW j \in 1..(Len(q) + 1), i < j,
                         r[i] \notin T, r[j] \notin T
                  PROVE  r[i] < r[j]
      BY <1>1 DEF Rises
    <2>1. i # 1 /\ j # 1 /\ i - 1 < j - 1
      BY <1>1, <1>2
    <2>. QED
      BY <1>1, <1>2, <2>1 DEF Ordered, Rises
  <1>5. Precedes(d, r, T)
    <2>. SUFFICES ASSUME NEW i \in 1..Len(d), NEW j \in 1..(Len(q) + 1),
                         d[i] \notin T, r[j] \notin T
                  PROVE  d[i] < r[j]
      BY <1>1 DEF Precedes
    <2>1. j # 1
      BY <1>1, <1>2
    <2>. QED
      BY <1>1, <1>2, <2>1 DEF Ordered, Precedes
  <1>6. FrontFirst(r, T)
    <2>. SUFFICES ASSUME NEW i \in 1..(Len(q) + 1), NEW j \in 1..(Len(q) + 1), i < j, r[j] \in T
                  PROVE  r[i] \in T /\ r[i] > r[j]
      BY <1>1 DEF FrontFirst
    <2>1. j # 1
      BY <1>1
    <2>2. CASE i = 1
      BY <1>1, <1>2, <2>1, <2>2
    <2>3. CASE i # 1
      <3>1. i - 1 < j - 1
        BY <1>1
      <3>. QED
        BY <1>1, <1>2, <2>1, <2>3, <3>1 DEF Ordered, FrontFirst
    <2>. QED
      BY <2>2, <2>3
  <1>. QED
    BY <1>3, <1>4, <1>5, <1>6 DEF Ordered, r, T

LEMMA WithoutTheFirst ==
    ASSUME NEW n \in Nat, NEW q \in Seq(1..n), q # <<>>
    PROVE  /\ DOMAIN q = 1..Len(q) /\ Len(q) \in Nat \ {0} /\ Head(q) = q[1] /\ 1 \in 1..Len(q)
           /\ Tail(q) \in Seq(1..n) /\ DOMAIN Tail(q) = 1..(Len(q) - 1)
           /\ \A i \in 1..(Len(q) - 1) : /\ Tail(q)[i] = q[i + 1] /\ i + 1 \in 1..Len(q)
                                        /\ 1 < i + 1
           /\ \A i, j \in 1..(Len(q) - 1) : i < j => i + 1 < j + 1
  <1>1. /\ DOMAIN q = 1..Len(q) /\ Len(q) \in Nat \ {0} /\ Head(q) = q[1]
        /\ Tail(q) \in Seq(1..n) /\ DOMAIN Tail(q) = 1..(Len(q) - 1)
    OBVIOUS
  <1>2. 1 \in 1..Len(q) /\ \A i \in 1..(Len(q) - 1) : i + 1 \in 1..Len(q) /\ 1 < i + 1
    BY <1>1
  <1>3. \A i \in 1..(Len(q) - 1) : Tail(q)[i] = q[i + 1]
    BY <1>1
  <1>4. \A i, j \in 1..(Len(q) - 1) : i < j => i + 1 < j + 1
    BY <1>1
  <1>. QED
    BY <1>1, <1>2, <1>3, <1>4, Zenon

LEMMA FirstDropped ==
    ASSUME NEW n \in Nat, NEW d \in Seq(1..n), NEW q \in Seq(1..n), q # <<>>, NEW S,
           Ordered(d, q, S)
    PROVE  Ordered(d, Tail(q), S)
  <1>. DEFINE r == Tail(q)
  <1>1. /\ DOMAIN q = 1..Len(q) /\ DOMAIN r = 1..(Len(q) - 1)
        /\ \A i \in 1..(Len(q) - 1) : r[i] = q[i + 1] /\ i + 1 \in 1..Len(q)
        /\ \A i, j \in 1..(Len(q) - 1) : i < j => i + 1 < j + 1
    BY WithoutTheFirst
  <1>. HIDE DEF r
  <1>2. Rises(r, S)
    BY <1>1 DEF Ordered, Rises
  <1>3. Precedes(d, r, S)
    BY <1>1 DEF Ordered, Precedes
  <1>4. FrontFirst(r, S)
    BY <1>1 DEF Ordered, FrontFirst
  <1>. QED
    BY <1>2, <1>3, <1>4 DEF Ordered, r

LEMMA FirstTaken ==
    ASSUME NEW n \in Nat, NEW d \in Seq(1..n), NEW q \in Seq(1..n), q # <<>>, NEW S,
           Ordered(d, q, S)
    PROVE  Ordered(Append(d, Head(q)), Tail(q), S)
  <1>. DEFINE e == Append(d, Head(q))
              r == Tail(q)
  <1>1. /\ DOMAIN q = 1..Len(q) /\ DOMAIN r = 1..(Len(q) - 1) /\ 1 \in 1..Len(q)
        /\ Head(q) = q[1]
        /\ \A i \in 1..(Len(q) - 1) : r[i] = q[i + 1] /\ i + 1 \in 1..Len(q) /\ 1 < i + 1
    BY WithoutTheFirst
  <1>2. q[1] \in 1..n
    BY <1>1
  <1>3. /\ DOMAIN d = 1..Len(d) /\ Len(d) \in Nat
        /\ DOMAIN e = 1..(Len(d) + 1) /\ e[Len(d) + 1] = q[1]
        /\ \A i \in 1..Len(d) : e[i] = d[i]
    BY <1>1, <1>2
  <1>4. Ordered(d, r, S)
    BY FirstDropped
  <1>. HIDE DEF e, r
  <1>5. /\ \A i \in 1..(Len(d) + 1) : i \in 1..Len(d) \/ i = Len(d) + 1
        /\ \A i, j \in 1..(Len(d) + 1) : i < j => i \in 1..Len(d)
    BY <1>3
  <1>6. Rises(e, S)
    <2>. SUFFICES ASSUME NEW i \in 1..(Len(d) + 1), NEW j \in 1..(Len(d) + 1), i < j,
                         e[i] \notin S, e[j] \notin S
                  PROVE  e[i] < e[j]
      BY <1>3 DEF Rises
    <2>1. i \in 1..Len(d)
      BY <1>5
    <2>2. CASE j \in 1..Len(d)
      BY <1>3, <2>1, <2>2 DEF Ordered, Rises
    <2>3. CASE j = Len(d) + 1
      BY <1>1, <1>3, <2>1, <2>3 DEF Ordered, Precedes
    <2>. QED
      BY <1>5, <2>2, <2>3
  <1>7. Precedes(e, r, S)
    <2>. SUFFICES ASSUME NEW i \in 1..(Len(d) + 1), NEW j \in 1..(Len(q) - 1),
                         e[i] \notin S, r[j] \notin S
                  PROVE  e[i] < r[j]
      BY <1>1, <1>3 DEF Precedes
    <2>1. CASE i \in 1..Len(d)
      BY <1>1, <1>3, <1>4, <2>1 DEF Ordered, Precedes
    <2>2. CASE i = Len(d) + 1
      BY <1>1, <1>3, <2>2 DEF Ordered, Rises
    <2>. QED
      BY <1>5, <2>1, <2>2
  <1>. QED
    BY <1>4, <1>6, <1>7 DEF Ordered, e, r

OrderInv == SizeInv /\ Ordered(delivered, mQueue, front)

LEMMA OrderInit == Init => OrderInv
  BY SizeInvInit DEF Init, OrderInv, Ordered, Rises, Precedes, FrontFirst

LEMMA OrderNext == OrderInv /\ [Next]_vars => OrderInv'
  <1>. SUFFICES ASSUME OrderInv, [Next]_vars PROVE Ordered(delivered, mQueue, front)'
    BY SizeInvNext DEF OrderInv
  <1>0. /\ puts \in Nat /\ mQueue \in Seq(1..puts) /\ delivered \in Seq(1..puts)
        /\ front \in SUBSET (1..puts) /\ Ordered(delivered, mQueue, front)
    BY QueueAssumption DEF OrderInv, SizeInv, TypeOK
  <1>1. ASSUME NEW putfront \in BOOLEAN, NEW q \in Seq(1..puts), Ordered(delivered, q, front),
               Stores(q, putfront)
        PROVE  Ordered(delivered, mQueue, front)'
    <2>1. CASE putfront
      BY <1>0, <1>1, <2>1, StoredInFront DEF Stores, Insert
    <2>2. CASE ~putfront
      BY <1>0, <1>1, <2>2, StoredBehind DEF Stores, Insert
    <2>. QED
      BY <2>1, <2>2
  <1>2. mQueue # <<>> => Tail(mQueue) \in Seq(1..puts) /\ Ordered(delivered, Tail(mQueue), front)
    BY <1>0, FirstDropped
  <1>3. CASE Takes
    BY <1>0, <1>3, FirstTaken DEF Takes
  <1>4. CASE UNCHANGED <<mQueue, delivered, front>>
    BY <1>0, <1>4
  <1>. QED
    BY <1>0, <1>1, <1>2, <1>3, <1>4, ListSteps DEF OrderInv, history

\* Elements put at the back are returned in the order of their Puts, whatever is dropped,
\* refused or put at the front; those put at the front stay ahead, the latest first.
THEOREM OrderCorrect == Spec => []InPutOrder
  <1>1. Spec => []OrderInv
    BY OrderInit, OrderNext, PTL DEF Spec
  <1>2. OrderInv => InPutOrder
    <2>. SUFFICES ASSUME OrderInv PROVE InPutOrder
      OBVIOUS
    <2>1. /\ puts \in Nat /\ mQueue \in Seq(1..puts) /\ delivered \in Seq(1..puts)
          /\ Ordered(delivered, mQueue, front)
      BY QueueAssumption DEF OrderInv, SizeInv, TypeOK
    <2>2. Rises(delivered \o mQueue, front)
      BY <2>1, OrderOfAll
    <2>. QED
      BY <2>1, <2>2 DEF InPutOrder, Rises, Ordered, FrontFirst
  <1>. QED
    BY <1>1, <1>2, PTL

=============================================================================
