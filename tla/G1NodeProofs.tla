---------------------------- MODULE G1NodeProofs ----------------------------
(***************************************************************************)
(* For any number of datagrams and any size of the socket's buffer: the     *)
(* workers handle what main has pushed, in order, and never sleep over it.  *)
(***************************************************************************)
EXTENDS G1Node, TLAPS

\* A sequence over a set is a sequence over a larger one.
LEMMA WiderSeq ==
    ASSUME NEW S, NEW T, S \subseteq T, NEW s \in Seq(S)
    PROVE  s \in Seq(T)
<1>1. Len(s) \in Nat /\ s = [i \in 1..Len(s) |-> s[i]]
  OBVIOUS
<1>2. \A i \in 1..Len(s) : s[i] \in T
  OBVIOUS
<1>3. s \in [1..Len(s) -> T]
  BY <1>1, <1>2
<1> QED  BY <1>1, <1>3, SMTT(20)

\* Taking the first element of a sequence that another one ends with.
LEMMA MoveHead ==
    ASSUME NEW S, NEW h \in Seq(S), NEW q \in Seq(S), q # <<>>
    PROVE  Append(h, Head(q)) \o Tail(q) = h \o q
  OBVIOUS

\* Appending to the end of a concatenation.
LEMMA AppendLast ==
    ASSUME NEW S, NEW h \in Seq(S), NEW q \in Seq(S), NEW e \in S
    PROVE  h \o Append(q, e) = Append(h \o q, e)
  OBVIOUS

LEMMA InitTypeOK == Init => TypeOK
<1> SUFFICES ASSUME Init PROVE TypeOK
  OBVIOUS
<1>1. <<>> \in Seq([kind : Kinds, rank : 1..arrived]) /\ <<>> \in Seq(1..arrived)
  OBVIOUS
<1>1a. accepted \in [Workers -> SUBSET (1..arrived)]
  BY DEF Init
<1>2. Len(socket) <= SocketSize /\ arrived \in 0..MaxDatagrams
  BY NodeAssumption DEF Init
<1>3. mainPc \in MainPcs /\ \A w \in Workers : "check" \in WorkerPcs
  BY DEF Init, MainPcs, WorkerPcs
<1>4. socket \in Seq([kind : Kinds, rank : 1..arrived])
  BY <1>1 DEF Init
<1>5. /\ q_ \in [Workers -> Seq(1..arrived)]
      /\ handled \in [Workers -> Seq(1..arrived)]
  BY <1>1 DEF Init
<1>6. stop_ \in [Workers -> BOOLEAN] /\ workerPc \in [Workers -> WorkerPcs]
  BY <1>3 DEF Init
<1> QED  BY <1>1a, <1>2, <1>3, <1>4, <1>5, <1>6 DEF TypeOK

\* What a worker's steps and main's leave typed: none lets a datagram arrive.
LEMMA WorkerTypeOK ==
    ASSUME TypeOK, NEW w \in Workers, Worker(w) \/ SpuriousWakeup(w)
    PROVE  TypeOK'
<1> DEFINE R == 1..arrived  D == [kind : Kinds, rank : R]
<1>1. /\ UNCHANGED <<mainPc, socket, arrivalVars, stop_>>
      /\ workerPc' \in [Workers -> WorkerPcs]
  BY DEF TypeOK, Worker, WorkerTakes, WorkerWaits, WorkerQuits, HandlerReturns,
         SpuriousWakeup, WorkerUnchanged, WorkerPcs
<1>2. q_' \in [Workers -> Seq(R)] /\ handled' \in [Workers -> Seq(R)]
  <2> USE DEF TypeOK
  <2> HIDE DEF R
  <2>1. q_ \in [Workers -> Seq(R)] /\ handled \in [Workers -> Seq(R)]
    BY DEF R
  <2>2. CASE WorkerTakes(w)
    <3>1. q_[w] \in Seq(R) /\ handled[w] \in Seq(R) /\ q_[w] # <<>>
      BY <2>1, <2>2 DEF WorkerTakes
    <3>2. Head(q_[w]) \in R /\ Tail(q_[w]) \in Seq(R)
      BY <3>1
    <3>3. Append(handled[w], Head(q_[w])) \in Seq(R)
      BY <3>1, <3>2
    <3> QED  BY <2>1, <2>2, <3>2, <3>3 DEF WorkerTakes
  <2>3. CASE ~WorkerTakes(w)
    BY <2>1, <2>3 DEF Worker, WorkerWaits, WorkerQuits, HandlerReturns, SpuriousWakeup
  <2> QED  BY <2>2, <2>3
<1> QED  BY <1>1, <1>2 DEF TypeOK, arrivalVars

LEMMA MainTypeOK ==
    ASSUME TypeOK, Main
    PROVE  TypeOK'
<1> DEFINE R == 1..arrived  D == [kind : Kinds, rank : R]
<1>1. UNCHANGED <<arrived, accepted, handled>>
  BY DEF Main, BindSucceeds, BindFails, ReceivesBad, ReceivesMove, MoveReturns,
         ReceivesSlow, Notifies, Stops, Joins, workerVars, arrivalVars
<1>2. mainPc' \in MainPcs
  BY DEF TypeOK, Main, MainGoes, BindSucceeds, BindFails, ReceivesBad, ReceivesMove, MoveReturns,
         ReceivesSlow, Notifies, Stops, Joins, notify, unwind, join, Workers, MainPcs
<1>3. workerPc' \in [Workers -> WorkerPcs]
  BY DEF TypeOK, Main, BindSucceeds, BindFails, ReceivesBad, ReceivesMove, MoveReturns,
         ReceivesSlow, Notifies, Stops, Joins, workerVars, WorkerPcs
<1>4. stop_' \in [Workers -> BOOLEAN]
  BY DEF TypeOK, Main, BindSucceeds, BindFails, ReceivesBad, ReceivesMove, MoveReturns,
         ReceivesSlow, Notifies, Stops, Joins, workerVars
<1>5. socket' = socket \/ (socket # <<>> /\ socket' = Tail(socket))
  BY DEF Main, BindSucceeds, BindFails, ReceivesBad, ReceivesMove, MoveReturns,
         ReceivesSlow, Notifies, Stops, Joins
<1>6. socket' \in Seq(D) /\ Len(socket') <= SocketSize
  <2>1. socket \in Seq(D) /\ Len(socket) <= SocketSize
    BY DEF TypeOK
  <2> HIDE DEF D
  <2>2. socket # <<>> => Tail(socket) \in Seq(D) /\ Len(Tail(socket)) <= Len(socket)
    BY <2>1
  <2>3. Len(socket) \in Nat /\ Len(socket') \in Nat
    BY <1>5, <2>1, <2>2
  <2> QED  BY <1>5, <2>1, <2>2, <2>3, NodeAssumption
<1>7. q_' \in [Workers -> Seq(R)]
  <2>1. socket \in Seq(D) /\ q_ \in [Workers -> Seq(R)]
    BY DEF TypeOK
  <2>2. ASSUME NEW d \in D PROVE d.rank \in R
    OBVIOUS
  <2> HIDE DEF R, D
  <2>3. ASSUME NEW w \in Workers, ReceivesSlow(w)
        PROVE  q_' \in [Workers -> Seq(R)]
    <3>1. Head(socket) \in D
      BY <2>1, <2>3 DEF ReceivesSlow
    <3>2. Append(q_[w], Head(socket).rank) \in Seq(R)
      BY <2>1, <2>2, <3>1
    <3> QED  BY <2>1, <2>3, <3>2 DEF ReceivesSlow
  <2>4. CASE \A w \in Workers : ~ReceivesSlow(w)
    BY <2>1, <2>4 DEF Main, BindSucceeds, BindFails, ReceivesBad, ReceivesMove, MoveReturns,
                      Notifies, Stops, Joins, workerVars
  <2> QED  BY <2>3, <2>4
<1> QED  BY <1>1, <1>2, <1>3, <1>4, <1>6, <1>7 DEF TypeOK

LEMMA ArrivalTypeOK ==
    ASSUME TypeOK, DatagramArrives
    PROVE  TypeOK'
<1> DEFINE R == 1..arrived  S == 1..(arrived + 1)
           D == [kind : Kinds, rank : R]  E == [kind : Kinds, rank : S]
<1>1. /\ arrived' = arrived + 1 /\ arrived' \in 0..MaxDatagrams /\ arrived \in Nat
      /\ UNCHANGED <<mainPc, q_, stop_, workerPc, handled>>
  BY NodeAssumption DEF TypeOK, DatagramArrives, workerVars
<1>2. R \subseteq S /\ arrived + 1 \in S
  BY <1>1
<1>3. D \subseteq E
  BY <1>2
<1>4. /\ socket \in Seq(D) /\ Len(socket) <= SocketSize
      /\ q_ \in [Workers -> Seq(R)] /\ handled \in [Workers -> Seq(R)]
  BY DEF TypeOK
<1>5. socket' \in Seq(E) /\ Len(socket') <= SocketSize
  <2>1. \A kind \in Kinds : [kind |-> kind, rank |-> arrived + 1] \in E
    BY <1>2
  <2>2. \/ \E e \in E : Len(socket) < SocketSize /\ socket' = Append(socket, e)
        \/ UNCHANGED socket
    BY <2>1 DEF DatagramArrives
  <2>3. socket \in Seq(E)
    BY <1>3, <1>4, WiderSeq
  <2> HIDE DEF D, E
  <2>4. \A e \in E : Append(socket, e) \in Seq(E) /\ Len(Append(socket, e)) = Len(socket) + 1
    BY <2>3
  <2>5. Len(socket) \in Nat
    BY <2>3
  <2>6. CASE \E e \in E : Len(socket) < SocketSize /\ socket' = Append(socket, e)
    <3>1. PICK e \in E : Len(socket) < SocketSize /\ socket' = Append(socket, e)
      BY <2>6
    <3>2. socket' \in Seq(E) /\ Len(socket') = Len(socket) + 1
      BY <2>4, <3>1
    <3> QED  BY <2>5, <3>1, <3>2, NodeAssumption
  <2>7. CASE UNCHANGED socket
    BY <1>4, <2>3, <2>7
  <2> QED  BY <2>2, <2>6, <2>7
<1>6. q_ \in [Workers -> Seq(S)] /\ handled \in [Workers -> Seq(S)]
  <2> HIDE DEF R, S
  <2>1. \A s \in Seq(R) : s \in Seq(S)
    BY <1>2, WiderSeq
  <2>2. ASSUME NEW f \in [Workers -> Seq(R)] PROVE f \in [Workers -> Seq(S)]
    BY <2>1
  <2> QED  BY <1>4, <2>2
<1>7. Seq(E) = Seq([kind : Kinds, rank : 1..arrived'])
  BY <1>1
<1>8. accepted' \in [Workers -> SUBSET S]
  <2>1. accepted \in [Workers -> SUBSET R]
    BY DEF TypeOK
  <2> HIDE DEF R, S
  <2>2. accepted \in [Workers -> SUBSET S]
    BY <1>2, <2>1
  <2>3. \/ UNCHANGED accepted
        \/ \E kind \in Kinds : accepted' = [w \in Workers |->
              IF w = kind THEN accepted[w] \cup {arrived + 1} ELSE accepted[w]]
    BY DEF DatagramArrives
  <2>4. \A w \in Workers : accepted[w] \cup {arrived + 1} \in SUBSET S
    BY <1>2, <2>2
  <2> QED  BY <2>2, <2>3, <2>4
<1> QED  BY <1>1, <1>4, <1>5, <1>6, <1>7, <1>8 DEF TypeOK

\* Every variable of the node keeps its type, whatever arrives.
THEOREM TypeCorrect == Spec => []TypeOK
<1>1. ASSUME TypeOK, Next PROVE TypeOK'
  BY <1>1, WorkerTypeOK, MainTypeOK, ArrivalTypeOK DEF Next
<1>2. TypeOK /\ UNCHANGED vars => TypeOK'
  BY DEF TypeOK, vars, workerVars, arrivalVars
<1> QED  BY InitTypeOK, <1>1, <1>2, PTL DEF Spec
-----------------------------------------------------------------------------
(***************************************************************************)
(* The order of arrival: the ranks in the socket rise, and whatever a       *)
(* worker has been given came before all that is still in the socket.       *)
(***************************************************************************)
SocketRises == \A i, j \in DOMAIN socket : i < j => socket[i].rank < socket[j].rank

GivenFirst ==
    \A w \in Workers : \A n \in DOMAIN Items(w), i \in DOMAIN socket :
        Items(w)[n] < socket[i].rank

OrderInv == HandledInOrder /\ SocketRises /\ GivenFirst

LEMMA ElementOf ==
    ASSUME NEW S, NEW s \in Seq(S), NEW i \in DOMAIN s
    PROVE  s[i] \in S
  OBVIOUS

LEMMA TailElements ==
    ASSUME NEW S, NEW s \in Seq(S), s # <<>>
    PROVE  /\ DOMAIN s = 1..Len(s) /\ Len(s) \in Nat \ {0} /\ Head(s) = s[1]
           /\ DOMAIN Tail(s) = 1..(Len(s) - 1)
           /\ \A i \in 1..(Len(s) - 1) : Tail(s)[i] = s[i + 1]
  OBVIOUS

LEMMA AppendElements ==
    ASSUME NEW S, NEW s \in Seq(S), NEW e \in S
    PROVE  /\ DOMAIN s = 1..Len(s) /\ Len(s) \in Nat
           /\ DOMAIN Append(s, e) = 1..(Len(s) + 1)
           /\ \A i \in 1..Len(s) : Append(s, e)[i] = s[i]
           /\ Append(s, e)[Len(s) + 1] = e
  OBVIOUS

\* What the types say of the sequences the order is about.
LEMMA OrderTypes ==
    ASSUME TypeOK
    PROVE  /\ arrived \in Nat
           /\ \A i \in DOMAIN socket : socket[i].rank \in 1..arrived /\ socket[i].kind \in Kinds
           /\ \A w \in Workers : Items(w) \in Seq(1..arrived)
<1>1. arrived \in Nat
  BY NodeAssumption DEF TypeOK
<1> DEFINE R == 1..arrived  D == [kind : Kinds, rank : R]
<1>2. \A d \in D : d.rank \in R /\ d.kind \in Kinds
  OBVIOUS
<1>3. socket \in Seq(D) /\ q_ \in [Workers -> Seq(R)] /\ handled \in [Workers -> Seq(R)]
  BY DEF TypeOK
<1> HIDE DEF R, D
<1>4. \A i \in DOMAIN socket : socket[i] \in D
  BY <1>3
<1>5. \A w \in Workers : handled[w] \in Seq(R) /\ q_[w] \in Seq(R)
  BY <1>3
<1>6. \A w \in Workers : Items(w) \in Seq(R)
  BY <1>5 DEF Items
<1> QED  BY <1>1, <1>2, <1>4, <1>6 DEF R

\* Nothing but an arrival and what main receives touches the order: a worker moves
\* its items, from the queue to the handler.
LEMMA OrderStays ==
    ASSUME OrderInv, UNCHANGED <<socket, accepted>>, \A w \in Workers : Items(w)' = Items(w)
    PROVE  OrderInv'
  BY DEF OrderInv, HandledInOrder, SocketRises, GivenFirst, Waiting, Range

LEMMA TakeKeepsItems ==
    ASSUME TypeOK, NEW w \in Workers, WorkerTakes(w)
    PROVE  \A v \in Workers : Items(v)' = Items(v)
<1> DEFINE R == 1..arrived
<1>1. q_ \in [Workers -> Seq(R)] /\ handled \in [Workers -> Seq(R)]
  BY DEF TypeOK
<1> HIDE DEF R
<1>2. Append(handled[w], Head(q_[w])) \o Tail(q_[w]) = handled[w] \o q_[w]
  BY <1>1, MoveHead DEF WorkerTakes
<1>3. /\ handled'[w] = Append(handled[w], Head(q_[w])) /\ q_'[w] = Tail(q_[w])
      /\ \A v \in Workers \ {w} : handled'[v] = handled[v] /\ q_'[v] = q_[v]
  BY <1>1 DEF WorkerTakes
<1> QED  BY <1>2, <1>3 DEF Items

\* The first datagram leaves the socket: the rest still rises, is later than it and
\* than whatever had been given before.
LEMMA SocketShifts ==
    ASSUME TypeOK, OrderInv, socket # <<>>, socket' = Tail(socket)
    PROVE  /\ SocketRises'
           /\ \A i \in DOMAIN socket' : Head(socket).rank < socket'[i].rank
           /\ \A w \in Workers : \A n \in DOMAIN Items(w), i \in DOMAIN socket' :
                 Items(w)[n] < socket'[i].rank
           /\ \A w \in Workers :
                 Waiting(w) = Waiting(w)' \cup {n \in {Head(socket).rank} : Head(socket).kind = w}
<1> DEFINE D == [kind : Kinds, rank : 1..arrived]  k == Len(socket)
<1>1. /\ DOMAIN socket = 1..k /\ k \in Nat \ {0} /\ Head(socket) = socket[1]
      /\ DOMAIN socket' = 1..(k - 1)
      /\ \A i \in 1..(k - 1) : socket'[i] = socket[i + 1]
  <2>1. socket \in Seq(D)
    BY DEF TypeOK
  <2> HIDE DEF D
  <2> QED  BY <2>1, TailElements
<1> HIDE DEF k
<1>2. /\ \A i \in 1..(k - 1) : i + 1 \in 1..k /\ i + 1 > 1
      /\ \A i, j \in 1..(k - 1) : i < j => i + 1 < j + 1
      /\ 1 \in 1..k /\ \A i \in 1..k : i = 1 \/ (i - 1 \in 1..(k - 1) /\ (i - 1) + 1 = i)
  BY <1>1
<1>3. SocketRises'
  BY <1>1, <1>2 DEF OrderInv, SocketRises
<1>4. \A i \in DOMAIN socket' : Head(socket).rank < socket'[i].rank
  BY <1>1, <1>2 DEF OrderInv, SocketRises
<1>5. \A w \in Workers : \A n \in DOMAIN Items(w), i \in DOMAIN socket' :
        Items(w)[n] < socket'[i].rank
  BY <1>1, <1>2 DEF OrderInv, GivenFirst
<1>6. ASSUME NEW w \in Workers
      PROVE  Waiting(w) = Waiting(w)' \cup {n \in {Head(socket).rank} : Head(socket).kind = w}
  <2>1. \A n \in Waiting(w) : \/ n \in Waiting(w)'
                              \/ n = Head(socket).rank /\ Head(socket).kind = w
    <3> SUFFICES ASSUME NEW i \in 1..k, socket[i].kind = w
                 PROVE  \/ socket[i].rank \in Waiting(w)'
                        \/ socket[i].rank = Head(socket).rank /\ Head(socket).kind = w
      BY <1>1 DEF Waiting
    <3>1. CASE i = 1
      BY <1>1, <3>1
    <3>2. CASE i # 1
      <4>1. i - 1 \in DOMAIN socket' /\ socket'[i - 1] = socket[i]
        BY <1>1, <1>2, <3>2
      <4> QED  BY <4>1 DEF Waiting
    <3> QED  BY <3>1, <3>2
  <2>2. \A n \in Waiting(w)' : n \in Waiting(w)
    BY <1>1, <1>2 DEF Waiting
  <2>3. Head(socket).kind = w => Head(socket).rank \in Waiting(w)
    BY <1>1, <1>2 DEF Waiting
  <2> QED  BY <2>1, <2>2, <2>3
<1> QED  BY <1>3, <1>4, <1>5, <1>6

\* A datagram main drops, or answers itself.
LEMMA DropKeepsOrder ==
    ASSUME TypeOK, OrderInv, ReceivesBad \/ ReceivesMove
    PROVE  OrderInv'
<1>1. /\ socket # <<>> /\ socket' = Tail(socket) /\ Head(socket).kind \notin Workers
      /\ UNCHANGED <<accepted, q_, handled>>
  BY DEF ReceivesBad, ReceivesMove, Workers, arrivalVars, workerVars
<1>2. \A w \in Workers : Items(w)' = Items(w)
  BY <1>1 DEF Items
<1>3. \A w \in Workers : Waiting(w)' = Waiting(w)
  BY <1>1, SocketShifts
<1>4. SocketRises' /\ GivenFirst'
  BY <1>1, <1>2, SocketShifts DEF GivenFirst
<1> QED  BY <1>1, <1>2, <1>3, <1>4 DEF OrderInv, HandledInOrder, Range

\* An item goes from the front of the socket to the end of its worker's queue.
LEMMA PushKeepsOrder ==
    ASSUME TypeOK, OrderInv, NEW w \in Workers, ReceivesSlow(w)
    PROVE  OrderInv'
<1> DEFINE e == Head(socket).rank  s == Items(w)  R == 1..arrived
<1>1. /\ socket # <<>> /\ socket' = Tail(socket) /\ Head(socket).kind = w
      /\ UNCHANGED <<accepted, handled>>
      /\ q_' = [q_ EXCEPT ![w] = Append(@, e)]
  BY DEF ReceivesSlow, arrivalVars
<1>2. /\ SocketRises'
      /\ \A i \in DOMAIN socket' : e < socket'[i].rank
      /\ \A v \in Workers : \A n \in DOMAIN Items(v), i \in DOMAIN socket' :
            Items(v)[n] < socket'[i].rank
      /\ \A v \in Workers : Waiting(v) = Waiting(v)' \cup {n \in {e} : v = w}
  BY <1>1, SocketShifts
<1>3. e \in R /\ \A n \in DOMAIN s : s[n] < e
  <2>1. Head(socket) = socket[1] /\ 1 \in DOMAIN socket
    BY <1>1 DEF TypeOK
  <2> QED  BY <2>1, OrderTypes DEF OrderInv, GivenFirst
<1>4. Items(w)' = Append(s, e) /\ \A v \in Workers \ {w} : Items(v)' = Items(v)
  <2>1. q_ \in [Workers -> Seq(R)] /\ handled \in [Workers -> Seq(R)]
    BY DEF TypeOK
  <2> HIDE DEF e, R
  <2>2. handled[w] \o Append(q_[w], e) = Append(handled[w] \o q_[w], e)
    BY <1>3, <2>1, AppendLast
  <2> QED  BY <1>1, <2>1, <2>2 DEF Items
<1>5. s \in Seq(R)
  BY OrderTypes
<1> DEFINE k == Len(s)
<1>6. /\ DOMAIN s = 1..k /\ k \in Nat /\ DOMAIN Append(s, e) = 1..(k + 1)
      /\ \A i \in 1..k : Append(s, e)[i] = s[i]
      /\ Append(s, e)[k + 1] = e
  BY <1>3, <1>5, AppendElements
<1>7. \A i \in 1..(k + 1) : i = k + 1 \/ (i \in 1..k /\ i < k + 1)
  BY <1>6
<1>8. \A i, j \in 1..(k + 1) : i < j => i \in 1..k
  BY <1>6
<1>9. Range(Append(s, e)) = Range(s) \cup {e}
  <2>1. k + 1 \in 1..(k + 1) /\ \A i \in 1..k : i \in 1..(k + 1)
    BY <1>6
  <2> HIDE DEF e, s, k
  <2> QED  BY <1>6, <1>7, <2>1 DEF Range
<1>10. \A i, j \in DOMAIN s : i < j => s[i] < s[j]
  BY DEF OrderInv, HandledInOrder
<1> HIDE DEF e, s, k
<1>11. \A i, j \in DOMAIN Append(s, e) : i < j => Append(s, e)[i] < Append(s, e)[j]
  BY <1>3, <1>6, <1>7, <1>8, <1>10
<1>12. GivenFirst'
  <2>1. \A n \in DOMAIN Append(s, e), i \in DOMAIN socket' : Append(s, e)[n] < socket'[i].rank
    BY <1>2, <1>6, <1>7 DEF s
  <2> QED  BY <1>2, <1>4, <2>1 DEF GivenFirst
<1>13. ASSUME NEW v \in Workers
       PROVE  /\ \A i, j \in DOMAIN Items(v)' : i < j => Items(v)'[i] < Items(v)'[j]
              /\ accepted'[v] = Range(Items(v)') \cup Waiting(v)'
  <2>1. /\ accepted'[v] = Range(Items(v)) \cup Waiting(v)
        /\ \A i, j \in DOMAIN Items(v) : i < j => Items(v)[i] < Items(v)[j]
    BY <1>1 DEF OrderInv, HandledInOrder
  <2>2. CASE v = w
    <3>1. Waiting(w) = Waiting(w)' \cup {e}
      BY <1>2
    <3>2. accepted'[w] = Range(s) \cup Waiting(w)
      BY <2>1, <2>2 DEF s
    <3> QED  BY <1>4, <1>9, <1>11, <2>2, <3>1, <3>2
  <2>3. CASE v # w
    <3>1. Waiting(v) = Waiting(v)' /\ Items(v)' = Items(v)
      BY <1>2, <1>4, <2>3
    <3> QED  BY <2>1, <3>1
  <2> QED  BY <2>2, <2>3
<1> QED  BY <1>2, <1>12, <1>13 DEF OrderInv, HandledInOrder

\* A datagram arrives with the highest rank so far, at the end of the socket.
LEMMA ArrivalKeepsOrder ==
    ASSUME TypeOK, OrderInv, DatagramArrives
    PROVE  OrderInv'
<1>1. arrived \in Nat /\ \A w \in Workers : Items(w)' = Items(w)
  BY OrderTypes DEF DatagramArrives, workerVars, Items
<1>2. CASE UNCHANGED <<socket, accepted>>
  BY <1>1, <1>2, OrderStays
<1>3. CASE ~UNCHANGED <<socket, accepted>>
  <2>1. PICK kind \in Kinds :
          /\ socket' = Append(socket, [kind |-> kind, rank |-> arrived + 1])
          /\ accepted' = [w \in Workers |->
                IF w = kind THEN accepted[w] \cup {arrived + 1} ELSE accepted[w]]
    BY <1>3 DEF DatagramArrives
  <2> DEFINE k == Len(socket)  new == [kind |-> kind, rank |-> arrived + 1]
             E == [kind : Kinds, rank : 1..(arrived + 1)]
  <2>2. socket \in Seq(E) /\ new \in E
    <3>1. [kind : Kinds, rank : 1..arrived] \subseteq E /\ new \in E
      BY <1>1
    <3>2. socket \in Seq([kind : Kinds, rank : 1..arrived])
      BY DEF TypeOK
    <3> QED  BY <3>1, <3>2, WiderSeq
  <2>3. new.rank = arrived + 1 /\ new.kind = kind
    OBVIOUS
  <2> HIDE DEF E, new
  <2>4. /\ DOMAIN socket = 1..k /\ k \in Nat /\ DOMAIN socket' = 1..(k + 1)
        /\ \A i \in 1..k : socket'[i] = socket[i]
        /\ socket'[k + 1] = new
    BY <2>1, <2>2, AppendElements DEF new
  <2> HIDE DEF k
  <2>5. /\ \A i \in 1..(k + 1) : i = k + 1 \/ i \in 1..k
        /\ \A i, j \in 1..(k + 1) : i < j => i \in 1..k
        /\ k + 1 \in 1..(k + 1) /\ \A i \in 1..k : i \in 1..(k + 1)
    BY <2>4
  <2>6. \A i \in 1..k : socket[i].rank < arrived + 1
    BY <1>1, <2>4, OrderTypes
  <2>7. SocketRises'
    BY <2>3, <2>4, <2>5, <2>6 DEF OrderInv, SocketRises
  <2>8. GivenFirst'
    <3>1. \A w \in Workers : \A n \in DOMAIN Items(w) : Items(w)[n] < arrived + 1
      <4>1. ASSUME NEW w \in Workers, NEW n \in DOMAIN Items(w) PROVE Items(w)[n] \in 1..arrived
        <5>1. Items(w) \in Seq(1..arrived)
          BY OrderTypes
        <5> QED  BY <5>1, ElementOf, Zenon
      <4> QED  BY <1>1, <4>1
    <3> QED  BY <1>1, <2>3, <2>4, <2>5, <3>1 DEF OrderInv, GivenFirst
  <2>9. ASSUME NEW w \in Workers
        PROVE  accepted'[w] = Range(Items(w)) \cup Waiting(w)'
    <3>1. Waiting(w)' = Waiting(w) \cup {n \in {arrived + 1} : w = kind}
      <4>1. \A n \in Waiting(w)' : n \in Waiting(w) \/ (n = arrived + 1 /\ w = kind)
        BY <2>3, <2>4, <2>5 DEF Waiting
      <4>2. \A n \in Waiting(w) : n \in Waiting(w)'
        BY <2>4, <2>5 DEF Waiting
      <4>3. w = kind => arrived + 1 \in Waiting(w)'
        BY <2>3, <2>4, <2>5 DEF Waiting
      <4> QED  BY <4>1, <4>2, <4>3
    <3>2. accepted[w] = Range(Items(w)) \cup Waiting(w)
      BY DEF OrderInv, HandledInOrder
    <3>3. accepted'[w] = IF w = kind THEN accepted[w] \cup {arrived + 1} ELSE accepted[w]
      BY <2>1
    <3> QED  BY <3>1, <3>2, <3>3
  <2> QED  BY <1>1, <2>7, <2>8, <2>9 DEF OrderInv, HandledInOrder, Range
<1> QED  BY <1>2, <1>3

\* Whatever arrives and whatever the socket drops, a worker's handler is called with
\* its datagrams in the order of their arrival, none twice, and no datagram that had
\* room in the socket is lost on the way (main's loop, Worker::push, Worker's thread).
THEOREM ItemsInOrder == Spec => []HandledInOrder
<1>1. Init => OrderInv
  <2> SUFFICES ASSUME Init PROVE OrderInv
    OBVIOUS
  <2>1. DOMAIN <<>> = {} /\ <<>> \o <<>> = <<>>
    OBVIOUS
  <2>2. \A w \in Workers : Items(w) = <<>> /\ accepted[w] = {} /\ socket = <<>>
    BY <2>1 DEF Init, Items
  <2>3. SocketRises /\ GivenFirst
    BY <2>1, <2>2 DEF SocketRises, GivenFirst, Init
  <2> QED  BY <2>1, <2>2, <2>3 DEF OrderInv, HandledInOrder, Waiting, Range
<1>2. ASSUME TypeOK, OrderInv, Next PROVE OrderInv'
  <2>1. CASE DatagramArrives
    BY <1>2, <2>1, ArrivalKeepsOrder
  <2>2. ASSUME NEW w \in Workers, WorkerTakes(w) PROVE OrderInv'
    <3>1. UNCHANGED <<socket, accepted>>
      BY <2>2 DEF WorkerTakes, WorkerUnchanged, arrivalVars
    <3> QED  BY <1>2, <2>2, <3>1, TakeKeepsItems, OrderStays
  <2>3. ASSUME NEW w \in Workers, ReceivesSlow(w) PROVE OrderInv'
    BY <1>2, <2>3, PushKeepsOrder
  <2>4. CASE ReceivesBad \/ ReceivesMove
    BY <1>2, <2>4, DropKeepsOrder
  <2>5. CASE /\ ~DatagramArrives /\ ~ReceivesBad /\ ~ReceivesMove
             /\ \A w \in Workers : ~WorkerTakes(w) /\ ~ReceivesSlow(w)
    <3>1. UNCHANGED <<socket, accepted, q_, handled>>
      BY <1>2, <2>5 DEF Next, Main, BindSucceeds, BindFails, MoveReturns, Notifies, Stops,
             Joins, Worker, WorkerWaits, WorkerQuits, HandlerReturns, SpuriousWakeup,
             WorkerUnchanged, workerVars, arrivalVars
    <3>2. \A w \in Workers : Items(w)' = Items(w)
      BY <3>1 DEF Items
    <3> QED  BY <1>2, <3>1, <3>2, OrderStays
  <2> QED  BY <2>1, <2>2, <2>3, <2>4, <2>5
<1>3. OrderInv /\ UNCHANGED vars => OrderInv'
  <2> SUFFICES ASSUME OrderInv, UNCHANGED vars PROVE OrderInv'
    OBVIOUS
  <2>1. UNCHANGED <<socket, accepted, q_, handled>>
    BY DEF vars, arrivalVars, workerVars
  <2> QED  BY <2>1, OrderStays DEF Items
<1>4. OrderInv => HandledInOrder
  BY DEF OrderInv
<1> QED  BY TypeCorrect, <1>1, <1>2, <1>3, <1>4, PTL DEF Spec

\* A worker that waits while its queue holds an item or stop_ is set is about to be
\* notified: the push and the notification are two steps, but no item is slept over,
\* and main never joins a worker that waits.
THEOREM NoSleep == Spec => []NoSleepOverWork
<1>1. Init => NoSleepOverWork
  BY DEF Init, NoSleepOverWork
<1>2. ASSUME TypeOK, NoSleepOverWork, Next PROVE NoSleepOverWork'
  <2> USE DEF NoSleepOverWork
  <2>1. workerPc \in [Workers -> WorkerPcs] /\ DOMAIN q_ = Workers /\ DOMAIN stop_ = Workers
    BY <1>2 DEF TypeOK
  <2>2. ASSUME NEW w \in Workers, Worker(w) \/ SpuriousWakeup(w) PROVE NoSleepOverWork'
    BY <1>2, <2>1, <2>2 DEF Worker, WorkerTakes, WorkerWaits, WorkerQuits, HandlerReturns,
                        SpuriousWakeup, WorkerUnchanged
  <2>3. ASSUME NEW w \in Workers, ReceivesSlow(w) PROVE NoSleepOverWork'
    BY <1>2, <2>1, <2>3 DEF ReceivesSlow, MainGoes, notify, Workers
  <2>4. ASSUME NEW w \in Workers, Notifies(w) PROVE NoSleepOverWork'
    BY <1>2, <2>1, <2>4 DEF Notifies, MainGoes, notify, Workers
  <2>5. ASSUME NEW w \in Workers, Stops(w) \/ Joins(w) PROVE NoSleepOverWork'
    BY <1>2, <2>1, <2>5 DEF Stops, Joins, MainGoes, notify, unwind, join, Workers, workerVars
  <2>6. CASE BindSucceeds \/ BindFails \/ ReceivesBad \/ ReceivesMove \/ MoveReturns
    BY <1>2, <2>6 DEF BindSucceeds, BindFails, ReceivesBad, ReceivesMove, MoveReturns,
                      MainGoes, notify, Workers, workerVars
  <2>7. CASE DatagramArrives
    BY <1>2, <2>7 DEF DatagramArrives, workerVars
  <2> QED  BY <1>2, <2>2, <2>3, <2>4, <2>5, <2>6, <2>7 DEF Next, Main
<1>3. NoSleepOverWork /\ UNCHANGED vars => NoSleepOverWork'
  BY DEF NoSleepOverWork, vars, workerVars
<1> QED  BY TypeCorrect, <1>1, <1>2, <1>3, PTL DEF Spec
=============================================================================
