---------------------- MODULE RealTimePublisherProofs -----------------------
(***************************************************************************)
(* With producers that use trylock() or lock(), for any number of them and  *)
(* of messages: mutex_ protects msg_, and what is sent is never torn.       *)
(***************************************************************************)
EXTENDS RealTimePublisher, FiniteSetTheorems, TLAPS

\* Halves that disagree exist only while a producer is between its two writes,
\* or the loop between its two reads.
Whole ==
    /\ msg_.lo # msg_.hi => \E p \in Producers : prodPc[p] = "writeHi"
    /\ IF loopPc = "copyHi" THEN outgoing.lo = msg_.lo ELSE outgoing.lo = outgoing.hi

IInv == TypeOK /\ HoldersOwnTheLock /\ Whole /\ SentUntorn

-----------------------------------------------------------------------------
LEMMA TypeInductive == TypeOK /\ [Next]_vars => TypeOK'
<1> SUFFICES ASSUME TypeOK, [Next]_vars PROVE TypeOK'
  OBVIOUS
<1> USE PublisherAssumption DEF TypeOK, Message
<1>1. CASE UNCHANGED vars
  BY <1>1 DEF vars
<1>2. ASSUME NEW p \in Producers, Producer(p) PROVE TypeOK'
  <2>0. \E from, to \in ProdPcs : ProdGoes(p, from, to)
    BY <1>2 DEF Producer, TryLock, TryLockSucceeds, TryLockFails, Lock, WriteLo,
                WriteHi, SetTurn, UnlockPublished, UnlockOnly, ProdPcs
  <2>1. prodPc' \in [Producers -> ProdPcs] /\ UNCHANGED <<keep_running_, is_running_,
            loopPc, outgoing, owner, sent>>
    BY <2>0 DEF ProdGoes
  <2>2. turn_' \in {turn_, "NON_REALTIME"} /\ holder' \in {holder, p, Nobody}
    BY <1>2 DEF Producer, TryLock, TryLockSucceeds, TryLockFails, Lock, WriteLo,
                WriteHi, SetTurn, UnlockPublished, UnlockOnly
  <2>3. \/ UNCHANGED <<msg_, written, submitted>>
        \/ WriteLo(p) \/ WriteHi(p) \/ SetTurn(p)
    BY <1>2 DEF Producer, TryLock, TryLockSucceeds, TryLockFails, Lock,
                UnlockPublished, UnlockOnly
  <2>4. CASE UNCHANGED <<msg_, written, submitted>>
    BY <2>1, <2>2, <2>4
  <2>5. CASE WriteLo(p)
    <3>1. written' \in Nat /\ UNCHANGED submitted
      BY <2>5 DEF WriteLo
    <3>2. msg_' = [msg_ EXCEPT !.lo = written + 1] /\ written + 1 \in Nat
      BY <2>5 DEF WriteLo
    <3>3. msg_' \in Message
      BY <3>2
    <3> QED  BY <2>1, <2>2, <3>1, <3>3
  <2>6. CASE WriteHi(p)
    <3>1. UNCHANGED <<written, submitted>>
      BY <2>6 DEF WriteHi
    <3>2. msg_' \in Message
      BY <2>6 DEF WriteHi
    <3> QED  BY <2>1, <2>2, <3>1, <3>2
  <2>7. CASE SetTurn(p)
    <3>1. UNCHANGED <<written, msg_>> /\ submitted' = submitted \cup {msg_.lo}
      BY <2>7 DEF SetTurn
    <3>2. msg_.lo \in Nat
      OBVIOUS
    <3> QED  BY <2>1, <2>2, <3>1, <3>2
  <2> QED  BY <2>3, <2>4, <2>5, <2>6, <2>7
<1>3. ASSUME Loop PROVE TypeOK'
  <2>1. loopPc' \in LoopPcs /\ UNCHANGED <<keep_running_, prodPc, owner, written, submitted>>
    BY <1>3 DEF Loop, LoopStarts, LoopSetsTurn, LoopWhile, LoopLocks, LoopPollsAgain,
                LoopProceeds, LoopPreCommunication, LoopCopiesLo, LoopCopiesHi,
                LoopResetsTurn, LoopUnlocks, LoopChecksKeep, LoopWrites, LoopEnds,
                LoopGoes, LoopPcs
  <2>2. /\ \/ turn_' = turn_ /\ (loopPc' \in {"start", "setTurn"} <=> loopPc \in {"start", "setTurn"})
           \/ turn_' = "REALTIME"
        /\ is_running_' \in BOOLEAN /\ holder' \in {holder, "loop", Nobody}
    BY <1>3 DEF Loop, LoopStarts, LoopSetsTurn, LoopWhile, LoopLocks, LoopPollsAgain,
                LoopProceeds, LoopPreCommunication, LoopCopiesLo, LoopCopiesHi,
                LoopResetsTurn, LoopUnlocks, LoopChecksKeep, LoopWrites, LoopEnds, LoopGoes
  <2>3. msg_' \in Message
    BY <1>3 DEF Loop, LoopStarts, LoopSetsTurn, LoopWhile, LoopLocks, LoopPollsAgain,
                LoopProceeds, LoopPreCommunication, LoopCopiesLo, LoopCopiesHi,
                LoopResetsTurn, LoopUnlocks, LoopChecksKeep, LoopWrites, LoopEnds
  <2>4. outgoing' \in Message
    BY <1>3 DEF Loop, LoopStarts, LoopSetsTurn, LoopWhile, LoopLocks, LoopPollsAgain,
                LoopProceeds, LoopPreCommunication, LoopCopiesLo, LoopCopiesHi,
                LoopResetsTurn, LoopUnlocks, LoopChecksKeep, LoopWrites, LoopEnds
  <2>5. sent' \in Seq(Message)
    <3>1. sent' \in {sent, Append(sent, outgoing)}
      BY <1>3 DEF Loop, LoopStarts, LoopSetsTurn, LoopWhile, LoopLocks, LoopPollsAgain,
                LoopProceeds, LoopPreCommunication, LoopCopiesLo, LoopCopiesHi,
                LoopResetsTurn, LoopUnlocks, LoopChecksKeep, LoopWrites, LoopEnds
    <3>2. sent \in Seq(Message) /\ outgoing \in Message
      OBVIOUS
    <3> HIDE DEF Message
    <3> QED  BY <3>1, <3>2
  <2> QED  BY <2>1, <2>2, <2>3, <2>4, <2>5
<1>4. ASSUME Owner PROVE TypeOK'
  BY <1>4 DEF Owner, Stop, DestroyDerived, DestructorStops, DestructorSeesEnd,
              DestructorJoins, OwnerUnchanged, OwnerPcs
<1> QED  BY <1>1, <1>2, <1>3, <1>4 DEF Next

LEMMA InitInv == Init => IInv
<1> SUFFICES ASSUME Init PROVE IInv
  OBVIOUS
<1> USE PublisherAssumption DEF Init
<1>1. msg_ \in Message /\ outgoing \in Message
  <2>1. msg_ = [lo |-> 0, hi |-> 0, crc |-> NoCrc] /\ outgoing = msg_
    OBVIOUS
  <2> QED  BY <2>1 DEF Message
<1>2. sent \in Seq(Message)
  OBVIOUS
<1>3. TypeOK
  BY <1>1, <1>2 DEF TypeOK, LoopPcs, ProdPcs, OwnerPcs
<1>4. HoldersOwnTheLock
  BY DEF HoldersOwnTheLock, LoopHolds, ProdHolds
<1>5. Whole /\ SentUntorn
  BY DEF Whole, SentUntorn
<1> QED  BY <1>3, <1>4, <1>5 DEF IInv

-----------------------------------------------------------------------------
\* Whoever changes holder is the holder, or finds mutex_ free.
LEMMA LockInductive ==
    ASSUME TypeOK, HoldersOwnTheLock, [Next]_vars
    PROVE  HoldersOwnTheLock'
<1> USE PublisherAssumption DEF HoldersOwnTheLock, LoopHolds, ProdHolds
<1>1. CASE UNCHANGED vars
  BY <1>1 DEF vars
<1>2. ASSUME NEW p \in Producers, Producer(p) PROVE HoldersOwnTheLock'
  <2> DEFINE After == prodPc'[p] \in ProdHolds
  <2>1. /\ \A q \in Producers \ {p} : prodPc'[q] = prodPc[q]
        /\ UNCHANGED loopPc
    BY <1>2 DEF TypeOK, Producer, TryLock, TryLockSucceeds, TryLockFails, Lock,
                WriteLo, WriteHi, SetTurn, UnlockPublished, UnlockOnly, ProdGoes
  <2>2. \/ holder = Nobody /\ holder' = p
        \/ holder = p /\ holder' = p
        \/ holder = p /\ holder' = Nobody /\ ~After
    BY <1>2 DEF TypeOK, Producer, TryLock, TryLockSucceeds, TryLockFails, Lock,
                WriteLo, WriteHi, SetTurn, UnlockPublished, UnlockOnly, ProdGoes, Begins
  <2> QED  BY <2>1, <2>2
<1>3. ASSUME Loop PROVE HoldersOwnTheLock'
  <2>1. UNCHANGED prodPc
    BY <1>3 DEF Loop, LoopStarts, LoopSetsTurn, LoopWhile, LoopLocks, LoopPollsAgain,
                LoopProceeds, LoopPreCommunication, LoopCopiesLo, LoopCopiesHi,
                LoopResetsTurn, LoopUnlocks, LoopChecksKeep, LoopWrites, LoopEnds, LoopGoes
  <2>2. \/ holder = Nobody /\ holder' = "loop"
        \/ holder = "loop" /\ holder' = "loop"
        \/ holder = "loop" /\ holder' = Nobody /\ loopPc' \notin LoopHolds
        \/ holder' = holder /\ loopPc' \notin LoopHolds
    BY <1>3 DEF Loop, LoopStarts, LoopSetsTurn, LoopWhile, LoopLocks, LoopPollsAgain,
                LoopProceeds, LoopPreCommunication, LoopCopiesLo, LoopCopiesHi,
                LoopResetsTurn, LoopUnlocks, LoopChecksKeep, LoopWrites, LoopEnds, LoopGoes
  <2> QED  BY <2>1, <2>2
<1>4. ASSUME Owner PROVE HoldersOwnTheLock'
  BY <1>4 DEF Owner, Stop, DestroyDerived, DestructorStops, DestructorSeesEnd,
              DestructorJoins, OwnerUnchanged
<1> QED  BY <1>1, <1>2, <1>3, <1>4 DEF Next

\* A producer writes only while the loop is not copying, and the loop copies only
\* while no producer is between its writes.
LEMMA WholeInductive ==
    ASSUME TypeOK, HoldersOwnTheLock, Whole, [Next]_vars
    PROVE  Whole'
<1> USE PublisherAssumption DEF Whole
<1>1. CASE UNCHANGED vars
  BY <1>1 DEF vars
<1>2. ASSUME NEW p \in Producers, Producer(p) PROVE Whole'
  <2>0. UNCHANGED <<loopPc, outgoing>> /\ prodPc \in [Producers -> ProdPcs] /\ msg_ \in Message
    BY <1>2 DEF TypeOK, Producer, TryLock, TryLockSucceeds, TryLockFails, Lock,
                WriteLo, WriteHi, SetTurn, UnlockPublished, UnlockOnly, ProdGoes
  <2>1. CASE WriteLo(p)
    <3>1. prodPc'[p] = "writeHi"
      BY <2>0, <2>1 DEF WriteLo, ProdGoes
    <3>2. loopPc # "copyHi"
      BY <2>1 DEF HoldersOwnTheLock, LoopHolds, ProdHolds, WriteLo, ProdGoes
    <3> QED  BY <2>0, <3>1, <3>2
  <2>2. CASE WriteHi(p)
    <3>1. msg_'.lo = msg_'.hi /\ msg_'.lo = msg_.lo
      BY <2>0, <2>2 DEF WriteHi, Message
    <3> QED  BY <2>0, <3>1
  <2>3. CASE ~WriteLo(p) /\ ~WriteHi(p)
    <3>1. UNCHANGED msg_
      BY <1>2, <2>3 DEF Producer, TryLock, TryLockSucceeds, TryLockFails, Lock,
                        SetTurn, UnlockPublished, UnlockOnly
    <3>2. ASSUME NEW q \in Producers, prodPc[q] = "writeHi" PROVE prodPc'[q] = "writeHi"
      BY <1>2, <2>0, <2>3, <3>2
         DEF Producer, TryLock, TryLockSucceeds, TryLockFails, Lock, SetTurn,
             UnlockPublished, UnlockOnly, ProdGoes
    <3> QED  BY <2>0, <3>1, <3>2
  <2> QED  BY <2>1, <2>2, <2>3
<1>3. ASSUME Loop PROVE Whole'
  <2>0. UNCHANGED prodPc /\ msg_ \in Message /\ outgoing \in Message
    BY <1>3 DEF TypeOK, Loop, LoopStarts, LoopSetsTurn, LoopWhile, LoopLocks, LoopPollsAgain,
                LoopProceeds, LoopPreCommunication, LoopCopiesLo, LoopCopiesHi,
                LoopResetsTurn, LoopUnlocks, LoopChecksKeep, LoopWrites, LoopEnds, LoopGoes
  <2>1. CASE LoopCopiesLo
    BY <2>0, <2>1 DEF LoopCopiesLo, LoopGoes, Message
  <2>2. CASE LoopCopiesHi
    <3>1. \A p \in Producers : prodPc[p] # "writeHi"
      BY <2>2 DEF HoldersOwnTheLock, LoopHolds, ProdHolds, LoopCopiesHi, LoopGoes
    <3> QED  BY <2>0, <2>2, <3>1 DEF LoopCopiesHi, LoopGoes, Message
  <2>3. CASE LoopPreCommunication
    BY <2>0, <2>3 DEF LoopPreCommunication, LoopGoes, Message
  <2>4. CASE ~(LoopCopiesLo \/ LoopCopiesHi \/ LoopPreCommunication)
    BY <1>3, <2>0, <2>4
       DEF Loop, LoopStarts, LoopSetsTurn, LoopWhile, LoopLocks, LoopPollsAgain, LoopProceeds,
           LoopResetsTurn, LoopUnlocks, LoopChecksKeep, LoopWrites, LoopEnds, LoopGoes
  <2> QED  BY <2>1, <2>2, <2>3, <2>4
<1>4. ASSUME Owner PROVE Whole'
  BY <1>4 DEF Owner, Stop, DestroyDerived, DestructorStops, DestructorSeesEnd,
              DestructorJoins, OwnerUnchanged
<1> QED  BY <1>1, <1>2, <1>3, <1>4 DEF Next

\* Only LoopWrites extends sent, and what it appends is whole.
LEMMA SentInductive ==
    ASSUME TypeOK, Whole, SentUntorn, [Next]_vars
    PROVE  SentUntorn'
<1> USE DEF SentUntorn
<1>1. CASE LoopWrites
  <2>1. outgoing.lo = outgoing.hi /\ sent \in Seq(Message) /\ outgoing \in Message
    BY <1>1 DEF LoopWrites, LoopGoes, Whole, TypeOK
  <2>2. sent' = Append(sent, outgoing)
    BY <1>1 DEF LoopWrites
  <2> QED  BY <2>1, <2>2
<1>2. CASE ~LoopWrites
  <2>1. UNCHANGED sent
    BY <1>2 DEF Next, vars, Loop, LoopStarts, LoopSetsTurn, LoopWhile, LoopLocks,
                LoopPollsAgain, LoopProceeds, LoopPreCommunication, LoopCopiesLo,
                LoopCopiesHi, LoopResetsTurn, LoopUnlocks, LoopChecksKeep, LoopEnds,
                Owner, Stop, DestroyDerived, DestructorStops, DestructorSeesEnd,
                DestructorJoins, OwnerUnchanged, Producer, TryLock, TryLockSucceeds,
                TryLockFails, Lock, WriteLo, WriteHi, SetTurn, UnlockPublished,
                UnlockOnly, ProdGoes
  <2> QED  BY <2>1
<1> QED  BY <1>1, <1>2

-----------------------------------------------------------------------------
\* RealTimePublisher keeps its variables in their types, whatever its producers do.
THEOREM TypeCorrect == Spec => []TypeOK
<1>1. Init => TypeOK
  BY InitInv DEF IInv
<1> QED  BY <1>1, TypeInductive, PTL DEF Spec

\* Mutual exclusion: whoever is between lock and unlock is the holder of mutex_.
THEOREM LockProtects == Spec => []HoldersOwnTheLock
<1>1. IInv /\ [Next]_vars => IInv'
  BY TypeInductive, LockInductive, WholeInductive, SentInductive DEF IInv
<1>2. IInv => HoldersOwnTheLock
  BY DEF IInv
<1> QED  BY InitInv, <1>1, <1>2, PTL DEF Spec

\* Producers never get two messages mixed in what is sent.
THEOREM SentIsWhole == Spec => []SentUntorn
<1>1. IInv /\ [Next]_vars => IInv'
  BY TypeInductive, LockInductive, WholeInductive, SentInductive DEF IInv
<1>2. IInv => SentUntorn
  BY DEF IInv
<1> QED  BY InitInv, <1>1, <1>2, PTL DEF Spec

-----------------------------------------------------------------------------
(***************************************************************************)
(* The checksum.  While the object is alive every copy taken has one.  When  *)
(* it is being destroyed nobody gives the turn any more, so that the loop    *)
(* takes one message without a checksum at most and then waits for its end.  *)
(***************************************************************************)
HasCrc(m) == m.crc = <<m.lo, m.hi>>

AfterCopy == {"resetTurn", "unlock", "checkKeep", "write"}

AliveInv ==
    owner = "alive" =>
        /\ \A i \in DOMAIN sent : HasCrc(sent[i])
        /\ loopPc \in {"copyLo", "copyHi"} => HasCrc(msg_)
        /\ loopPc \in AfterCopy => HasCrc(outgoing)

DyingInv ==
    owner # "alive" =>
        /\ \A p \in Producers : prodPc[p] = "idle"
        /\ loopPc \in {"unlock", "checkKeep", "write"} => HasCrc(outgoing) \/ turn_ # "NON_REALTIME"

\* Once a message without a checksum has been sent nothing more will be.
LastInv ==
    /\ \A i \in DOMAIN sent : i < Len(sent) => HasCrc(sent[i])
    /\ sent # <<>> /\ ~HasCrc(sent[Len(sent)]) =>
          /\ turn_ # "NON_REALTIME" /\ loopPc # "write"
          /\ loopPc \in {"pre", "copyLo", "copyHi", "resetTurn", "unlock", "checkKeep"}
                => ~keep_running_

CrcInv == IInv /\ AliveInv /\ DyingInv /\ LastInv

LEMMA InvStep == IInv /\ [Next]_vars => IInv'
  BY TypeInductive, LockInductive, WholeInductive, SentInductive DEF IInv

LEMMA CrcInit == Init => CrcInv
<1> SUFFICES ASSUME Init PROVE CrcInv
  OBVIOUS
<1>1. sent = <<>> /\ owner = "alive" /\ loopPc = "start"
  BY DEF Init
<1> QED  BY <1>1, InitInv DEF CrcInv, AliveInv, DyingInv, LastInv, AfterCopy

\* Producers touch msg_ with the lock and while the object is alive.
LEMMA ProducerCrc ==
    ASSUME CrcInv, NEW p \in Producers, Producer(p)
    PROVE  AliveInv' /\ DyingInv' /\ LastInv'
<1>1. UNCHANGED <<keep_running_, loopPc, outgoing, owner, sent>>
  BY DEF Producer, TryLock, TryLockSucceeds, TryLockFails, Lock, WriteLo, WriteHi, SetTurn,
         UnlockPublished, UnlockOnly, ProdGoes
<1>2. owner = "alive"
  BY DEF CrcInv, DyingInv, Producer, TryLock, TryLockSucceeds, TryLockFails, Lock, Begins, WriteLo,
         WriteHi, SetTurn, UnlockPublished, UnlockOnly, ProdGoes
<1>3. UNCHANGED msg_ \/ prodPc[p] \in {"writeLo", "writeHi"}
  BY DEF Producer, TryLock, TryLockSucceeds, TryLockFails, Lock, WriteLo, WriteHi, SetTurn,
         UnlockPublished, UnlockOnly, ProdGoes
<1>4. loopPc \in {"copyLo", "copyHi"} => UNCHANGED msg_
  BY <1>3, PublisherAssumption
     DEF CrcInv, IInv, HoldersOwnTheLock, LoopHolds, ProdHolds
<1>5. AliveInv'
  BY <1>1, <1>2, <1>4 DEF CrcInv, AliveInv, HasCrc
<1>6. DyingInv'
  BY <1>1, <1>2 DEF DyingInv
<1>7. \A i \in DOMAIN sent : HasCrc(sent[i])
  BY <1>2 DEF CrcInv, AliveInv
<1>8. sent # <<>> => Len(sent) \in DOMAIN sent
  BY DEF CrcInv, IInv, TypeOK
<1>9. LastInv'
  BY <1>1, <1>7, <1>8 DEF LastInv, HasCrc
<1> QED  BY <1>5, <1>6, <1>9

\* A message is sent: it has its checksum, or the turn has been taken back for good.
LEMMA WritesCrc ==
    ASSUME CrcInv, LoopWrites
    PROVE  AliveInv' /\ DyingInv' /\ LastInv'
<1>1. /\ loopPc = "write" /\ loopPc' = "while" /\ sent' = Append(sent, outgoing)
      /\ UNCHANGED <<turn_, keep_running_, owner, prodPc, msg_, outgoing>>
  BY DEF LoopWrites, LoopGoes
<1>2. sent \in Seq(Message) /\ outgoing \in Message
  BY DEF CrcInv, IInv, TypeOK
<1>3. /\ Len(sent) \in Nat /\ DOMAIN sent = 1..Len(sent)
      /\ DOMAIN sent' = 1..(Len(sent) + 1) /\ Len(sent') = Len(sent) + 1
      /\ sent'[Len(sent) + 1] = outgoing /\ \A i \in 1..Len(sent) : sent'[i] = sent[i]
  BY <1>1, <1>2
<1>4. \A i \in 1..(Len(sent) + 1) : i \in 1..Len(sent) \/ i = Len(sent) + 1
  BY <1>3
<1>5. \A i \in 1..Len(sent) : HasCrc(sent[i])
  <2>1. sent = <<>> \/ HasCrc(sent[Len(sent)])
    BY <1>1 DEF CrcInv, LastInv
  <2>2. \A m \in Nat : \A i \in 1..m : i < m \/ i = m
    OBVIOUS
  <2>3. sent = <<>> => 1..Len(sent) = {}
    OBVIOUS
  <2> QED  BY <1>3, <2>1, <2>2, <2>3 DEF CrcInv, LastInv
<1>6. AliveInv'
  BY <1>1, <1>3, <1>4, <1>5 DEF CrcInv, AliveInv, AfterCopy
<1>7. DyingInv'
  BY <1>1 DEF CrcInv, DyingInv
<1>8. HasCrc(outgoing) \/ turn_ # "NON_REALTIME"
  BY <1>1 DEF CrcInv, AliveInv, DyingInv, AfterCopy
<1>9. \A i \in 1..(Len(sent) + 1) : i < Len(sent) + 1 => i \in 1..Len(sent)
  BY <1>3
<1>10. LastInv'
  BY <1>1, <1>3, <1>5, <1>8, <1>9 DEF LastInv
<1> QED  BY <1>6, <1>7, <1>10

LEMMA LoopCrc ==
    ASSUME CrcInv, Loop, ~LoopWrites
    PROVE  AliveInv' /\ DyingInv' /\ LastInv'
<1>1. UNCHANGED <<keep_running_, prodPc, owner, sent>> /\ msg_ \in Message /\ outgoing \in Message
  BY DEF Loop, LoopStarts, LoopSetsTurn, LoopWhile, LoopLocks, LoopPollsAgain, LoopProceeds,
         LoopPreCommunication, LoopCopiesLo, LoopCopiesHi, LoopResetsTurn, LoopUnlocks,
         LoopChecksKeep, LoopEnds, LoopGoes, CrcInv, IInv, TypeOK
<1>2. turn_' \in {turn_, "REALTIME"}
  BY DEF Loop, LoopStarts, LoopSetsTurn, LoopWhile, LoopLocks, LoopPollsAgain, LoopProceeds,
         LoopPreCommunication, LoopCopiesLo, LoopCopiesHi, LoopResetsTurn, LoopUnlocks,
         LoopChecksKeep, LoopEnds, LoopGoes
<1>3. CASE LoopPreCommunication
  <2>1. loopPc = "pre" /\ loopPc' = "copyLo" /\ UNCHANGED <<turn_, outgoing>>
    BY <1>3 DEF LoopPreCommunication, LoopGoes
  <2>2. owner = "alive" => HasCrc(msg_')
    BY <1>1, <1>3 DEF LoopPreCommunication, HasCrc, Message
  <2> QED  BY <1>1, <2>1, <2>2 DEF CrcInv, AliveInv, DyingInv, LastInv, AfterCopy, HasCrc
<1>4. CASE LoopCopiesHi
  <2>1. loopPc = "copyHi" /\ loopPc' = "resetTurn" /\ UNCHANGED <<turn_, msg_>>
    BY <1>4 DEF LoopCopiesHi, LoopGoes
  <2>2. outgoing'.lo = msg_.lo /\ outgoing'.hi = msg_.hi /\ outgoing'.crc = msg_.crc
    BY <1>1, <1>4, <2>1 DEF LoopCopiesHi, CrcInv, IInv, Whole, Message
  <2>3. owner = "alive" => HasCrc(outgoing')
    BY <2>1, <2>2 DEF CrcInv, AliveInv, HasCrc
  <2> QED  BY <1>1, <2>1, <2>3 DEF CrcInv, AliveInv, DyingInv, LastInv, AfterCopy, HasCrc
<1>5. CASE LoopCopiesLo
  BY <1>1, <1>5
     DEF LoopCopiesLo, LoopGoes, CrcInv, AliveInv, DyingInv, LastInv, AfterCopy, HasCrc
<1>6. CASE LoopResetsTurn \/ LoopUnlocks
  BY <1>1, <1>6
     DEF LoopResetsTurn, LoopUnlocks, LoopGoes, CrcInv, AliveInv, DyingInv, LastInv, AfterCopy, HasCrc
<1>7. CASE LoopChecksKeep
  BY <1>1, <1>7
     DEF LoopChecksKeep, LoopGoes, CrcInv, AliveInv, DyingInv, LastInv, AfterCopy, HasCrc
<1>8. CASE LoopStarts \/ LoopSetsTurn \/ LoopWhile \/ LoopLocks \/ LoopPollsAgain \/ LoopEnds
  <2>1. /\ loopPc' \in {"setTurn", "while", "lock", "end", "poll", "exited"}
        /\ UNCHANGED <<msg_, outgoing>>
    BY <1>8 DEF LoopStarts, LoopSetsTurn, LoopWhile, LoopLocks, LoopPollsAgain, LoopEnds, LoopGoes
  <2> QED  BY <1>1, <1>2, <2>1 DEF CrcInv, AliveInv, DyingInv, LastInv, AfterCopy, HasCrc
<1>9. CASE LoopProceeds
  BY <1>1, <1>9
     DEF LoopProceeds, LoopGoes, CrcInv, AliveInv, DyingInv, LastInv, AfterCopy, HasCrc
<1> QED  BY <1>3, <1>4, <1>5, <1>6, <1>7, <1>8, <1>9 DEF Loop

LEMMA OwnerCrc ==
    ASSUME CrcInv, Owner
    PROVE  AliveInv' /\ DyingInv' /\ LastInv'
<1>1. /\ UNCHANGED <<turn_, msg_, loopPc, outgoing, prodPc, sent>>
      /\ keep_running_' = keep_running_ \/ keep_running_' = FALSE
      /\ owner' = "alive" => owner = "alive"
      /\ owner' # "alive" => owner # "alive" \/ \A p \in Producers : prodPc[p] = "idle"
  BY DEF Owner, Stop, DestroyDerived, DestructorStops, DestructorSeesEnd, DestructorJoins,
         OwnerUnchanged
<1>2. AliveInv'
  BY <1>1 DEF CrcInv, AliveInv, HasCrc
<1>3. DyingInv'
  BY <1>1 DEF CrcInv, AliveInv, DyingInv, AfterCopy, HasCrc
<1>4. ~keep_running_ => ~keep_running_'
  BY <1>1
<1>5. LastInv'
  BY <1>1, <1>4 DEF CrcInv, LastInv, HasCrc
<1> QED  BY <1>2, <1>3, <1>5

\* While the object is alive everything sent has its checksum; of a publisher that is
\* destroyed one message may lack it, and nothing is sent after that one.
THEOREM CrcCorrect == Spec => []OnlyTheLastLacksCrc
<1>1. CrcInv /\ [Next]_vars => CrcInv'
  <2>1. CrcInv /\ UNCHANGED vars => AliveInv' /\ DyingInv' /\ LastInv'
    BY DEF vars, CrcInv, AliveInv, DyingInv, LastInv, HasCrc
  <2> QED  BY <2>1, InvStep, ProducerCrc, WritesCrc, LoopCrc, OwnerCrc DEF Next, CrcInv
<1>2. CrcInv => OnlyTheLastLacksCrc
  BY DEF CrcInv, AliveInv, LastInv, HasCrc, OnlyTheLastLacksCrc
<1> QED  BY CrcInit, <1>1, <1>2, PTL DEF Spec

-----------------------------------------------------------------------------
(***************************************************************************)
(* With producers that use trylock() only, the publisher is a mailbox: a     *)
(* producer that writes has seen REALTIME under the lock, and nobody but it  *)
(* can change that.                                                          *)
(***************************************************************************)
Writing(p) == prodPc[p] \in {"writeLo", "writeHi", "decide"}
Begun == {p \in Producers : prodPc[p] \in {"check", "writeLo"}}

BoundInv == written + Cardinality(Begun) <= MaxMessages

SlotInv ==
    /\ \A p \in Producers : Writing(p) => turn_ = "REALTIME"
    /\ \A p \in Producers : prodPc[p] \in {"writeHi", "decide"} =>
          msg_.lo = written /\ written > 0 /\ \A n \in submitted : n < written
    /\ \A n \in submitted : n \in 1..written
    /\ turn_ = "NON_REALTIME" => msg_.lo > 0
    /\ loopPc \in {"pre", "copyLo", "copyHi", "resetTurn"} =>
          turn_ = "NON_REALTIME" \/ ~keep_running_
    /\ loopPc \in {"copyHi", "resetTurn"} => outgoing.lo = msg_.lo
    /\ InHand => outgoing.lo > 0

\* The last message put exists, and the turn is nobody's until the loop has started.
LastIsPut ==
    submitted # {} => \E n \in submitted : \A m \in submitted : m <= n
StartInv == loopPc \in {"start", "setTurn"} => turn_ = "LOOP_NOT_STARTED"

BoxInv == IInv /\ BoundInv /\ SlotInv /\ LastIsPut /\ StartInv

AllTry == \A p \in Producers : Discipline[p] = "trylock"

LEMMA BoxInvInit == Init => BoxInv
<1> SUFFICES ASSUME Init PROVE BoxInv
  OBVIOUS
<1>1. Begun = {}
  BY DEF Init, Begun
<1>2. BoundInv
  BY <1>1, FS_EmptySet, PublisherAssumption DEF Init, BoundInv
<1>3. SlotInv
  BY DEF Init, SlotInv, Writing, InHand
<1>4. LastIsPut /\ StartInv
  BY DEF Init, LastIsPut, StartInv
<1> QED  BY <1>2, <1>3, <1>4, InitInv DEF BoxInv

LEMMA BegunFinite == IsFiniteSet(Begun) /\ Cardinality(Begun) \in Nat
<1>1. Begun \subseteq Producers
  BY DEF Begun
<1> QED  BY <1>1, PublisherAssumption, FS_Subset, FS_CardinalityType

\* The bound: who has begun has a number of its own to come.
LEMMA BoundStep ==
    ASSUME BoxInv, [Next]_vars
    PROVE  BoundInv'
<1>0. /\ written \in Nat /\ MaxMessages \in Nat /\ Cardinality(Begun) \in Nat /\ IsFiniteSet(Begun)
      /\ written + Cardinality(Begun) <= MaxMessages /\ prodPc \in [Producers -> ProdPcs]
  BY BegunFinite, PublisherAssumption DEF BoxInv, IInv, TypeOK, BoundInv
<1>1. CASE UNCHANGED <<prodPc, written>>
  BY <1>0, <1>1 DEF BoundInv, Begun
<1>2. ASSUME NEW p \in Producers, TryLock(p) \/ Lock(p) PROVE BoundInv'
  <2>1. /\ written + Cardinality(Begun) < MaxMessages /\ written' = written
        /\ prodPc' = [prodPc EXCEPT ![p] = IF TryLock(p) THEN "check" ELSE "writeLo"]
        /\ prodPc[p] = "idle"
    BY <1>2 DEF TryLock, Lock, Begins, ProdGoes, Begun
  <2>2. Begun' = Begun \cup {p} /\ p \notin Begun
    BY <1>0, <2>1 DEF Begun
  <2>3. Cardinality(Begun') = Cardinality(Begun) + 1
    BY <1>0, <2>2, FS_AddElement
  <2> QED  BY <1>0, <2>1, <2>3 DEF BoundInv
<1>3. ASSUME NEW p \in Producers, TryLockSucceeds(p) \/ WriteHi(p) \/ SetTurn(p) \/ UnlockPublished(p)
                                  \/ UnlockOnly(p)
      PROVE  BoundInv'
  <2>1. written' = written /\ Begun' = Begun
    BY <1>0, <1>3 DEF TryLockSucceeds, WriteHi, SetTurn, UnlockPublished, UnlockOnly, ProdGoes, Begun
  <2> QED  BY <1>0, <2>1 DEF BoundInv
<1>4. ASSUME NEW p \in Producers, TryLockFails(p) \/ WriteLo(p) PROVE BoundInv'
  <2>1. /\ prodPc[p] \in {"check", "writeLo"} /\ prodPc'[p] \notin {"check", "writeLo"}
        /\ \A q \in Producers \ {p} : prodPc'[q] = prodPc[q]
        /\ written' = written \/ written' = written + 1
    BY <1>0, <1>4 DEF TryLockFails, WriteLo, ProdGoes
  <2>2. Begun' = Begun \ {p} /\ p \in Begun
    BY <2>1 DEF Begun
  <2>3. Cardinality(Begun') = Cardinality(Begun) - 1
    BY <1>0, <2>2, FS_RemoveElement
  <2> QED  BY <1>0, <2>1, <2>3 DEF BoundInv
<1>5. ASSUME Loop \/ Owner PROVE UNCHANGED <<prodPc, written>>
  BY <1>5 DEF Loop, LoopStarts, LoopSetsTurn, LoopWhile, LoopLocks, LoopPollsAgain,
              LoopProceeds, LoopPreCommunication, LoopCopiesLo, LoopCopiesHi,
              LoopResetsTurn, LoopUnlocks, LoopChecksKeep, LoopWrites, LoopEnds, LoopGoes,
              Owner, Stop, DestroyDerived, DestructorStops, DestructorSeesEnd,
              DestructorJoins, OwnerUnchanged
<1> QED  BY <1>1, <1>2, <1>3, <1>4, <1>5 DEF Next, vars, Producer

\* Nobody but the producer that has seen REALTIME under the lock gives the turn away.
LEMMA ProducerSlot ==
    ASSUME BoxInv, AllTry, NEW p \in Producers, Producer(p)
    PROVE  SlotInv'
<1>1. /\ UNCHANGED <<keep_running_, loopPc, outgoing>>
      /\ prodPc \in [Producers -> ProdPcs] /\ written \in Nat /\ msg_ \in Message
      /\ \A q \in Producers \ {p} : prodPc'[q] = prodPc[q]
  BY DEF BoxInv, IInv, TypeOK, Producer, TryLock, TryLockSucceeds, TryLockFails, Lock, WriteLo,
         WriteHi, SetTurn, UnlockPublished, UnlockOnly, ProdGoes
<1>2. UNCHANGED InHand
  BY <1>1 DEF InHand
<1>3. prodPc[p] \in ProdHolds =>
        /\ \A q \in Producers \ {p} : prodPc[q] \notin ProdHolds
        /\ loopPc \notin LoopHolds
  BY PublisherAssumption DEF BoxInv, IInv, HoldersOwnTheLock
<1>4. CASE TryLock(p) \/ TryLockFails(p) \/ UnlockPublished(p) \/ UnlockOnly(p)
  <2>1. UNCHANGED <<turn_, msg_, written, submitted>> /\ prodPc'[p] \in {"check", "idle"}
    BY <1>1, <1>4 DEF TryLock, TryLockFails, UnlockPublished, UnlockOnly, ProdGoes
  <2>2. \A q \in Producers : Writing(q)' => Writing(q) /\ prodPc'[q] = prodPc[q]
    BY <1>1, <2>1 DEF Writing
  <2>3. \A q \in Producers : prodPc'[q] \in {"writeHi", "decide"} => prodPc'[q] = prodPc[q]
    BY <1>1, <2>1
  <2> QED  BY <1>1, <1>2, <2>1, <2>2, <2>3 DEF BoxInv, SlotInv
<1>5. CASE TryLockSucceeds(p)
  <2>1. /\ UNCHANGED <<turn_, msg_, written, submitted>> /\ prodPc'[p] = "writeLo"
        /\ turn_ = "REALTIME"
    BY <1>1, <1>5 DEF TryLockSucceeds, ProdGoes
  <2>2. \A q \in Producers : prodPc'[q] \in {"writeHi", "decide"} => prodPc'[q] = prodPc[q]
    BY <1>1, <2>1
  <2> QED  BY <1>1, <1>2, <2>1, <2>2 DEF BoxInv, SlotInv
<1>6. CASE WriteLo(p)
  <2>1. /\ prodPc[p] = "writeLo" /\ prodPc'[p] = "writeHi" /\ written' = written + 1
        /\ UNCHANGED <<turn_, submitted>> /\ msg_'.lo = written + 1
    BY <1>1, <1>6 DEF WriteLo, ProdGoes, Message
  <2>2. /\ turn_ = "REALTIME" /\ loopPc \notin LoopHolds
        /\ \A q \in Producers \ {p} : prodPc'[q] \notin ProdHolds
    BY <1>1, <1>3, <2>1 DEF BoxInv, SlotInv, Writing, ProdHolds
  <2>3. \A n \in submitted : n < written' /\ n \in 1..written'
    BY <1>1, <2>1 DEF BoxInv, SlotInv
  <2>4. written' > 0
    BY <1>1, <2>1
  <2>5. \A q \in Producers : prodPc'[q] \in {"writeHi", "decide"} => q = p
    BY <2>2 DEF ProdHolds
  <2> QED  BY <1>1, <1>2, <2>1, <2>2, <2>3, <2>4, <2>5 DEF BoxInv, SlotInv, LoopHolds
<1>7. CASE WriteHi(p)
  <2>1. /\ prodPc[p] = "writeHi" /\ prodPc'[p] = "decide"
        /\ UNCHANGED <<turn_, submitted, written>> /\ msg_'.lo = msg_.lo
    BY <1>1, <1>7 DEF WriteHi, ProdGoes, Message
  <2>2. \A q \in Producers : /\ Writing(q)' => Writing(q)
                            /\ prodPc'[q] \in {"writeHi", "decide"}
                                 => prodPc[q] \in {"writeHi", "decide"}
    BY <1>1, <2>1 DEF Writing
  <2>3. \A q \in Producers : Writing(q)' => turn_' = "REALTIME"
    BY <2>1, <2>2 DEF BoxInv, SlotInv, Writing
  <2>4. \A q \in Producers : prodPc'[q] \in {"writeHi", "decide"} =>
           msg_'.lo = written' /\ written' > 0 /\ \A n \in submitted' : n < written'
    BY <2>1, <2>2 DEF BoxInv, SlotInv
  <2>5. /\ \A n \in submitted' : n \in 1..written'
        /\ turn_' = "NON_REALTIME" => msg_'.lo > 0
    BY <2>1 DEF BoxInv, SlotInv
  <2>6. /\ loopPc' \in {"pre", "copyLo", "copyHi", "resetTurn"} =>
             turn_' = "NON_REALTIME" \/ ~keep_running_'
        /\ loopPc' \in {"copyHi", "resetTurn"} => outgoing'.lo = msg_'.lo
        /\ InHand' => outgoing'.lo > 0
    BY <1>1, <1>2, <2>1 DEF BoxInv, SlotInv
  <2> QED  BY <2>3, <2>4, <2>5, <2>6 DEF SlotInv
<1>8. CASE SetTurn(p)
  <2>1. /\ prodPc[p] = "decide" /\ prodPc'[p] = "unlock" /\ UNCHANGED <<msg_, written>>
        /\ turn_' = "NON_REALTIME" /\ submitted' = submitted \cup {msg_.lo}
    BY <1>1, <1>8 DEF SetTurn, ProdGoes
  <2>2. \A q \in Producers : prodPc'[q] \notin {"writeLo", "writeHi", "decide"}
    BY <1>1, <1>3, <2>1 DEF ProdHolds
  <2>3. msg_.lo = written /\ written > 0 /\ \A n \in submitted : n \in 1..written
    BY <2>1 DEF BoxInv, SlotInv
  <2>4. \A n \in submitted' : n \in 1..written
    BY <1>1, <2>1, <2>3
  <2> QED  BY <1>1, <1>2, <2>1, <2>2, <2>3, <2>4 DEF BoxInv, SlotInv, Writing
<1> QED  BY <1>4, <1>5, <1>6, <1>7, <1>8 DEF Producer, Lock, Begins, AllTry

LEMMA LoopSlot ==
    ASSUME BoxInv, Loop
    PROVE  SlotInv'
<1>1. UNCHANGED <<keep_running_, prodPc, written, submitted>> /\ msg_ \in Message /\ outgoing \in Message
  BY DEF Loop, LoopStarts, LoopSetsTurn, LoopWhile, LoopLocks, LoopPollsAgain, LoopProceeds,
         LoopPreCommunication, LoopCopiesLo, LoopCopiesHi, LoopResetsTurn, LoopUnlocks,
         LoopChecksKeep, LoopWrites, LoopEnds, LoopGoes, BoxInv, IInv, TypeOK
<1>2. msg_'.lo = msg_.lo
  BY <1>1 DEF Loop, LoopStarts, LoopSetsTurn, LoopWhile, LoopLocks, LoopPollsAgain, LoopProceeds,
         LoopPreCommunication, LoopCopiesLo, LoopCopiesHi, LoopResetsTurn, LoopUnlocks,
         LoopChecksKeep, LoopWrites, LoopEnds, Message
<1>3. turn_' = turn_ \/ turn_' = "REALTIME"
  BY DEF Loop, LoopStarts, LoopSetsTurn, LoopWhile, LoopLocks, LoopPollsAgain, LoopProceeds,
         LoopPreCommunication, LoopCopiesLo, LoopCopiesHi, LoopResetsTurn, LoopUnlocks,
         LoopChecksKeep, LoopWrites, LoopEnds
<1>4. /\ loopPc' \in {"pre", "copyLo", "copyHi", "resetTurn"} =>
            turn_' = "NON_REALTIME" \/ ~keep_running_
      /\ loopPc' \in {"copyHi", "resetTurn"} => outgoing'.lo = msg_.lo
      /\ InHand' => outgoing'.lo > 0
  <2>1. CASE LoopPreCommunication \/ LoopCopiesLo \/ LoopProceeds
    BY <1>1, <2>1 DEF LoopPreCommunication, LoopCopiesLo, LoopProceeds, LoopGoes, InHand, Message,
                      BoxInv, SlotInv
  <2>2. CASE LoopCopiesHi
    BY <1>1, <2>2 DEF LoopCopiesHi, LoopGoes, InHand, Message, BoxInv, SlotInv
  <2>3. CASE LoopResetsTurn
    BY <1>1, <2>3 DEF LoopResetsTurn, LoopGoes, InHand, BoxInv, SlotInv
  <2>4. CASE LoopUnlocks \/ LoopChecksKeep
    BY <1>1, <2>4 DEF LoopUnlocks, LoopChecksKeep, LoopGoes, InHand, BoxInv, SlotInv
  <2>5. CASE \/ LoopStarts \/ LoopSetsTurn \/ LoopWhile \/ LoopLocks \/ LoopPollsAgain
             \/ LoopWrites \/ LoopEnds
    <3>1. loopPc' \in {"setTurn", "while", "lock", "end", "poll", "exited"}
      BY <2>5 DEF LoopStarts, LoopSetsTurn, LoopWhile, LoopLocks, LoopPollsAgain, LoopWrites,
                  LoopEnds, LoopGoes
    <3> QED  BY <3>1 DEF InHand
  <2> QED  BY <2>1, <2>2, <2>3, <2>4, <2>5 DEF Loop
<1> QED  BY <1>1, <1>2, <1>3, <1>4 DEF BoxInv, SlotInv, Writing

LEMMA OwnerSlot ==
    ASSUME BoxInv, Owner
    PROVE  SlotInv'
<1>1. /\ UNCHANGED <<turn_, msg_, loopPc, outgoing, prodPc, written, submitted>>
      /\ ~keep_running_ => ~keep_running_'
  BY DEF Owner, Stop, DestroyDerived, DestructorStops, DestructorSeesEnd, DestructorJoins,
         OwnerUnchanged
<1>2. InHand' => InHand
  BY <1>1 DEF InHand
<1> QED  BY <1>1, <1>2 DEF BoxInv, SlotInv, Writing

LEMMA BoxStep == AllTry /\ BoxInv /\ [Next]_vars => BoxInv'
<1> SUFFICES ASSUME AllTry, BoxInv, [Next]_vars PROVE BoxInv'
  OBVIOUS
<1>1. UNCHANGED vars => SlotInv'
  BY DEF vars, BoxInv, SlotInv, Writing, InHand
<1>2. SlotInv'
  BY <1>1, ProducerSlot, LoopSlot, OwnerSlot DEF Next
<1>3. LastIsPut'
  <2>1. CASE UNCHANGED submitted
    BY <2>1 DEF BoxInv, LastIsPut
  <2>2. ASSUME NEW p \in Producers, SetTurn(p) PROVE LastIsPut'
    <3>1. /\ submitted' = submitted \cup {written} /\ written \in Nat
          /\ \A n \in submitted : n \in Nat /\ n < written
      BY <2>2 DEF SetTurn, ProdGoes, BoxInv, SlotInv, IInv, TypeOK
    <3> QED  BY <3>1 DEF LastIsPut
  <2>3. UNCHANGED submitted \/ \E p \in Producers : SetTurn(p)
    BY DEF Next, vars, Producer, TryLock, TryLockSucceeds, TryLockFails, Lock, WriteLo, WriteHi,
           UnlockPublished, UnlockOnly, Loop, LoopStarts, LoopSetsTurn, LoopWhile, LoopLocks,
           LoopPollsAgain, LoopProceeds, LoopPreCommunication, LoopCopiesLo, LoopCopiesHi,
           LoopResetsTurn, LoopUnlocks, LoopChecksKeep, LoopWrites, LoopEnds, LoopGoes,
           Owner, Stop, DestroyDerived, DestructorStops, DestructorSeesEnd, DestructorJoins,
           OwnerUnchanged
  <2> QED  BY <2>1, <2>2, <2>3
<1>4. StartInv'
  <2>1. CASE Loop
    BY <2>1 DEF BoxInv, StartInv, Loop, LoopStarts, LoopSetsTurn, LoopWhile, LoopLocks,
           LoopPollsAgain, LoopProceeds, LoopPreCommunication, LoopCopiesLo, LoopCopiesHi,
           LoopResetsTurn, LoopUnlocks, LoopChecksKeep, LoopWrites, LoopEnds, LoopGoes
  <2>2. ASSUME NEW p \in Producers, SetTurn(p) PROVE StartInv'
    <3>1. turn_ = "REALTIME" /\ UNCHANGED loopPc
      BY <2>2 DEF SetTurn, ProdGoes, BoxInv, SlotInv, Writing
    <3> QED  BY <3>1 DEF BoxInv, StartInv
  <2>3. UNCHANGED <<turn_, loopPc>> \/ Loop \/ \E p \in Producers : SetTurn(p)
    BY DEF Next, vars, Producer, TryLock, TryLockSucceeds, TryLockFails, Lock, WriteLo, WriteHi,
           UnlockPublished, UnlockOnly, ProdGoes, Owner, Stop, DestroyDerived, DestructorStops,
           DestructorSeesEnd, DestructorJoins, OwnerUnchanged
  <2> QED  BY <2>1, <2>2, <2>3 DEF BoxInv, StartInv
<1> QED  BY <1>2, <1>3, <1>4, BoundStep, InvStep DEF BoxInv

-----------------------------------------------------------------------------
\* The mailbox as the publisher shows it: see Box.
Slot == IF turn_ = "NON_REALTIME" THEN msg_.lo ELSE 0
Flight == IF InHand THEN outgoing.lo ELSE 0
LastPut == IF submitted = {} THEN 0
           ELSE CHOOSE n \in submitted : \A m \in submitted : m <= n

LEMMA MailboxPut ==
    ASSUME BoxInv, NEW p \in Producers, SetTurn(p)
    PROVE  Box!Put
<1>1. /\ turn_ = "REALTIME" /\ turn_' = "NON_REALTIME" /\ UNCHANGED msg_
      /\ msg_.lo = written /\ written > 0 /\ written \in Nat
      /\ submitted' = submitted \cup {written}
      /\ submitted \subseteq Nat /\ \A n \in submitted : n < written
  BY DEF SetTurn, ProdGoes, BoxInv, SlotInv, IInv, TypeOK, Writing
<1>2. written \in 1..MaxMessages
  BY <1>1, BegunFinite, PublisherAssumption DEF BoxInv, BoundInv
<1>3. LastPut' = written
  <2> DEFINE T == submitted'
             c == CHOOSE n \in T : \A m \in T : m <= n
  <2>1. written \in T /\ \A m \in T : m <= written /\ m \in Nat
    BY <1>1
  <2>2. LastPut' = c
    BY <2>1 DEF LastPut
  <2> HIDE DEF T
  <2>3. c \in T /\ \A m \in T : m <= c
    BY <2>1
  <2> HIDE DEF c
  <2> QED  BY <2>1, <2>2, <2>3
<1>4. written > LastPut
  <2>1. CASE submitted = {}
    BY <1>1, <2>1 DEF LastPut
  <2>2. CASE submitted # {}
    <3>1. LastPut \in submitted
      BY <2>2 DEF LastPut, BoxInv, LastIsPut
    <3> QED  BY <1>1, <3>1
  <2> QED  BY <2>1, <2>2
<1>5. Slot = 0 /\ Slot' = written
  BY <1>1 DEF Slot
<1>6. UNCHANGED <<keep_running_, loopPc, outgoing, sent>>
  BY DEF SetTurn, ProdGoes
<1>7. UNCHANGED <<Flight, Numbers(sent), keep_running_>>
  BY <1>6 DEF Flight, InHand, Numbers
<1> QED  BY <1>2, <1>3, <1>4, <1>5, <1>7 DEF Box!Put, Slot, Flight, LastPut

LEMMA MailboxPick ==
    ASSUME BoxInv, LoopResetsTurn
    PROVE  Box!Pick \/ UNCHANGED Box!vars
<1>1. /\ loopPc = "resetTurn" /\ loopPc' = "unlock" /\ turn_' = "REALTIME"
      /\ UNCHANGED <<keep_running_, msg_, outgoing, submitted, sent>>
      /\ outgoing.lo = msg_.lo
      /\ turn_ = "NON_REALTIME" => msg_.lo > 0
      /\ turn_ = "NON_REALTIME" \/ ~keep_running_
      /\ msg_.lo \in Nat
  BY DEF LoopResetsTurn, LoopGoes, BoxInv, SlotInv, IInv, TypeOK, Message
<1>2. Slot' = 0 /\ Flight = 0
  BY <1>1 DEF Slot, Flight, InHand
<1>3. UNCHANGED <<LastPut, Numbers(sent), keep_running_>>
  BY <1>1 DEF LastPut, Numbers
<1>4. CASE turn_ = "NON_REALTIME"
  <2>1. Slot # 0 /\ Slot = outgoing.lo
    BY <1>1, <1>4 DEF Slot
  <2>2. Flight' = IF keep_running_ THEN Slot ELSE 0
    BY <1>1, <2>1 DEF Flight, InHand
  <2> QED  BY <1>2, <1>3, <2>1, <2>2 DEF Box!Pick, Slot, Flight, LastPut
<1>5. CASE turn_ # "NON_REALTIME"
  <2>1. Slot = 0 /\ Flight' = 0
    BY <1>1, <1>5 DEF Slot, Flight, InHand
  <2> QED  BY <1>2, <1>3, <2>1 DEF Box!vars, Slot, Flight, LastPut
<1> QED  BY <1>4, <1>5

LEMMA MailboxSend ==
    ASSUME BoxInv, LoopWrites
    PROVE  Box!Send
<1>1. /\ loopPc = "write" /\ loopPc' = "while" /\ sent' = Append(sent, outgoing)
      /\ UNCHANGED <<turn_, keep_running_, msg_, submitted>>
      /\ sent \in Seq(Message) /\ outgoing \in Message
  BY DEF LoopWrites, LoopGoes, BoxInv, IInv, TypeOK
<1>2. InHand /\ ~InHand' /\ outgoing.lo > 0 /\ outgoing.lo \in Nat
  BY <1>1 DEF InHand, BoxInv, SlotInv, Message
<1>3. Flight = outgoing.lo /\ Flight # 0 /\ Flight' = 0
  BY <1>2 DEF Flight
<1>4. Numbers(sent)' = Append(Numbers(sent), outgoing.lo)
  <2> DEFINE r == Append(sent, outgoing)
  <2>1. /\ Len(r) = Len(sent) + 1 /\ DOMAIN r = 1..Len(sent) + 1 /\ Len(sent) \in Nat
        /\ DOMAIN sent = 1..Len(sent)
        /\ r[Len(sent) + 1] = outgoing /\ \A i \in 1..Len(sent) : r[i] = sent[i]
    BY <1>1
  <2>2. /\ Numbers(sent) = [i \in 1..Len(sent) |-> sent[i].lo]
        /\ Numbers(sent)' = [i \in 1..Len(sent) + 1 |-> r[i].lo]
    BY <1>1, <2>1 DEF Numbers
  <2> HIDE DEF r
  <2>3. Append(Numbers(sent), outgoing.lo)
          = [i \in 1..Len(sent) + 1 |-> IF i = Len(sent) + 1 THEN outgoing.lo ELSE sent[i].lo]
    BY <2>1, <2>2
  <2>4. \A i \in 1..Len(sent) + 1 : i = Len(sent) + 1 \/ i \in 1..Len(sent)
    BY <2>1
  <2> QED  BY <2>1, <2>2, <2>3, <2>4
<1>5. UNCHANGED <<Slot, LastPut, keep_running_>>
  BY <1>1 DEF Slot, LastPut
<1> QED  BY <1>3, <1>4, <1>5 DEF Box!Send, Slot, Flight, LastPut

LEMMA MailboxClose ==
    ASSUME BoxInv, Owner
    PROVE  Box!Close \/ UNCHANGED Box!vars
<1>1. /\ UNCHANGED <<turn_, msg_, loopPc, outgoing, submitted, sent>>
      /\ keep_running_' = keep_running_ \/ keep_running_' = FALSE
      /\ keep_running_ \in BOOLEAN
  BY DEF Owner, Stop, DestroyDerived, DestructorStops, DestructorSeesEnd, DestructorJoins,
         OwnerUnchanged, BoxInv, IInv, TypeOK
<1>2. UNCHANGED <<Slot, LastPut, Numbers(sent)>>
  BY <1>1 DEF Slot, LastPut, Numbers
<1>3. CASE keep_running_' = keep_running_
  <2>1. UNCHANGED Flight
    BY <1>1, <1>3 DEF Flight, InHand
  <2> QED  BY <1>2, <1>3, <2>1 DEF Box!vars, Slot, Flight, LastPut
<1>4. CASE keep_running_ /\ keep_running_' = FALSE
  <2>1. Flight' \in {Flight, 0}
    BY <1>1, <1>4 DEF Flight, InHand
  <2> QED  BY <1>2, <1>4, <2>1 DEF Box!Close, Slot, Flight, LastPut
<1> QED  BY <1>1, <1>3, <1>4

\* A producer's steps under the lock do not show: the slot is empty while it writes.
LEMMA MailboxProducer ==
    ASSUME BoxInv, AllTry, NEW p \in Producers, Producer(p)
    PROVE  Box!Put \/ UNCHANGED Box!vars
<1>1. CASE SetTurn(p)
  BY <1>1, MailboxPut
<1>2. CASE ~SetTurn(p)
  <2>1. UNCHANGED <<turn_, keep_running_, loopPc, outgoing, submitted, sent>>
    BY <1>2 DEF Producer, TryLock, TryLockSucceeds, TryLockFails, Lock, WriteLo, WriteHi,
                UnlockPublished, UnlockOnly, ProdGoes
  <2>2. UNCHANGED msg_ \/ turn_ = "REALTIME"
    BY <1>2 DEF Producer, TryLock, TryLockSucceeds, TryLockFails, Lock, WriteLo, WriteHi,
                UnlockPublished, UnlockOnly, ProdGoes, BoxInv, SlotInv, Writing
  <2>3. UNCHANGED Slot
    BY <2>1, <2>2 DEF Slot
  <2>4. UNCHANGED <<Flight, LastPut, Numbers(sent), keep_running_>>
    BY <2>1 DEF Flight, InHand, LastPut, Numbers
  <2> QED  BY <2>3, <2>4 DEF Box!vars, Slot, Flight, LastPut
<1> QED  BY <1>1, <1>2

LEMMA MailboxLoop ==
    ASSUME BoxInv, Loop
    PROVE  Box!Pick \/ Box!Send \/ UNCHANGED Box!vars
<1>1. CASE LoopResetsTurn
  BY <1>1, MailboxPick
<1>2. CASE LoopWrites
  BY <1>2, MailboxSend
<1>3. CASE ~LoopResetsTurn /\ ~LoopWrites
  <2>1. UNCHANGED <<keep_running_, submitted, sent>>
    BY <1>3 DEF Loop, LoopStarts, LoopSetsTurn, LoopWhile, LoopLocks, LoopPollsAgain,
           LoopProceeds, LoopPreCommunication, LoopCopiesLo, LoopCopiesHi,
           LoopUnlocks, LoopChecksKeep, LoopEnds, LoopGoes
  <2>2. UNCHANGED turn_ \/ (turn_ # "NON_REALTIME" /\ turn_' # "NON_REALTIME")
    BY <1>3 DEF Loop, LoopStarts, LoopSetsTurn, LoopWhile, LoopLocks, LoopPollsAgain,
           LoopProceeds, LoopPreCommunication, LoopCopiesLo, LoopCopiesHi,
           LoopUnlocks, LoopChecksKeep, LoopEnds, LoopGoes, BoxInv, StartInv
  <2>3. msg_'.lo = msg_.lo
    <3>1. msg_ \in Message
      BY DEF BoxInv, IInv, TypeOK
    <3> QED  BY <1>3, <3>1 DEF Loop, LoopStarts, LoopSetsTurn, LoopWhile, LoopLocks,
           LoopPollsAgain, LoopProceeds, LoopPreCommunication, LoopCopiesLo, LoopCopiesHi,
           LoopUnlocks, LoopChecksKeep, LoopEnds, Message
  <2>4. UNCHANGED Slot
    BY <2>2, <2>3 DEF Slot
  <2>5. InHand' <=> InHand
    BY <1>3 DEF Loop, LoopStarts, LoopSetsTurn, LoopWhile, LoopLocks, LoopPollsAgain,
           LoopProceeds, LoopPreCommunication, LoopCopiesLo, LoopCopiesHi,
           LoopUnlocks, LoopChecksKeep, LoopEnds, LoopGoes, InHand
  <2>6. UNCHANGED outgoing \/ ~InHand
    BY <1>3 DEF Loop, LoopStarts, LoopSetsTurn, LoopWhile, LoopLocks, LoopPollsAgain,
           LoopProceeds, LoopPreCommunication, LoopCopiesLo, LoopCopiesHi,
           LoopUnlocks, LoopChecksKeep, LoopEnds, LoopGoes, InHand
  <2>7. UNCHANGED Flight
    BY <2>5, <2>6 DEF Flight
  <2>8. UNCHANGED <<LastPut, Numbers(sent), keep_running_>>
    BY <2>1 DEF LastPut, Numbers
  <2> QED  BY <2>4, <2>7, <2>8 DEF Box!vars, Slot, Flight, LastPut
<1> QED  BY <1>1, <1>2, <1>3

\* Producers that ask before they write see a mailbox: a message handed over waits
\* until the loop picks it up, and is sent once, in order, unless the publisher is
\* stopped.
THEOREM PublisherIsMailbox ==
    ASSUME AllTry
    PROVE  Spec => ImplementsMailbox
<1>1. Init => Box!Init
  BY DEF Init, Box!Init, InHand, Numbers
<1>2. BoxInv /\ [Next]_vars => [Box!Next]_(Box!vars)
  <2> SUFFICES ASSUME BoxInv, [Next]_vars PROVE [Box!Next]_(Box!vars)
    OBVIOUS
  <2>1. CASE UNCHANGED vars
    <3>1. UNCHANGED <<Slot, Flight, LastPut, Numbers(sent), keep_running_>>
      BY <2>1 DEF vars, Slot, Flight, InHand, LastPut, Numbers
    <3> QED  BY <3>1 DEF Box!vars, Slot, Flight, LastPut
  <2> QED  BY <2>1, MailboxProducer, MailboxLoop, MailboxClose DEF Next, Box!Next
<1>3. BoxInv /\ [Next]_vars => BoxInv'
  BY BoxStep
<1> QED  BY BoxInvInit, <1>1, <1>2, <1>3, PTL DEF Spec, ImplementsMailbox, Box!Spec


-----------------------------------------------------------------------------
(***************************************************************************)
(* The order of what is sent, with producers of either discipline: the turn *)
(* is given by a producer that has just written, under the lock, and taken   *)
(* back with the lock still held from the copy, so that every copy that is   *)
(* sent was written after the one before.                                   *)
(***************************************************************************)
\* Message n has not been sent, nor a later one.
Fresh(n) == \A i \in DOMAIN sent : sent[i].lo < n
\* Nor is it on its way.
Newer(n) == Fresh(n) /\ (InHand => outgoing.lo < n)

OrderInv ==
    /\ msg_.lo = written
    /\ \A i \in DOMAIN sent : sent[i].lo <= written
    /\ \A i, j \in DOMAIN sent : i < j => sent[i].lo < sent[j].lo
    /\ turn_ = "NON_REALTIME" => Newer(written)
    /\ \A p \in Producers : prodPc[p] \in {"writeHi", "decide"} => Newer(written)
    /\ loopPc \in {"pre", "copyLo", "copyHi", "resetTurn"} /\ keep_running_
          => turn_ = "NON_REALTIME"
    /\ loopPc \in {"copyHi", "resetTurn"} => outgoing.lo = written
    /\ InHand => Fresh(outgoing.lo) /\ outgoing.lo <= written

LEMMA OrderInit == Init => OrderInv
BY DEF Init, OrderInv, Newer, Fresh, InHand

LEMMA SentNumbers ==
    ASSUME IInv
    PROVE  outgoing.lo \in Nat /\ \A i \in DOMAIN sent : sent[i].lo \in Nat
<1>1. sent \in Seq(Message) /\ outgoing \in Message
  BY DEF IInv, TypeOK
<1>2. \A m \in Message : m.lo \in Nat
  BY DEF Message
<1> HIDE DEF Message
<1> QED  BY <1>1, <1>2

LEMMA ProducerOrder ==
    ASSUME IInv, OrderInv, NEW p \in Producers, Producer(p)
    PROVE  OrderInv'
<1>1. /\ UNCHANGED <<keep_running_, loopPc, outgoing, sent>>
      /\ written \in Nat /\ msg_ \in Message /\ prodPc \in [Producers -> ProdPcs]
      /\ \A q \in Producers \ {p} : prodPc'[q] = prodPc[q]
  BY DEF IInv, TypeOK, Producer, TryLock, TryLockSucceeds, TryLockFails, Lock, WriteLo,
         WriteHi, SetTurn, UnlockPublished, UnlockOnly, ProdGoes
<1>0. outgoing.lo \in Nat /\ \A i \in DOMAIN sent : sent[i].lo \in Nat
  BY SentNumbers
<1>2. UNCHANGED InHand /\ \A n : Newer(n)' = Newer(n) /\ Fresh(n)' = Fresh(n)
  BY <1>1 DEF InHand, Newer, Fresh
<1>3. prodPc[p] \in ProdHolds =>
        /\ \A q \in Producers \ {p} : prodPc[q] \notin ProdHolds
        /\ loopPc \notin LoopHolds
  BY PublisherAssumption DEF IInv, HoldersOwnTheLock
<1>4. CASE WriteLo(p)
  <2>1. /\ prodPc[p] = "writeLo" /\ written' = written + 1 /\ UNCHANGED turn_
        /\ msg_'.lo = written + 1
    BY <1>1, <1>4 DEF WriteLo, ProdGoes, Message
  <2>2. loopPc \notin LoopHolds
    BY <1>3, <2>1 DEF ProdHolds
  <2>3. Newer(written + 1)
    <3>1. Fresh(written + 1)
      BY <1>0, <1>1 DEF OrderInv, Fresh
    <3>2. InHand => outgoing.lo < written + 1
      BY <1>0, <1>1 DEF OrderInv
    <3> QED  BY <3>1, <3>2 DEF Newer
  <2>4. \A i \in DOMAIN sent : sent[i].lo <= written + 1
    BY <1>0, <1>1 DEF OrderInv
  <2>5. InHand => Fresh(outgoing.lo) /\ outgoing.lo <= written + 1
    BY <1>0, <1>1 DEF OrderInv
  <2> QED  BY <1>1, <1>2, <2>1, <2>2, <2>3, <2>4, <2>5 DEF OrderInv, LoopHolds
<1>5. CASE WriteHi(p)
  <2>1. /\ prodPc[p] = "writeHi" /\ UNCHANGED <<written, turn_>> /\ msg_'.lo = msg_.lo
    BY <1>1, <1>5 DEF WriteHi, ProdGoes, Message
  <2>2. \A q \in Producers : prodPc'[q] \in {"writeHi", "decide"}
                              => prodPc[q] \in {"writeHi", "decide"}
    BY <1>1, <2>1
  <2> QED  BY <1>1, <1>2, <2>1, <2>2 DEF OrderInv
<1>6. CASE SetTurn(p)
  <2>1. /\ prodPc[p] = "decide" /\ prodPc'[p] = "unlock" /\ UNCHANGED <<msg_, written>>
        /\ turn_' = "NON_REALTIME"
    BY <1>1, <1>6 DEF SetTurn, ProdGoes
  <2>2. Newer(written)
    BY <2>1 DEF OrderInv
  <2> QED  BY <1>1, <1>2, <2>1, <2>2 DEF OrderInv
<1>7. CASE ~WriteLo(p) /\ ~WriteHi(p) /\ ~SetTurn(p)
  <2>1. /\ UNCHANGED <<turn_, msg_, written>>
        /\ \A q \in Producers : prodPc'[q] \in {"writeHi", "decide"} => prodPc'[q] = prodPc[q]
    BY <1>1, <1>7 DEF Producer, TryLock, TryLockSucceeds, TryLockFails, Lock, UnlockPublished,
                      UnlockOnly, ProdGoes
  <2> QED  BY <1>1, <1>2, <2>1 DEF OrderInv
<1> QED  BY <1>4, <1>5, <1>6, <1>7

\* The copy is sent: it is newer than what has been, older than what is to come.
LEMMA WritesOrder ==
    ASSUME IInv, OrderInv, LoopWrites
    PROVE  OrderInv'
<1>1. /\ loopPc = "write" /\ loopPc' = "while" /\ sent' = Append(sent, outgoing)
      /\ UNCHANGED <<turn_, keep_running_, prodPc, msg_, outgoing, written>>
  BY DEF LoopWrites, LoopGoes
<1>2. /\ sent \in Seq(Message) /\ outgoing \in Message /\ outgoing.lo \in Nat /\ written \in Nat
      /\ \A i \in DOMAIN sent : sent[i].lo \in Nat
  BY SentNumbers DEF IInv, TypeOK
<1>3. InHand /\ ~InHand'
  BY <1>1 DEF InHand
<1>4. /\ Len(sent) \in Nat /\ DOMAIN sent = 1..Len(sent) /\ DOMAIN sent' = 1..(Len(sent) + 1)
      /\ sent'[Len(sent) + 1] = outgoing /\ \A i \in 1..Len(sent) : sent'[i] = sent[i]
  BY <1>1, <1>2
<1>5. \A i \in 1..(Len(sent) + 1) : i \in 1..Len(sent) \/ i = Len(sent) + 1
  BY <1>4
<1>6. ASSUME NEW n, Newer(n) PROVE Newer(n)'
  BY <1>3, <1>4, <1>5, <1>6 DEF Newer, Fresh
<1>7. \A i \in 1..(Len(sent) + 1) : sent'[i].lo <= written
  BY <1>3, <1>4, <1>5 DEF OrderInv
<1>8. \A i, j \in 1..(Len(sent) + 1) : i < j => sent'[i].lo < sent'[j].lo
  <2> SUFFICES ASSUME NEW i \in 1..(Len(sent) + 1), NEW j \in 1..(Len(sent) + 1), i < j
               PROVE  sent'[i].lo < sent'[j].lo
    OBVIOUS
  <2>1. i \in 1..Len(sent)
    BY <1>4
  <2>2. CASE j \in 1..Len(sent)
    BY <1>4, <2>1, <2>2 DEF OrderInv
  <2>3. CASE j = Len(sent) + 1
    BY <1>3, <1>4, <2>1, <2>3 DEF OrderInv, Fresh
  <2> QED  BY <1>5, <2>2, <2>3
<1> QED  BY <1>1, <1>3, <1>4, <1>6, <1>7, <1>8 DEF OrderInv

LEMMA LoopOrder ==
    ASSUME IInv, OrderInv, Loop, ~LoopWrites
    PROVE  OrderInv'
<1>1. /\ UNCHANGED <<keep_running_, prodPc, written, sent>>
      /\ msg_ \in Message /\ outgoing \in Message /\ written \in Nat
  BY DEF Loop, LoopStarts, LoopSetsTurn, LoopWhile, LoopLocks, LoopPollsAgain, LoopProceeds,
         LoopPreCommunication, LoopCopiesLo, LoopCopiesHi, LoopResetsTurn, LoopUnlocks,
         LoopChecksKeep, LoopEnds, LoopGoes, IInv, TypeOK
<1>2. \A n : Fresh(n)' = Fresh(n)
  BY <1>1 DEF Fresh
<1>3. msg_'.lo = msg_.lo /\ turn_' \in {turn_, "REALTIME"}
  BY <1>1 DEF Loop, LoopStarts, LoopSetsTurn, LoopWhile, LoopLocks, LoopPollsAgain, LoopProceeds,
         LoopPreCommunication, LoopCopiesLo, LoopCopiesHi, LoopResetsTurn, LoopUnlocks,
         LoopChecksKeep, LoopEnds, Message
<1>4. CASE LoopResetsTurn
  <2>1. /\ loopPc = "resetTurn" /\ loopPc' = "unlock" /\ UNCHANGED outgoing
        /\ turn_' = "REALTIME"
    BY <1>4 DEF LoopResetsTurn, LoopGoes
  <2>2. \A p \in Producers : prodPc[p] \notin {"writeHi", "decide"}
    BY <2>1, PublisherAssumption DEF IInv, HoldersOwnTheLock, LoopHolds, ProdHolds
  <2>3. outgoing.lo = written /\ (keep_running_ => Fresh(written))
    BY <2>1 DEF OrderInv, Newer
  <2>4. InHand' => keep_running_
    BY <1>1, <2>1 DEF InHand
  <2> QED  BY <1>1, <1>2, <1>3, <2>1, <2>2, <2>3, <2>4 DEF OrderInv
<1>5. CASE LoopUnlocks \/ LoopChecksKeep
  <2>1. /\ loopPc' \in {"checkKeep", "write", "while"} /\ UNCHANGED <<outgoing, turn_>>
        /\ InHand' => InHand
    BY <1>1, <1>5 DEF LoopUnlocks, LoopChecksKeep, LoopGoes, InHand
  <2>2. \A n : Newer(n) => Newer(n)'
    BY <1>2, <2>1 DEF Newer
  <2> QED  BY <1>1, <1>2, <1>3, <2>1, <2>2 DEF OrderInv
<1>6. CASE LoopProceeds \/ LoopPreCommunication \/ LoopCopiesLo \/ LoopCopiesHi
  <2>1. /\ loopPc' \in {"pre", "copyLo", "copyHi", "resetTurn"} /\ turn_' = turn_
        /\ loopPc = "poll" => turn_ = "NON_REALTIME" \/ ~keep_running_
        /\ loopPc \in {"poll", "pre", "copyLo", "copyHi"}
    BY <1>6 DEF LoopProceeds, LoopPreCommunication, LoopCopiesLo, LoopCopiesHi, LoopGoes
  <2>2. loopPc' \in {"copyHi", "resetTurn"} => outgoing'.lo = written
    BY <1>1, <1>6 DEF LoopProceeds, LoopPreCommunication, LoopCopiesLo, LoopCopiesHi, LoopGoes,
                      Message, OrderInv
  <2>3. ~InHand'
    BY <2>1 DEF InHand
  <2>4. \A n : Newer(n) => Newer(n)'
    BY <1>2, <2>3 DEF Newer
  <2> QED  BY <1>1, <1>2, <1>3, <2>1, <2>2, <2>3, <2>4 DEF OrderInv
<1>7. CASE LoopStarts \/ LoopSetsTurn \/ LoopWhile \/ LoopLocks \/ LoopPollsAgain \/ LoopEnds
  <2>1. loopPc' \in {"setTurn", "while", "lock", "end", "poll", "exited"}
    BY <1>7 DEF LoopStarts, LoopSetsTurn, LoopWhile, LoopLocks, LoopPollsAgain, LoopEnds, LoopGoes
  <2>2. ~InHand'
    BY <2>1 DEF InHand
  <2>3. \A n : Newer(n) => Newer(n)'
    BY <1>2, <2>2 DEF Newer
  <2> QED  BY <1>1, <1>2, <1>3, <2>1, <2>2, <2>3 DEF OrderInv
<1> QED  BY <1>4, <1>5, <1>6, <1>7 DEF Loop

LEMMA OwnerOrder ==
    ASSUME OrderInv, Owner \/ UNCHANGED vars
    PROVE  OrderInv'
<1>1. /\ UNCHANGED <<turn_, msg_, loopPc, outgoing, prodPc, written, sent>>
      /\ ~keep_running_ => ~keep_running_'
  BY DEF Owner, Stop, DestroyDerived, DestructorStops, DestructorSeesEnd, DestructorJoins,
         OwnerUnchanged, vars
<1>2. InHand' => InHand
  BY <1>1 DEF InHand
<1>3. \A n : (Fresh(n)' = Fresh(n)) /\ (Newer(n) => Newer(n)')
  BY <1>1, <1>2 DEF Fresh, Newer
<1> QED  BY <1>1, <1>2, <1>3 DEF OrderInv

\* Whoever writes msg_ and however they share it, no message is sent torn, twice, or
\* after a later one.
THEOREM SentOrderCorrect == Spec => []SentWholeInOrder
<1>1. IInv /\ OrderInv /\ [Next]_vars => (IInv /\ OrderInv)'
  BY InvStep, ProducerOrder, WritesOrder, LoopOrder, OwnerOrder DEF Next
<1>2. IInv /\ OrderInv => SentWholeInOrder
  BY DEF IInv, OrderInv, SentWholeInOrder
<1> QED  BY InitInv, OrderInit, <1>1, <1>2, PTL DEF Spec

-----------------------------------------------------------------------------
(***************************************************************************)
(* The destructor: when it waits, no producer has the lock, and the thread   *)
(* it waits for only goes towards its end.                                  *)
(***************************************************************************)
\* mutex_ is held by a thread that is between its lock and its unlock.
HolderInv ==
    /\ \A p \in Producers : holder = p => prodPc[p] \in ProdHolds
    /\ holder = "loop" => loopPc \in LoopHolds

DestroyInv ==
    /\ owner # "alive" => \A p \in Producers : prodPc[p] = "idle"
    /\ owner \in {"stopped", "joining", "destroyed"} => ~keep_running_

LEMMA DestroyInit == Init => HolderInv /\ DestroyInv
BY PublisherAssumption DEF Init, HolderInv, DestroyInv

LEMMA HolderStep ==
    ASSUME IInv, HolderInv, [Next]_vars
    PROVE  HolderInv'
<1> USE PublisherAssumption DEF HolderInv
<1>1. CASE UNCHANGED vars \/ Owner
  <2>1. UNCHANGED <<holder, prodPc, loopPc>>
    BY <1>1 DEF vars, Owner, Stop, DestroyDerived, DestructorStops, DestructorSeesEnd,
                DestructorJoins, OwnerUnchanged
  <2> QED  BY <2>1
<1>2. ASSUME NEW p \in Producers, Producer(p) PROVE HolderInv'
  <2>1. /\ \A q \in Producers \ {p} : prodPc'[q] = prodPc[q]
        /\ UNCHANGED loopPc
    BY <1>2 DEF IInv, TypeOK, Producer, TryLock, TryLockSucceeds, TryLockFails, Lock,
                WriteLo, WriteHi, SetTurn, UnlockPublished, UnlockOnly, ProdGoes
  <2>2. \/ holder' = Nobody
        \/ holder' \in {p, holder} /\ prodPc'[p] \in ProdHolds
    BY <1>2 DEF IInv, TypeOK, ProdHolds, Producer, TryLock, TryLockSucceeds, TryLockFails, Lock,
                WriteLo, WriteHi, SetTurn, UnlockPublished, UnlockOnly, ProdGoes
  <2> QED  BY <2>1, <2>2
<1>3. ASSUME Loop PROVE HolderInv'
  <2>1. UNCHANGED prodPc
    BY <1>3 DEF Loop, LoopStarts, LoopSetsTurn, LoopWhile, LoopLocks, LoopPollsAgain,
                LoopProceeds, LoopPreCommunication, LoopCopiesLo, LoopCopiesHi,
                LoopResetsTurn, LoopUnlocks, LoopChecksKeep, LoopWrites, LoopEnds, LoopGoes
  <2>2. \/ holder' = Nobody
        \/ holder' \in {"loop", holder} /\ loopPc' \in LoopHolds
        \/ holder' = holder /\ loopPc \notin LoopHolds
    BY <1>3 DEF LoopHolds, Loop, LoopStarts, LoopSetsTurn, LoopWhile, LoopLocks, LoopPollsAgain,
                LoopProceeds, LoopPreCommunication, LoopCopiesLo, LoopCopiesHi,
                LoopResetsTurn, LoopUnlocks, LoopChecksKeep, LoopWrites, LoopEnds, LoopGoes
  <2> QED  BY <2>1, <2>2
<1> QED  BY <1>1, <1>2, <1>3 DEF Next

LEMMA DestroyStep ==
    ASSUME IInv, DestroyInv, [Next]_vars
    PROVE  DestroyInv'
<1>1. CASE UNCHANGED vars \/ Loop
  <2>1. UNCHANGED <<keep_running_, owner, prodPc>>
    BY <1>1 DEF vars, Loop, LoopStarts, LoopSetsTurn, LoopWhile, LoopLocks, LoopPollsAgain,
                LoopProceeds, LoopPreCommunication, LoopCopiesLo, LoopCopiesHi,
                LoopResetsTurn, LoopUnlocks, LoopChecksKeep, LoopWrites, LoopEnds, LoopGoes
  <2> QED  BY <2>1 DEF DestroyInv
<1>2. ASSUME NEW p \in Producers, Producer(p) PROVE DestroyInv'
  <2>1. UNCHANGED <<keep_running_, owner>> /\ owner = "alive"
    BY <1>2 DEF DestroyInv, Producer, TryLock, TryLockSucceeds, TryLockFails, Lock, Begins,
                WriteLo, WriteHi, SetTurn, UnlockPublished, UnlockOnly, ProdGoes
  <2> QED  BY <2>1 DEF DestroyInv
<1>3. CASE Owner
  BY <1>3 DEF DestroyInv, Owner, Stop, DestroyDerived, DestructorStops, DestructorSeesEnd,
              DestructorJoins, OwnerUnchanged
<1> QED  BY <1>1, <1>2, <1>3 DEF Next

\* Each step of the publishing thread, once it has been stopped.
LEMMA LoopGoesOn ==
    ASSUME ~keep_running_, Loop
    PROVE  loopWay[loopPc'] < loopWay[loopPc]
<1>1. \/ loopPc = "start" /\ loopPc' = "setTurn"
      \/ loopPc \in {"setTurn", "checkKeep", "write"} /\ loopPc' = "while"
      \/ loopPc = "lock" /\ loopPc' = "poll"
      \/ loopPc = "poll" /\ loopPc' = "pre"
      \/ loopPc = "pre" /\ loopPc' = "copyLo"
      \/ loopPc = "copyLo" /\ loopPc' = "copyHi"
      \/ loopPc = "copyHi" /\ loopPc' = "resetTurn"
      \/ loopPc = "resetTurn" /\ loopPc' = "unlock"
      \/ loopPc = "unlock" /\ loopPc' = "checkKeep"
      \/ loopPc = "while" /\ loopPc' = "end"
      \/ loopPc = "end" /\ loopPc' = "exited"
  BY DEF Loop, LoopStarts, LoopSetsTurn, LoopWhile, LoopLocks, LoopPollsAgain, LoopProceeds,
         LoopPreCommunication, LoopCopiesLo, LoopCopiesHi, LoopResetsTurn, LoopUnlocks,
         LoopChecksKeep, LoopWrites, LoopEnds, LoopGoes
<1>2. /\ loopWay["start"] = 4 /\ loopWay["setTurn"] = 3 /\ loopWay["lock"] = 11
      /\ loopWay["poll"] = 10 /\ loopWay["pre"] = 9 /\ loopWay["copyLo"] = 8
      /\ loopWay["copyHi"] = 7 /\ loopWay["resetTurn"] = 6 /\ loopWay["unlock"] = 5
      /\ loopWay["checkKeep"] = 4 /\ loopWay["write"] = 3 /\ loopWay["while"] = 2
      /\ loopWay["end"] = 1 /\ loopWay["exited"] = 0
  BY DEF loopWay, LoopPcs
<1> QED  BY <1>1, <1>2

\* From its first wait on the destructor waits for a thread that can take its next step,
\* the lock included, and has eleven of them at most to its end.
THEOREM DestructorGoesOnCorrect == Spec => DestructorGoesOn
<1>1. IInv /\ HolderInv /\ DestroyInv /\ [Next]_vars => (IInv /\ HolderInv /\ DestroyInv)'
  BY InvStep, HolderStep, DestroyStep
<1>2. ASSUME IInv, HolderInv, DestroyInv, Next, owner \notin {"alive", "derivedGone"}
      PROVE  /\ loopPc = "lock" => holder = Nobody
             /\ loopPc' # loopPc => loopWay[loopPc'] < loopWay[loopPc]
  <2>1. ~keep_running_ /\ \A p \in Producers : prodPc[p] = "idle"
    BY <1>2 DEF DestroyInv, IInv, TypeOK, OwnerPcs
  <2>2. loopPc = "lock" => holder = Nobody
    BY <1>2, <2>1 DEF HolderInv, IInv, TypeOK, ProdHolds, LoopHolds
  <2>3. loopPc' # loopPc => Loop
    BY <1>2 DEF Next, Producer, TryLock, TryLockSucceeds, TryLockFails, Lock, WriteLo, WriteHi,
                SetTurn, UnlockPublished, UnlockOnly, ProdGoes, Owner, Stop, DestroyDerived,
                DestructorStops, DestructorSeesEnd, DestructorJoins, OwnerUnchanged
  <2> QED  BY <2>1, <2>2, <2>3, LoopGoesOn
<1>3. IInv /\ HolderInv /\ DestroyInv /\ [Next]_vars =>
        [owner = "alive" \/ owner = "derivedGone" \/
            /\ loopPc = "lock" => holder = Nobody
            /\ loopPc' # loopPc => loopWay[loopPc'] < loopWay[loopPc]]_vars
  BY <1>2
<1> QED  BY InitInv, DestroyInit, <1>1, <1>3, PTL DEF Spec, DestructorGoesOn
=============================================================================
