-------------------------- MODULE RealTimePublisher -------------------------
(***************************************************************************)
(* RealTimePublisher<MessageType>: producers write msg_ and hand it over    *)
(* with unlockAndPublish(); the thread started by the constructor waits for *)
(* its turn, copies msg_ and sends the copy.  mutex_ protects msg_, turn_   *)
(* says whose turn it is.                                                   *)
(*                                                                          *)
(* A message is written and copied in two halves, so that a copy taken      *)
(* while somebody writes can be told from a whole message; each half holds  *)
(* the number of the message it belongs to.  crc is the pair of halves that *)
(* pre_communication() last computed the checksum of.                       *)
(***************************************************************************)
EXTENDS Integers, Sequences, FiniteSets

CONSTANTS
    Producers,   \* the threads that write msg_
    Discipline,  \* how each of them gets at msg_: see Disciplines
    MayDestroy,  \* whether the publisher is destroyed in the behaviours considered
    Nobody,      \* mutex_ is free
    MaxMessages  \* bound: messages written in a behaviour

\* The two documented ways.
Disciplines == {"trylock", "lock"}

ASSUME PublisherAssumption ==
    /\ IsFiniteSet(Producers) /\ "loop" \notin Producers
    /\ Nobody \notin Producers \cup {"loop"}
    /\ Discipline \in [Producers -> Disciplines]
    /\ MayDestroy \in BOOLEAN /\ MaxMessages \in Nat

VARIABLES
    turn_, keep_running_, is_running_,
    holder,     \* the thread that has locked mutex_, or Nobody
    msg_,       \* [lo, hi, crc]
    loopPc,     \* the publishing thread: see LoopPcs
    outgoing,   \* its copy
    prodPc,     \* the producers: see ProdPcs
    owner,      \* the thread that destroys the object: see OwnerPcs
    written,    \* number of the last message begun
    submitted,  \* history: messages given to unlockAndPublish
    sent        \* history: what publisher_->Write has been called with

vars == <<turn_, keep_running_, is_running_, holder, msg_, loopPc, outgoing, prodPc,
          owner, written, submitted, sent>>

LoopPcs == {"start", "setTurn", "while", "lock", "poll", "pre", "copyLo", "copyHi",
            "resetTurn", "unlock", "checkKeep", "write", "end", "exited"}
ProdPcs == {"idle", "check", "writeLo", "writeHi", "decide", "unlock"}
OwnerPcs == {"alive", "derivedGone", "stopped", "joining", "destroyed"}

NoCrc == <<-1, -1>>
Message == [lo : Nat, hi : Nat, crc : (Nat \X Nat) \cup {NoCrc}]

TypeOK ==
    /\ turn_ \in {"REALTIME", "NON_REALTIME", "LOOP_NOT_STARTED"}
    /\ turn_ = "LOOP_NOT_STARTED" => loopPc \in {"start", "setTurn"}
    /\ keep_running_ \in BOOLEAN /\ is_running_ \in BOOLEAN
    /\ holder \in Producers \cup {"loop", Nobody}
    /\ msg_ \in Message /\ outgoing \in Message
    /\ loopPc \in LoopPcs /\ prodPc \in [Producers -> ProdPcs] /\ owner \in OwnerPcs
    /\ written \in Nat /\ submitted \subseteq Nat
    /\ sent \in Seq(Message)

Init ==
    /\ turn_ = "LOOP_NOT_STARTED" /\ keep_running_ = TRUE /\ is_running_ = FALSE
    /\ holder = Nobody
    /\ msg_ = [lo |-> 0, hi |-> 0, crc |-> NoCrc] /\ outgoing = msg_
    /\ loopPc = "start" /\ prodPc = [p \in Producers |-> "idle"] /\ owner = "alive"
    /\ written = 0 /\ submitted = {} /\ sent = <<>>

-----------------------------------------------------------------------------
(* The producers.                                                          *)

ProdGoes(p, from, to) ==
    /\ prodPc[p] = from
    /\ prodPc' = [prodPc EXCEPT ![p] = to]
    /\ UNCHANGED <<keep_running_, is_running_, loopPc, outgoing, owner, sent>>

\* A producer begins only while the object is alive.  The bound counts the
\* producers that have begun and not yet written.
Begins(p, how) ==
    /\ owner = "alive" /\ Discipline[p] = how
    /\ written + Cardinality({q \in Producers : prodPc[q] \in {"check", "writeLo"}})
          < MaxMessages

\* trylock(): mutex_.try_lock() and, under the lock, the test of turn_.
TryLock(p) ==
    /\ Begins(p, "trylock") /\ ProdGoes(p, "idle", "check")
    /\ holder = Nobody /\ holder' = p
    /\ UNCHANGED <<turn_, msg_, written, submitted>>

TryLockSucceeds_NotBusy(p) ==   \* mutation: the test of turn_ is written the other way round
    /\ ProdGoes(p, "check", "writeLo")
    /\ turn_ # "NON_REALTIME"
    /\ UNCHANGED <<turn_, holder, msg_, written, submitted>>

TryLockSucceeds(p) ==
    /\ ProdGoes(p, "check", "writeLo")
    /\ turn_ = "REALTIME"
    /\ UNCHANGED <<turn_, holder, msg_, written, submitted>>

TryLockFails_KeepsLock(p) ==   \* mutation: return false without mutex_.unlock()
    /\ ProdGoes(p, "check", "idle")
    /\ turn_ # "REALTIME"
    /\ UNCHANGED <<turn_, holder, msg_, written, submitted>>

TryLockFails(p) ==
    /\ ProdGoes(p, "check", "idle")
    /\ turn_ # "REALTIME"
    /\ holder' = Nobody
    /\ UNCHANGED <<turn_, msg_, written, submitted>>

\* lock(): polls try_lock until it succeeds, whoever's turn it is.
Lock(p) ==
    /\ Begins(p, "lock") /\ ProdGoes(p, "idle", "writeLo")
    /\ holder = Nobody /\ holder' = p
    /\ UNCHANGED <<turn_, msg_, written, submitted>>

\* The producer's assignments to msg_.
WriteLo(p) ==
    /\ ProdGoes(p, "writeLo", "writeHi")
    /\ written' = written + 1
    /\ msg_' = [msg_ EXCEPT !.lo = written + 1]
    /\ UNCHANGED <<turn_, holder, submitted>>

WriteHi(p) ==
    /\ ProdGoes(p, "writeHi", "decide")
    /\ msg_' = [msg_ EXCEPT !.hi = msg_.lo]
    /\ UNCHANGED <<turn_, holder, written, submitted>>

\* unlockAndPublish(): turn_ is set first, then the mutex is unlocked.
SetTurn(p) ==
    /\ ProdGoes(p, "decide", "unlock")
    /\ turn_' = "NON_REALTIME"
    /\ submitted' = submitted \cup {msg_.lo}
    /\ UNCHANGED <<holder, msg_, written>>

\* mutex_.unlock() of unlockAndPublish().
UnlockPublished(p) ==
    /\ ProdGoes(p, "unlock", "idle")
    /\ holder' = Nobody
    /\ UNCHANGED <<turn_, msg_, written, submitted>>

\* unlock(): without publishing.
UnlockOnly(p) ==
    /\ ProdGoes(p, "decide", "idle")
    /\ holder' = Nobody
    /\ UNCHANGED <<turn_, msg_, written, submitted>>

Producer(p) ==
    \/ TryLock(p) \/ TryLockSucceeds(p) \/ TryLockFails(p) \/ Lock(p)
    \/ WriteLo(p) \/ WriteHi(p) \/ SetTurn(p) \/ UnlockPublished(p) \/ UnlockOnly(p)

-----------------------------------------------------------------------------
(* The publishing thread: publishingLoop().                                *)

LoopGoes(from, to) ==
    /\ loopPc = from
    /\ loopPc' = to
    /\ UNCHANGED <<keep_running_, prodPc, owner, written, submitted>>

LoopStarts ==
    /\ LoopGoes("start", "setTurn")
    /\ is_running_' = TRUE
    /\ UNCHANGED <<turn_, holder, msg_, outgoing, sent>>

LoopSetsTurn ==
    /\ LoopGoes("setTurn", "while")
    /\ turn_' = "REALTIME"
    /\ UNCHANGED <<is_running_, holder, msg_, outgoing, sent>>

LoopWhile ==
    /\ LoopGoes("while", IF keep_running_ THEN "lock" ELSE "end")
    /\ UNCHANGED <<turn_, is_running_, holder, msg_, outgoing, sent>>

LoopLocks ==
    /\ LoopGoes("lock", "poll")
    /\ holder = Nobody /\ holder' = "loop"
    /\ UNCHANGED <<turn_, is_running_, msg_, outgoing, sent>>

LoopPollsAgain_IgnoresStop ==   \* mutation: keep_running_ is not part of the condition
    /\ LoopGoes("poll", "lock")
    /\ turn_ # "NON_REALTIME"
    /\ holder' = Nobody
    /\ UNCHANGED <<turn_, is_running_, msg_, outgoing, sent>>

\* Not its turn: unlock, sleep, lock again.
LoopPollsAgain ==
    /\ LoopGoes("poll", "lock")
    /\ turn_ # "NON_REALTIME" /\ keep_running_
    /\ holder' = Nobody
    /\ UNCHANGED <<turn_, is_running_, msg_, outgoing, sent>>

LoopProceeds_Unlocked ==   \* mutation: the lock is given back before the copy
    /\ LoopGoes("poll", "pre")
    /\ turn_ = "NON_REALTIME" \/ ~keep_running_
    /\ holder' = Nobody
    /\ UNCHANGED <<turn_, is_running_, msg_, outgoing, sent>>

LoopProceeds ==
    /\ LoopGoes("poll", "pre")
    /\ turn_ = "NON_REALTIME" \/ ~keep_running_
    /\ UNCHANGED <<turn_, is_running_, holder, msg_, outgoing, sent>>

\* pre_communication() is virtual.  The override, which computes the checksum,
\* belongs to the derived class; once that part of the object has been
\* destroyed the call reaches the empty function of the base class.
LoopPreCommunication ==
    /\ LoopGoes("pre", "copyLo")
    /\ msg_' = IF owner = "alive" THEN [msg_ EXCEPT !.crc = <<msg_.lo, msg_.hi>>] ELSE msg_
    /\ UNCHANGED <<turn_, is_running_, holder, outgoing, sent>>

\* outgoing = msg_
LoopCopiesLo ==
    /\ LoopGoes("copyLo", "copyHi")
    /\ outgoing' = [outgoing EXCEPT !.lo = msg_.lo]
    /\ UNCHANGED <<turn_, is_running_, holder, msg_, sent>>

LoopCopiesHi ==
    /\ LoopGoes("copyHi", "resetTurn")
    /\ outgoing' = [outgoing EXCEPT !.hi = msg_.hi, !.crc = msg_.crc]
    /\ UNCHANGED <<turn_, is_running_, holder, msg_, sent>>

LoopResetsTurn_Not ==   \* mutation: the turn is not given back
    /\ LoopGoes("resetTurn", "unlock")
    /\ UNCHANGED <<turn_, is_running_, holder, msg_, outgoing, sent>>

LoopResetsTurn ==
    /\ LoopGoes("resetTurn", "unlock")
    /\ turn_' = "REALTIME"
    /\ UNCHANGED <<is_running_, holder, msg_, outgoing, sent>>

LoopUnlocks ==
    /\ LoopGoes("unlock", "checkKeep")
    /\ holder' = Nobody
    /\ UNCHANGED <<turn_, is_running_, msg_, outgoing, sent>>

LoopChecksKeep ==
    /\ LoopGoes("checkKeep", IF keep_running_ THEN "write" ELSE "while")
    /\ UNCHANGED <<turn_, is_running_, holder, msg_, outgoing, sent>>

LoopWrites ==
    /\ LoopGoes("write", "while")
    /\ sent' = Append(sent, outgoing)
    /\ UNCHANGED <<turn_, is_running_, holder, msg_, outgoing>>

LoopEnds ==
    /\ LoopGoes("end", "exited")
    /\ is_running_' = FALSE
    /\ UNCHANGED <<turn_, holder, msg_, outgoing, sent>>

Loop ==
    \/ LoopStarts \/ LoopSetsTurn \/ LoopWhile \/ LoopLocks \/ LoopPollsAgain
    \/ LoopProceeds \/ LoopPreCommunication \/ LoopCopiesLo \/ LoopCopiesHi
    \/ LoopResetsTurn \/ LoopUnlocks \/ LoopChecksKeep \/ LoopWrites \/ LoopEnds

-----------------------------------------------------------------------------
(* The owner of the object.                                                *)

OwnerUnchanged ==
    UNCHANGED <<turn_, is_running_, holder, msg_, loopPc, outgoing, prodPc, written,
                submitted, sent>>

\* stop() is public.
Stop ==
    /\ owner = "alive" /\ keep_running_
    /\ keep_running_' = FALSE
    /\ UNCHANGED owner /\ OwnerUnchanged

\* The producers are done with the object; the derived part goes first.
DestroyDerived ==
    /\ MayDestroy /\ owner = "alive" /\ \A p \in Producers : prodPc[p] = "idle"
    /\ owner' = "derivedGone"
    /\ UNCHANGED keep_running_ /\ OwnerUnchanged

DestructorStops ==
    /\ owner = "derivedGone"
    /\ keep_running_' = FALSE /\ owner' = "stopped"
    /\ OwnerUnchanged

\* while (is_running()) sleep
DestructorSeesEnd ==
    /\ owner = "stopped" /\ ~is_running_
    /\ owner' = "joining"
    /\ UNCHANGED keep_running_ /\ OwnerUnchanged

DestructorJoins ==
    /\ owner = "joining" /\ loopPc = "exited"
    /\ owner' = "destroyed"
    /\ UNCHANGED keep_running_ /\ OwnerUnchanged

Owner == Stop \/ DestroyDerived \/ DestructorStops \/ DestructorSeesEnd \/ DestructorJoins

Next == Loop \/ Owner \/ \E p \in Producers : Producer(p)

Spec == Init /\ [][Next]_vars

(***************************************************************************)
(* Threads are scheduled.  lock() polls: a lock that is free again and      *)
(* again is found free at some poll (strong fairness).  A producer that has *)
(* the lock gives it back; nobody is obliged to write, stop or destroy.     *)
(***************************************************************************)
Fairness ==
    /\ WF_vars(Loop) /\ SF_vars(LoopLocks)
    /\ \A p \in Producers :
          WF_vars(Producer(p) /\ prodPc[p] # "idle")
    /\ WF_vars(DestructorStops) /\ WF_vars(DestructorSeesEnd) /\ WF_vars(DestructorJoins)

FairSpec == Spec /\ Fairness
-----------------------------------------------------------------------------
LoopHolds == {"poll", "pre", "copyLo", "copyHi", "resetTurn", "unlock"}
ProdHolds == {"check", "writeLo", "writeHi", "decide", "unlock"}

\* msg_ is only touched by the thread that holds mutex_: at every statement
\* between getting and giving back the lock, a producer, or the publishing thread,
\* is the holder.
HoldersOwnTheLock ==
    /\ loopPc \in LoopHolds => holder = "loop"
    /\ \A p \in Producers : prodPc[p] \in ProdHolds => holder = p

\* No message is sent with the halves of two messages.
SentUntorn == \A i \in DOMAIN sent : sent[i].lo = sent[i].hi

\* Nor is a message sent twice, or after a later one, whoever writes msg_ meanwhile.
SentWholeInOrder ==
    SentUntorn /\ \A i, j \in DOMAIN sent : i < j => sent[i].lo < sent[j].lo

\* A publisher that is destroyed may send one more message without its checksum,
\* the one that was waiting: pre_communication() of the derived class is gone.
OnlyTheLastLacksCrc ==
    \A i \in DOMAIN sent :
        owner = "alive" \/ i < Len(sent) => sent[i].crc = <<sent[i].lo, sent[i].hi>>

\* "Unlock the msg_ variable and publish it": the message, or a later one, is
\* sent, unless the publisher is stopped.
SubmittedIsSent ==
    \A n \in 1..MaxMessages :
        n \in submitted ~> (~keep_running_ \/ \E i \in DOMAIN sent : sent[i].lo >= n)

\* The destructor returns, wherever the publishing thread is when it is called,
\* also when it has not run yet.
DestructorReturns == owner = "derivedGone" ~> owner = "destroyed"

\* How far the publishing thread is from its end once it has been stopped.
loopWay == [pc \in LoopPcs |->
    CASE pc = "start" -> 4 [] pc = "setTurn" -> 3 [] pc = "lock" -> 11 [] pc = "poll" -> 10
      [] pc = "pre" -> 9 [] pc = "copyLo" -> 8 [] pc = "copyHi" -> 7 [] pc = "resetTurn" -> 6
      [] pc = "unlock" -> 5 [] pc = "checkKeep" -> 4 [] pc = "write" -> 3 [] pc = "while" -> 2
      [] pc = "end" -> 1 [] pc = "exited" -> 0]

\* Why the destructor returns: nobody has the lock the publishing thread wants, and
\* each of its steps is one towards its end.
DestructorGoesOn ==
    [][owner = "alive" \/ owner = "derivedGone" \/
          /\ loopPc = "lock" => holder = Nobody
          /\ loopPc' # loopPc => loopWay[loopPc'] < loopWay[loopPc]]_vars

\* Producers that use trylock see a mailbox with one place.
Numbers(messages) == [i \in DOMAIN messages |-> messages[i].lo]

InHand == \/ loopPc \in {"unlock", "checkKeep"} /\ keep_running_
          \/ loopPc = "write"

Box == INSTANCE Mailbox WITH
    Messages <- 1..MaxMessages,
    None     <- 0,
    slot     <- IF turn_ = "NON_REALTIME" THEN msg_.lo ELSE 0,
    inflight <- IF InHand THEN outgoing.lo ELSE 0,
    last     <- IF submitted = {} THEN 0
                ELSE CHOOSE n \in submitted : \A m \in submitted : m <= n,
    sent     <- Numbers(sent),
    open     <- keep_running_

ImplementsMailbox == Box!Spec
=============================================================================
