------------------------------- MODULE G1Node -------------------------------
(***************************************************************************)
(* source/g1_node/main.cpp: one process that receives commands on a UDP     *)
(* port and drives the robot's locomotion, arm and speech services.         *)
(*                                                                          *)
(*   main    receives one datagram after the other: MOVE is carried out at  *)
(*           once by loco.SetVelocity, ARM and TTS are pushed to a Worker   *)
(*   Worker  a queue and a thread that runs a slow handler on each item     *)
(*                                                                          *)
(* A datagram is a kind and its rank in the order of arrival.               *)
(***************************************************************************)
EXTENDS Integers, Sequences, SequencesExt

CONSTANTS
    SocketSize,   \* datagrams the socket's receive buffer holds
    MaxDatagrams  \* bound: datagrams that arrive in a behaviour

ASSUME NodeAssumption == SocketSize \in Nat \ {0} /\ MaxDatagrams \in Nat

(***************************************************************************)
(* "BAD" stands for every datagram that main drops after looking at it: an  *)
(* unknown type, a wrong size, an empty text, a MOVE whose distance is      *)
(* below the minimum.                                                       *)
(***************************************************************************)
Workers == {"ARM", "TTS"}
Kinds   == Workers \cup {"MOVE", "BAD"}

VARIABLES
    mainPc,   \* see MainPcs
    socket,   \* the datagrams received by the system, not by main
    arrived,  \* number of datagrams that have arrived
    accepted, \* history: per worker, the ranks of its datagrams that found room
    q_,       \* per worker, its queue
    stop_,    \* per worker
    workerPc, \* per worker, see WorkerPcs
    handled   \* history: per worker, the ranks its handler was called with

workerVars == <<q_, stop_, workerPc, handled>>
arrivalVars == <<arrived, accepted>>
vars == <<mainPc, socket, arrivalVars, workerVars>>

\* "unwindTts", "unwindArm": main returns and destroys the workers, the last one
\* constructed first; "join..." is thread_.join() in the destructor.
MainPcs == {"bind", "recv", "moving", "notifyARM", "notifyTTS", "unwindTTS", "joinTTS",
            "unwindARM", "joinARM", "exited"}
notify == [ARM |-> "notifyARM", TTS |-> "notifyTTS"]
unwind == [ARM |-> "unwindARM", TTS |-> "unwindTTS"]
join   == [ARM |-> "joinARM", TTS |-> "joinTTS"]

WorkerPcs == {"check", "waiting", "handler", "exited"}

TypeOK ==
    /\ mainPc \in MainPcs /\ arrived \in 0..MaxDatagrams
    /\ socket \in Seq([kind : Kinds, rank : 1..arrived]) /\ Len(socket) <= SocketSize
    /\ q_ \in [Workers -> Seq(1..arrived)] /\ stop_ \in [Workers -> BOOLEAN]
    /\ workerPc \in [Workers -> WorkerPcs]
    /\ accepted \in [Workers -> SUBSET (1..arrived)]
    /\ handled \in [Workers -> Seq(1..arrived)]

Init ==
    /\ mainPc = "bind" /\ socket = <<>> /\ arrived = 0
    /\ q_ = [w \in Workers |-> <<>>] /\ stop_ = [w \in Workers |-> FALSE]
    /\ workerPc = [w \in Workers |-> "check"]
    /\ accepted = [w \in Workers |-> {}] /\ handled = [w \in Workers |-> <<>>]

-----------------------------------------------------------------------------
(* The worker thread.                                                       *)

WorkerUnchanged == UNCHANGED <<mainPc, socket, arrivalVars, stop_>>

WorkerTakes_Last(w) ==   \* mutation: the queue is used as a stack
    /\ workerPc[w] = "check" /\ q_[w] # <<>>
    /\ handled' = [handled EXCEPT ![w] = Append(@, Last(q_[w]))]
    /\ q_' = [q_ EXCEPT ![w] = Front(@)]
    /\ workerPc' = [workerPc EXCEPT ![w] = "handler"]
    /\ WorkerUnchanged

\* Under the lock: the front item is popped, stop_ or not; the handler follows.
WorkerTakes(w) ==
    /\ workerPc[w] = "check" /\ q_[w] # <<>>
    /\ handled' = [handled EXCEPT ![w] = Append(@, Head(q_[w]))]
    /\ q_' = [q_ EXCEPT ![w] = Tail(@)]
    /\ workerPc' = [workerPc EXCEPT ![w] = "handler"]
    /\ WorkerUnchanged

WorkerWaits(w) ==
    /\ workerPc[w] = "check" /\ q_[w] = <<>> /\ ~stop_[w]
    /\ workerPc' = [workerPc EXCEPT ![w] = "waiting"]
    /\ WorkerUnchanged /\ UNCHANGED <<q_, handled>>

WorkerQuits(w) ==
    /\ workerPc[w] = "check" /\ q_[w] = <<>> /\ stop_[w]
    /\ workerPc' = [workerPc EXCEPT ![w] = "exited"]
    /\ WorkerUnchanged /\ UNCHANGED <<q_, handled>>

HandlerReturns(w) ==
    /\ workerPc[w] = "handler"
    /\ workerPc' = [workerPc EXCEPT ![w] = "check"]
    /\ WorkerUnchanged /\ UNCHANGED <<q_, handled>>

SpuriousWakeup(w) ==
    /\ workerPc[w] = "waiting"
    /\ workerPc' = [workerPc EXCEPT ![w] = "check"]
    /\ WorkerUnchanged /\ UNCHANGED <<q_, handled>>

Worker(w) == WorkerTakes(w) \/ WorkerWaits(w) \/ WorkerQuits(w) \/ HandlerReturns(w)

-----------------------------------------------------------------------------
(* main                                                                     *)

MainGoes(from, to) == mainPc = from /\ mainPc' = to

BindSucceeds ==
    /\ MainGoes("bind", "recv")
    /\ UNCHANGED <<socket, arrivalVars, workerVars>>

\* return 1 with the workers already running.
BindFails ==
    /\ MainGoes("bind", "unwindTTS")
    /\ UNCHANGED <<socket, arrivalVars, workerVars>>

\* The system: a datagram that finds the buffer full is dropped.
DatagramArrives ==
    /\ mainPc \in {"recv", "moving", "notifyARM", "notifyTTS"} /\ arrived < MaxDatagrams
    /\ arrived' = arrived + 1
    /\ \E kind \in Kinds :
          \/ /\ Len(socket) < SocketSize
             /\ socket' = Append(socket, [kind |-> kind, rank |-> arrived + 1])
             /\ accepted' = [w \in Workers |->
                   IF w = kind THEN accepted[w] \cup {arrived + 1} ELSE accepted[w]]
          \/ Len(socket) = SocketSize /\ UNCHANGED <<socket, accepted>>
    /\ UNCHANGED <<mainPc, workerVars>>

ReceivesBad ==
    /\ MainGoes("recv", "recv")
    /\ socket # <<>> /\ Head(socket).kind = "BAD"
    /\ socket' = Tail(socket)
    /\ UNCHANGED <<arrivalVars, workerVars>>

\* loco.SetVelocity: a request to the robot and the wait for its reply.
ReceivesMove ==
    /\ MainGoes("recv", "moving")
    /\ socket # <<>> /\ Head(socket).kind = "MOVE"
    /\ socket' = Tail(socket)
    /\ UNCHANGED <<arrivalVars, workerVars>>

\* The reply comes, or the client's timeout (10 s) ends the wait.
MoveReturns ==
    /\ MainGoes("moving", "recv")
    /\ UNCHANGED <<socket, arrivalVars, workerVars>>

\* Worker::push: under the lock the item is queued ...
ReceivesSlow(w) ==
    /\ MainGoes("recv", notify[w])
    /\ socket # <<>> /\ Head(socket).kind = w
    /\ socket' = Tail(socket)
    /\ q_' = [q_ EXCEPT ![w] = Append(@, Head(socket).rank)]
    /\ UNCHANGED <<arrivalVars, stop_, workerPc, handled>>

Notifies_IfMore(w) ==   \* mutation: the size tested for "was empty" is read after the push
    /\ MainGoes(notify[w], "recv")
    /\ workerPc' = IF workerPc[w] = "waiting" /\ Len(q_[w]) # 1
                   THEN [workerPc EXCEPT ![w] = "check"] ELSE workerPc
    /\ UNCHANGED <<socket, arrivalVars, q_, stop_, handled>>

\* ... and without the lock the worker is notified.
Notifies(w) ==
    /\ MainGoes(notify[w], "recv")
    /\ workerPc' = IF workerPc[w] = "waiting" THEN [workerPc EXCEPT ![w] = "check"] ELSE workerPc
    /\ UNCHANGED <<socket, arrivalVars, q_, stop_, handled>>

Stops_Unnotified(w) ==   \* mutation: stop_ is set, the worker is not notified
    /\ MainGoes(unwind[w], join[w])
    /\ stop_' = [stop_ EXCEPT ![w] = TRUE]
    /\ UNCHANGED <<socket, arrivalVars, q_, workerPc, handled>>

\* ~Worker: stop_ under the lock, then notify_all.  Nobody looks at the worker
\* between the two, so they are one step here.
Stops(w) ==
    /\ MainGoes(unwind[w], join[w])
    /\ stop_' = [stop_ EXCEPT ![w] = TRUE]
    /\ workerPc' = IF workerPc[w] = "waiting" THEN [workerPc EXCEPT ![w] = "check"] ELSE workerPc
    /\ UNCHANGED <<socket, arrivalVars, q_, handled>>

Joins(w) ==
    /\ workerPc[w] = "exited"
    /\ MainGoes(join[w], IF w = "TTS" THEN "unwindARM" ELSE "exited")
    /\ UNCHANGED <<socket, arrivalVars, workerVars>>

Main ==
    \/ BindSucceeds \/ BindFails \/ ReceivesBad \/ ReceivesMove \/ MoveReturns
    \/ \E w \in Workers : ReceivesSlow(w) \/ Notifies(w) \/ Stops(w) \/ Joins(w)

Next == Main \/ DatagramArrives \/ \E w \in Workers : Worker(w) \/ SpuriousWakeup(w)

Spec == Init /\ [][Next]_vars

\* Threads are scheduled; SetVelocity and the handlers end, by a reply or by
\* their clients' timeouts.
FairSpec == Spec /\ WF_vars(Main) /\ \A w \in Workers : WF_vars(Worker(w))
-----------------------------------------------------------------------------
\* The items a worker has been given: those its handler was called with, then
\* those that wait.
Items(w) == handled[w] \o q_[w]

Waiting(w) == {socket[i].rank : i \in {i \in DOMAIN socket : socket[i].kind = w}}

\* "Carried out in the order received": a worker is given its datagrams in the order
\* of their arrival and its handler called in that order, none is given twice, and
\* each one the socket had room for has been given or still waits in the socket.
HandledInOrder ==
    \A w \in Workers :
        /\ \A i, j \in DOMAIN Items(w) : i < j => Items(w)[i] < Items(w)[j]
        /\ accepted[w] = Range(Items(w)) \cup Waiting(w)

\* A worker never sleeps over an item or over the end: when it waits while its queue
\* holds an item or stop_ is set, main is about to notify it.
NoSleepOverWork ==
    \A w \in Workers :
        workerPc[w] = "waiting" /\ (q_[w] # <<>> \/ stop_[w]) => mainPc = notify[w]

\* Every ARM and TTS datagram the socket had room for is handled in the end.
AcceptedIsHandled ==
    \A n \in 1..MaxDatagrams, w \in Workers : n \in accepted[w] ~> n \in Range(handled[w])

\* When the port cannot be bound the process ends, although the workers run.
FailedBindEnds == mainPc = "unwindTTS" ~> mainPc = "exited"
=============================================================================
