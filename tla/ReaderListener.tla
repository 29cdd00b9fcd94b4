--------------------------- MODULE ReaderListener ---------------------------
(***************************************************************************)
(* DdsReaderListener<MSG> inside a DdsReader<MSG>: from the DDS middleware  *)
(* handing over samples to the user's handler, and the destruction of the   *)
(* reader while both are going on.                                          *)
(*                                                                          *)
(*   dds     the middleware thread that runs on_data_available              *)
(*   worker  the "rlsnr" thread of SetQueue, which runs the handler         *)
(*   closer  the application thread that destroys the reader                *)
(*                                                                          *)
(* When SetQueue is given 0 there is neither queue nor worker: the handler   *)
(* runs on the dds thread.  The queue is an instance of BlockQueue.  A      *)
(* sample is represented by its rank in the order of arrival.               *)
(***************************************************************************)
EXTENDS Integers, Sequences, FiniteSets

CONSTANTS QueueLen,   \* argument of SetQueue, when it is not 0
          MaxSamples, \* bound: samples that arrive in a behaviour
          MaxBatch    \* bound: samples one take() returns

ASSUME ListenerAssumption ==
    /\ QueueLen \in Nat \ {0} /\ MaxSamples \in Nat /\ MaxBatch \in Nat \ {0}

worker == "worker"
Threads == {worker, "dds", "closer"}

VARIABLES
    mQueue, mCurSize, phase, puts, front, delivered, evicted, rejected,
    falsePuts,   \* the BlockQueue and its history
    mHasQueue,   \* set once, by SetQueue
    mQuit,
    workerPc,    \* see WorkerPcs
    closerPc,    \* see CloserPcs
    batch,       \* samples on_data_available has taken and not passed on yet
    current,     \* sample the handler is running on; 0 when it is not running
    arrived,     \* history: rank of the last sample passed on
    handled,     \* history: the samples the handler has been called with, in order
    atQuit       \* history: Len(handled) when mQuit was set

queueVars == <<mQueue, mCurSize, phase, puts, front, delivered, evicted, rejected,
               falsePuts>>
vars == <<queueVars, mHasQueue, mQuit, workerPc, closerPc, batch, current, arrived, handled, atQuit>>

Queue == INSTANCE BlockQueue WITH MaxSize <- QueueLen, UT_QUEUE_MAX_LEN <- MaxSamples + 1,
                                  MaxPuts <- MaxSamples

WorkerPcs == {"none", "checkQuit", "callGet", "inGet", "handler", "exited"}
CloserPcs == {"open", "setQuit", "interrupt", "join", "closed"}

TypeOK ==
    /\ mHasQueue \in BOOLEAN /\ mQuit \in BOOLEAN /\ workerPc \in WorkerPcs /\ closerPc \in CloserPcs
    /\ batch \in 0..MaxBatch /\ arrived \in 0..MaxSamples /\ current \in 0..arrived
    /\ handled \in Seq(1..arrived) /\ atQuit \in 0..MaxSamples
    /\ Queue!TypeOK

(***************************************************************************)
(* The state after SetListener: the handler is set first, so the worker's   *)
(* loop that polls for a handler ends at once.  SetQueue creates queue and   *)
(* worker only for a positive length.                                       *)
(***************************************************************************)
Init ==
    /\ Queue!Init
    /\ mHasQueue \in BOOLEAN /\ mQuit = FALSE
    /\ workerPc = IF mHasQueue THEN "checkQuit" ELSE "none"
    /\ closerPc = "open"
    /\ batch = 0 /\ current = 0 /\ arrived = 0 /\ handled = <<>> /\ atQuit = 0

-----------------------------------------------------------------------------
(* The dds thread: on_data_available.                                      *)

InDataAvailable == batch > 0 \/ (~mHasQueue /\ current # 0)

\* take() returns up to MaxBatch samples.
TakeSamples ==
    /\ closerPc = "open" /\ ~InDataAvailable
    /\ batch' \in 1..MaxBatch /\ arrived + batch' <= MaxSamples
    /\ UNCHANGED <<queueVars, mHasQueue, mQuit, workerPc, closerPc, current, arrived, handled, atQuit>>

StartHandler(sample) ==
    /\ current' = sample
    /\ handled' = Append(handled, sample)

PassOnBy(put) ==
    /\ batch > 0
    /\ batch' = batch - 1 /\ arrived' = arrived + 1
    /\ \/ mHasQueue /\ put /\ UNCHANGED <<current, handled>>
       \/ ~mHasQueue /\ current = 0 /\ StartHandler(arrived + 1) /\ UNCHANGED queueVars
    /\ UNCHANGED <<mHasQueue, mQuit, workerPc, closerPc, atQuit>>

PassOn_NoReplace == PassOnBy(Queue!Put(FALSE, FALSE))   \* mutation: Put without replace

\* One sample of the loop: into the queue, where it may evict the oldest, or
\* straight to the handler.
PassOn == PassOnBy(Queue!Put(TRUE, FALSE))

DirectHandlerReturns ==
    /\ ~mHasQueue /\ current # 0
    /\ current' = 0
    /\ UNCHANGED <<queueVars, mHasQueue, mQuit, workerPc, closerPc, batch, arrived, handled, atQuit>>

-----------------------------------------------------------------------------
(* The worker: while (!mQuit) { if (Get(dataPtr)) handler(dataPtr) }       *)

WorkerUnchanged == UNCHANGED <<mHasQueue, mQuit, closerPc, batch, arrived, atQuit>>

WorkerChecksQuit_DrainsFirst ==   \* mutation: leave only when the queue is empty
    /\ workerPc = "checkQuit"
    /\ workerPc' = IF mQuit /\ mQueue = <<>> THEN "exited" ELSE "callGet"
    /\ WorkerUnchanged /\ UNCHANGED <<queueVars, current, handled>>

WorkerChecksQuit ==
    /\ workerPc = "checkQuit"
    /\ workerPc' = IF mQuit THEN "exited" ELSE "callGet"
    /\ WorkerUnchanged /\ UNCHANGED <<queueVars, current, handled>>

\* What follows a Get that returned: the handler runs if there was a sample.
AfterGet ==
    IF Len(delivered') > Len(delivered)
    THEN workerPc' = "handler" /\ StartHandler(delivered'[Len(delivered')])
    ELSE workerPc' = "checkQuit" /\ UNCHANGED <<current, handled>>

\* Get without a timeout: it returns a sample at once, or waits.
WorkerCallsGet ==
    /\ workerPc = "callGet"
    /\ Queue!Get(worker, FALSE)
    /\ IF phase'[worker] = "idle" THEN AfterGet
       ELSE workerPc' = "inGet" /\ UNCHANGED <<current, handled>>
    /\ WorkerUnchanged

WorkerReturnsFromGet ==
    /\ workerPc = "inGet"
    /\ Queue!GetWoken(worker)
    /\ AfterGet
    /\ WorkerUnchanged

WorkerHandlerReturns ==
    /\ workerPc = "handler"
    /\ workerPc' = "checkQuit" /\ current' = 0
    /\ WorkerUnchanged /\ UNCHANGED <<queueVars, handled>>

SpuriousWakeup ==
    /\ Queue!SpuriousWakeup(worker)
    /\ WorkerUnchanged /\ UNCHANGED <<workerPc, current, handled>>

-----------------------------------------------------------------------------
(* The closer: ~DdsReader, then ~DdsReaderListener.                        *)

CloserUnchanged == UNCHANGED <<mHasQueue, workerPc, batch, current, arrived, handled>>

\* mNative = null: the middleware waits until on_data_available is not running,
\* and does not call it any more.
\* The listener's destructor has nothing to stop when there is no queue.
CloserDetaches ==
    /\ closerPc = "open" /\ ~InDataAvailable
    /\ closerPc' = IF mHasQueue THEN "setQuit" ELSE "closed"
    /\ CloserUnchanged /\ UNCHANGED <<queueVars, mQuit, atQuit>>

CloserSetsQuit ==
    /\ closerPc = "setQuit"
    /\ mQuit' = TRUE /\ atQuit' = Len(handled)
    /\ closerPc' = "interrupt"
    /\ CloserUnchanged /\ UNCHANGED queueVars

CloserInterrupts_Not ==   \* mutation: mQuit is set, nobody is woken
    /\ closerPc = "interrupt"
    /\ closerPc' = "join"
    /\ CloserUnchanged /\ UNCHANGED <<queueVars, mQuit, atQuit>>

\* Interrupt(false) does nothing when the worker is not blocked.
CloserInterrupts ==
    /\ closerPc = "interrupt"
    /\ closerPc' = "join"
    /\ \/ Queue!Interrupt(FALSE)
       \/ Queue!Blocked = {} /\ UNCHANGED queueVars
    /\ CloserUnchanged /\ UNCHANGED <<mQuit, atQuit>>

CloserJoins_Not ==   \* mutation: the destructor does not wait for the worker
    /\ closerPc = "join"
    /\ closerPc' = "closed"
    /\ CloserUnchanged /\ UNCHANGED <<queueVars, mQuit, atQuit>>

\* mDataQueueThreadPtr->Wait() has no timeout.
CloserJoins ==
    /\ closerPc = "join" /\ workerPc = "exited"
    /\ closerPc' = "closed"
    /\ CloserUnchanged /\ UNCHANGED <<queueVars, mQuit, atQuit>>

DdsThread    == TakeSamples \/ PassOn \/ DirectHandlerReturns
WorkerThread == \/ WorkerChecksQuit \/ WorkerCallsGet \/ WorkerReturnsFromGet
                \/ WorkerHandlerReturns
CloserThread == CloserDetaches \/ CloserSetsQuit \/ CloserInterrupts \/ CloserJoins

Next == DdsThread \/ WorkerThread \/ SpuriousWakeup \/ CloserThread

Spec == Init /\ [][Next]_vars

\* Threads are scheduled and handlers return.  Nothing obliges samples to
\* arrive, the application to close, or the system to wake a waiter for nothing.
Fairness ==
    /\ WF_vars(PassOn) /\ WF_vars(DirectHandlerReturns)
    /\ WF_vars(WorkerThread)
    /\ WF_vars(CloserSetsQuit) /\ WF_vars(CloserInterrupts) /\ WF_vars(CloserJoins)

FairSpec == Spec /\ Fairness
-----------------------------------------------------------------------------
\* The handler is called in the order of arrival and at most once per sample,
\* whatever the queue evicts in between.
HandledInOrder == \A i, j \in DOMAIN handled : i < j => handled[i] < handled[j]

\* The handler gets every sample the middleware has handed over, or a newer one,
\* unless the reader is closed.
NewestIsHandled ==
    \A n \in 1..MaxSamples :
        (arrived + batch = n) ~>
            (closerPc # "open" \/ (handled # <<>> /\ handled[Len(handled)] >= n))

\* Once mQuit is set the handler is called for one more sample at most, the one
\* of a Get that had already begun; what else is queued is dropped.
AtMostOneAfterQuit == mQuit => Len(handled) <= atQuit + 1

\* When the destructor returns, nothing runs on the listener any more: no
\* handler, no on_data_available, no worker.
NothingRunsAfterClose ==
    closerPc = "closed" => /\ current = 0 /\ batch = 0
                           /\ workerPc \in {"none", "exited"}

\* Destroying the reader ends ("close_channel() stops the subscriber").
CloseReturns == closerPc = "setQuit" ~> closerPc = "closed"

\* The destructor hangs in one case only: the worker has read mQuit before it was
\* set, and has not yet blocked in Get, on an empty queue, when Interrupt finds
\* nobody to wake.  In every other case it returns.
CloseHangsOnlyInTheGap ==
    (closerPc = "interrupt" /\ ~(workerPc = "callGet" /\ mQueue = <<>>))
        ~> closerPc = "closed"

\* What is left of the worker's way out once mQuit is set.
wayOut == [p \in WorkerPcs |-> CASE p = "callGet"   -> 4 [] p = "inGet"     -> 3
                                 [] p = "handler"   -> 2 [] p = "checkQuit" -> 1
                                 [] OTHER -> 0]

\* A worker that needs nobody to go on: it does not wait, and will not.
NeedsNobody ==
    \/ workerPc \in {"checkQuit", "handler"}
    \/ workerPc = "callGet" /\ phase[worker] = "idle" /\ mQueue # <<>>
    \/ workerPc = "inGet" /\ phase[worker] \in {"notified", "interrupted"}

Hangs == closerPc = "join" /\ workerPc # "exited" /\ ~NeedsNobody

\* Why close returns: only an Interrupt in the gap makes the destructor wait for a
\* worker that needs somebody, and with mQuit set every step of the worker
\* leads out of its loop.
CloseGoesOn ==
    [][/\ Hangs' => Hangs \/ (closerPc = "interrupt" /\ workerPc = "callGet" /\ mQueue = <<>>)
       /\ mQuit /\ workerPc' # workerPc => wayOut[workerPc'] < wayOut[workerPc]]_vars
-----------------------------------------------------------------------------
(* The listener as a Subscriber.  With a queue a sample has arrived when it is *)
(* queued, without one when it has been taken.                              *)

lastHandled == IF handled = <<>> THEN 0 ELSE handled[Len(handled)]

closeStage ==
    CASE closerPc \in {"open", "closed"} -> closerPc
      [] closerPc = "setQuit"            -> "detached"
      [] OTHER -> IF Len(handled) = atQuit THEN "quitting" ELSE "spent"

Sub == INSTANCE Subscriber WITH Capacity <- QueueLen, MaxCame <- MaxSamples,
          came <- IF mHasQueue THEN arrived ELSE arrived + batch,
          last <- lastHandled, running <- current # 0, stage <- closeStage
ImplementsSubscriber == Sub!Spec
=============================================================================
