---------------------------- MODULE PythonChannel ----------------------------
(***************************************************************************)
(* The Python binding's ChannelSubscriber: init_channel, close_channel and  *)
(* the destructor on Python threads, PythonCallbackState::invoke on the     *)
(* thread of each DDS reader, and the GIL between them.  Calls release the  *)
(* GIL while they work on mChannelPtr, so that two may overlap; they race   *)
(* for a plain shared_ptr then, `overlapped` remembers it, and nothing is   *)
(* said of what follows.  A reader is that of ReaderListener without a      *)
(* queue (queue_length 0, the default): destroying it waits for its handler *)
(* and for nothing else.                                                    *)
(***************************************************************************)
EXTENDS FiniteSets

CONSTANTS Callers,  \* the Python threads
          Main,     \* the one that ends the interpreter
          Readers,  \* the readers that may exist at a time
          None

ASSUME ChannelAssumption ==
    Main \in Callers /\ Callers \cap Readers = {} /\ None \notin Callers \cup Readers

VARIABLES
    gil,          \* its holder
    finalizing,   \* Py_Finalize has begun: nobody else gets the GIL any more
    active,       \* PythonCallbackState::active_
    initialized,  \* Concept::initialized
    channel,      \* mChannelPtr: a reader
    open,         \* the readers that exist
    thread,       \* per reader: where its thread is in invoke
    call,         \* per Python thread: the call it is in, and how far
    old,          \* per Python thread: the reader its call is destroying
    gone,         \* the subscriber has been destroyed, or leaked at exit
    overlapped    \* history: two calls have overlapped

vars == <<gil, finalizing, active, initialized, channel, open, thread, call, old, gone, overlapped>>

CallStates == [name : {"none"}, at : {"runs", "yielded"}]
              \cup [name : {"init", "close", "destroy"}, at : {"swap", "wait", "acquire"}]
              \cup [name : {"failed"}, at : {"acquire"}]

TypeOK ==
    /\ gil \in {None} \cup Callers \cup Readers
    /\ finalizing \in BOOLEAN /\ active \in BOOLEAN /\ initialized \in BOOLEAN
    /\ gone \in BOOLEAN /\ overlapped \in BOOLEAN
    /\ channel \in Readers \cup {None} /\ open \subseteq Readers
    /\ thread \in [Readers -> {"idle", "invoke", "waits", "callback", "yielded", "resumed"}]
    /\ call \in [Callers -> CallStates] /\ old \in [Callers -> Readers \cup {None}]
    /\ \A r \in Readers : gil = r <=> thread[r] \in {"callback", "resumed"}
    /\ \A c \in Callers : gil = c <=> call[c].at = "runs"

\* After the constructor: the callback state starts active, without a reader.
Init ==
    /\ gil = Main /\ finalizing = FALSE
    /\ active = TRUE /\ initialized = FALSE
    /\ channel = None /\ open = {} /\ thread = [r \in Readers |-> "idle"]
    /\ call = [c \in Callers |-> [name |-> "none", at |-> IF c = Main THEN "runs" ELSE "yielded"]]
    /\ old = [c \in Callers |-> None] /\ gone = FALSE /\ overlapped = FALSE

-----------------------------------------------------------------------------
(* A reader's thread: PythonCallbackState::invoke.                         *)

ReaderUnchanged == UNCHANGED <<finalizing, active, initialized, channel, open, call, old, gone, overlapped>>
Goes(r, pc) == thread' = [thread EXCEPT ![r] = pc]

SampleArrives(r) ==
    /\ r \in open /\ thread[r] = "idle" /\ Goes(r, "invoke")
    /\ ReaderUnchanged /\ UNCHANGED gil

\* Outside the GIL: whether the callback is wanted and Python is there.
TestsActive(r) ==
    /\ thread[r] = "invoke"
    /\ Goes(r, IF active /\ ~finalizing THEN "waits" ELSE "idle")
    /\ ReaderUnchanged /\ UNCHANGED gil

StartsCallback_Untested(r) ==   \* mutation: active_ is not tested again
    /\ thread[r] = "waits" /\ gil = None /\ ~finalizing
    /\ Goes(r, "callback") /\ gil' = r
    /\ ReaderUnchanged

\* With the GIL, once more; if the callback is not wanted the GIL goes back at once.
StartsCallback(r) ==
    /\ thread[r] = "waits" /\ gil = None /\ ~finalizing
    /\ IF active THEN Goes(r, "callback") /\ gil' = r
       ELSE Goes(r, "idle") /\ UNCHANGED gil
    /\ ReaderUnchanged

\* The interpreter takes the GIL away in the middle of the callback
\* (bound: once per callback).
CallbackYields(r) ==
    /\ thread[r] = "callback" /\ Goes(r, "yielded") /\ gil' = None
    /\ ReaderUnchanged

CallbackResumes(r) ==
    /\ thread[r] = "yielded" /\ gil = None /\ ~finalizing
    /\ Goes(r, "resumed") /\ gil' = r
    /\ ReaderUnchanged

CallbackReturns(r) ==
    /\ thread[r] \in {"callback", "resumed"} /\ Goes(r, "idle") /\ gil' = None
    /\ ReaderUnchanged

Invoke(r) == TestsActive(r) \/ StartsCallback(r) \/ CallbackResumes(r) \/ CallbackReturns(r)
ReaderThread(r) == SampleArrives(r) \/ CallbackYields(r) \/ Invoke(r)

-----------------------------------------------------------------------------
(* The Python threads.                                                     *)

At(c, name, at) == call[c] = [name |-> name, at |-> at]
Moves(c, name, at) == call' = [call EXCEPT ![c] = [name |-> name, at |-> at]]
InCall(c) == call[c].name # "none"

\* Without the GIL a thread waits for something else, or for the GIL.
Yields(c) ==
    /\ At(c, "none", "runs") /\ ~finalizing /\ Moves(c, "none", "yielded") /\ gil' = None
    /\ UNCHANGED <<finalizing, active, initialized, channel, open, thread, old, gone, overlapped>>

Resumes(c) ==
    /\ At(c, "none", "yielded") /\ Moves(c, "none", "runs")
    /\ gil = None /\ ~finalizing /\ gil' = c
    /\ UNCHANGED <<finalizing, active, initialized, channel, open, thread, old, gone, overlapped>>

\* init_channel activates, close_channel and the destructor deactivate; then the
\* GIL is released.  The destructor runs when no call refers to the subscriber.
CallsBy(c, name, activity, holder) ==
    /\ At(c, "none", "runs") /\ ~gone /\ ~finalizing /\ Moves(c, name, "swap")
    /\ name = "destroy" => \A d \in Callers : ~InCall(d)
    /\ active' = activity /\ gil' = holder
    /\ gone' = (name = "destroy")
    /\ overlapped' = (overlapped \/ \E d \in Callers : InCall(d))
    /\ UNCHANGED <<finalizing, initialized, channel, open, thread, old>>

InitChannel_Inactive(c) == CallsBy(c, "init", active, None)      \* mutation: nothing activates
CloseChannel_KeepsGil(c) == CallsBy(c, "close", FALSE, c)        \* mutation: with the GIL

InitChannel(c)  == CallsBy(c, "init", TRUE, None)
CloseChannel(c) == CallsBy(c, "close", FALSE, None)
Destructor(c)   == CallsBy(c, "destroy", FALSE, None)

\* mChannelPtr gets the new reader, or becomes empty; the old one comes next.  It is
\* a plain shared_ptr: of two calls that exchange it at a time the outcome is
\* undefined, and they are not followed any further (bound: ~overlapped).
Swaps(c) ==
    /\ call[c].at = "swap" /\ Moves(c, call[c].name, "wait") /\ ~overlapped
    /\ old' = [old EXCEPT ![c] = channel]
    /\ IF call[c].name = "init"
       THEN \E r \in Readers \ open : channel' = r /\ open' = open \cup {r}
       ELSE channel' = None /\ UNCHANGED open
    /\ UNCHANGED <<gil, finalizing, active, initialized, thread, gone, overlapped>>

\* InitChannel throws before it has a new reader to exchange; the callback stays active.
InitFails(c) ==
    /\ At(c, "init", "swap") /\ Moves(c, "failed", "acquire")
    /\ UNCHANGED <<gil, finalizing, active, initialized, channel, open, thread, old, gone, overlapped>>

DestroysOldOnce(c, idle) ==
    /\ call[c].at = "wait" /\ Moves(c, call[c].name, "acquire")
    /\ idle
    /\ open' = open \ {old[c]} /\ old' = [old EXCEPT ![c] = None]
    /\ UNCHANGED <<gil, finalizing, active, initialized, channel, thread, gone, overlapped>>

DestroysOld_NoWait(c) == DestroysOldOnce(c, TRUE)   \* mutation: the handler is not waited for

\* The old reader is destroyed when its thread is not in the handler.
DestroysOld(c) == DestroysOldOnce(c, old[c] # None => thread[old[c]] = "idle")

Returns_Uninitialized(c) ==   \* mutation: init_channel does not set initialized
    /\ call[c].at = "acquire" /\ Moves(c, "none", "runs")
    /\ gil = None /\ ~finalizing /\ gil' = c
    /\ initialized' = FALSE
    /\ UNCHANGED <<finalizing, active, channel, open, thread, old, gone, overlapped>>

\* With the GIL again (~PythonCallbackState needs it as well).  An exception leaves
\* `initialized` as it was.
Returns(c) ==
    /\ call[c].at = "acquire" /\ Moves(c, "none", "runs")
    /\ gil = None /\ ~finalizing /\ gil' = c
    /\ initialized' = IF call[c].name = "failed" THEN initialized ELSE call[c].name = "init"
    /\ UNCHANGED <<finalizing, active, channel, open, thread, old, gone, overlapped>>

\* The interpreter waits for its other threads' calls, then keeps the GIL.
Finalizes ==
    /\ At(Main, "none", "runs") /\ \A c \in Callers : ~InCall(c)
    /\ ~finalizing /\ finalizing' = TRUE
    /\ UNCHANGED <<gil, active, initialized, channel, open, thread, call, old, gone, overlapped>>

DestroyAtExit_Always ==   \* mutation: an open reader is destroyed as well
    /\ finalizing /\ ~gone /\ gone' = TRUE
    /\ active' = FALSE
    /\ \A r \in open : thread[r] = "idle"
    /\ channel' = None /\ open' = {}
    /\ UNCHANGED <<gil, finalizing, initialized, thread, call, old, overlapped>>

\* The destructor in finalization, with the GIL: an initialised subscriber is
\* leaked, of another the readers are destroyed.
DestroyAtExit ==
    /\ finalizing /\ ~gone /\ gone' = TRUE
    /\ active' = FALSE
    /\ IF initialized THEN UNCHANGED <<channel, open>>
       ELSE (\A r \in open : thread[r] = "idle") /\ channel' = None /\ open' = {}
    /\ UNCHANGED <<gil, finalizing, initialized, thread, call, old, overlapped>>

CallSteps(c) == Swaps(c) \/ InitFails(c) \/ DestroysOld(c) \/ Returns(c)

Next == \/ \E r \in Readers : ReaderThread(r)
        \/ \E c \in Callers : \/ Yields(c) \/ Resumes(c) \/ CallSteps(c)
                              \/ InitChannel(c) \/ CloseChannel(c) \/ Destructor(c)
        \/ Finalizes \/ DestroyAtExit

Spec == Init /\ [][Next]_vars

\* Threads run and callbacks end; whoever asks for the GIL again and again gets
\* it, as the interpreter switches threads.  Python code lets go of the GIL.
\* Samples need not come, the program need not call anything.
FairSpec ==
    /\ Spec
    /\ \A r \in Readers : SF_vars(Invoke(r))
    /\ \A c \in Callers : SF_vars(Yields(c) \/ Resumes(c) \/ CallSteps(c))
    /\ WF_vars(DestroyAtExit)
-----------------------------------------------------------------------------
Quiet == \A c \in Callers : ~InCall(c)

Closing == \E c \in Callers : call[c].name \in {"close", "destroy"}

\* As long as calls do not overlap: between calls there is a reader iff the
\* subscriber is initialised, only the one, and its callback is enabled.
IdleIsConsistent ==
    ~overlapped /\ ~gone /\ Quiet =>
        /\ open = {channel} \ {None}
        /\ initialized <=> channel # None
        /\ initialized => active

\* When close_channel or the destructor has returned, no thread is on its way
\* into the callback or in it.
NothingRunsAfterClose ==
    ~overlapped /\ ~initialized /\ ~finalizing /\ Quiet =>
        \A r \in Readers : thread[r] = "idle"

\* No callback starts once close_channel or the destructor has been entered.
NoStartWhileClosing ==
    [][\A r \in Readers : thread[r] = "waits" /\ thread'[r] = "callback" =>
           overlapped \/ ~Closing]_vars

\* invoke drops a sample only when the subscriber is being closed, or at exit.
DropsOnlyWhenClosing ==
    [][\A r \in Readers : thread[r] \in {"invoke", "waits"} /\ thread'[r] = "idle" =>
           overlapped \/ Closing \/ finalizing]_vars

\* The abstract subscriber: where the one call is, or what the last one has left.
Stage ==
    LET CallOf(name) == \E c \in Callers : call[c].name = name
    IN  CASE overlapped -> "overlapped"
          [] ~overlapped /\ (CallOf("init") \/ CallOf("failed")) -> "opening"
          [] ~overlapped /\ CallOf("close") -> "closing"
          [] ~overlapped /\ CallOf("destroy") -> "destroying"
          [] ~overlapped /\ Quiet /\ finalizing -> "exiting"
          [] ~overlapped /\ Quiet /\ ~finalizing /\ gone -> "gone"
          [] ~overlapped /\ Quiet /\ ~finalizing /\ ~gone ->
                 IF initialized THEN "open" ELSE "closed"

Port == INSTANCE Callbacks WITH
    Sources <- Readers,
    stage   <- Stage,
    running <- {r \in Readers : thread[r] \in {"callback", "yielded", "resumed"}}

\* Readers, flags and the GIL together keep the promises of the abstract subscriber.
ImplementsCallbacks == Port!Spec

\* As long as calls do not overlap, nobody waits in a circle.  A call that waits for a
\* reader's thread waits for one that needs the GIL at most, and the GIL can still be
\* had: whoever has it is not in a call and waits for nobody.  At the interpreter's end,
\* when the GIL cannot be had any more, no thread is waited for.
NoCircularWait ==
    ~overlapped =>
        /\ \A c \in Callers, r \in Readers :
              call[c].at = "wait" /\ old[c] = r /\ thread[r] # "idle" =>
                  /\ ~finalizing
                  /\ \A d \in Callers : gil = d => ~InCall(d)
        /\ finalizing /\ ~gone /\ ~initialized =>
              \A r \in open : thread[r] = "idle"

\* init_channel, also when it throws, close_channel and the destructor return unless
\* another call overlaps, also while callbacks wait for the GIL.  (Of a subscriber
\* without a queue; with one CloseReturns of ReaderListener would have to hold too.)
CallsReturn ==
    \A c \in Callers : (InCall(c) /\ ~overlapped) ~> (~InCall(c) \/ overlapped)

\* The interpreter's exit ends, also with a reader open whose thread waits for a
\* GIL it will never get, unless calls have overlapped: then `initialized` may be
\* FALSE beside an open reader.
ExitEnds == (finalizing /\ ~overlapped) ~> gone
=============================================================================
