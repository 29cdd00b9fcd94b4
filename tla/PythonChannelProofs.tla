------------------------- MODULE PythonChannelProofs -------------------------
(***************************************************************************)
(* The Python subscriber with any number of Python threads and readers: who *)
(* has the GIL, and, as long as calls do not overlap, that no callback runs *)
(* or starts on a subscriber that is closed or being closed: the subscriber *)
(* implements the abstract one of Callbacks.                                *)
(***************************************************************************)
EXTENDS PythonChannel, TLAPS

LEMMA InitTyped == Init => TypeOK
  <1>. SUFFICES ASSUME Init PROVE TypeOK
    OBVIOUS
  <1>0. Main \in Callers /\ Callers \cap Readers = {} /\ None \notin Callers \cup Readers
    BY ChannelAssumption
  <1>1. \A at \in {"runs", "yielded"} : [name |-> "none", at |-> at] \in CallStates
    BY DEF CallStates
  <1>2. call \in [Callers -> CallStates]
    BY <1>1 DEF Init
  <1>3. \A c \in Callers : gil = c <=> call[c].at = "runs"
    BY <1>0 DEF Init
  <1>4. \A r \in Readers : gil = r <=> thread[r] \in {"callback", "resumed"}
    BY <1>0 DEF Init
  <1>5. /\ finalizing \in BOOLEAN /\ active \in BOOLEAN /\ initialized \in BOOLEAN
        /\ gone \in BOOLEAN /\ overlapped \in BOOLEAN
    BY DEF Init
  <1>. QED
    BY <1>0, <1>2, <1>3, <1>4, <1>5 DEF Init, TypeOK

\* Where a thread is in a call, as a state of its own.
LEMMA CallTypes ==
    ASSUME TypeOK, NEW c \in Callers
    PROVE  /\ call[c].name \in {"none", "init", "close", "destroy", "failed"}
           /\ call[c].at \in {"runs", "yielded", "swap", "wait", "acquire"}
           /\ call[c] = [name |-> call[c].name, at |-> call[c].at]
           /\ call[c].name = "none" <=> call[c].at \in {"runs", "yielded"}
           /\ call[c].name = "failed" => call[c].at = "acquire"
  <1>1. call[c] \in CallStates
    BY DEF TypeOK
  <1>. QED
    BY <1>1 DEF CallStates

LEMMA ReaderTyped ==
    ASSUME TypeOK, NEW r \in Readers, ReaderThread(r)
    PROVE  TypeOK'
  <1>0. /\ ReaderUnchanged
        /\ Callers \cap Readers = {} /\ None \notin Callers \cup Readers
    BY ChannelAssumption
    DEF ReaderThread, Invoke, SampleArrives, TestsActive, StartsCallback, CallbackYields,
        CallbackResumes, CallbackReturns
  <1>. USE <1>0 DEF TypeOK, ReaderUnchanged, Goes
  <1>1. CASE SampleArrives(r)
    BY <1>1 DEF SampleArrives
  <1>2. CASE TestsActive(r)
    BY <1>2 DEF TestsActive
  <1>3. CASE StartsCallback(r)
    BY <1>3 DEF StartsCallback
  <1>4. CASE CallbackYields(r)
    BY <1>4 DEF CallbackYields
  <1>5. CASE CallbackResumes(r)
    BY <1>5 DEF CallbackResumes
  <1>6. CASE CallbackReturns(r)
    BY <1>6 DEF CallbackReturns
  <1>. QED
    BY <1>1, <1>2, <1>3, <1>4, <1>5, <1>6 DEF ReaderThread, Invoke

LEMMA CallerTyped ==
    ASSUME TypeOK, NEW c \in Callers,
           \/ Yields(c) \/ Resumes(c) \/ CallSteps(c)
           \/ InitChannel(c) \/ CloseChannel(c) \/ Destructor(c)
    PROVE  TypeOK'
  <1>0. /\ Callers \cap Readers = {} /\ None \notin Callers \cup Readers
        /\ call[c].name \in {"none", "init", "close", "destroy", "failed"}
        /\ call[c].name = "none" <=> call[c].at \in {"runs", "yielded"}
        /\ call[c].name = "failed" => call[c].at = "acquire"
    BY ChannelAssumption, CallTypes
  <1>1. ASSUME NEW name \in {"init", "close", "destroy"}, NEW at \in {"swap", "wait", "acquire"}
        PROVE  [name |-> name, at |-> at] \in CallStates
    BY DEF CallStates
  <1>2. \A at \in {"runs", "yielded"} : [name |-> "none", at |-> at] \in CallStates
    BY DEF CallStates
  <1>. USE <1>0 DEF TypeOK, Moves, At
  <1>11. [name |-> "failed", at |-> "acquire"] \in CallStates
    BY DEF CallStates
  <1>3. CASE Yields(c)
    BY <1>2, <1>3 DEF Yields
  <1>4. CASE Resumes(c)
    BY <1>2, <1>4 DEF Resumes
  <1>5. CASE Swaps(c)
    BY <1>1, <1>5 DEF Swaps
  <1>10. CASE InitFails(c)
    BY <1>10, <1>11 DEF InitFails
  <1>6. CASE DestroysOld(c)
    BY <1>1, <1>6 DEF DestroysOld, DestroysOldOnce
  <1>7. CASE Returns(c)
    BY <1>2, <1>7 DEF Returns
  <1>8. ASSUME NEW name \in {"init", "close", "destroy"}, NEW activity \in BOOLEAN,
               CallsBy(c, name, activity, None)
        PROVE  TypeOK'
    <2>1. active' \in BOOLEAN /\ gone' \in BOOLEAN /\ overlapped' \in BOOLEAN
      BY <1>8 DEF CallsBy
    <2>2. /\ At(c, "none", "runs") /\ call' = [call EXCEPT ![c] = [name |-> name, at |-> "swap"]]
          /\ gil' = None
          /\ UNCHANGED <<finalizing, initialized, channel, open, thread, old>>
      BY <1>8 DEF CallsBy
    <2>3. call' \in [Callers -> CallStates]
      BY <1>1, <2>2
    <2>4. \A d \in Callers : gil' = d <=> call'[d].at = "runs"
      BY <2>2
    <2>5. \A r \in Readers : gil' = r <=> thread'[r] \in {"callback", "resumed"}
      BY <2>2
    <2>. QED
      BY <2>1, <2>2, <2>3, <2>4, <2>5
  <1>9. CASE InitChannel(c) \/ CloseChannel(c) \/ Destructor(c)
    BY <1>8, <1>9 DEF InitChannel, CloseChannel, Destructor
  <1>. QED
    BY <1>3, <1>4, <1>5, <1>6, <1>7, <1>9, <1>10 DEF CallSteps

LEMMA NextTyped == TypeOK /\ [Next]_vars => TypeOK'
  <1>. SUFFICES ASSUME TypeOK, [Next]_vars PROVE TypeOK'
    OBVIOUS
  <1>1. CASE Finalizes
    BY <1>1 DEF Finalizes, TypeOK
  <1>2. CASE DestroyAtExit
    BY <1>2 DEF DestroyAtExit, TypeOK
  <1>3. CASE UNCHANGED vars
    BY <1>3 DEF vars, TypeOK
  <1>. QED
    BY <1>1, <1>2, <1>3, ReaderTyped, CallerTyped DEF Next

\* The types, and with them the GIL: for any number of threads and readers, the
\* threads that run Python code are the one that holds it.
THEOREM TypeCorrect == Spec => []TypeOK
  BY InitTyped, NextTyped, PTL DEF Spec
-----------------------------------------------------------------------------
(* What a call leaves behind, and what holds in its midst.                 *)

OneReader == open = {channel} \ {None}

\* In a call that no other overlaps.  Until the pointer is exchanged and after
\* the old reader has been destroyed there is at most the one reader.
Progress(c) ==
    /\ active <=> call[c].name \in {"init", "failed"}
    /\ call[c].at = "swap" => OneReader
    /\ call[c].at = "swap" \/ call[c].name = "failed" => (initialized <=> channel # None)
    /\ call[c].at = "wait" =>
           open = {channel, old[c]} \ {None} /\ (channel = old[c] => channel = None)
    /\ call[c].at = "acquire" => OneReader
    /\ call[c].at \in {"wait", "acquire"} /\ call[c].name # "failed" =>
           (channel # None <=> call[c].name = "init")

Consistent == OneReader /\ (initialized <=> channel # None) /\ (initialized => active)

ThreadsHaveReaders == \A r \in Readers : r \notin open => thread[r] = "idle"

ExitIsQuiet == finalizing => \A c \in Callers : ~InCall(c)

Ordered ==
    /\ \A c, d \in Callers : InCall(c) /\ InCall(d) => c = d
    /\ \A c \in Callers : InCall(c) => Progress(c)
    /\ (\A c \in Callers : ~InCall(c)) /\ ~(gone /\ finalizing) => Consistent

ChannelInv == TypeOK /\ ThreadsHaveReaders /\ ExitIsQuiet /\ (~overlapped => Ordered)

LEMMA InvInit == Init => ChannelInv
  <1>. SUFFICES ASSUME Init PROVE ChannelInv
    OBVIOUS
  <1>1. \A c \in Callers : ~InCall(c)
    BY DEF Init, InCall
  <1>2. Consistent
    BY DEF Init, Consistent, OneReader
  <1>3. ThreadsHaveReaders
    BY DEF Init, ThreadsHaveReaders
  <1>. QED
    BY <1>1, <1>2, <1>3, InitTyped DEF ChannelInv, ExitIsQuiet, Ordered

\* Order among calls is a matter of what readers' threads leave alone.
LEMMA OrderKept ==
    ASSUME Ordered,
           UNCHANGED <<finalizing, active, initialized, channel, open, call, old, gone>>
    PROVE  Ordered'
  BY DEF Ordered, InCall, Progress, Consistent, OneReader

LEMMA ReaderKeeps ==
    ASSUME ChannelInv, NEW r \in Readers, ReaderThread(r)
    PROVE  ThreadsHaveReaders' /\ ExitIsQuiet' /\ (~overlapped => Ordered)'
  <1>1. ReaderUnchanged
    BY DEF ReaderThread, Invoke, SampleArrives, TestsActive, StartsCallback, CallbackYields,
        CallbackResumes, CallbackReturns
  <1>2. r \in open /\ \A s \in Readers \ {r} : thread'[s] = thread[s]
    BY DEF ReaderThread, Invoke, SampleArrives, TestsActive, StartsCallback, CallbackYields,
        CallbackResumes, CallbackReturns, Goes, ChannelInv, TypeOK, ThreadsHaveReaders
  <1>3. ThreadsHaveReaders'
    BY <1>1, <1>2 DEF ChannelInv, ThreadsHaveReaders, ReaderUnchanged
  <1>4. ExitIsQuiet'
    BY <1>1 DEF ChannelInv, ExitIsQuiet, InCall, ReaderUnchanged
  <1>5. (~overlapped => Ordered)'
    BY <1>1, OrderKept DEF ChannelInv, ReaderUnchanged
  <1>. QED
    BY <1>3, <1>4, <1>5

\* A call begins: if another is running they overlap from now on.
LEMMA BeginKeeps ==
    ASSUME ChannelInv, NEW c \in Callers,
           NEW name \in {"init", "close", "destroy"}, NEW activity \in BOOLEAN,
           activity <=> name = "init", CallsBy(c, name, activity, None)
    PROVE  ThreadsHaveReaders' /\ ExitIsQuiet' /\ (~overlapped => Ordered)'
  <1>1. /\ ~gone /\ ~finalizing /\ active' = activity
        /\ UNCHANGED <<finalizing, initialized, channel, open, thread, old>>
    BY DEF CallsBy
  <1>2. ThreadsHaveReaders'
    BY <1>1 DEF ChannelInv, ThreadsHaveReaders
  <1>3. ExitIsQuiet'
    BY <1>1 DEF ExitIsQuiet
  <1>4. ASSUME ~overlapped' PROVE Ordered'
    <2>1. ~overlapped /\ \A d \in Callers : ~InCall(d)
      BY <1>4 DEF CallsBy
    <2>2. OneReader /\ (initialized <=> channel # None)
      BY <1>1, <2>1 DEF ChannelInv, Ordered, Consistent
    <2>3. /\ call'[c].name = name /\ call'[c].at = "swap"
          /\ \A d \in Callers \ {c} : call'[d] = call[d]
      BY DEF CallsBy, Moves, ChannelInv, TypeOK
    <2>4. \A d \in Callers : InCall(d)' => d = c
      BY <2>1, <2>3 DEF InCall
    <2>5. InCall(c)'
      BY <2>3 DEF InCall
    <2>6. OneReader' /\ (initialized' <=> channel' # None)
      BY <1>1, <2>2 DEF OneReader
    <2>7. active' <=> call'[c].name \in {"init", "failed"}
      BY <1>1, <2>3
    <2>8. Progress(c)'
      BY <2>3, <2>6, <2>7 DEF Progress
    <2>. QED
      BY <2>4, <2>5, <2>8 DEF Ordered
  <1>. QED
    BY <1>2, <1>3, <1>4

\* A call goes on.  The old reader's thread has left the handler when it is destroyed.
LEMMA CallKeeps ==
    ASSUME ChannelInv, NEW c \in Callers, CallSteps(c)
    PROVE  ThreadsHaveReaders' /\ ExitIsQuiet' /\ (~overlapped => Ordered)'
  <1>1. InCall(c) /\ UNCHANGED <<finalizing, active, gone, overlapped>>
    <2>1. CASE InitFails(c)
      BY <2>1 DEF InitFails, At, InCall
    <2>2. CASE Swaps(c) \/ DestroysOld(c) \/ Returns(c)
      BY <2>2, CallTypes DEF ChannelInv, Swaps, DestroysOld, DestroysOldOnce, Returns, InCall
    <2>. QED
      BY <2>1, <2>2 DEF CallSteps
  <1>2. ExitIsQuiet'
    BY <1>1 DEF ChannelInv, ExitIsQuiet
  <1>3. UNCHANGED thread
    BY DEF CallSteps, Swaps, InitFails, DestroysOld, DestroysOldOnce, Returns
  <1>4. ThreadsHaveReaders'
    <2>1. CASE Swaps(c)
      BY <1>3, <2>1 DEF Swaps, ChannelInv, ThreadsHaveReaders
    <2>2. CASE DestroysOld(c)
      BY <1>3, <2>2, ChannelAssumption
      DEF DestroysOld, DestroysOldOnce, ChannelInv, ThreadsHaveReaders
    <2>3. CASE InitFails(c) \/ Returns(c)
      BY <1>3, <2>3 DEF InitFails, Returns, ChannelInv, ThreadsHaveReaders
    <2>. QED
      BY <2>1, <2>2, <2>3 DEF CallSteps
  <1>5. ASSUME ~overlapped PROVE Ordered'
    <2>1. Progress(c) /\ \A d \in Callers \ {c} : ~InCall(d)
      BY <1>1, <1>5 DEF ChannelInv, Ordered
    <2>2. \A d \in Callers \ {c} : call'[d] = call[d]
      BY DEF ChannelInv, TypeOK, Moves, CallSteps, Swaps, InitFails, DestroysOld, DestroysOldOnce, Returns
    <2>3. \A d \in Callers : InCall(d)' => d = c
      BY <2>1, <2>2 DEF InCall
    <2>4. CASE Swaps(c)
      <3>1. /\ call[c].at = "swap" /\ call'[c].at = "wait" /\ call'[c].name = call[c].name
            /\ old'[c] = channel
        BY <2>4 DEF ChannelInv, TypeOK, Moves, Swaps
      <3>2. open = {channel} \ {None}
        BY <2>1, <3>1 DEF Progress, OneReader
      <3>3. /\ open' = {channel', old'[c]} \ {None}
            /\ channel' = old'[c] => channel' = None
            /\ channel' # None <=> call[c].name = "init"
        <4>1. CASE call[c].name = "init"
          BY <2>4, <3>1, <3>2, <4>1, ChannelAssumption DEF Swaps
        <4>2. CASE call[c].name # "init"
          BY <2>4, <3>1, <3>2, <4>2 DEF Swaps
        <4>. QED
          BY <4>1, <4>2
      <3>4. /\ active' <=> call'[c].name \in {"init", "failed"}
            /\ call'[c].name # "failed"
        BY <1>1, <2>1, <3>1, CallTypes DEF Progress, ChannelInv
      <3>5. Progress(c)'
        BY <3>1, <3>3, <3>4 DEF Progress
      <3>6. InCall(c)'
        BY <1>1, <3>1 DEF InCall
      <3>. QED
        BY <2>3, <3>5, <3>6 DEF Ordered
    <2>5. CASE DestroysOld(c)
      <3>1. /\ call[c].at = "wait" /\ call'[c].at = "acquire" /\ call'[c].name = call[c].name
            /\ open' = open \ {old[c]} /\ channel' = channel
        BY <2>5 DEF ChannelInv, TypeOK, Moves, DestroysOld, DestroysOldOnce
      <3>2. OneReader'
        BY <2>1, <3>1 DEF Progress, OneReader
      <3>3. /\ active' <=> call'[c].name \in {"init", "failed"}
            /\ call'[c].name # "failed"
            /\ channel' # None <=> call'[c].name = "init"
        BY <1>1, <2>1, <3>1, CallTypes DEF Progress, ChannelInv
      <3>4. Progress(c)'
        BY <3>1, <3>2, <3>3 DEF Progress
      <3>5. InCall(c)'
        BY <1>1, <3>1 DEF InCall
      <3>. QED
        BY <2>3, <3>4, <3>5 DEF Ordered
    <2>6. CASE Returns(c)
      <3>1. /\ call[c].at = "acquire" /\ call'[c].name = "none"
            /\ call[c].name # "failed" => (initialized' <=> call[c].name = "init")
            /\ call[c].name = "failed" => (initialized' <=> initialized)
            /\ UNCHANGED <<channel, open>>
        BY <2>6 DEF ChannelInv, TypeOK, Moves, Returns
      <3>2. Consistent'
        BY <1>1, <2>1, <3>1 DEF Progress, Consistent, OneReader
      <3>3. \A d \in Callers : ~InCall(d)'
        BY <2>3, <3>1 DEF InCall
      <3>. QED
        BY <3>2, <3>3 DEF Ordered
    <2>7. CASE InitFails(c)
      <3>1. /\ call[c].name = "init" /\ call[c].at = "swap"
            /\ call'[c].name = "failed" /\ call'[c].at = "acquire"
            /\ UNCHANGED <<initialized, channel, open>>
        BY <2>7 DEF ChannelInv, TypeOK, Moves, InitFails, At
      <3>2. Progress(c)' /\ InCall(c)'
        BY <1>1, <2>1, <3>1 DEF Progress, OneReader, InCall
      <3>. QED
        BY <2>3, <3>2 DEF Ordered
    <2>. QED
      BY <2>4, <2>5, <2>6, <2>7 DEF CallSteps
  <1>. QED
    BY <1>1, <1>2, <1>4, <1>5

\* Outside of calls only the GIL moves.
LEMMA IdleKeeps ==
    ASSUME ChannelInv, NEW c \in Callers, Yields(c) \/ Resumes(c)
    PROVE  ThreadsHaveReaders' /\ ExitIsQuiet' /\ (~overlapped => Ordered)'
  <1>1. /\ ~InCall(c) /\ ~InCall(c)'
        /\ \A d \in Callers \ {c} : call'[d] = call[d]
        /\ UNCHANGED <<finalizing, active, initialized, channel, open, thread, old, gone, overlapped>>
    BY DEF Yields, Resumes, At, Moves, InCall, ChannelInv, TypeOK
  <1>2. \A d \in Callers : InCall(d)' <=> InCall(d)
    BY <1>1 DEF InCall
  <1>3. ThreadsHaveReaders' /\ ExitIsQuiet'
    BY <1>1, <1>2 DEF ChannelInv, ThreadsHaveReaders, ExitIsQuiet
  <1>4. Consistent' <=> Consistent
    BY <1>1 DEF Consistent, OneReader
  <1>5. ASSUME NEW d \in Callers, InCall(d) PROVE Progress(d)' <=> Progress(d)
    BY <1>1, <1>5 DEF Progress, OneReader
  <1>6. ASSUME ~overlapped PROVE Ordered'
    BY <1>1, <1>2, <1>4, <1>5, <1>6 DEF ChannelInv, Ordered
  <1>. QED
    BY <1>1, <1>3, <1>6

LEMMA ExitKeeps ==
    ASSUME ChannelInv, Finalizes \/ DestroyAtExit
    PROVE  ThreadsHaveReaders' /\ ExitIsQuiet' /\ (~overlapped => Ordered)'
  <1>1. /\ \A c \in Callers : ~InCall(c)
        /\ finalizing' = TRUE /\ UNCHANGED <<initialized, thread, call, old, overlapped>>
    BY DEF Finalizes, DestroyAtExit, ChannelInv, ExitIsQuiet
  <1>2. \A c \in Callers : ~InCall(c)'
    BY <1>1 DEF InCall
  <1>3. ThreadsHaveReaders'
    BY <1>1 DEF Finalizes, DestroyAtExit, ChannelInv, ThreadsHaveReaders
  <1>4. ASSUME ~overlapped PROVE Ordered'
    <2>1. CASE Finalizes
      BY <1>2, <1>4, <2>1 DEF Finalizes, ChannelInv, Ordered, Consistent, OneReader, TypeOK
    <2>2. CASE DestroyAtExit
      BY <1>1, <1>2, <2>2 DEF DestroyAtExit, Ordered
    <2>. QED
      BY <2>1, <2>2
  <1>. QED
    BY <1>1, <1>2, <1>3, <1>4 DEF ExitIsQuiet

LEMMA InvStep == ChannelInv /\ [Next]_vars => ChannelInv'
  <1>. SUFFICES ASSUME ChannelInv, [Next]_vars
                PROVE  ThreadsHaveReaders' /\ ExitIsQuiet' /\ (~overlapped => Ordered)'
    BY NextTyped DEF ChannelInv
  <1>1. ASSUME NEW c \in Callers, InitChannel(c)
        PROVE  ThreadsHaveReaders' /\ ExitIsQuiet' /\ (~overlapped => Ordered)'
    BY <1>1, BeginKeeps DEF InitChannel
  <1>2. ASSUME NEW c \in Callers, CloseChannel(c) \/ Destructor(c)
        PROVE  ThreadsHaveReaders' /\ ExitIsQuiet' /\ (~overlapped => Ordered)'
    BY <1>2, BeginKeeps DEF CloseChannel, Destructor
  <1>3. CASE UNCHANGED vars
    <2>1. ThreadsHaveReaders' /\ ExitIsQuiet'
      BY <1>3 DEF vars, ChannelInv, ThreadsHaveReaders, ExitIsQuiet, InCall
    <2>2. (~overlapped => Ordered)'
      BY <1>3, OrderKept DEF vars, ChannelInv
    <2>. QED
      BY <2>1, <2>2
  <1>. QED
    BY <1>1, <1>2, <1>3, ReaderKeeps, CallKeeps, IdleKeeps, ExitKeeps DEF Next

LEMMA InvHolds == Spec => []ChannelInv
  BY InvInit, InvStep, PTL DEF Spec

-----------------------------------------------------------------------------
\* Between calls that did not overlap the subscriber has a reader iff it is
\* initialised, only that one, and its callback is enabled.
THEOREM IdleCorrect == Spec => []IdleIsConsistent
  <1>1. ChannelInv => IdleIsConsistent
    BY DEF ChannelInv, Ordered, Consistent, OneReader, Quiet, IdleIsConsistent
  <1>. QED
    BY <1>1, InvHolds, PTL

\* When close_channel or the destructor has returned no thread is in invoke: there
\* is no reader left, and a thread without its reader is not in the handler.
THEOREM CloseCorrect == Spec => []NothingRunsAfterClose
  <1>1. ChannelInv => NothingRunsAfterClose
    BY DEF ChannelInv, Ordered, Consistent, OneReader, ThreadsHaveReaders, Quiet,
        NothingRunsAfterClose
  <1>. QED
    BY <1>1, InvHolds, PTL

\* As long as calls do not overlap, neither close_channel, init_channel nor the destructor
\* waits for a thread that waits for them, and the interpreter's exit waits for no thread
\* at all.
THEOREM NoCircle == Spec => []NoCircularWait
  <1>1. ASSUME ChannelInv PROVE NoCircularWait
    <2>1. ASSUME NEW c \in Callers, call[c].at = "wait"
          PROVE  ~finalizing
      <3>1. InCall(c)
        BY <1>1, <2>1, CallTypes DEF ChannelInv, InCall
      <3>. QED
        BY <1>1, <3>1 DEF ChannelInv, ExitIsQuiet
    <2>2. ASSUME NEW d \in Callers, gil = d PROVE ~InCall(d)
      <3>1. call[d].at = "runs"
        BY <1>1, <2>2 DEF ChannelInv, TypeOK
      <3>. QED
        BY <1>1, <3>1, CallTypes DEF ChannelInv, InCall
    <2>3. finalizing /\ ~gone /\ ~initialized /\ ~overlapped => open = {}
      BY <1>1 DEF ChannelInv, ExitIsQuiet, Ordered, Consistent, OneReader
    <2>. QED
      BY <2>1, <2>2, <2>3 DEF NoCircularWait
  <1>. QED
    BY <1>1, InvHolds, PTL

\* While a call that no other overlaps closes, active_ is false, and the second test
\* of it, with the GIL, sees that.
THEOREM NoStartCorrect == Spec => NoStartWhileClosing
  <1>1. ASSUME ChannelInv, [Next]_vars, NEW r \in Readers,
               thread[r] = "waits", thread'[r] = "callback", ~overlapped
        PROVE  ~Closing
    <2>1. active
      BY <1>1
      DEF Next, vars, ReaderThread, Invoke, SampleArrives, TestsActive, StartsCallback,
          CallbackYields, CallbackResumes, CallbackReturns, Goes, ChannelInv, TypeOK, Yields,
          Resumes, CallSteps, Swaps, InitFails, DestroysOld, DestroysOldOnce, Returns, InitChannel,
          CloseChannel, Destructor, CallsBy, Finalizes, DestroyAtExit
    <2>2. ASSUME NEW c \in Callers, call[c].name \in {"close", "destroy"} PROVE FALSE
      BY <1>1, <2>1, <2>2 DEF ChannelInv, Ordered, InCall, Progress
    <2>. QED
      BY <2>2 DEF Closing
  <1>2. ChannelInv /\ [Next]_vars
          => [\A r \in Readers : thread[r] = "waits" /\ thread'[r] = "callback" =>
                 overlapped \/ ~Closing]_vars
    BY <1>1
  <1>. QED
    BY <1>2, InvHolds, PTL DEF Spec, NoStartWhileClosing

\* A sample that is not wanted finds active_ false or the interpreter ending; there is
\* a reader still, so that active_ can only be false in a call that closes.
THEOREM DropsCorrect == Spec => DropsOnlyWhenClosing
  <1>1. ASSUME ChannelInv, [Next]_vars, NEW r \in Readers,
               thread[r] \in {"invoke", "waits"}, thread'[r] = "idle", ~overlapped, ~finalizing
        PROVE  Closing
    <2>1. ~active
      BY <1>1
      DEF Next, vars, ReaderThread, Invoke, SampleArrives, TestsActive, StartsCallback,
          CallbackYields, CallbackResumes, CallbackReturns, Goes, ChannelInv, TypeOK, Yields,
          Resumes, CallSteps, Swaps, InitFails, DestroysOld, DestroysOldOnce, Returns, InitChannel,
          CloseChannel, Destructor, CallsBy, Finalizes, DestroyAtExit
    <2>2. r \in open
      BY <1>1 DEF ChannelInv, ThreadsHaveReaders
    <2>3. ~Consistent
      BY <2>1, <2>2 DEF Consistent, OneReader
    <2>4. PICK c \in Callers : InCall(c) /\ Progress(c)
      BY <1>1, <2>3 DEF ChannelInv, Ordered
    <2>. QED
      BY <1>1, <2>1, <2>4, CallTypes DEF Closing, Progress, InCall, ChannelInv
  <1>2. ChannelInv /\ [Next]_vars
          => [\A r \in Readers : thread[r] \in {"invoke", "waits"} /\ thread'[r] = "idle" =>
                 overlapped \/ Closing \/ finalizing]_vars
    BY <1>1
  <1>. QED
    BY <1>2, InvHolds, PTL DEF Spec, DropsOnlyWhenClosing

-----------------------------------------------------------------------------
(* The abstract subscriber.                                                *)

InPython == {"callback", "yielded", "resumed"}
Running  == {r \in Readers : thread[r] \in InPython}

\* The stage, from any thread's call and from none.
StageFacts ==
    /\ overlapped => Stage = "overlapped"
    /\ ~overlapped => \A c \in Callers :
          /\ call[c].name \in {"init", "failed"} => Stage = "opening"
          /\ call[c].name = "close" => Stage = "closing"
          /\ call[c].name = "destroy" => Stage = "destroying"
    /\ ~overlapped /\ Quiet =>
          /\ finalizing => Stage = "exiting"
          /\ ~finalizing /\ gone => Stage = "gone"
          /\ ~finalizing /\ ~gone /\ initialized => Stage = "open"
          /\ ~finalizing /\ ~gone /\ ~initialized => Stage = "closed"

LEMMA StageIs == ChannelInv => StageFacts
  <1>. SUFFICES ASSUME ChannelInv PROVE StageFacts
    OBVIOUS
  <1>1. overlapped => Stage = "overlapped"
    BY DEF Stage
  <1>2. ASSUME ~overlapped, NEW c \in Callers
        PROVE  /\ call[c].name \in {"init", "failed"} => Stage = "opening"
               /\ call[c].name = "close" => Stage = "closing"
               /\ call[c].name = "destroy" => Stage = "destroying"
    <2>1. \A d \in Callers : call[c].name # "none" /\ call[d].name # "none" => c = d
      BY <1>2 DEF ChannelInv, Ordered, InCall
    <2>. QED
      BY <1>2, <2>1 DEF Stage, Quiet, InCall
  <1>3. ASSUME ~overlapped, Quiet
        PROVE  /\ finalizing => Stage = "exiting"
               /\ ~finalizing /\ gone => Stage = "gone"
               /\ ~finalizing /\ ~gone /\ initialized => Stage = "open"
               /\ ~finalizing /\ ~gone /\ ~initialized => Stage = "closed"
    <2>1. \A d \in Callers : call[d].name = "none"
      BY <1>3 DEF Quiet, InCall
    <2>. QED
      BY <1>3, <2>1 DEF Stage
  <1>. QED
    BY <1>1, <1>2, <1>3 DEF StageFacts

LEMMA StageIsNext == ChannelInv' => StageFacts'
  BY StageIs, PTL

LEMMA StageKept ==
    ASSUME UNCHANGED <<finalizing, initialized, gone, overlapped>>,
           \A c \in Callers : call'[c].name = call[c].name
    PROVE  Stage' = Stage
  BY DEF Stage, Quiet, InCall

\* Only the destructor, and the exit, end the subscriber; the destructor leaves it closed.
GoneIsClosed ==
    /\ \A c \in Callers : InCall(c) => (gone <=> call[c].name = "destroy")
    /\ gone /\ ~finalizing /\ Quiet => ~initialized

LEMMA GoneInit == Init => GoneIsClosed
  BY DEF Init, GoneIsClosed, InCall

LEMMA GoneStep == ChannelInv /\ GoneIsClosed /\ [Next]_vars => GoneIsClosed'
  <1>. SUFFICES ASSUME ChannelInv, GoneIsClosed, [Next]_vars PROVE GoneIsClosed'
    OBVIOUS
  <1>1. ASSUME UNCHANGED <<finalizing, gone, initialized>>,
               \A c \in Callers : call'[c].name = call[c].name
        PROVE  GoneIsClosed'
    BY <1>1 DEF GoneIsClosed, Quiet, InCall
  <1>2. ASSUME NEW r \in Readers, ReaderThread(r)
        PROVE  GoneIsClosed'
    <2>1. ReaderUnchanged
      BY <1>2 DEF ReaderThread, Invoke, SampleArrives, TestsActive, StartsCallback,
          CallbackYields, CallbackResumes, CallbackReturns
    <2>. QED
      BY <1>1, <2>1 DEF ReaderUnchanged
  <1>3. ASSUME NEW c \in Callers, Yields(c) \/ Resumes(c) \/ Swaps(c) \/ DestroysOld(c)
        PROVE  GoneIsClosed'
    <2>1. /\ UNCHANGED <<finalizing, gone, initialized>>
          /\ \A d \in Callers : call'[d].name = call[d].name
      BY <1>3 DEF Yields, Resumes, Swaps, DestroysOld, DestroysOldOnce, At, Moves, ChannelInv, TypeOK
    <2>. QED
      BY <1>1, <2>1
  <1>9. ASSUME NEW c \in Callers, InitFails(c)
        PROVE  GoneIsClosed'
    <2>1. /\ call[c].name = "init" /\ call'[c].name = "failed"
          /\ \A d \in Callers \ {c} : call'[d] = call[d]
          /\ UNCHANGED <<finalizing, gone, initialized>>
      BY <1>9 DEF InitFails, At, Moves, ChannelInv, TypeOK
    <2>2. ~Quiet'
      BY <2>1 DEF Quiet, InCall
    <2>. QED
      BY <2>1, <2>2 DEF GoneIsClosed, InCall
  <1>4. ASSUME NEW c \in Callers, Returns(c)
        PROVE  GoneIsClosed'
    <2>1. /\ InCall(c) /\ call'[c].name = "none"
          /\ \A d \in Callers \ {c} : call'[d] = call[d]
          /\ call[c].name = "destroy" => ~initialized'
          /\ UNCHANGED <<finalizing, gone>>
      BY <1>4, CallTypes DEF Returns, Moves, ChannelInv, TypeOK, InCall
    <2>2. gone => ~initialized'
      BY <2>1 DEF GoneIsClosed
    <2>3. \A d \in Callers : InCall(d)' => (gone' <=> call'[d].name = "destroy")
      BY <2>1 DEF GoneIsClosed, InCall
    <2>. QED
      BY <2>1, <2>2, <2>3 DEF GoneIsClosed
  <1>5. ASSUME NEW c \in Callers, InitChannel(c) \/ CloseChannel(c) \/ Destructor(c)
        PROVE  GoneIsClosed'
    <2>1. PICK name \in {"init", "close", "destroy"} :
              \E activity \in BOOLEAN : CallsBy(c, name, activity, None)
      BY <1>5 DEF InitChannel, CloseChannel, Destructor
    <2>2. /\ ~gone
          /\ name = "destroy" => \A d \in Callers : ~InCall(d)
          /\ gone' = (name = "destroy")
          /\ call'[c].name = name
          /\ \A d \in Callers \ {c} : call'[d] = call[d]
      BY <2>1 DEF CallsBy, Moves, ChannelInv, TypeOK
    <2>3. ~Quiet'
      BY <2>2 DEF Quiet, InCall
    <2>4. ASSUME NEW d \in Callers, InCall(d)' PROVE gone' <=> call'[d].name = "destroy"
      <3>1. CASE d = c
        BY <2>2, <3>1
      <3>2. CASE d # c
        BY <2>2, <2>4, <3>2 DEF GoneIsClosed, InCall
      <3>. QED
        BY <3>1, <3>2
    <2>. QED
      BY <2>3, <2>4 DEF GoneIsClosed
  <1>6. CASE Finalizes
    BY <1>6 DEF Finalizes, GoneIsClosed, InCall
  <1>7. CASE DestroyAtExit
    BY <1>7 DEF DestroyAtExit, ChannelInv, ExitIsQuiet, GoneIsClosed, InCall
  <1>8. CASE UNCHANGED vars
    BY <1>1, <1>8 DEF vars
  <1>. QED
    BY <1>2, <1>3, <1>4, <1>5, <1>6, <1>7, <1>8, <1>9 DEF Next, CallSteps

LEMMA GoneHolds == Spec => []GoneIsClosed
  BY InvHolds, GoneInit, GoneStep, PTL DEF Spec

PortStep == Port!Next \/ UNCHANGED <<Stage, Running>>

\* A reader that runs Python code exists, and between calls that did not overlap there
\* is no other.
LEMMA RunningIsOpen ==
    ASSUME ChannelInv
    PROVE  /\ Running \subseteq open
           /\ OneReader => \A r, s \in Running : r = s
  BY DEF ChannelInv, ThreadsHaveReaders, OneReader, Running, InPython

\* Among the steps of a reader's thread only the callback's start and return are seen.
LEMMA ReaderPortStep ==
    ASSUME ChannelInv, GoneIsClosed, NEW r \in Readers, ReaderThread(r)
    PROVE  PortStep
  <1>1. ReaderUnchanged
    BY DEF ReaderThread, Invoke, SampleArrives, TestsActive, StartsCallback, CallbackYields,
        CallbackResumes, CallbackReturns
  <1>2. Stage' = Stage
    BY <1>1, StageKept DEF ReaderUnchanged
  <1>3. /\ \A s \in Readers \ {r} : thread'[s] = thread[s]
        /\ thread \in [Readers -> {"idle", "invoke", "waits", "callback", "yielded", "resumed"}]
    BY DEF ReaderThread, Invoke, SampleArrives, TestsActive, StartsCallback, CallbackYields,
        CallbackResumes, CallbackReturns, Goes, ChannelInv, TypeOK
  <1>4. CASE SampleArrives(r) \/ TestsActive(r) \/ CallbackYields(r) \/ CallbackResumes(r)
             \/ (StartsCallback(r) /\ ~active)
    <2>1. thread[r] \in InPython <=> thread'[r] \in InPython
      BY <1>3, <1>4
      DEF SampleArrives, TestsActive, StartsCallback, CallbackYields, CallbackResumes, Goes,
          InPython
    <2>2. Running' = Running
      BY <1>3, <2>1 DEF Running
    <2>. QED
      BY <1>2, <2>2 DEF PortStep
  <1>5. CASE StartsCallback(r) /\ active
    <2>1. thread[r] = "waits" /\ thread'[r] = "callback"
      BY <1>3, <1>5 DEF StartsCallback, Goes
    <2>2. r \notin Running /\ Running' = Running \cup {r}
      BY <1>3, <2>1 DEF Running, InPython
    <2>3. r \in open /\ ~finalizing
      BY <1>5, <2>1 DEF StartsCallback, ChannelInv, ThreadsHaveReaders
    <2>4. CASE overlapped
      <3>1. Stage = "overlapped"
        BY <2>4, StageIs DEF StageFacts
      <3>2. Running' \in SUBSET Readers
        BY DEF Running
      <3>. QED
        BY <1>2, <3>1, <3>2 DEF PortStep, Port!Next, Port!Disorder, Running, InPython
    <2>5. CASE ~overlapped
      <3>1. Stage = "opening" \/ (Stage = "open" /\ Running = {})
        <4>1. CASE Quiet
          <5>1. Consistent
            BY <2>3, <2>5, <4>1 DEF ChannelInv, Ordered, Quiet
          <5>2. initialized
            BY <2>3, <5>1 DEF Consistent, OneReader
          <5>3. open = {r}
            BY <2>3, <5>1 DEF Consistent, OneReader
          <5>4. Running = {}
            BY <2>2, <5>3, RunningIsOpen
          <5>5. ~gone
            BY <2>3, <4>1, <5>2 DEF GoneIsClosed
          <5>6. Stage = "open"
            BY <2>3, <2>5, <4>1, <5>2, <5>5, StageIs DEF StageFacts
          <5>. QED
            BY <5>4, <5>6
        <4>2. CASE ~Quiet
          <5>1. PICK c \in Callers : InCall(c)
            BY <4>2 DEF Quiet
          <5>2. call[c].name \in {"init", "failed"}
            BY <1>5, <2>5, <5>1 DEF ChannelInv, Ordered, Progress
          <5>. QED
            BY <2>5, <5>2, StageIs DEF StageFacts
        <4>. QED
          BY <4>1, <4>2
      <3>2. Port!Start(r)
        BY <1>2, <2>2, <3>1 DEF Port!Start, Running, InPython
      <3>. QED
        BY <3>2 DEF PortStep, Port!Next
    <2>. QED
      BY <2>4, <2>5
  <1>6. CASE CallbackReturns(r)
    <2>1. thread[r] \in InPython /\ thread'[r] = "idle"
      BY <1>3, <1>6 DEF CallbackReturns, Goes, InPython
    <2>2. r \in Running /\ Running' = Running \ {r}
      BY <1>3, <2>1 DEF Running, InPython
    <2>3. Port!Return(r)
      BY <1>2, <2>2 DEF Port!Return, Running, InPython
    <2>. QED
      BY <2>3 DEF PortStep, Port!Next
  <1>. QED
    BY <1>4, <1>5, <1>6 DEF ReaderThread, Invoke

\* A call begins, or overlaps another; the readers' threads do not move.
LEMMA BeginPortStep ==
    ASSUME ChannelInv, GoneIsClosed, ChannelInv', NEW c \in Callers,
           NEW name \in {"init", "close", "destroy"}, NEW activity \in BOOLEAN,
           CallsBy(c, name, activity, None)
    PROVE  PortStep
  <1>1. /\ ~gone /\ ~finalizing
        /\ name = "destroy" => Quiet
        /\ gone' = (name = "destroy")
        /\ overlapped' = (overlapped \/ ~Quiet)
        /\ UNCHANGED <<finalizing, initialized, channel, open, thread, old>>
    BY DEF CallsBy, Quiet
  <1>2. call'[c].name = name
    BY DEF CallsBy, Moves, ChannelInv, TypeOK
  <1>3. Running' = Running
    BY <1>1 DEF Running
  <1>4. CASE overlapped
    <2>1. Stage = "overlapped" /\ Stage' = "overlapped"
      BY <1>1, <1>4, StageIs, StageIsNext DEF StageFacts
    <2>. QED
      BY <1>3, <2>1 DEF PortStep
  <1>5. CASE ~overlapped /\ Quiet
    <2>1. Stage \in {"closed", "open"}
      BY <1>1, <1>5, StageIs DEF StageFacts
    <2>2. /\ name = "init" => Stage' = "opening"
          /\ name = "close" => Stage' = "closing"
          /\ name = "destroy" => Stage' = "destroying"
      BY <1>1, <1>2, <1>5, StageIsNext DEF StageFacts
    <2>3. PICK stage \in {"opening", "closing", "destroying"} : Stage' = stage
      BY <2>2
    <2>4. Port!Begin(stage)
      BY <1>3, <2>1, <2>3 DEF Port!Begin, Running, InPython
    <2>. QED
      BY <2>4 DEF PortStep, Port!Next
  <1>6. CASE ~overlapped /\ ~Quiet
    <2>1. PICK d \in Callers : InCall(d)
      BY <1>6 DEF Quiet
    <2>2. call[d].name \in {"init", "close", "destroy", "failed"}
      BY <2>1, CallTypes DEF InCall, ChannelInv
    <2>3. call[d].name # "destroy"
      BY <1>1, <2>1 DEF GoneIsClosed
    <2>4. Stage \in {"opening", "closing"} /\ Stage' = "overlapped"
      BY <1>1, <1>6, <2>2, <2>3, StageIs, StageIsNext DEF StageFacts
    <2>5. Port!Overlap
      BY <1>3, <2>4 DEF Port!Overlap, Running, InPython
    <2>. QED
      BY <2>5 DEF PortStep, Port!Next
  <1>. QED
    BY <1>4, <1>5, <1>6

\* A call returns when one reader is left at most, or none.
LEMMA ReturnPortStep ==
    ASSUME ChannelInv, ChannelInv', GoneIsClosed, GoneIsClosed', NEW c \in Callers, Returns(c)
    PROVE  PortStep
  <1>1. /\ InCall(c) /\ call[c].at = "acquire" /\ call'[c].name = "none"
        /\ \A d \in Callers \ {c} : call'[d] = call[d]
        /\ call[c].name # "failed" => (initialized' <=> call[c].name = "init")
        /\ call[c].name = "failed" => (initialized' <=> initialized)
        /\ ~finalizing
        /\ UNCHANGED <<finalizing, active, channel, open, thread, gone, overlapped>>
    BY CallTypes DEF Returns, Moves, ChannelInv, TypeOK, InCall
  <1>2. Running' = Running
    BY <1>1 DEF Running
  <1>3. CASE overlapped
    <2>1. Stage = "overlapped" /\ Stage' = "overlapped"
      BY <1>1, <1>3, StageIs, StageIsNext DEF StageFacts
    <2>. QED
      BY <1>2, <2>1 DEF PortStep
  <1>4. CASE ~overlapped
    <2>1. Quiet'
      BY <1>1, <1>4 DEF ChannelInv, Ordered, Quiet, InCall
    <2>2. /\ OneReader
          /\ call[c].name # "failed" => (channel # None <=> call[c].name = "init")
          /\ call[c].name = "failed" => (initialized <=> channel # None)
      BY <1>1, <1>4 DEF ChannelInv, Ordered, Progress
    <2>3. gone <=> call[c].name = "destroy"
      BY <1>1 DEF GoneIsClosed
    <2>4. call[c].name \in {"init", "close", "destroy", "failed"}
      BY <1>1, CallTypes DEF InCall, ChannelInv
    <2>5. CASE call[c].name = "init"
      <3>1. Stage = "opening" /\ Stage' = "open"
        BY <1>1, <1>4, <2>1, <2>3, <2>5, StageIs, StageIsNext DEF StageFacts
      <3>2. \A r, s \in Running : r = s
        BY <2>2, RunningIsOpen
      <3>3. Port!Opened
        BY <1>2, <3>1, <3>2 DEF Port!Opened, Running, InPython
      <3>. QED
        BY <3>3 DEF PortStep, Port!Next
    <2>7. CASE call[c].name = "failed"
      <3>1. /\ Stage = "opening" /\ ~gone
            /\ initialized => Stage' = "open"
            /\ ~initialized => Stage' = "closed"
        BY <1>1, <1>4, <2>1, <2>3, <2>7, StageIs, StageIsNext DEF StageFacts
      <3>2. CASE initialized
        <4>1. \A r, s \in Running : r = s
          BY <2>2, RunningIsOpen
        <4>2. Port!Opened
          BY <1>2, <3>1, <3>2, <4>1 DEF Port!Opened, Running, InPython
        <4>. QED
          BY <4>2 DEF PortStep, Port!Next
      <3>3. CASE ~initialized
        <4>1. Running = {}
          BY <2>2, <2>7, <3>3, RunningIsOpen DEF OneReader
        <4>2. Port!OpenFails
          BY <1>2, <3>1, <3>3, <4>1 DEF Port!OpenFails, Running, InPython
        <4>. QED
          BY <4>2 DEF PortStep, Port!Next
      <3>. QED
        BY <3>2, <3>3
    <2>6. CASE call[c].name \in {"close", "destroy"}
      <3>1. \/ Stage = "closing" /\ Stage' = "closed"
            \/ Stage = "destroying" /\ Stage' = "gone"
        BY <1>1, <1>4, <2>1, <2>3, <2>4, <2>6, StageIs, StageIsNext DEF StageFacts
      <3>2. Running = {}
        BY <2>2, <2>6, RunningIsOpen DEF OneReader
      <3>3. Port!Closed
        BY <1>2, <3>1, <3>2 DEF Port!Closed, Running, InPython
      <3>. QED
        BY <3>3 DEF PortStep, Port!Next
    <2>. QED
      BY <2>4, <2>5, <2>6, <2>7
  <1>. QED
    BY <1>3, <1>4

\* The interpreter's exit begins between calls, and what it destroys is not seen.
LEMMA ExitPortStep ==
    ASSUME ChannelInv, ChannelInv', Finalizes \/ DestroyAtExit
    PROVE  PortStep
  <1>1. /\ Quiet /\ Quiet' /\ finalizing'
        /\ UNCHANGED <<initialized, thread, overlapped>>
        /\ Finalizes => ~finalizing
        /\ DestroyAtExit => finalizing
    BY DEF Finalizes, DestroyAtExit, ChannelInv, ExitIsQuiet, Quiet, InCall
  <1>2. Running' = Running
    BY <1>1 DEF Running
  <1>3. overlapped => Stage = "overlapped" /\ Stage' = "overlapped"
    BY <1>1, StageIs, StageIsNext DEF StageFacts
  <1>4. ~overlapped => Stage' = "exiting"
    BY <1>1, StageIsNext DEF StageFacts
  <1>5. ~overlapped /\ DestroyAtExit => Stage = "exiting"
    BY <1>1, StageIs DEF StageFacts
  <1>6. ~overlapped /\ Finalizes => Stage \in {"closed", "open", "gone"}
    BY <1>1, StageIs DEF StageFacts
  <1>7. Stage' = Stage \/ Port!Exit
    BY <1>2, <1>3, <1>4, <1>5, <1>6 DEF Port!Exit, Running, InPython
  <1>. QED
    BY <1>2, <1>7 DEF PortStep, Port!Next

LEMMA StepMaps ==
    ChannelInv /\ ChannelInv' /\ GoneIsClosed /\ GoneIsClosed' /\ [Next]_vars => PortStep
  <1>. SUFFICES ASSUME ChannelInv, ChannelInv', GoneIsClosed, GoneIsClosed', [Next]_vars
                PROVE  PortStep
    OBVIOUS
  <1>1. ASSUME UNCHANGED <<finalizing, initialized, gone, overlapped, thread>>,
               \A c \in Callers : call'[c].name = call[c].name
        PROVE  PortStep
    BY <1>1, StageKept DEF PortStep, Running
  <1>2. ASSUME NEW c \in Callers, Yields(c) \/ Resumes(c) \/ Swaps(c) \/ DestroysOld(c)
        PROVE  PortStep
    <2>1. /\ UNCHANGED <<finalizing, gone, initialized, overlapped, thread>>
          /\ \A d \in Callers : call'[d].name = call[d].name
      BY <1>2 DEF Yields, Resumes, Swaps, DestroysOld, DestroysOldOnce, At, Moves, ChannelInv, TypeOK
    <2>. QED
      BY <1>1, <2>1
  <1>6. ASSUME NEW c \in Callers, InitFails(c)
        PROVE  PortStep
    <2>1. /\ call[c].name = "init" /\ call'[c].name = "failed"
          /\ UNCHANGED <<overlapped, thread>>
      BY <1>6 DEF InitFails, At, Moves, ChannelInv, TypeOK
    <2>2. Stage' = Stage
      BY <2>1, StageIs, StageIsNext DEF StageFacts
    <2>. QED
      BY <2>1, <2>2 DEF PortStep, Running
  <1>3. ASSUME NEW c \in Callers, InitChannel(c)
        PROVE  PortStep
    BY <1>3, BeginPortStep DEF InitChannel
  <1>4. ASSUME NEW c \in Callers, CloseChannel(c) \/ Destructor(c)
        PROVE  PortStep
    BY <1>4, BeginPortStep DEF CloseChannel, Destructor
  <1>5. CASE UNCHANGED vars
    BY <1>1, <1>5 DEF vars
  <1>. QED
    BY <1>2, <1>3, <1>4, <1>5, <1>6, ReaderPortStep, ReturnPortStep, ExitPortStep DEF Next, CallSteps

LEMMA InitMaps == Init => Port!Init
  <1>. SUFFICES ASSUME Init PROVE Port!Init
    OBVIOUS
  <1>1. ChannelInv
    BY InvInit
  <1>2. Quiet /\ ~overlapped /\ ~finalizing /\ ~gone /\ ~initialized
    BY DEF Init, Quiet, InCall
  <1>3. Stage = "closed"
    BY <1>1, <1>2, StageIs DEF StageFacts
  <1>4. Running = {}
    BY DEF Init, Running, InPython
  <1>. QED
    BY <1>3, <1>4 DEF Port!Init, Running, InPython

\* The binding implements the abstract subscriber: readers, their threads, the two tests
\* of active_ and the GIL together give Python code what it was promised.
THEOREM SubscriberIsCallbacks == Spec => ImplementsCallbacks
  <1>1. PortStep => [Port!Next]_(Port!vars)
    BY DEF PortStep, Port!vars, Running, InPython
  <1>. QED
    BY <1>1, InitMaps, StepMaps, InvHolds, GoneHolds, PTL DEF Spec, ImplementsCallbacks, Port!Spec
=============================================================================
