---------------------------- MODULE Subscription ----------------------------
(***************************************************************************)
(* Two answers to "is the robot still there?": SubscriptionBase::isTimeout *)
(* with wait_for_connection, and lost_connection on the channel below it.  *)
(* The dds thread stamps mLastDataAvailableTime, then last_update_time_,   *)
(* then copies the sample into msg_ under mutex_; the user's thread reads  *)
(* the clock first and the stamp afterwards.  g1::LowState::update turns   *)
(* msg_ into a joystick timeout.  Time is counted in ticks: `clock` is the *)
(* steady time of the first two, `wall` the system_clock of the last,      *)
(* which somebody may set while the program runs.                          *)
(***************************************************************************)
EXTENDS Integers, Sequences

CONSTANTS Word,         \* 2^64: the monotonic time is unsigned
          InitTimeout,  \* timeout_ms_ when constructed
          LossTimeout,  \* timeout_ms of lost_connection
          JoyTimeout,   \* joystick_timeout_ms_
          Timeouts,     \* arguments of set_timeout_ms
          Uptime,       \* the monotonic times the program may start at
          Wall,         \* the times of system_clock the program may start at
          Walls,        \* the times it may be set to
          MaxClock, MaxSamples, MaxUpdates, \* bounds: time, samples, calls of update
          MaxSteps,     \* bound: how often system_clock is set
          Mixed         \* bound: FALSE: the three calls come before the first update() and
                        \* before system_clock is set, neither of which they look at

ASSUME SubscriptionAssumption ==
    /\ Word \in Nat /\ InitTimeout \in Nat /\ LossTimeout \in Nat /\ JoyTimeout \in Nat
    /\ Timeouts \subseteq Nat /\ MaxClock \in Nat /\ Uptime \subseteq 0..MaxClock
    /\ MaxClock + 1 < Word - LossTimeout   \* the clock does not come near its width

ASSUME WallAssumption == Wall \subseteq Nat /\ Walls \subseteq Nat

ASSUME MixedAssumption == Mixed \in BOOLEAN

VARIABLES
    clock,
    wall, steps, \* system_clock, in ticks since its epoch, and how often it has been set
    available,   \* GetLastDataAvailableTime(): -1 without a channel, 0 before data
    updated,     \* last_update_time_
    timeout,     \* timeout_ms_
    custom,      \* the constructor was given a handler of the user's
    msg,         \* msg_: the rank of its sample, 0 before the first
    ddsPc,       \* "idle", "handler" (called), "store" (waits for mutex_)
    user,        \* the user's thread: its call, and `now` in that call
    joyTime, isJoystickTimeout,
    samples,     \* history: when each sample was stamped, and if its remote is active
    handled,     \* history: when the subscription's handler was called for them
    updates,     \* history: the calls of update
    ret,         \* history: the call that returned last: its result, its `now`, and how
                 \* many samples had been stamped and handled when it read the stamp
    raised       \* history: timeout_ms_ has been more than InitTimeout

stamps == <<available, updated, msg, ddsPc, samples, handled>>
times == <<clock, wall, steps>>
joystick == <<joyTime, isJoystickTimeout, updates>>
vars == <<times, timeout, custom, user, ret, raised, stamps, joystick>>

Calls == {"none", "isTimeout", "wait", "lost_connection"}

TypeOK ==
    /\ clock \in 0..MaxClock /\ wall \in Nat /\ steps \in Nat
    /\ available \in -1..clock /\ updated \in Int /\ updated <= clock
    /\ timeout \in Timeouts \cup {InitTimeout} /\ custom \in BOOLEAN /\ raised \in BOOLEAN
    /\ ddsPc \in {"idle", "handler", "store"}
    /\ samples \in Seq([at : 0..clock, active : BOOLEAN]) /\ handled \in Seq(0..clock)
    /\ msg \in 0..Len(handled) /\ Len(handled) <= Len(samples)
    /\ user \in [call : Calls, pc : {"now", "test", "asleep"}, now : 0..clock]
    /\ joyTime \in Nat /\ isJoystickTimeout \in BOOLEAN
    /\ updates \in Seq([at : Nat, active : BOOLEAN])
    /\ ret \in [call : Calls, result : BOOLEAN, now : 0..clock, got : Nat, seen : Nat]

Nothing == [call |-> "none", result |-> FALSE, now |-> 0, got |-> 0, seen |-> 0]

\* The constructor sets last_update_time_ back by timeout_ms_ and then creates
\* the channel, which takes time.  joyTime is the epoch of system_clock, which is
\* not long ago on a machine that does not know the date yet.
Init ==
    /\ clock \in Uptime /\ wall \in Wall /\ steps = 0
    /\ available \in {-1, 0}
    /\ updated = clock - InitTimeout - 1 /\ timeout = InitTimeout
    /\ custom \in BOOLEAN /\ raised = FALSE
    /\ msg = 0 /\ ddsPc = "idle" /\ samples = <<>> /\ handled = <<>>
    /\ user = [call |-> "none", pc |-> "now", now |-> 0]
    /\ joyTime = 0 /\ isJoystickTimeout = FALSE /\ updates = <<>>
    /\ ret = Nothing

Tick ==
    /\ clock < MaxClock /\ clock' = clock + 1
    /\ wall' = wall + 1
    /\ UNCHANGED <<steps, timeout, custom, user, ret, raised, stamps, joystick>>

\* Somebody sets system_clock, forwards or back.
ClockIsSet ==
    /\ steps < MaxSteps /\ steps' = steps + 1
    /\ wall' \in Walls
    /\ UNCHANGED <<clock, timeout, custom, user, ret, raised, stamps, joystick>>

-----------------------------------------------------------------------------
(* The dds thread: on_data_available, and the handler of SubscriptionBase. *)

DdsUnchanged == UNCHANGED <<times, timeout, custom, user, ret, raised, joystick>>

SampleArrives ==
    /\ ddsPc = "idle" /\ available # -1 /\ Len(samples) < MaxSamples
    /\ available' = clock
    /\ \E active \in BOOLEAN : samples' = Append(samples, [at |-> clock, active |-> active])
    /\ ddsPc' = IF custom THEN "idle" ELSE "handler"
    /\ DdsUnchanged /\ UNCHANGED <<updated, msg, handled>>

HandlerStampsAt(time) ==
    /\ ddsPc = "handler" /\ ddsPc' = "store"
    /\ updated' = time /\ handled' = Append(handled, clock)
    /\ DdsUnchanged /\ UNCHANGED <<available, msg, samples>>

HandlerStamps_Not == HandlerStampsAt(updated)   \* mutation: no stamp

HandlerStamps == HandlerStampsAt(clock)

\* msg_ is used under mutex_ only, so that one step stands for the section.
HandlerStores ==
    /\ ddsPc = "store" /\ ddsPc' = "idle"
    /\ msg' = Len(samples)
    /\ DdsUnchanged /\ UNCHANGED <<available, updated, samples, handled>>

DdsThread == SampleArrives \/ HandlerStamps \/ HandlerStores

-----------------------------------------------------------------------------
(* The user's thread: one call at a time.                                  *)

UserUnchanged == UNCHANGED <<times, custom, stamps>>

UserCalls ==
    /\ user.call = "none" /\ (Mixed \/ (updates = <<>> /\ steps = 0))
    /\ \E call \in Calls \ {"none"} : user' = [user EXCEPT !.call = call]
    /\ ret' = Nothing
    /\ UserUnchanged /\ UNCHANGED <<timeout, raised, joystick>>

ReadsNow ==
    /\ user.call # "none" /\ user.pc = "now"
    /\ user' = [user EXCEPT !.pc = "test", !.now = clock]
    /\ UserUnchanged /\ UNCHANGED <<timeout, ret, raised, joystick>>

Return(result) ==
    /\ ret' = [call |-> user.call, result |-> result, now |-> user.now,
               got |-> Len(samples), seen |-> Len(handled)]
    /\ user' = [user EXCEPT !.call = "none", !.pc = "now"]

TimedOut_NotStrict == user.now - updated >= timeout   \* mutation: >= for >

TimedOut == user.now - updated > timeout   \* durations are signed

IsTimeoutReturns ==
    /\ user.call = "isTimeout" /\ user.pc = "test"
    /\ Return(TimedOut)
    /\ UserUnchanged /\ UNCHANGED <<timeout, raised, joystick>>

WaitTests ==
    /\ user.call = "wait" /\ user.pc = "test"
    /\ IF TimedOut THEN user' = [user EXCEPT !.pc = "asleep"] /\ UNCHANGED ret
       ELSE Return(TRUE)
    /\ UserUnchanged /\ UNCHANGED <<timeout, raised, joystick>>

\* sleep_for(100 ms), for as long as it takes.
WaitWakes ==
    /\ user.pc = "asleep" /\ user' = [user EXCEPT !.pc = "now"]
    /\ UserUnchanged /\ UNCHANGED <<timeout, ret, raised, joystick>>

Elapsed_Swapped ==   \* mutation: the operands are swapped
    IF available < user.now THEN available - user.now + Word ELSE available - user.now
Elapsed_NoData ==    \* mutation: as long as there is no data, nothing is lost
    IF available <= 0 THEN 0 ELSE user.now - available

\* (now - last) in uint64_t.
Elapsed ==
    IF user.now < available THEN user.now - available + Word ELSE user.now - available

LostConnectionReturns ==
    /\ user.call = "lost_connection" /\ user.pc = "test"
    /\ Return(Elapsed > LossTimeout)
    /\ UserUnchanged /\ UNCHANGED <<timeout, raised, joystick>>

SetTimeout ==
    /\ user.call = "none" /\ timeout' \in Timeouts
    /\ raised' = (raised \/ timeout' > InitTimeout)
    /\ ret' = Nothing
    /\ UserUnchanged /\ UNCHANGED <<user, joystick>>

RemoteActive == msg > 0 /\ samples[msg].active

UpdateFlag(flagWhenActive) ==
    /\ user.call = "none" /\ Len(updates) < MaxUpdates
    /\ updates' = Append(updates, [at |-> wall, active |-> RemoteActive])
    /\ IF RemoteActive THEN joyTime' = wall /\ isJoystickTimeout' = flagWhenActive
       ELSE /\ isJoystickTimeout' = (isJoystickTimeout \/ wall - joyTime > JoyTimeout)
            /\ UNCHANGED joyTime
    /\ ret' = Nothing
    /\ UserUnchanged /\ UNCHANGED <<timeout, user, raised>>

Update_KeepsFlag == UpdateFlag(isJoystickTimeout)   \* mutation: it is not taken back

\* LowState::update: an active remote takes the flag back.
Update == UpdateFlag(FALSE)

UserSteps == ReadsNow \/ IsTimeoutReturns \/ WaitTests \/ WaitWakes \/ LostConnectionReturns

Next == Tick \/ ClockIsSet \/ DdsThread \/ UserCalls \/ UserSteps \/ SetTimeout \/ Update

Spec == Init /\ [][Next]_vars

\* The two threads run; samples need not come, nor the user call anything.
FairSpec == Spec /\ WF_vars(HandlerStamps) /\ WF_vars(HandlerStores) /\ WF_vars(UserSteps)
-----------------------------------------------------------------------------
Returned(call, result) == ret.call = call /\ ret.result = result

\* lost_connection (terminations.hpp) "checks if the last data available time is
\* older than the specified timeout": TRUE means that no sample had come within it.
NoFalseAlarm ==
    Returned("lost_connection", TRUE) =>
        \A i \in 1..ret.got : samples[i].at + LossTimeout < ret.now

\* It says TRUE wrongly in one case only: a sample has been stamped after the clock
\* was read, and the unsigned difference has wrapped.
FalseAlarmOnlyInTheGap ==
    Returned("lost_connection", TRUE) =>
        \/ \A i \in 1..ret.got : samples[i].at + LossTimeout < ret.now
        \/ \E i \in 1..ret.got : samples[i].at > ret.now

\* It never says FALSE of a connection that is lost or that never was, with a
\* channel or without, once the machine has been up for as long as the timeout.
SilenceIsReported ==
    Returned("lost_connection", FALSE) =>
        \/ ret.now <= LossTimeout
        \/ \E i \in 1..ret.got : samples[i].at + LossTimeout >= ret.now

\* isTimeout, and with it the return of wait_for_connection, tells whether the
\* subscription's own handler has been called within timeout_ms_, also when it is
\* called between the two reads; not so once set_timeout_ms has raised the
\* time-out, for the constructor has counted with the old one.
TimeoutIsExact ==
    LET fresh == \E i \in 1..ret.seen : handled[i] + timeout >= ret.now
    IN  ~raised => /\ ret.call = "isTimeout" => (ret.result <=> ~fresh)
                   /\ ret.call = "wait" => fresh

\* When the last update() with an active remote was, by system_clock: its epoch if
\* there has been none.
LastActive ==
    LET actives == {i \in DOMAIN updates : updates[i].active}
    IN  IF actives = {} THEN 0
        ELSE updates[CHOOSE i \in actives : \A k \in actives : k <= i].at

\* However system_clock is set, the flag says that some update() since the last one
\* with an active remote was more than the time-out after it: a clock that is set
\* back does not take the flag away, and only an active remote does.
JoystickTimeoutIsExact ==
    isJoystickTimeout <=>
        \E j \in DOMAIN updates :
            /\ \A i \in j..Len(updates) : ~updates[i].active
            /\ updates[j].at - LastActive > JoyTimeout

\* wait_for_connection returns if samples keep coming to the subscription's own
\* handler; with a handler of the user's that is never so.
Fresh == handled # <<>> /\ handled[Len(handled)] + timeout >= clock
WaitReturns == (user.call = "wait" /\ []Fresh) ~> user.call # "wait"
=============================================================================
