-------------------------- MODULE SubscriptionProofs --------------------------
(* Proofs about Subscription, for every clock, time-out and number of samples. *)
EXTENDS Subscription, TLAPS

Stamps == [at : 0..MaxClock, active : BOOLEAN]

\* The types a step needs, with the bound of time in place of the time reached.
Typed ==
    /\ clock \in 0..MaxClock /\ available \in Int
    /\ samples \in Seq(Stamps)
    /\ user \in [call : Calls, pc : {"now", "test", "asleep"}, now : 0..MaxClock]
    /\ ret.got \in Nat /\ ret.now \in Int

\* The stamp is that of the last sample, and the stamps rise.
Stamped ==
    /\ samples = <<>> => available \in {-1, 0}
    /\ samples # <<>> => available = samples[Len(samples)].at
    /\ \A i \in 1..Len(samples) : samples[i].at <= available
    /\ available <= clock /\ user.now <= clock
    /\ ret.got <= Len(samples)

IInv == Typed /\ Stamped /\ FalseAlarmOnlyInTheGap /\ SilenceIsReported

LEMMA ReturnedCorrectly ==
    ASSUME Typed, Stamped, LostConnectionReturns
    PROVE  FalseAlarmOnlyInTheGap' /\ SilenceIsReported'
<1> USE SubscriptionAssumption
<1>1. /\ ret'.call = "lost_connection" /\ ret'.result = (Elapsed > LossTimeout)
      /\ ret'.now = user.now /\ ret'.got = Len(samples) /\ samples' = samples
      BY DEF LostConnectionReturns, Return, UserUnchanged, times, stamps
<1>2. /\ available \in Int /\ user.now \in 0..MaxClock /\ clock \in 0..MaxClock
      /\ \A i \in 1..Len(samples) : samples[i].at \in 0..MaxClock
      /\ Len(samples) \in Nat
  <2>1. \A i \in 1..Len(samples) : samples[i] \in Stamps
        BY DEF Typed
  <2> QED BY <2>1 DEF Typed, Stamps
<1>3. CASE user.now < available
  <2>1. samples # <<>>
        BY <1>2, <1>3 DEF Stamped
  <2>2. Len(samples) \in 1..Len(samples)
        BY <2>1 DEF Typed
  <2>3. Elapsed > LossTimeout
        BY <1>2, <1>3 DEF Elapsed, Stamped
  <2>4. samples[Len(samples)].at > user.now
        BY <1>3, <2>1 DEF Stamped
  <2> QED BY <1>1, <2>2, <2>3, <2>4 DEF FalseAlarmOnlyInTheGap, SilenceIsReported, Returned
<1>4. CASE ~(user.now < available)
  <2>1. Elapsed = user.now - available
        BY <1>4 DEF Elapsed
  <2>2. CASE Elapsed > LossTimeout
    <3>1. \A i \in 1..Len(samples) : samples[i].at + LossTimeout < user.now
          BY <1>2, <2>1, <2>2 DEF Stamped
    <3> QED BY <1>1, <2>2, <3>1 DEF FalseAlarmOnlyInTheGap, SilenceIsReported, Returned
  <2>3. CASE ~(Elapsed > LossTimeout)
    <3>1. CASE samples = <<>>
      <4>1. user.now <= LossTimeout
            BY <1>2, <2>1, <2>3, <3>1 DEF Stamped
      <4> QED BY <1>1, <2>3, <4>1 DEF FalseAlarmOnlyInTheGap, SilenceIsReported, Returned
    <3>2. CASE samples # <<>>
      <4>1. Len(samples) \in 1..Len(samples)
            BY <3>2 DEF Typed
      <4>2. samples[Len(samples)].at + LossTimeout >= user.now
            BY <1>2, <2>1, <2>3, <3>2, <4>1 DEF Stamped
      <4> QED BY <1>1, <2>3, <4>1, <4>2 DEF FalseAlarmOnlyInTheGap, SilenceIsReported, Returned
    <3> QED BY <3>1, <3>2
  <2> QED BY <2>2, <2>3
<1> QED BY <1>3, <1>4

\* What has been returned stays right while samples come and time passes.
LEMMA StaysCorrect ==
    ASSUME Typed, Stamped, FalseAlarmOnlyInTheGap, SilenceIsReported, UNCHANGED ret,
           \A i \in 1..Len(samples) : samples'[i] = samples[i]
    PROVE  FalseAlarmOnlyInTheGap' /\ SilenceIsReported'
<1>1. \A i \in 1..ret.got : samples'[i] = samples[i]
      BY DEF Typed, Stamped
<1> QED BY <1>1 DEF FalseAlarmOnlyInTheGap, SilenceIsReported, Returned

LEMMA Invariant == Spec => []IInv
<1> USE SubscriptionAssumption
<1>1. Init => IInv
  <2> SUFFICES ASSUME Init PROVE IInv
      OBVIOUS
  <2>1. Typed
    <3>1. <<>> \in Seq(Stamps)
          OBVIOUS
    <3> QED BY <3>1 DEF Init, Typed, Calls, Nothing
  <2>2. Stamped
        BY DEF Init, Stamped, Nothing
  <2>3. FalseAlarmOnlyInTheGap /\ SilenceIsReported
        BY DEF Init, Nothing, FalseAlarmOnlyInTheGap, SilenceIsReported, Returned
  <2> QED BY <2>1, <2>2, <2>3 DEF IInv
<1>2. IInv /\ [Next]_vars => IInv'
  <2> SUFFICES ASSUME IInv, [Next]_vars PROVE IInv'
      OBVIOUS
  <2>a. Typed /\ Stamped /\ FalseAlarmOnlyInTheGap /\ SilenceIsReported
        BY DEF IInv
  <2>1. CASE Tick \/ ClockIsSet
    <3>1. Typed' /\ Stamped'
          BY <2>1, <2>a DEF Tick, ClockIsSet, Typed, Stamped, stamps
    <3> QED BY <2>1, <2>a, <3>1, StaysCorrect DEF Tick, ClockIsSet, IInv, stamps
  <2>2. CASE SampleArrives
    <3>1. PICK active \in BOOLEAN : samples' = Append(samples, [at |-> clock, active |-> active])
          BY <2>2 DEF SampleArrives
    <3> DEFINE stamp == [at |-> clock, active |-> active]
    <3>2. stamp \in Stamps /\ stamp.at = clock
          BY <2>a DEF Typed, Stamps
    <3> HIDE DEF stamp
    <3>3. /\ samples' \in Seq(Stamps) /\ Len(samples') = Len(samples) + 1
          /\ samples'[Len(samples) + 1] = stamp
          /\ \A i \in 1..Len(samples) : samples'[i] = samples[i]
          BY <2>a, <3>1, <3>2 DEF Typed, stamp
    <3>4. /\ available' = clock /\ UNCHANGED <<clock, user, ret>>
          BY <2>2 DEF SampleArrives, DdsUnchanged, times
    <3>5. Typed'
          BY <2>a, <3>3, <3>4 DEF Typed
    <3>6. Stamped'
      <4>1. \A i \in 1..Len(samples') : samples'[i].at <= available'
        <5> SUFFICES ASSUME NEW i \in 1..Len(samples') PROVE samples'[i].at <= clock
            BY <3>4
        <5>1. CASE i \in 1..Len(samples)
          <6>1. samples[i] \in Stamps /\ samples[i].at <= available /\ available <= clock
                BY <5>1, <2>a DEF Typed, Stamped
          <6>2. samples'[i] = samples[i] /\ samples[i].at \in Nat /\ available \in Int /\ clock \in Nat
                BY <5>1, <6>1, <3>3, <2>a DEF Typed, Stamps
          <6> QED BY ONLY <6>1, <6>2
        <5>2. CASE i = Len(samples) + 1
              BY <5>2, <3>2, <3>3, <2>a DEF Typed
        <5> QED BY <5>1, <5>2, <3>3, <2>a DEF Typed
      <4> QED BY <4>1, <3>2, <3>3, <3>4, <2>a DEF Stamped, Typed
    <3>7. FalseAlarmOnlyInTheGap' /\ SilenceIsReported'
          BY <2>a, <3>3, <3>4, StaysCorrect
    <3> QED BY <3>5, <3>6, <3>7 DEF IInv
  <2>3. CASE HandlerStamps \/ HandlerStores
    <3>1. UNCHANGED <<clock, available, samples, user, ret>>
          BY <2>3 DEF HandlerStamps, HandlerStampsAt, HandlerStores, DdsUnchanged, times
    <3> QED BY <2>a, <3>1, StaysCorrect DEF IInv, Typed, Stamped
  <2>4. CASE UserCalls \/ UserSteps \/ SetTimeout \/ Update
    <3>1. UNCHANGED <<clock, available, samples>>
          BY <2>4 DEF UserCalls, UserSteps, ReadsNow, IsTimeoutReturns, WaitTests, WaitWakes,
             LostConnectionReturns, SetTimeout, Update, UpdateFlag, UserUnchanged, times, stamps
    <3>2. /\ user' \in [call : Calls, pc : {"now", "test", "asleep"}, now : 0..MaxClock]
          /\ user'.now = user.now \/ user'.now = clock
          BY <2>4, <2>a DEF Typed, UserCalls, UserSteps, ReadsNow, IsTimeoutReturns, WaitTests,
             WaitWakes, LostConnectionReturns, SetTimeout, Update, UpdateFlag, Return, Calls
    <3>3. \/ ret' = ret
          \/ ret' = Nothing
          \/ /\ ret'.now = user.now /\ ret'.got = Len(samples)
             /\ LostConnectionReturns \/ (ret'.call = user.call /\ user.call # "lost_connection")
          BY <2>4 DEF UserCalls, UserSteps, ReadsNow, IsTimeoutReturns, WaitTests,
             WaitWakes, LostConnectionReturns, SetTimeout, Update, UpdateFlag, Return
    <3>4. Typed' /\ Stamped'
          BY <2>a, <3>1, <3>2, <3>3 DEF Typed, Stamped, Nothing
    <3>5. FalseAlarmOnlyInTheGap' /\ SilenceIsReported'
      <4>1. CASE ret' = ret
            BY <4>1, <3>1, <2>a, StaysCorrect
      <4>2. CASE LostConnectionReturns
            BY <4>2, <2>a, ReturnedCorrectly
      <4>3. CASE ret'.call # "lost_connection"
            BY <4>3 DEF FalseAlarmOnlyInTheGap, SilenceIsReported, Returned
      <4> QED BY <3>3, <4>1, <4>2, <4>3 DEF Nothing
    <3> QED BY <3>4, <3>5 DEF IInv
  <2>5. CASE UNCHANGED vars
    <3>1. UNCHANGED <<clock, available, samples, user, ret>>
          BY <2>5 DEF vars, times, stamps
    <3> QED BY <2>a, <3>1, StaysCorrect DEF IInv, Typed, Stamped
  <2> QED BY <2>1, <2>2, <2>3, <2>4, <2>5 DEF Next, DdsThread
<1> QED BY <1>1, <1>2, PTL DEF Spec

\* lost_connection is wrong in the one window only, for every width, time-out and
\* number of samples.
THEOREM AlarmCorrect == Spec => []FalseAlarmOnlyInTheGap
<1>1. IInv => FalseAlarmOnlyInTheGap
      BY DEF IInv
<1> QED BY <1>1, Invariant, PTL

\* And it misses no lost connection: the unsigned difference is never small by
\* accident, not for the -1 and 0 that stand for "no data" either.
THEOREM SilenceCorrect == Spec => []SilenceIsReported
<1>1. IInv => SilenceIsReported
      BY DEF IInv
<1> QED BY <1>1, Invariant, PTL

-----------------------------------------------------------------------------
(* isTimeout and wait_for_connection.                                      *)

\* last_update_time_ is the newest call of the handler; before the first it is
\* further back than any time-out that has not been raised.
Updated ==
    /\ handled \in Seq(0..MaxClock) /\ updated \in Int /\ updated <= clock
    /\ timeout \in Nat /\ raised \in BOOLEAN
    /\ \A i \in 1..Len(handled) : handled[i] <= updated
    /\ handled # <<>> => updated = handled[Len(handled)]
    /\ handled = <<>> => /\ updated + InitTimeout < clock
                         /\ user.pc = "test" => updated + InitTimeout < user.now
    /\ ~raised => timeout <= InitTimeout
    /\ ret.seen \in 0..Len(handled)
    /\ user.call = "none" => user.pc = "now"

UInv == Updated /\ TimeoutIsExact

\* The test that isTimeout makes is exact.
LEMMA TestIsExact ==
    ASSUME Typed, Updated, ~raised, user.pc = "test"
    PROVE  TimedOut <=> ~\E i \in 1..Len(handled) : handled[i] + timeout >= user.now
<1> USE SubscriptionAssumption
<1>1. /\ user.now \in 0..MaxClock /\ updated \in Int /\ timeout \in Nat /\ Len(handled) \in Nat
      /\ timeout <= InitTimeout
      BY DEF Typed, Updated
<1>2. \A i \in 1..Len(handled) : handled[i] \in 0..MaxClock /\ handled[i] <= updated
      BY DEF Updated
<1>3. CASE handled = <<>>
      BY <1>1, <1>3 DEF Updated, TimedOut
<1>4. CASE handled # <<>>
  <2>1. Len(handled) \in 1..Len(handled) /\ updated = handled[Len(handled)]
        BY <1>4 DEF Updated
  <2> QED BY <1>1, <1>2, <2>1 DEF TimedOut
<1> QED BY <1>3, <1>4

LEMMA UpdatedInvariant == Spec => []UInv
<1> USE SubscriptionAssumption
<1>1. Init => UInv
  <2> SUFFICES ASSUME Init PROVE UInv
      OBVIOUS
  <2>1. handled \in Seq(0..MaxClock)
        BY DEF Init
  <2>2. clock \in Int /\ updated = clock - InitTimeout - 1
        BY DEF Init
  <2>3. handled = <<>> /\ Len(handled) = 0 /\ ret.seen = 0 /\ timeout = InitTimeout
        BY DEF Init, Nothing
  <2>7. raised \in BOOLEAN
        BY DEF Init
  <2>4. user.call = "none" /\ user.pc = "now"
        BY DEF Init
  <2>5. Updated
        BY <2>1, <2>2, <2>3, <2>4, <2>7 DEF Updated
  <2>6. TimeoutIsExact
        BY DEF Init, Nothing, TimeoutIsExact
  <2> QED BY <2>5, <2>6 DEF UInv
<1>2. Typed /\ UInv /\ [Next]_vars => UInv'
  <2> SUFFICES ASSUME Typed, Updated, TimeoutIsExact, [Next]_vars PROVE UInv'
      BY DEF UInv
  <2>1. CASE Tick
        BY <2>1 DEF Tick, stamps, UInv, Typed, Updated, TimeoutIsExact
  <2>2. CASE ClockIsSet \/ SampleArrives \/ HandlerStores \/ UNCHANGED vars
    <3>1. UNCHANGED <<clock, updated, handled, timeout, raised, user, ret>>
          BY <2>2 DEF ClockIsSet, SampleArrives, HandlerStores, DdsUnchanged, vars, times, stamps
    <3> QED BY <3>1 DEF UInv, Updated, TimeoutIsExact
  <2>3. CASE HandlerStamps
    <3>1. /\ updated' = clock /\ handled' = Append(handled, clock)
          /\ UNCHANGED <<clock, timeout, raised, user, ret>>
          BY <2>3 DEF HandlerStamps, HandlerStampsAt, DdsUnchanged, times
    <3>2. clock \in 0..MaxClock
          BY DEF Typed
    <3>3. /\ handled' \in Seq(0..MaxClock) /\ Len(handled') = Len(handled) + 1
          /\ handled'[Len(handled) + 1] = clock
          /\ \A i \in 1..Len(handled) : handled'[i] = handled[i]
          BY <3>1, <3>2 DEF Updated
    <3>4. \A i \in 1..Len(handled) : handled[i] <= clock
          BY <3>2 DEF Updated
    <3>5. \A i \in 1..Len(handled') : handled'[i] <= clock
      <4>1. Len(handled) \in Nat /\ clock \in Int
            BY <3>2 DEF Typed, Updated
      <4>2. \A i \in 1..Len(handled') : i \in 1..Len(handled) \/ i = Len(handled) + 1
            BY ONLY <3>3, <4>1
      <4> QED BY ONLY <3>3, <3>4, <4>1, <4>2
    <3>6. Updated'
          BY <3>1, <3>2, <3>3, <3>5 DEF Updated
    <3>7. \A i \in 1..ret.seen : handled'[i] = handled[i]
          BY <3>3 DEF Updated
    <3>8. TimeoutIsExact'
          BY <3>1, <3>7 DEF TimeoutIsExact
    <3> QED BY <3>6, <3>8 DEF UInv
  <2>4. CASE UserCalls \/ SetTimeout \/ Update
    <3>1. ret' = Nothing /\ UNCHANGED <<clock, updated, handled>>
          BY <2>4 DEF UserCalls, SetTimeout, Update, UpdateFlag, UserUnchanged, times, stamps
    <3>2. timeout' \in Nat /\ raised' \in BOOLEAN /\ (~raised' => timeout' <= InitTimeout)
      <4>1. CASE UNCHANGED <<timeout, raised>>
            BY <4>1 DEF Updated
      <4>2. CASE SetTimeout
        <5>1. timeout' \in Nat
              BY <4>2 DEF SetTimeout
        <5>2. raised' = (raised \/ timeout' > InitTimeout)
              BY <4>2 DEF SetTimeout
        <5>3. ~raised' => ~(timeout' > InitTimeout)
              BY <5>2
        <5>4. raised' \in BOOLEAN
              BY <5>2
        <5> QED BY <5>1, <5>3, <5>4
      <4> QED BY <2>4, <4>1, <4>2 DEF UserCalls, Update, UpdateFlag
    <3>3. user'.pc = user.pc /\ user'.now = user.now /\ (user'.call = "none" => user'.pc = "now")
          BY <2>4 DEF UserCalls, SetTimeout, Update, UpdateFlag, Updated, Typed, Calls
    <3>4. Updated'
          BY <3>1, <3>2, <3>3 DEF Updated, Nothing
    <3>5. TimeoutIsExact'
          BY <3>1 DEF TimeoutIsExact, Nothing
    <3> QED BY <3>4, <3>5 DEF UInv
  <2>5. CASE UserSteps
    <3>1. UNCHANGED <<clock, updated, handled, timeout, raised>>
          BY <2>5 DEF UserSteps, ReadsNow, IsTimeoutReturns, WaitTests, WaitWakes,
             LostConnectionReturns, UserUnchanged, times, stamps
    <3>2. CASE ReadsNow \/ WaitWakes
      <4>1. /\ ret' = ret /\ user'.call = user.call /\ user.call # "none"
            /\ user'.pc = "test" => user'.now = clock
            BY <3>2 DEF ReadsNow, WaitWakes, Typed, Updated
      <4> QED BY <3>1, <4>1 DEF UInv, Updated, TimeoutIsExact
    <3>3. CASE WaitTests /\ TimedOut
      <4>1. user'.call = "wait" /\ user'.pc = "asleep" /\ ret' = ret
            BY <3>3 DEF WaitTests, Typed
      <4> QED BY <3>1, <4>1 DEF UInv, Updated, TimeoutIsExact
    <3>4. CASE (WaitTests /\ ~TimedOut) \/ IsTimeoutReturns \/ LostConnectionReturns
      <4>1. /\ user.pc = "test" /\ user'.pc = "now" /\ user'.call = "none"
            /\ ret'.call = user.call /\ ret'.now = user.now /\ ret'.seen = Len(handled)
        <5>1. PICK result : Return(result)
              BY <3>4 DEF WaitTests, IsTimeoutReturns, LostConnectionReturns
        <5>2. user.pc = "test"
              BY <3>4 DEF WaitTests, IsTimeoutReturns, LostConnectionReturns
        <5> QED BY <5>1, <5>2 DEF Return, Typed
      <4>2. ret'.call = "isTimeout" => ret'.result = TimedOut
            BY <3>4 DEF WaitTests, IsTimeoutReturns, LostConnectionReturns, Return
      <4>3. ret'.call = "wait" => ~TimedOut
            BY <3>4 DEF WaitTests, IsTimeoutReturns, LostConnectionReturns, Return
      <4>4. Updated'
            BY <3>1, <4>1 DEF Updated
      <4>5. TimeoutIsExact'
            BY <3>1, <4>1, <4>2, <4>3, TestIsExact DEF TimeoutIsExact
      <4> QED BY <4>4, <4>5 DEF UInv
    <3> QED BY <2>5, <3>2, <3>3, <3>4 DEF UserSteps
  <2> QED BY <2>1, <2>2, <2>3, <2>4, <2>5 DEF Next, DdsThread
<1>3. IInv => Typed
      BY DEF IInv
<1> QED BY <1>1, <1>2, <1>3, Invariant, PTL DEF Spec

\* isTimeout and the return of wait_for_connection tell whether the handler has
\* been called in time, wherever it is called between the two reads.
THEOREM TimeoutCorrect == Spec => []TimeoutIsExact
<1>1. UInv => TimeoutIsExact
      BY DEF UInv
<1> QED BY <1>1, UpdatedInvariant, PTL

-----------------------------------------------------------------------------
(* The joystick.                                                           *)

WallStamps == [at : Nat, active : BOOLEAN]

\* The time t is that of the last update() that saw an active remote, or the epoch.
LastIs(t) ==
    \/ t = 0 /\ \A i \in 1..Len(updates) : ~updates[i].active
    \/ \E i \in 1..Len(updates) :
          /\ updates[i].active /\ updates[i].at = t
          /\ \A k \in 1..Len(updates) : updates[k].active => k <= i

Joyful ==
    /\ wall \in Nat /\ steps \in Nat
    /\ updates \in Seq(WallStamps) /\ joyTime \in Nat /\ LastIs(joyTime)

\* The update j that saw the remote quiet for too long, with no active one since.
Late(j) ==
    /\ \A i \in j..Len(updates) : ~updates[i].active
    /\ updates[j].at - joyTime > JoyTimeout

JInv == Joyful /\ (isJoystickTimeout <=> \E j \in 1..Len(updates) : Late(j))

LEMMA LastFound == Joyful => joyTime = LastActive
<1> SUFFICES ASSUME Joyful PROVE joyTime = LastActive
    OBVIOUS
<1> DEFINE n == Len(updates)
           actives == {i \in 1..n : updates[i].active}
           last == CHOOSE i \in actives : \A k \in actives : k <= i
           IsLast(i) == i \in actives /\ \A k \in actives : k <= i
<1>0. n \in Nat /\ DOMAIN updates = 1..n
      BY DEF Joyful
<1>1. LastActive = IF actives = {} THEN 0
                   ELSE updates[last].at
      BY <1>0 DEF LastActive
<1>2. CASE joyTime = 0 /\ \A i \in 1..n : ~updates[i].active
  <2>1. actives = {}
        BY <1>2
  <2> QED BY <1>1, <1>2, <2>1
<1>3. CASE \E i \in 1..n : /\ updates[i].active /\ updates[i].at = joyTime
                           /\ \A k \in 1..n : updates[k].active => k <= i
  <2>1. PICK i \in 1..n : /\ updates[i].active /\ updates[i].at = joyTime
                          /\ \A k \in 1..n : updates[k].active => k <= i
        BY <1>3
  <2>2. IsLast(i) /\ actives \subseteq Int
        BY <1>0, <2>1
  <2>3. \A k : IsLast(k) => k = i
    <3> SUFFICES ASSUME NEW k, IsLast(k) PROVE k = i
        OBVIOUS
    <3>1. k \in Int /\ i \in Int /\ k <= i /\ i <= k
          BY <2>2
    <3> QED BY <3>1
  <2>4. last = i
        BY <2>2, <2>3
  <2>5. i \in actives
        BY <2>1
  <2> HIDE DEF actives, last
  <2> QED BY <1>1, <2>1, <2>4, <2>5
<1> QED BY <1>2, <1>3 DEF Joyful, LastIs

LEMMA ActiveIsBoolean == RemoteActive \in BOOLEAN
<1>1. ASSUME NEW A, NEW B PROVE (A /\ B) \in BOOLEAN
      OBVIOUS
<1> QED BY <1>1 DEF RemoteActive

LEMMA UpdateIsExact ==
    ASSUME JInv, Update
    PROVE  JInv'
<1> USE SubscriptionAssumption
<1>0. PICK n \in Nat : n = Len(updates)
      BY DEF JInv, Joyful
<1> DEFINE active == RemoteActive
           stamp == [at |-> wall, active |-> active]
<1>1. /\ wall \in Nat /\ updates \in Seq(WallStamps) /\ joyTime \in Nat /\ steps \in Nat
      /\ updates' = Append(updates, stamp) /\ wall' = wall /\ steps' = steps
      BY DEF JInv, Joyful, Update, UpdateFlag, UserUnchanged, times
<1>2. stamp \in WallStamps /\ stamp.at = wall /\ stamp.active = active
      BY <1>1, ActiveIsBoolean DEF WallStamps
<1> HIDE DEF active, stamp
<1>3. /\ updates' \in Seq(WallStamps) /\ Len(updates') = n + 1 /\ updates'[n + 1] = stamp
      /\ \A i \in 1..n : updates'[i] = updates[i]
      BY <1>0, <1>1, <1>2
<1>4. \A i \in 1..n : updates[i].at \in Nat
  <2>1. \A i \in 1..n : updates[i] \in WallStamps
        BY <1>0, <1>1
  <2> QED BY <2>1 DEF WallStamps
<1>5. 1..Len(updates') = (1..n) \cup {n + 1}
      BY <1>3
<1>7. CASE active
  <2>1. joyTime' = wall /\ ~isJoystickTimeout'
        BY <1>7 DEF Update, UpdateFlag, active
  <2>2. ~\E j \in 1..Len(updates') : Late(j)'
    <3>1. updates'[n + 1].active
          BY <1>2, <1>3, <1>7
    <3>2. \A j \in 1..Len(updates') : n + 1 \in j..Len(updates')
          BY <1>3
    <3> QED BY <3>1, <3>2 DEF Late
  <2>3. /\ updates'[n + 1].active /\ updates'[n + 1].at = joyTime' /\ n + 1 \in 1..Len(updates')
        BY <1>2, <1>3, <1>5, <1>7, <2>1
  <2>6. \A k \in 1..Len(updates') : k <= n + 1
        BY <1>3
  <2>4. LastIs(joyTime)'
        BY <2>3, <2>6 DEF LastIs
  <2>5. Joyful'
        BY <1>1, <1>3, <2>1, <2>4 DEF Joyful
  <2> QED BY <2>1, <2>2, <2>5 DEF JInv
<1>8. CASE ~active
  <2>1. /\ joyTime' = joyTime
        /\ isJoystickTimeout' = (isJoystickTimeout \/ wall - joyTime > JoyTimeout)
        BY <1>8 DEF Update, UpdateFlag, active
  <2>2. ~updates'[n + 1].active /\ updates'[n + 1].at = wall
        BY <1>2, <1>3, <1>8
  <2>3. LastIs(joyTime)'
    <3>1. CASE joyTime = 0 /\ \A i \in 1..n : ~updates[i].active
          BY <1>3, <1>5, <2>1, <2>2, <3>1 DEF LastIs
    <3>2. CASE \E i \in 1..n : /\ updates[i].active /\ updates[i].at = joyTime
                               /\ \A k \in 1..n : updates[k].active => k <= i
      <4>1. PICK i \in 1..n : /\ updates[i].active /\ updates[i].at = joyTime
                              /\ \A k \in 1..n : updates[k].active => k <= i
            BY <3>2
      <4>2. /\ i \in 1..Len(updates') /\ updates'[i].active /\ updates'[i].at = joyTime'
            /\ \A k \in 1..Len(updates') : updates'[k].active => k <= i
            BY <1>3, <1>5, <2>1, <2>2, <4>1
      <4> QED BY <4>2 DEF LastIs
    <3> QED BY <1>0, <3>1, <3>2 DEF JInv, Joyful, LastIs
  <2>4. Joyful'
        BY <1>1, <1>3, <2>1, <2>3 DEF Joyful
  <2>5. \A j \in 1..n : Late(j)' <=> Late(j)
    <3> SUFFICES ASSUME NEW j \in 1..n PROVE Late(j)' <=> Late(j)
        OBVIOUS
    <3>1. j..Len(updates') = (j..n) \cup {n + 1} /\ j..n \subseteq 1..n
          BY <1>3
    <3>2. (\A i \in j..Len(updates') : ~updates'[i].active)
          <=> (\A i \in j..n : ~updates[i].active)
          BY <1>3, <2>2, <3>1
    <3> QED BY <1>0, <1>3, <2>1, <3>2 DEF Late
  <2>6. Late(n + 1)' <=> wall - joyTime > JoyTimeout
    <3>1. (n + 1)..Len(updates') = {n + 1}
          BY <1>3
    <3> QED BY <2>1, <2>2, <3>1 DEF Late
  <2>7. isJoystickTimeout <=> \E j \in 1..n : Late(j)
        BY <1>0 DEF JInv
  <2>8. isJoystickTimeout' <=> isJoystickTimeout \/ wall - joyTime > JoyTimeout
        BY <2>1
  <2>9. isJoystickTimeout' <=> \E j \in 1..Len(updates') : Late(j)'
        BY <1>5, <2>5, <2>6, <2>7, <2>8
  <2> QED BY <2>4, <2>9 DEF JInv
<1> QED BY <1>7, <1>8

LEMMA JoystickInvariant == Spec => []JInv
<1> USE SubscriptionAssumption
<1>1. Init => JInv
  <2> SUFFICES ASSUME Init PROVE JInv
      OBVIOUS
  <2>1. /\ updates = <<>> /\ Len(updates) = 0 /\ updates \in Seq(WallStamps)
        /\ joyTime = 0 /\ wall \in Nat /\ steps \in Nat
        BY WallAssumption DEF Init
  <2>2. ~isJoystickTimeout
        BY DEF Init
  <2> QED BY <2>1, <2>2 DEF JInv, Joyful, LastIs
<1>2. JInv /\ [Next]_vars => JInv'
  <2> SUFFICES ASSUME JInv, [Next]_vars PROVE JInv'
      OBVIOUS
  <2>1. CASE Update
        BY <2>1, UpdateIsExact
  <2>2. CASE ~Update
    <3>1. UNCHANGED joystick
          BY <2>2 DEF Next, vars, Tick, ClockIsSet, DdsThread, SampleArrives, HandlerStamps,
             HandlerStampsAt, HandlerStores, DdsUnchanged, UserCalls, UserSteps, ReadsNow,
             IsTimeoutReturns, WaitTests, WaitWakes, LostConnectionReturns, SetTimeout
    <3>2. UNCHANGED times \/ Tick \/ ClockIsSet
          BY <2>2 DEF Next, vars, DdsThread, SampleArrives, HandlerStamps,
             HandlerStampsAt, HandlerStores, DdsUnchanged, UserCalls, UserSteps, ReadsNow,
             IsTimeoutReturns, WaitTests, WaitWakes, LostConnectionReturns, SetTimeout,
             UserUnchanged, times
    <3>3. wall' \in Nat /\ steps' \in Nat
      <4>1. wall \in Nat /\ steps \in Nat
            BY DEF JInv, Joyful
      <4>2. Walls \subseteq Nat
            BY WallAssumption
      <4>3. wall' = wall \/ wall' = wall + 1 \/ wall' \in Walls
            BY <3>2 DEF Tick, ClockIsSet, times
      <4>4. steps' = steps \/ steps' = steps + 1
            BY <3>2 DEF Tick, ClockIsSet, times
      <4>5. wall' \in Nat
        <5>1. wall' \in Walls => wall' \in Nat
              BY <4>2
        <5> QED BY <4>1, <4>3, <5>1
      <4>6. steps' \in Nat
            BY <4>1, <4>4
      <4> QED BY <4>5, <4>6
    <3>4. Joyful'
          BY <3>1, <3>3 DEF JInv, Joyful, LastIs, joystick
    <3> QED BY <3>1, <3>4 DEF JInv, Late, joystick
  <2> QED BY <2>1, <2>2
<1> QED BY <1>1, <1>2, PTL DEF Spec

\* update() finds the joystick's time-out exactly, for every time-out, however rarely
\* it is called and however system_clock is set in between.
THEOREM JoystickCorrect == Spec => []JoystickTimeoutIsExact
<1>1. JInv => JoystickTimeoutIsExact
  <2> SUFFICES ASSUME JInv PROVE JoystickTimeoutIsExact
      OBVIOUS
  <2>1. joyTime = LastActive /\ DOMAIN updates = 1..Len(updates)
        BY LastFound DEF JInv, Joyful
  <2> QED BY <2>1 DEF JInv, Late, JoystickTimeoutIsExact
<1> QED BY <1>1, JoystickInvariant, PTL

-----------------------------------------------------------------------------
(* The types.                                                              *)

\* A handler is called for the sample that has just been stamped, and for every
\* sample unless the user has given one.
Counted ==
    /\ custom \in BOOLEAN /\ ddsPc \in {"idle", "handler", "store"}
    /\ Len(samples) \in Nat /\ Len(handled) \in Nat /\ msg \in 0..Len(handled)
    /\ custom => ddsPc = "idle" /\ Len(handled) = 0
    /\ ~custom => Len(samples) = Len(handled) + (IF ddsPc = "handler" THEN 1 ELSE 0)

Rest ==
    /\ timeout \in Timeouts \cup {InitTimeout}
    /\ ret \in [call : Calls, result : BOOLEAN, now : 0..MaxClock, got : Nat, seen : Nat]
    /\ ret.now <= clock

Flag == isJoystickTimeout \in BOOLEAN

LEMMA CountedStep == Typed /\ Updated /\ Counted /\ [Next]_vars => Counted'
<1> SUFFICES ASSUME Typed, Updated, Counted, [Next]_vars PROVE Counted'
    OBVIOUS
<1>1. CASE SampleArrives
  <2>1. Len(samples') = Len(samples) + 1
    <3>1. PICK active \in BOOLEAN : samples' = Append(samples, [at |-> clock, active |-> active])
          BY <1>1 DEF SampleArrives
    <3>2. [at |-> clock, active |-> active] \in Stamps
          BY DEF Typed, Stamps
    <3> QED BY <3>1, <3>2 DEF Typed
  <2> QED BY <1>1, <2>1 DEF Counted, SampleArrives, DdsUnchanged, times
<1>2. CASE HandlerStamps
  <2>1. Len(handled') = Len(handled) + 1
        BY <1>2 DEF Typed, Updated, HandlerStamps, HandlerStampsAt
  <2> QED BY <1>2, <2>1 DEF Counted, HandlerStamps, HandlerStampsAt, DdsUnchanged, times
<1>3. CASE HandlerStores
      BY <1>3 DEF Counted, HandlerStores, DdsUnchanged, times
<1>4. CASE ~DdsThread
  <2>1. UNCHANGED <<custom, stamps>>
        BY <1>4 DEF Next, vars, Tick, ClockIsSet, UserCalls, UserSteps, ReadsNow,
           IsTimeoutReturns,
           WaitTests, WaitWakes, LostConnectionReturns, SetTimeout, Update, UpdateFlag,
           UserUnchanged, times
  <2> QED BY <2>1 DEF Counted, stamps
<1> QED BY <1>1, <1>2, <1>3, <1>4 DEF DdsThread

LEMMA RestStep == Typed /\ Stamped /\ Updated /\ Counted /\ Rest /\ [Next]_vars => Rest'
<1> SUFFICES ASSUME Typed, Stamped, Updated, Counted, Rest, [Next]_vars PROVE Rest'
    OBVIOUS
<1>1. clock' \in 0..MaxClock /\ clock' >= clock
  <2>1. CASE Tick
        BY <2>1, SubscriptionAssumption DEF Typed, Tick
  <2>2. CASE ~Tick
    <3>1. clock' = clock
          BY <2>2 DEF Next, ClockIsSet, DdsThread, SampleArrives, HandlerStamps, HandlerStampsAt,
             HandlerStores, DdsUnchanged, UserCalls, UserSteps, ReadsNow, IsTimeoutReturns,
             WaitTests, WaitWakes, LostConnectionReturns, SetTimeout, Update, UpdateFlag,
             UserUnchanged, times,
             vars
    <3> QED BY <3>1 DEF Typed
  <2> QED BY <2>1, <2>2
<1>2. timeout' \in Timeouts \cup {InitTimeout}
      BY DEF Rest, Next, Tick, ClockIsSet, DdsThread, SampleArrives, HandlerStamps,
         HandlerStampsAt,
         HandlerStores, DdsUnchanged, UserCalls, UserSteps, ReadsNow, IsTimeoutReturns,
         WaitTests, WaitWakes, LostConnectionReturns, SetTimeout, Update, UpdateFlag, vars
<1>3. CASE ret' \in {ret, Nothing}
  <2>1. CASE ret' = ret
    <3>1. ret.now \in Int /\ clock \in Int /\ ret.now <= clock
          BY DEF Rest, Typed
    <3> QED BY <1>1, <1>2, <2>1, <3>1 DEF Rest
  <2>2. CASE ret' = Nothing
    <3>1. /\ Nothing \in [call : Calls, result : BOOLEAN, now : 0..MaxClock, got : Nat, seen : Nat]
          /\ Nothing.now = 0
          BY SubscriptionAssumption DEF Nothing, Calls
    <3> QED BY <1>1, <1>2, <2>2, <3>1 DEF Rest
  <2> QED BY <1>3, <2>1, <2>2
<1>4. CASE IsTimeoutReturns \/ (WaitTests /\ ~TimedOut) \/ LostConnectionReturns
  <2>1. PICK result \in BOOLEAN : Return(result)
    <3>1. /\ user.now \in Int /\ updated \in Int /\ timeout \in Int /\ Elapsed \in Int
          /\ LossTimeout \in Int
          BY SubscriptionAssumption DEF Typed, Updated, Elapsed
    <3>2. TimedOut \in BOOLEAN /\ (Elapsed > LossTimeout) \in BOOLEAN
          BY <3>1 DEF TimedOut
    <3> QED BY <1>4, <3>2 DEF IsTimeoutReturns, WaitTests, LostConnectionReturns
  <2>2. /\ user.call \in Calls /\ user.now \in 0..MaxClock /\ user.now <= clock
        /\ Len(samples) \in Nat /\ Len(handled) \in Nat
        BY DEF Typed, Stamped, Counted
  <2>3. /\ ret' \in [call : Calls, result : BOOLEAN, now : 0..MaxClock, got : Nat, seen : Nat]
        /\ ret'.now = user.now
        BY <2>1, <2>2 DEF Return
  <2>4. ret'.now <= clock'
        BY <1>1, <2>2, <2>3 DEF Typed
  <2> QED BY <1>2, <2>3, <2>4 DEF Rest
<1>5. \/ ret' \in {ret, Nothing}
      \/ IsTimeoutReturns \/ (WaitTests /\ ~TimedOut) \/ LostConnectionReturns
      BY DEF Next, Tick, ClockIsSet, DdsThread, SampleArrives, HandlerStamps, HandlerStampsAt,
         HandlerStores, DdsUnchanged, UserCalls, UserSteps, ReadsNow, WaitTests, WaitWakes,
         SetTimeout, Update, UpdateFlag, vars
<1> QED BY <1>3, <1>4, <1>5

\* A sequence is one over any set its elements are in.
LEMMA Retyped ==
    ASSUME NEW S, NEW T, NEW s \in Seq(S), \A i \in 1..Len(s) : s[i] \in T
    PROVE  s \in Seq(T)
OBVIOUS

LEMMA Types == ASSUME IInv, Updated, Joyful, Counted, Rest, Flag PROVE TypeOK
<1> USE SubscriptionAssumption
<1>1. /\ clock \in 0..MaxClock /\ available \in Int /\ samples \in Seq(Stamps)
      /\ user \in [call : Calls, pc : {"now", "test", "asleep"}, now : 0..MaxClock]
      /\ available <= clock /\ user.now <= clock
      BY DEF IInv, Typed, Stamped
<1>2. \A i \in 1..Len(samples) : samples[i] \in [at : 0..clock, active : BOOLEAN]
  <2> SUFFICES ASSUME NEW i \in 1..Len(samples)
               PROVE  samples[i] \in [at : 0..clock, active : BOOLEAN]
      OBVIOUS
  <2>1. samples[i] \in Stamps /\ samples[i].at <= available
        BY <1>1 DEF IInv, Stamped
  <2> QED BY <1>1, <2>1 DEF Stamps
<1>3. available \in -1..clock
  <2>1. CASE samples = <<>>
        BY <1>1, <2>1 DEF IInv, Stamped
  <2>2. CASE samples # <<>>
    <3>1. Len(samples) \in 1..Len(samples) /\ available = samples[Len(samples)].at
          BY <1>1, <2>2 DEF IInv, Stamped
    <3>2. samples[Len(samples)].at \in 0..clock
          BY <1>2, <3>1
    <3> QED BY <1>1, <3>1, <3>2
  <2> QED BY <2>1, <2>2
<1>4. \A i \in 1..Len(handled) : handled[i] \in 0..clock
  <2> SUFFICES ASSUME NEW i \in 1..Len(handled) PROVE handled[i] \in 0..clock
      OBVIOUS
  <2>1. handled[i] \in 0..MaxClock /\ handled[i] <= updated /\ updated <= clock /\ updated \in Int
        BY DEF Updated
  <2> QED BY <1>1, <2>1
<1>6. samples \in Seq([at : 0..clock, active : BOOLEAN])
      BY <1>1, <1>2, Retyped
<1>7. handled \in Seq(0..clock)
      BY <1>4, Retyped DEF Updated
<1>8. /\ updates \in Seq([at : Nat, active : BOOLEAN])
      /\ joyTime \in Nat /\ wall \in Nat /\ steps \in Nat
      BY DEF Joyful, WallStamps
<1>10. user \in [call : Calls, pc : {"now", "test", "asleep"}, now : 0..clock]
       BY <1>1
<1>11. ret \in [call : Calls, result : BOOLEAN, now : 0..clock, got : Nat, seen : Nat]
       BY <1>1 DEF Rest
<1>12. msg \in 0..Len(handled) /\ Len(handled) <= Len(samples)
       BY DEF Counted
<1>13. /\ timeout \in Timeouts \cup {InitTimeout} /\ custom \in BOOLEAN /\ raised \in BOOLEAN
       /\ ddsPc \in {"idle", "handler", "store"} /\ isJoystickTimeout \in BOOLEAN
       BY DEF Rest, Counted, Updated, Flag
<1>14. updated \in Int /\ updated <= clock
       BY DEF Updated
<1> QED BY <1>1, <1>3, <1>6, <1>7, <1>8, <1>10, <1>11, <1>12, <1>13, <1>14 DEF TypeOK

\* The type invariant, for every set of time-outs and every bound.
THEOREM TypeCorrect == Spec => []TypeOK
<1> USE SubscriptionAssumption
<1>1. Init => Counted /\ Rest /\ Flag
  <2> SUFFICES ASSUME Init PROVE Counted /\ Rest /\ Flag
      OBVIOUS
  <2>1. Counted
        BY DEF Init, Counted
  <2>2. Nothing \in [call : Calls, result : BOOLEAN, now : 0..MaxClock, got : Nat, seen : Nat]
        BY DEF Nothing, Calls
  <2>3. Rest
        BY <2>2 DEF Init, Rest, Nothing
  <2>4. Flag
        BY DEF Init, Flag
  <2> QED BY <2>1, <2>3, <2>4
<1>2. Flag /\ [Next]_vars => Flag'
  <2> SUFFICES ASSUME Flag, [Next]_vars PROVE Flag'
      OBVIOUS
  <2>1. CASE Update
        BY <2>1 DEF Flag, Update, UpdateFlag
  <2>2. CASE ~Update
        BY <2>2 DEF Flag, Next, vars, joystick, Tick, ClockIsSet, DdsThread, SampleArrives,
           HandlerStamps,
           HandlerStampsAt, HandlerStores, DdsUnchanged, UserCalls, UserSteps, ReadsNow,
           IsTimeoutReturns, WaitTests, WaitWakes, LostConnectionReturns, SetTimeout
  <2> QED BY <2>1, <2>2
<1>3. /\ IInv /\ UInv /\ Counted /\ Rest /\ Flag /\ [Next]_vars
      => (Counted /\ Rest /\ Flag)'
      BY <1>2, CountedStep, RestStep DEF IInv, UInv
<1>4. IInv /\ UInv /\ JInv /\ Counted /\ Rest /\ Flag => TypeOK
      BY Types DEF UInv, JInv
<1> QED BY <1>1, <1>3, <1>4, Invariant, UpdatedInvariant, JoystickInvariant, PTL DEF Spec
=============================================================================
