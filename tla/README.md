# A TLA+ model of unitree_sdk2

The repository is the C++ SDK for Unitree robots: header-only templates over a
DDS middleware, clients for the robot's services, a few programs of its own
(a motion controller, a UDP node), Python bindings, and a binary library
(`lib/*/libunitree_sdk2.a`) with the rest. This directory holds TLA+ modules of
the parts whose logic is in the source and is concurrent, the TLC runs that
check them on small instances, and theorems that hold for every instance,
checked by TLAPS.

## 1. The system

| component | where | state | operations | interacts with |
|---|---|---|---|---|
| `BlockQueue<T>` | `include/unitree/common/block_queue.hpp` | list, its size counted by hand, mutex and condition | `Put` (back or front, replace or refuse), `Get` (with and without timeout), `Interrupt` | threads that block in it |
| `DdsReader`, `DdsReaderListener` | `include/unitree/common/dds/dds_entity.hpp` | queue, worker thread, `mQuit`, handler | `SetCallback`, `SetQueue`, `on_data_available`, destruction | middleware thread, queue, user's handler |
| `RealTimePublisher` | `include/unitree/dds_wrapper/common/Publisher.h` | `msg_`, `mutex_`, `turn_`, `keep_running_`, `is_running_` | `trylock`, `lock`, `unlock`, `unlockAndPublish`, `stop`, destruction, the publishing loop | producers' threads, derived classes (checksum) |
| `SubscriptionBase`, `g1::LowState`, `lost_connection` | `include/unitree/dds_wrapper/common/Subscription.h`, `robots/g1/g1_sub.h`, `robot/g1/common/terminations.hpp` | `msg_`, time of the last update, joystick's time-out | `isTimeout`, `wait_for_connection`, `set_timeout_ms`, `update`, `lost_connection` | listener's thread, clocks |
| G1 motion controller | `deploy/g1_motion_controller.cpp` | phase and its time, pose buffers, actions | release of the robot's service, FREEZE → STAND → POLICY, inference, commands, Ctrl-C | five threads, the robot |
| G1 node | `source/g1_node/main.cpp` | two queues with a thread each, a socket | receive, move, push, run | UDP peers, three RPC clients |
| state machine example | `example/state_machine/` | last message, robot interface, gamepad, state machine, command | control step, message handler, writer, start | four threads |
| Python channels | `unitree_sdk2_bindings/src/channel/` | callback state, active flag, initialised flag | init, close, destruction, callbacks | the GIL, readers, the interpreter's end |
| channel wrappers | `include/unitree/robot/channel/` | handler, length, channel | `InitChannel`, `CloseChannel` | channel factory |
| service clients | `include/unitree/robot/*/` | a few toggles | one RPC per method | RPC client (binary) |
| threads, locks, futures, RPC, logging | `include/unitree/common/`, `robot/client`, `robot/server` | — | declarations | bodies in the binary library |
| messages, generators, vendored DDS | `include/unitree/idl`, `unitree_sdk2_bindings/generator`, `thirdparty` | — | generated or third-party | — |

What is hard in it: samples arrive on a middleware thread while a worker runs
the handler and the application destroys the reader; a condition variable is
waited for once and without a loop; a publisher shares one message with several
writers and a thread that starts late and is stopped from a base-class
destructor; the motion controller shares its phase without a lock between a
50 Hz and a 500 Hz thread; a node's workers must neither sleep over an item nor
be left behind at exit; time stamps are set while they are being compared with a
clock read before; a Python callback waits for the GIL while its subscriber is
closed by a thread that holds it. `PROJECT.json` lists these hazards at their lines with
the properties that watch them, or why none does.

What makes the components correct:

* queue: nothing lost silently, nothing twice, order kept, no lost wakeup;
* listener: samples handled in order, the newest kept, nothing runs after close,
  close returns;
* publisher: messages whole, once, in order, with their checksum, only what was
  submitted, all that was submitted; destruction ends;
* controller: targets on the way between known poses, one whole action per
  command, progress to the policy, the robot's own service off;
* node: per worker every item in order, orderly end;
* subscription: a connection that is lost is reported, one that is not is not,
  and waiting for one ends;
* state machine example: stiffness climbs a ramp, a stop wins, a fall is damped,
  the controller sees one message at a time;
* Python channels: no callback after close, none missing before, nobody waits for
  ever.

## 2. Modules

    LossyBuffer  <--implements--  BlockQueue  <--instance--  ReaderListener
    Subscriber   <--implements--  ReaderListener
    Mailbox      <--implements--  RealTimePublisher
    Callbacks    <--implements--  PythonChannel
    G1MotionController   G1Node   Subscription   RobotController

A module `X` has its theorems in `XProofs`, all of them but the four abstract
specifications.  Each has an `MC...` module with the values TLC needs. Operators named
`X_Something` beside an operator `X` are mutations: `X` as a plausible bug would
have it. No specification uses them; `PROJECT.json` says which property each one
breaks.

**BlockQueue.** One action per call, each under `mMutexCond` for its whole body;
`Get` is two, since it gives the mutex up while it waits: `Get` (entry), then
`GetWoken` or `GetExpired`. `phase` says where each thread is. `Put` has its
three outcomes (`PutRejected`, `PutPlain`, `PutReplacing`); a replacing `Put`
returns false although it stores. `mCurSize` is a variable of its own, as in
the code. The condition variable (`Notify`, `WaitTimeout`, `SpuriousWakeup`) is
external. Elements are ranks of `Put`s; `front`, `delivered`, `evicted`,
`rejected` and `falsePuts` are history.

**LossyBuffer** is what the queue promises with threads, locks and counters
taken away: elements leave at the front, once, and none is lost while there is
room.

**ReaderListener** composes an instance of `BlockQueue` with the middleware
thread (`TakeSamples`, `PassOn`), the worker (`while (!mQuit)`, `Get`, handler)
and the thread that destroys the reader (`CloserDetaches`, `SetsQuit`,
`Interrupts`, `Joins`). `mHasQueue` is chosen initially: with a length of 0 the
handler runs on the middleware's thread. That the middleware does not call a
listener after it has been detached, and waits for the call in progress, is what
the code relies on. Invalid samples are skipped by the code and not part of
`batch`. The loop of the worker that polls for a handler ends at once, as
`SetListener` sets the handler before the queue.

**Subscriber** is what a subscription promises to the user's handler: one sample
at a time, in the order of arrival, a sample passed over only for `Capacity` newer
ones, one more at most once it is being closed, none after. `ReaderListener`
implements it, with a queue (`Capacity` is its length, a sample arrives when it is
queued) and without one (a sample arrives when the middleware's thread has taken it).

**RealTimePublisher.** One action per statement of `publishingLoop` and of the
producers' calls that touches shared state. A message is written and copied in
two halves, so that a torn copy shows; `crc` records the halves the checksum was
computed of. Several producers, each of which uses `trylock` or `lock`; then
`unlockAndPublish` or `unlock`. The order of destruction is the code's: the
derived part first (its `pre_communication` is gone), then stop, wait for
`is_running_`, join. **Mailbox** is the abstract publisher: one place, a message
stays until it is picked up and is sent once.

**G1MotionController.** Threads: `main` (release of the motion service, signal,
destruction), `state` (`onLowState`), `policy` (`policyLoop`), `command`
(`commandLoop`). The variables shared without a lock (`phase_`, `phase_time_`,
`freeze_q_`) are written and read one per step, in program order. Poses are
small integers, of any number of motors; those with an Isaac joint are numbered
first. In STAND and POLICY only they get a target of the phase, the others keep the
position of the command's snapshot; the Isaac joints without a motor reach no
command and are left out. `actions_` is written and read one joint per step under
`action_mu_`, which `commandLoop` gives back before the checksum and the `Write`
(`CommandUnlocks`, `SendPolicy`): a newer action may be handed over in between, and
the older command is sent after it. `newest` is history: the action that had been
handed over last at the release. Snapshots are forgotten where the code does not
read them any more. An inference is a number and an output. Time is counted in runs
of `policyLoop`. `phase_time_` is not counted in POLICY, where nobody reads it. A
failed `CheckMode` is taken to leave `name` as it was: its body is in the binary
library.
`LoadPolicy` stands for everything between the CheckMode loop and the start of
the threads, with its failures. After it nobody asks for the robot's service, and whether it
is active is forgotten.

**G1Node.** `main` (bind, receive, move, push, unwind), a socket buffer that
drops when full, and a `Worker` per slow service. A push is two steps, as the
code notifies after it has released the lock. `SetVelocity` is a call that waits
for a reply (`moving`). `main` never returns from its loop; its only end is a
failed `bind`. `accepted` is history: the datagrams of a worker for which the socket
had room, against which the worker's items are compared.

**Subscription.** The DDS thread in its three steps: the stamp of
`mLastDataAvailableTime` (`SampleArrives`), that of `last_update_time_`
(`HandlerStamps`), the copy into `msg_` under `mutex_` (`HandlerStores`). The
user's thread makes one call at a time, each of which reads the clock
(`ReadsNow`) and then, in a later step, the stamp. Time is counted in ticks: `clock`
for `steady_clock` and the monotonic time, which only go forwards, and `wall` for the
`system_clock` that `LowState::update` reads and that may be set either way while the
program runs (`ClockIsSet`). The joystick's flag is exact by that clock and against
the last active `update()` only: a step forwards raises it early, a step back may
keep it down, and neither takes it back. The difference of `steady_clock` points is signed, that of `lost_connection` is
taken modulo `Word`. With a handler of the user's the second and the third step
do not happen. `available` is -1 as long as there is no channel. `samples`,
`handled`, `updates` and `ret` are history: what the answers are compared with.

**RobotController.** `LowStateMessageHandler` assigns `state` outside
`state_mutex`; `GetState` copies it, in two halves (`lo`, `hi`), under it. The
control thread's step is `InteprateGamePad` (with `UpdateStateMachine` and its
callbacks), `Reset` if CTRL was entered (two reads without the mutex), then the
step of the mode: `Standing`, `Damping`, or `UserControlStep` and
`CheckTermination`; `SetCommand` ends it. `Stand`, `Ctrl` and `Stop` act on a
record, so that a reading of the gamepad can take several of them, as the code
does. Main polls for R2 before the control thread exists. The button bytes of a
message follow a `uint32_t` and lie in one word, so they are read whole. Gains
are multiples of the ramp's step; `pd_ratio` is an integer in `0..PdFull`.

**PythonChannel.** Per reader a thread in `PythonCallbackState::invoke`; per
Python thread the call it is in: flags set with the GIL, GIL released, the
channel's pointer exchanged (`Swaps`), the old reader destroyed when its thread
is out of the handler (`DestroysOld`), GIL taken again (`Returns`). `InitFails` is an
`InitChannel` that throws: the callback is active then, the pointer and
`initialized` are as before. A reader is one of `ReaderListener` without a queue
(`queue_length` 0, the default). The binding takes a longer one too; its reader has a
worker, whose join can hang in the window of `reader_listener_close`, so that
`CallsReturn` and `ExitEnds` say nothing of it. `Yields`, `Resumes`, `CallbackYields`
and `Finalizes` are the interpreter's. `overlapped` remembers that two calls on
one subscriber have run at once. They exchange a plain `shared_ptr` without the GIL
or a lock (`channel_subscriber.hpp:34,44`), a data race: the model stops such calls
before the exchange, and no property says anything of what follows.

**Callbacks** is what the subscriber promises to Python code: a callback starts only
while the channel is open or being opened, one at a time; `init_channel` returns with
the callbacks of one reader left, or throws and leaves the channel as open or closed as
it was, `close_channel` and the destructor with none; none
starts once the interpreter has begun to end. Of overlapping calls it promises nothing.
The stage of the abstract subscriber is read off the calls in progress and
`initialized`; its running callbacks are the threads that run Python code or wait in
the midst of it.

## 3. Runs

| run | instance | what it shows |
|---|---|---|
| `block_queue` | 3 threads, 2 places, 4 puts | `LossIsReported`, `InPutOrder`, `NoLostWakeup`, `BlockedGetIsServed`; the queue implements `LossyBuffer` |
| `reader_listener` | with a queue of 2 and without, 5 samples in batches up to 2 | the listener implements `Subscriber`; `NewestIsHandled`, `NothingRunsAfterClose`, and `CloseHangsOnlyInTheGap`: close hangs in one window only |
| `reader_listener_close` | queue of 1, 2 samples | **violated** `CloseReturns`: `Interrupt` between the worker's test of `mQuit` and its wait |
| `publisher` | 2 producers with `trylock`, 3 messages | `SubmittedIsSent`; the publisher implements `Mailbox`: only what was submitted, once, in order |
| `publisher_mixed` | 1 `trylock`, 1 `lock`, 3 messages, destruction | `SentWholeInOrder`, `OnlyTheLastLacksCrc`, `DestructorReturns` |
| `g1_controller` | 3 motors, 2 with a joint, 3 poses, 2 inferences (one clipped), FREEZE and STAND of 2 ticks | `ObservationIsRecent`, `TargetsAreOnTheWay`, `CommandIsOfOneAction`, `ReachesPolicy`, `ReportedServiceIsReleased` |
| `g1_controller_stand` | the same motors, 2 poses, FREEZE of 4 ticks and STAND of 6 | **violated** `StandAdvances`: `phase_` before `phase_time_` |
| `g1_node` | 4 datagrams, buffer of 2 | `HandledInOrder`, `NoSleepOverWork`, `AcceptedIsHandled`, `FailedBindEnds` |
| `subscription` | start at 0 or 1, 3 ticks, time-outs 0 to 2, 2 samples, 2 updates, `system_clock` set once | `FalseAlarmOnlyInTheGap`, `SilenceIsReported`, `TimeoutIsExact`, `JoystickTimeoutIsExact`, `WaitReturns` |
| `lost_connection` | the same, 5 ticks | **violated** `NoFalseAlarm`: a sample stamped after the clock was read |
| `robot_controller` | ramp of 3 steps, 5 sets of buttons, 3 quaternions, 2 poses | `GainsRise`, `StopHasTheLastWord`, `StopIsSent`, `InputIsWhole`, `GravityIsTurned`, `FallIsDamped` |
| `python_channel` | 2 Python threads, 2 readers | the binding implements `Callbacks`; `NothingRunsAfterClose`, `DropsOnlyWhenClosing`, `IdleIsConsistent`, `CallsReturn`, `ExitEnds` |

Violated runs are the findings of `PROJECT.json`, each with the line of the
repository that says otherwise.

*Bounds.* Every bound is a constant named as such. Two places and four puts reach
empty, full, eviction, refusal and a stolen element; three threads are one that
blocks, one that steals and one that puts. Five samples through two places evict
more than once. Three messages are one on its way, one submitted and one being
written. Three poses let two buffers differ by two
messages, and two ticks of STAND have a middle. Two joints are what a mixed command
needs, and the third motor has none. Four datagrams overflow the buffer and queue up behind a handler. Three ticks contain a stamp
before, within and after a time-out of one, two samples a late one after an
early one. `system_clock` starts at its epoch and is set
back to it or to three ticks past it, before, between or after the updates; in that
run the other three calls come first (`Mixed`), as they read neither `system_clock`
nor what `update()` writes. A ramp of three has a start, a threshold and a top of its
own. Two readers are what an `init_channel` on an open channel has.

*Deadlock* is checked for the queue, where some thread can always do something.
The other systems may stop: a closed reader, a destroyed publisher, an ended
process.

*Fairness.* Threads that can run are scheduled (weak fairness per thread), and
handlers and replies end: RPC calls have timeouts, and the middleware's calls
return. The publisher's loop polls for its mutex: when the mutex is free again
and again, some poll finds it free (strong fairness of that one step), since
nobody keeps it and the polls sleep in between. Nothing is assumed about who gets
a contended `std::mutex` in the controller.
In `RobotController` the control thread gets `state_mutex` in the end (strong
fairness of its two locking steps): the handler holds it for a copy and then
waits for its next message. In `PythonChannel` whoever asks for the GIL again and
again gets it, since the interpreter switches threads, Python code lets go of
it, and callbacks end.
Nothing obliges messages to arrive, producers to write, anybody to close, stop
or press Ctrl-C, nor spurious wakeups or timeouts to happen.

## 4. Observations without a run

* A waiting `Get` that has been notified returns false, before its timeout, when
  another `Get` takes the element first (`block_queue.hpp:104-115`, no loop). It
  loses nothing; callers that read false as a timeout are wrong.
* `unlock()` after `lock()` with a submission still waiting has the withheld
  message sent (`Publisher.h:119`, "without publishing anything").
* A message submitted with `lock()` before the publishing thread has started is
  not sent until the next submission: the thread's start overwrites the turn
  (`Publisher.h:136`). `SubmittedIsSent` and `ImplementsMailbox` show that this cannot happen with
  `trylock`.
* A publisher destroyed with a message waiting sends it by way of the base's empty
  `pre_communication()`, without its checksum (`Publisher.h:58`);
  `OnlyTheLastLacksCrc` says that no other message lacks it.
* Ctrl-C ends the G1 controller in the phase it is in, with its last command in
  force (`g1_motion_controller.cpp:225`); line 15 says that the robot returns to
  FREEZE automatically.
* A `CheckMode` call that fails leaves `name` empty and ends the loop as if no
  service were active (`g1_motion_controller.cpp:175`);
  `ReportedServiceIsReleased` is what holds: of services that were reported.
* With a handler of its own a subscription's `wait_for_connection` never returns
  and `isTimeout` is always true (`Subscription.h:33`): `WaitReturns` is about the
  subscription's own handler.
* `set_timeout_ms` with more than 1000 ms: until the first message `isTimeout` may
  say false, as the constructor has counted with the initial value (line 30).
* The state machine example checks the gravity in CTRL only, keeps working on the
  last message when none comes any more, and its R2 right after a stop stands with
  a ratio of 0, that is limp and not damped. A button pressed and released between
  two control steps is missed. Its first step may use joint positions that were
  never set (`NoPose`).
* Two overlapping calls on one Python subscriber race for `mChannelPtr`, and write
  `active_` and `initialized` in an order of their own. `close_channel` in the
  subscriber's own callback waits for itself (the guide forbids it,
  `BEGINNER_GUIDE_ZH.md:1812`).
* The length of a subscription's queue is `int64_t` in `ChannelSubscriber` and
  `int32_t` in `CreateRecvChannel` (`channel_subscriber.hpp:34`): a length past
  2^31 may mean no queue.
* The R1 arm example publishes without locking (`r1_arm_sdk_dds_example.cpp:62`).
* Ctrl-C during the controller's constructor is dropped (`sigHandler`, line 481);
  the clip is 1.5 rad where its comment says 0.5 (line 435).
* `buildObs` writes the projected gravity out by hand (lines 274-281): its
  formulas are `R*[0,0,1]`, with z = +1 when upright; the comments say
  `R^T*[0,0,-1]` and "should be ≈-1 when upright".
* The node's comment (`main.cpp:15`) takes `SetVelocity` for non-blocking; it
  waits for its reply on the receiving thread.

## 5. Proofs

For every value of the constants that satisfies the modules' assumptions.

`BlockQueueProofs`
: `TypeCorrect` is inductive together with `SizeIsExact` (a full queue is not
  empty only because `mCurSize` is the length: without it `Head` and `Tail` of a
  replacing `Put` mean nothing), which gives `SizeCorrect`. `NoWakeupIsLost`:
  each `Put` that lengthens the queue notifies a blocked thread if there is one,
  and each `Get` that lets a notified thread go has taken an element, or found
  none. `QueueRefinesBuffer`: each action maps to `Offer`, `Take` or a stutter of
  `LossyBuffer`, from the size invariant. `LossCorrect` counts: an element in the
  queue is there once and has not been lost before, so that each eviction adds one
  to what is lost. `OrderCorrect`: in what has been got, followed by the queue, the
  ranks of the elements put at the back rise; every `Put` has the highest rank so
  far, and evictions take elements out of a rising sequence.

`ReaderListenerProofs`
: `TypeCorrect`, `OrderCorrect` (the handler sees samples in the order of arrival, none
  twice), `QuitCorrect` (one more at most after `mQuit`) and `CloseCorrect` from one
  invariant in four parts: the types, the queue's own (its size is exact; the lemmas
  about `Put` and `Get` of the instance), `FlowInv` (what the queue has delivered is
  what the handler has been called with, and all of it is older than what is queued)
  and `CloseInv` (which steps of the destructor have been passed decides which threads
  can still be on the listener). With and without a queue, for any number of samples.
  `CloseGoesOnCorrect` is the safety core of `CloseHangsOnlyInTheGap`, which is
  liveness: only an `Interrupt` in the gap makes the destructor wait for a worker that
  cannot go on by itself, and with `mQuit` set each step of the worker lowers its
  distance to its end. It needs `WakeInv`, that the worker alone is ever in the queue
  and blocked there only in `inGet`. `ListenerIsSubscriber` is the refinement of
  `Subscriber`, from these and `WindowInv`: the queue holds the newest samples, all
  that arrived since the last one handled unless the queue is full, so that whatever is
  passed over makes room for a queue's length of newer ones.

`RealTimePublisherProofs`
: `TypeCorrect`; `LockProtects` (whoever changes the holder is the holder or
  finds the mutex free); `SentIsWhole`, by `Whole`: halves of `msg_` differ only
  while a producer is between its two writes, and halves of the copy only while
  the loop is between its two reads, which mutual exclusion keeps apart.
  `SentOrderCorrect` adds that nothing is sent twice or out of order, with producers
  that lock as well: the turn is given only for a message newer than all that was sent,
  and taken back, before the `Write`, by the loop that has copied it (`OrderInv`).
  `DestructorGoesOnCorrect` is the safety core of `DestructorReturns`: once the loop has
  been stopped nobody keeps the mutex it wants, as no producer is left, and each of its
  steps lowers its distance to its end.
  `CrcCorrect`: while the object lives the copy carries the checksum of its halves
  from the copy to the `Write`; once the derived part is going no producer is left,
  so that after a copy without checksum nobody gives the turn again. `PublisherIsMailbox` assumes that all
  producers use `trylock` (`AllTry`): then the turn is REALTIME for as long as one of
  them writes, so that writing does not show in the mailbox; `BoxInv` also ties the
  number of the message in `msg_` to the turn and the copy to `msg_`. Giving the turn
  is `Put`, resetting it is `Pick`, `Write` is `Send`, the first stop is `Close`,
  all else stutters. With `lock` it is false: see the observations.

`G1MotionControllerProofs`
: For any number of motors and joints. `TypeCorrect`; `ObservationCorrect`: of the two
  buffers the motors' is written first and read first, so that the IMU's is behind by one message at most, now or
  when it is read. `ActionCorrect`: outside the policy thread's critical section all
  joints of `actions_` are of the inference handed over last, and the command thread
  reads them all before it gives the lock back, so that a command mixes no two actions
  and is of the newest one at the release. `TargetsCorrect`: `freeze_q_` is
  a reported pose before `phase_` leaves FREEZE, and a convex combination (of integers times `STAND_TICKS`) stays between its ends.
  `ReleasedCorrect`: an empty name after a service had been reported comes from an
  answer, not from a failed call.

`G1NodeProofs`
: `TypeCorrect` (an arriving datagram widens the set of ranks, so a lemma carries
  the sequences over). `ItemsInOrder`, end to end from the socket: what a worker has
  been given rises in the order of arrival and is, with what still waits in the socket,
  exactly what the socket had room for. It is inductive together with `SocketRises`
  (ranks in the socket rise) and `GivenFirst` (what a worker has been given is older
  than what is in the socket). `NoSleep`, which is inductive: a worker only begins to
  wait with an empty queue and without `stop_`, and the steps that change that leave
  `main` at the notification; so the end joins no worker that sleeps.

`SubscriptionProofs`
: `TypeCorrect`. `AlarmCorrect` and `SilenceCorrect`, from one invariant: `available`
  is the stamp of the last sample and the stamps rise, and the clock stays further
  from its width than the time-out, so that an unsigned difference is either exact or
  more than any time-out. `TimeoutCorrect`: `last_update_time_` is the newest call
  of the handler, or, before any, so far back that no time-out short of a raised one
  reaches it, seen from `now` and from the clock. `JoystickCorrect`: `joyTime` is
  the time of the last `update()` that saw an active remote, by a `system_clock` that is
  set at will, or its epoch, and the flag has been set by an `update()` since or not at
  all.

`RobotControllerProofs`
: `TypeCorrect`; `RatioCorrect` and `GainsRiseCorrect` from `GainsInv`: between two
  commands the machine is `Sound` (the ratio is no step ahead of the last command
  unless that is past the threshold), which each transition and their composition
  keep; without the link between the ratio and the last command the ramp says nothing
  about commands. `InputCorrect`: outside `GetState` the interface is whole, in its
  midst it agrees with a message that cannot change. `StopCorrect`: the stop comes
  last in a reading, and nothing before the end of the step undoes it, whether or not
  the command is the one before. `GravityCorrect`: the
  code's polynomials are those of the quaternion product.

`PythonChannelProofs`
: `TypeCorrect`, `IdleCorrect`, `CloseCorrect`, `NoStartCorrect` (no callback starts in
  a subscriber that is being closed) and `DropsCorrect`
  from `ChannelInv`: a thread that is not idle belongs to an open reader, after the
  interpreter has begun to end nobody is inside a call that could still change it,
  and, unless two calls have overlapped, `Ordered`: where the one call is decides
  which readers are open and what the flags are. An `init_channel` that throws leaves
  `initialized` in step with the pointer, which is why `Ordered` keeps the two together
  up to the exchange. `NoCircle` is the safety core of `CallsReturn` and `ExitEnds`, for calls that do not overlap:
  a thread that a call waits for needs the GIL at most, whoever has the GIL is not in
  a call, and at the exit no thread is waited for. `SubscriberIsCallbacks` is the
  refinement of `Callbacks`: a callback's start and return, the beginning, overlap and
  return of calls and the exit map to its steps, all else stutters; it needs besides
  `GoneIsClosed`, that a call on a subscriber that is gone is its destructor, and that
  the destructor leaves it closed.

Every type invariant is proved, and no run repeats it. Recursion over data and
`RECURSIVE` operators do not occur in what is proved. Only model-checked: liveness
under fairness, which is out of the prover's reach (`BlockedGetIsServed`,
`NewestIsHandled`, `CloseHangsOnlyInTheGap`, `SubmittedIsSent`, `DestructorReturns`,
`ReachesPolicy`, `AcceptedIsHandled`, `FailedBindEnds`, `WaitReturns`, `StopIsSent`,
`FallIsDamped`, `CallsReturn`, `ExitEnds`). What the safety cores named above leave
to the runs is that a step that can be taken is taken in the end. Every other property
of a passing run is a theorem.

## 6. Not modelled, and why

Bodies in the binary library (threads, mutexes, futures, RPC, logging, factory):
there is no source; what modelled code relies on is an external action of the
module that uses it. Robot clients: one request per method. QoS and parameters:
configuration. IDL types and generators: generated, or run at build time. The
vendored middleware. In the modelled files: `mode_machine_`, gains, the
observation vector and the network of the controller; wording of messages. The
locomotion client's handshake toggle is sequential; the termination checks other
than `lost_connection` compare one field with a limit; the Python publisher and
the publisher's wrapper hold a pointer. Most of the repository's lines are vendored
headers, generated messages and generated bindings.

## 7. Plan

1. The G1 controller's projected gravity over integer quaternions, against the
   rotation its comments promise, as `RobotController` has it.
2. Safety cores, as theorems, of the liveness properties that have none yet: what
   bounds the steps of `ReachesPolicy` and of `BlockedGetIsServed`.
3. The composition of `G1Node`'s workers with a fault model of the RPC calls (an
   answer after its timeout), should the client's source become available.
