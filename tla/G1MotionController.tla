------------------------- MODULE G1MotionController -------------------------
(***************************************************************************)
(* deploy/g1_motion_controller.cpp: the program that imitates a motion with *)
(* a trained policy.                                                        *)
(*                                                                          *)
(*   main     releases the robot's own motion service, starts the threads,  *)
(*            waits for Ctrl-C and destroys the controller                  *)
(*   state    the listener's thread, which runs onLowState                  *)
(*   policy   the 50 Hz thread: FREEZE, STAND, POLICY and the inference     *)
(*   command  the 500 Hz thread: computes and sends the joint targets       *)
(*                                                                          *)
(* phase_, phase_time_ and freeze_q_ are shared without a lock, actions_    *)
(* under action_mu_.  The motors are numbered so that those with an Isaac   *)
(* joint come first, in the order of the loops over ISAAC_TO_SDK; an Isaac  *)
(* joint without a motor reaches no command and is left out.  A position is *)
(* a small integer and a target a position times STAND_TICKS, so that the   *)
(* interpolation is exact.                                                  *)
(***************************************************************************)
EXTENDS Integers, Sequences

CONSTANTS
    NumMotors,    \* N_SDK
    NumJoints,    \* how many of the motors have an Isaac joint
    FREEZE_TICKS, \* FREEZE_SECS and STAND_SECS in runs of policyLoop
    STAND_TICKS,
    Pose,         \* the positions the valid lowstate messages report, in order
    Output,       \* what the inferences return, as offsets, in order
    DefaultPose,  \* ISAAC_DEFAULT
    Clip          \* the largest offset commanded (1.5 rad)

Motors == 1..NumMotors
Joints == 1..NumJoints

ASSUME ControllerAssumption ==
    /\ NumMotors \in Nat /\ NumJoints \in 1..NumMotors
    /\ FREEZE_TICKS \in Nat /\ STAND_TICKS \in Nat \ {0}
    /\ Pose \in Seq([Motors -> Int]) /\ Output \in Seq([Joints -> Int])
    /\ DefaultPose \in [Joints -> Int] /\ Clip \in Nat

VARIABLES
    mainPc, serviceActive, name, running_,
    statePc, received,                   \* number of valid messages so far
    motor_buf_, imu_buf_,                \* number of the message stored; 0 is null
    policyPc, policyMotor, policyImu,    \* ms_ptr, is_ptr of policyLoop
    phase_, phase_time_, freeze_q_,
    inferences,                          \* number of the last inference
    actions_,                            \* per joint, the inference it is from; 0 is initial
    written,                             \* how many joints policyLoop's loop has written
    action_ready_, action_mu_,
    commandPc, commandMotor,             \* ms_ptr of commandLoop
    alphaTime,                           \* phase_time_ as commandLoop has read it
    picked, read,                        \* the actions commandLoop has read, and how many
    newest,                              \* history: LatestAction when it released action_mu_
    command                              \* the last command sent

mainVars    == <<mainPc, serviceActive, name, running_>>
stateVars   == <<statePc, received, motor_buf_, imu_buf_>>
phaseVars   == <<phase_, phase_time_, freeze_q_>>
actionVars  == <<actions_, written, action_ready_>>
policyVars  == <<policyPc, policyMotor, policyImu, inferences>>
pickedVars  == <<picked, read, newest>>
commandVars == <<commandPc, commandMotor, alphaTime, picked, read, newest, command>>
vars == <<mainVars, stateVars, phaseVars, actionVars, action_mu_, policyVars, commandVars>>

PolicyPcs  == {"idle", "getImu", "tick", "switch", "setStand", "resetTime",
               "lock", "write", "unlock"}
CommandPcs == {"idle", "readPhase", "readTime", "readFreeze", "lock", "read", "unlock",
               "send"}

TypeOK ==
    /\ mainPc \in {"checkMode", "releaseMode", "loadPolicy", "running", "destroying", "exited"}
    /\ serviceActive \in BOOLEAN /\ name \in {"empty", "ai"}
    /\ running_ \in BOOLEAN
    /\ statePc \in {"idle", "setMotor", "setImu"} /\ received \in 0..Len(Pose)
    /\ imu_buf_ \in 0..received /\ motor_buf_ \in 0..received
    /\ policyPc \in PolicyPcs /\ policyMotor \in 0..received /\ policyImu \in 0..received
    /\ phase_ \in {"FREEZE", "STAND", "POLICY"} /\ freeze_q_ \in [Motors -> Int]
    /\ \E ticks \in {FREEZE_TICKS, STAND_TICKS} : phase_time_ \in 0..(ticks + 1)
    /\ inferences \in 0..Len(Output) /\ actions_ \in [Joints -> 0..inferences]
    /\ written \in 0..NumJoints /\ action_ready_ \in BOOLEAN
    /\ action_mu_ \in {"free", "policy", "command"}
    /\ commandPc \in CommandPcs /\ commandMotor \in 0..received /\ alphaTime \in Nat
    /\ picked \in [Joints -> 0..inferences] /\ read \in 0..NumJoints /\ newest \in 0..inferences
    /\ command.phase \in {"none", "FREEZE", "STAND", "POLICY"}
    /\ command.target \in [Motors -> Int] /\ command.time \in Nat

Init ==
    /\ mainPc = "checkMode" /\ serviceActive \in BOOLEAN /\ name = "empty"
    /\ running_ = TRUE
    /\ statePc = "idle" /\ received = 0 /\ motor_buf_ = 0 /\ imu_buf_ = 0
    /\ policyPc = "idle" /\ policyMotor = 0 /\ policyImu = 0
    /\ phase_ = "FREEZE" /\ phase_time_ = 0 /\ freeze_q_ = [j \in Motors |-> 0]
    /\ inferences = 0 /\ actions_ = [j \in Joints |-> 0] /\ written = 0
    /\ action_ready_ = FALSE /\ action_mu_ = "free"
    /\ commandPc = "idle" /\ commandMotor = 0 /\ alphaTime = 0
    /\ picked = [j \in Joints |-> 0] /\ read = 0 /\ newest = 0
    /\ command = [phase |-> "none", target |-> [j \in Motors |-> 0], time |-> 0]

-----------------------------------------------------------------------------
(* main                                                                     *)

MainStep(from, to) ==
    /\ mainPc = from /\ mainPc' = to
    /\ UNCHANGED <<stateVars, phaseVars, actionVars, action_mu_, policyVars, commandVars>>

CheckMode_Forgets ==   \* mutation: a call that fails leaves the name empty
    /\ name' \in {IF serviceActive THEN "ai" ELSE "empty", "empty"}
    /\ MainStep("checkMode", IF name' = "empty" THEN "loadPolicy" ELSE "releaseMode")
    /\ UNCHANGED <<serviceActive, running_>>

\* while (msc->CheckMode(form, name), !name.empty()): the result is not looked
\* at, and a call that fails leaves name as it is.
CheckMode ==
    /\ \/ name' = IF serviceActive THEN "ai" ELSE "empty"
       \/ UNCHANGED name
    /\ MainStep("checkMode", IF name' = "empty" THEN "loadPolicy" ELSE "releaseMode")
    /\ UNCHANGED <<serviceActive, running_>>

\* ReleaseMode may fail; either way the loop sleeps and looks again.
ReleaseMode ==
    /\ MainStep("releaseMode", "checkMode")
    /\ serviceActive' \in {serviceActive, FALSE}
    /\ UNCHANGED <<name, running_>>

\* The channels are opened and the policy is loaded, or main catches the
\* exception; run() starts the threads.  (Nobody looks at the robot's service any
\* more, and whether it is active is forgotten.)
LoadPolicy ==
    /\ \E to \in {"running", "exited"} : MainStep("loadPolicy", to)
    /\ serviceActive' = FALSE
    /\ UNCHANGED <<name, running_>>

\* SIGINT or SIGTERM.  g_ctrl is set when the constructor has returned: before
\* that, the handler does nothing.
Signal ==
    /\ MainStep("running", "running")
    /\ running_' = FALSE
    /\ UNCHANGED <<serviceActive, name>>

\* run() returns, and the members are destroyed in the reverse order of their
\* declaration; the threads go on until they have been cancelled.
RunReturns ==
    /\ MainStep("running", "destroying")
    /\ ~running_
    /\ UNCHANGED <<serviceActive, name, running_>>

ProcessExits ==
    /\ MainStep("destroying", "exited")
    /\ UNCHANGED <<serviceActive, name, running_>>

Main == CheckMode \/ ReleaseMode \/ LoadPolicy \/ RunReturns \/ ProcessExits

ThreadsRun == mainPc \in {"running", "destroying"}

-----------------------------------------------------------------------------
(* state: onLowState                                                        *)

StateStep(from, to) ==
    /\ ThreadsRun /\ statePc = from /\ statePc' = to
    /\ UNCHANGED <<mainVars, phaseVars, actionVars, action_mu_, policyVars, commandVars>>

\* A message whose checksum is wrong changes nothing.
LowStateArrives ==
    /\ StateStep("idle", "setMotor")
    /\ received < Len(Pose) /\ received' = received + 1
    /\ UNCHANGED <<motor_buf_, imu_buf_>>

SetMotorBuf ==
    /\ StateStep("setMotor", "setImu")
    /\ motor_buf_' = received
    /\ UNCHANGED <<received, imu_buf_>>

SetImuBuf_Motor ==   \* mutation: the second set stores the wrong snapshot
    /\ StateStep("setImu", "idle")
    /\ motor_buf_' = received
    /\ UNCHANGED <<received, imu_buf_>>

SetImuBuf ==
    /\ StateStep("setImu", "idle")
    /\ imu_buf_' = received
    /\ UNCHANGED <<received, motor_buf_>>

StateThread == LowStateArrives \/ SetMotorBuf \/ SetImuBuf

-----------------------------------------------------------------------------
(* policy: policyLoop                                                       *)

PolicyStep(from, to) ==
    /\ ThreadsRun /\ policyPc = from /\ policyPc' = to
    /\ UNCHANGED <<mainVars, stateVars, commandVars>>

\* The snapshots are forgotten where they are not read any more: after freeze_q_ has
\* been set or the observation built, and at the end of a run.
PolicyRuns(from, to) ==
    /\ PolicyStep(from, to)
    /\ policyMotor' = IF to = "switch" THEN policyMotor ELSE 0
    /\ policyImu' = IF to = "switch" THEN policyImu ELSE 0

PolicyGetsMotor ==
    /\ PolicyStep("idle", "getImu")
    /\ policyMotor' = motor_buf_
    /\ UNCHANGED <<phaseVars, actionVars, action_mu_, policyImu, inferences>>

PolicyGetsImu_Cached ==   \* mutation: an IMU snapshot is only taken when there is none
    /\ policyMotor # 0 /\ imu_buf_ # 0
    /\ PolicyStep("getImu", "tick")
    /\ policyImu' = 1 /\ UNCHANGED policyMotor
    /\ UNCHANGED <<phaseVars, actionVars, action_mu_, inferences>>

\* Without both snapshots the run ends.
PolicyGetsImu ==
    /\ \/ /\ policyMotor = 0 \/ imu_buf_ = 0
          /\ PolicyRuns("getImu", "idle")
       \/ /\ policyMotor # 0 /\ imu_buf_ # 0
          /\ PolicyStep("getImu", "tick")
          /\ policyImu' = imu_buf_ /\ UNCHANGED policyMotor
    /\ UNCHANGED <<phaseVars, actionVars, action_mu_, inferences>>

\* phase_time_ += 1 / POLICY_HZ.  In POLICY it is never read again: kept at the
\* value it had, so that the model is finite.
Tick ==
    /\ PolicyRuns("tick", "switch")
    /\ phase_time_' = IF phase_ = "POLICY" THEN phase_time_ ELSE phase_time_ + 1
    /\ UNCHANGED <<phase_, freeze_q_, actionVars, action_mu_, inferences>>

LeaveFreeze_NoSnapshot ==   \* mutation: freeze_q_ is not set
    /\ PolicyRuns("switch", "setStand")
    /\ phase_ = "FREEZE" /\ phase_time_ > FREEZE_TICKS
    /\ UNCHANGED <<phaseVars, actionVars, action_mu_, inferences>>

\* The pose of the snapshot policyLoop has taken is where STAND starts from.
LeaveFreeze ==
    /\ PolicyRuns("switch", "setStand")
    /\ phase_ = "FREEZE" /\ phase_time_ > FREEZE_TICKS
    /\ freeze_q_' = Pose[policyMotor]
    /\ UNCHANGED <<phase_, phase_time_, actionVars, action_mu_, inferences>>

SetStand ==
    /\ PolicyRuns("setStand", "resetTime")
    /\ phase_' = "STAND"
    /\ UNCHANGED <<phase_time_, freeze_q_, actionVars, action_mu_, inferences>>

LeaveStand ==
    /\ PolicyRuns("switch", "resetTime")
    /\ phase_ = "STAND" /\ phase_time_ > STAND_TICKS
    /\ phase_' = "POLICY"
    /\ UNCHANGED <<phase_time_, freeze_q_, actionVars, action_mu_, inferences>>

ResetTime ==
    /\ PolicyRuns("resetTime", "idle")
    /\ phase_time_' = 0
    /\ UNCHANGED <<phase_, freeze_q_, actionVars, action_mu_, inferences>>

StaysInPhase ==
    /\ PolicyRuns("switch", "idle")
    /\ \/ phase_ = "FREEZE" /\ phase_time_ <= FREEZE_TICKS
       \/ phase_ = "STAND" /\ phase_time_ <= STAND_TICKS
    /\ UNCHANGED <<phaseVars, actionVars, action_mu_, inferences>>

\* buildObs and the inference.
Infer ==
    /\ PolicyRuns("switch", "lock")
    /\ phase_ = "POLICY"
    /\ inferences < Len(Output) /\ inferences' = inferences + 1
    /\ UNCHANGED <<phaseVars, actionVars, action_mu_>>

PolicyLocks ==
    /\ PolicyRuns("lock", "write")
    /\ action_mu_ = "free" /\ action_mu_' = "policy"
    /\ UNCHANGED <<phaseVars, actionVars, inferences>>

\* One joint after the other.
WriteAction ==
    /\ PolicyRuns("write", "write")
    /\ written < NumJoints /\ written' = written + 1
    /\ actions_' = [actions_ EXCEPT ![written + 1] = inferences]
    /\ UNCHANGED <<phaseVars, action_ready_, action_mu_, inferences>>

\* prev_actions_ is policyLoop's own.
SetActionReady ==
    /\ PolicyRuns("write", "unlock")
    /\ written = NumJoints /\ written' = 0
    /\ action_ready_' = TRUE
    /\ UNCHANGED <<phaseVars, actions_, action_mu_, inferences>>

PolicyUnlocks ==
    /\ PolicyRuns("unlock", "idle")
    /\ action_mu_' = "free"
    /\ UNCHANGED <<phaseVars, actionVars, inferences>>

PolicyThread ==
    \/ PolicyGetsMotor \/ PolicyGetsImu \/ Tick \/ LeaveFreeze \/ SetStand \/ LeaveStand
    \/ ResetTime \/ StaysInPhase \/ Infer \/ PolicyLocks \/ WriteAction
    \/ SetActionReady \/ PolicyUnlocks

-----------------------------------------------------------------------------
(* command: commandLoop                                                     *)

CommandStep(from, to) ==
    /\ ThreadsRun /\ commandPc = from /\ commandPc' = to
    /\ UNCHANGED <<mainVars, stateVars, phaseVars, actionVars, policyVars>>

\* The action handed over last: the newest inference, but for the time in which
\* policyLoop waits for action_mu_ with the result.
LatestAction == IF policyPc = "lock" THEN inferences - 1 ELSE inferences

\* Every motor holds the position of the snapshot unless the phase sets it, which it
\* does for the joints only.
Targets(jointTarget) ==
    [j \in Motors |-> IF j \in Joints THEN jointTarget[j]
                                      ELSE STAND_TICKS * Pose[commandMotor][j]]

\* A command is sent at the end of a run, and what the run has read is dropped.
SendFrom(from, phase, target, time) ==
    /\ CommandStep(from, "idle")
    /\ command' = [phase |-> phase, target |-> target, time |-> time]
    /\ commandMotor' = 0 /\ alphaTime' = 0
    /\ picked' = [j \in Joints |-> 0] /\ read' = 0 /\ newest' = 0
    /\ UNCHANGED action_mu_

CommandGetsMotor ==
    /\ motor_buf_ # 0
    /\ CommandStep("idle", "readPhase")
    /\ commandMotor' = motor_buf_
    /\ UNCHANGED <<action_mu_, alphaTime, pickedVars, command>>

\* In FREEZE the command is sent at once: hold the position the snapshot reports.
SendFreeze ==
    /\ phase_ = "FREEZE"
    /\ SendFrom("readPhase", "FREEZE",
                Targets([j \in Joints |-> STAND_TICKS * Pose[commandMotor][j]]), 0)

ReadPhase ==
    /\ \/ phase_ = "STAND" /\ CommandStep("readPhase", "readTime")
       \/ phase_ = "POLICY" /\ CommandStep("readPhase", "lock")
    /\ UNCHANGED <<action_mu_, commandMotor, alphaTime, pickedVars, command>>

\* alpha = min(phase_time_ / STAND_SECS, 1)
ReadTime ==
    /\ CommandStep("readTime", "readFreeze")
    /\ alphaTime' = IF phase_time_ > STAND_TICKS THEN STAND_TICKS ELSE phase_time_
    /\ UNCHANGED <<action_mu_, commandMotor, pickedVars, command>>

\* q_start + alpha * (q_end - q_start)
SendStand ==
    SendFrom("readFreeze", "STAND", Targets([j \in Joints |->
        STAND_TICKS * freeze_q_[j] + alphaTime * (DefaultPose[j] - freeze_q_[j])]), alphaTime)

CommandLocks_Not ==   \* mutation: actions_ is read without action_mu_
    /\ CommandStep("lock", IF action_ready_ THEN "read" ELSE "unlock")
    /\ UNCHANGED <<action_mu_, commandMotor, alphaTime, pickedVars, command>>

\* Without an action yet the default pose is commanded, and actions_ is not read;
\* action_ready_ is only written under the lock, and tested as soon as it is taken.
CommandLocks ==
    /\ CommandStep("lock", IF action_ready_ THEN "read" ELSE "unlock")
    /\ action_mu_ = "free" /\ action_mu_' = "command"
    /\ UNCHANGED <<commandMotor, alphaTime, pickedVars, command>>

\* One joint after the other.
ReadAction ==
    /\ CommandStep("read", IF read + 1 = NumJoints THEN "unlock" ELSE "read")
    /\ read' = read + 1
    /\ picked' = [picked EXCEPT ![read + 1] = actions_[read + 1]]
    /\ UNCHANGED <<action_mu_, commandMotor, alphaTime, newest, command>>

\* The guard is released at the end of the branch, before the command is sent.
CommandUnlocks ==
    /\ CommandStep("unlock", "send")
    /\ action_mu_' = "free" /\ newest' = LatestAction
    /\ UNCHANGED <<commandMotor, alphaTime, picked, read, command>>

\* The clipped action; without an action the default pose.
Offset(k, j) ==
    IF k = 0 THEN 0
    ELSE IF Output[k][j] > Clip THEN Clip
    ELSE IF Output[k][j] < -Clip THEN -Clip ELSE Output[k][j]

PolicyTarget(k, j) == STAND_TICKS * (DefaultPose[j] + Offset(k, j))

SendPolicy ==
    SendFrom("send", "POLICY", Targets([j \in Joints |-> PolicyTarget(picked[j], j)]), 0)

CommandThread ==
    \/ CommandGetsMotor \/ SendFreeze \/ ReadPhase \/ ReadTime \/ SendStand \/ CommandLocks
    \/ ReadAction \/ CommandUnlocks \/ SendPolicy

-----------------------------------------------------------------------------
Next == Main \/ Signal \/ StateThread \/ PolicyThread \/ CommandThread

Spec == Init /\ [][Next]_vars

\* Threads are scheduled.  Nothing obliges messages to arrive or anybody to press
\* Ctrl-C, and nothing is assumed about who gets a contended mutex.
Fairness ==
    /\ WF_vars(Main) /\ WF_vars(SetMotorBuf \/ SetImuBuf)
    /\ WF_vars(PolicyThread) /\ WF_vars(CommandThread)

FairSpec == Spec /\ Fairness
-----------------------------------------------------------------------------
\* The IMU snapshot an observation is built from is at most one message older
\* than the joint positions, however the two buffers are written in between.
ObservationIsRecent == policyPc = "tick" => policyImu >= policyMotor - 1

\* In FREEZE and STAND every target lies between the positions the motor has reported
\* and, if it has a joint, the default pose: a command never uses a freeze_q_ that is
\* not a reported position, nor goes beyond the default pose.
TargetsAreOnTheWay ==
    LET Known(j) == {Pose[n][j] : n \in 1..received}
                    \cup (IF j \in Joints THEN {DefaultPose[j]} ELSE {})
    IN  command.phase \in {"FREEZE", "STAND"} =>
           \A j \in Motors : \E lowest, highest \in Known(j) :
               /\ STAND_TICKS * lowest <= command.target[j]
               /\ command.target[j] <= STAND_TICKS * highest

\* No POLICY command mixes two actions, however the two loops over the joints and the
\* mutex interleave: all its joints are of the action that was the newest one handed
\* over when commandLoop released action_mu_ (the default pose if there was none), and
\* the motors without a joint hold the position of the snapshot.  A newer action may
\* be handed over between the release and the Write.
CommandIsOfOneAction ==
    [][commandPc = "send" /\ commandPc' = "idle" =>
          \A j \in Motors : command'.target[j] =
              IF j \in Joints THEN PolicyTarget(newest, j)
                              ELSE STAND_TICKS * Pose[commandMotor][j]]_vars

\* The robot reaches the policy once a valid message has arrived, unless the
\* program is stopped.
ReachesPolicy == received > 0 ~> (phase_ = "POLICY" \/ ~running_)

\* "STAND: linearly interpolate to default (stand) pose": on the way the robot is
\* not told to go back.
StandAdvances ==
    [][command.phase = "STAND" /\ command'.phase = "STAND" => command'.time >= command.time]_vars

\* Failed calls of CheckMode and ReleaseMode are harmless once a call has reported a
\* service: the loop then ends only when no service is active.  (A first call that
\* fails ends it with the service on.)
ReportedServiceIsReleased == [][name # "empty" /\ mainPc' = "loadPolicy" => ~serviceActive]_vars
=============================================================================
