---------------------- MODULE G1MotionControllerProofs ----------------------
(***************************************************************************)
(* What holds of the motion controller for every number of motors and       *)
(* joints, every list of poses and of outputs and for phases of every       *)
(* length: its types, that an observation is of one message or of two in a  *)
(* row, that a command is made of one action, and that on the way to the    *)
(* default pose no target is beyond it.                                     *)
(***************************************************************************)
EXTENDS G1MotionController, TLAPS

(***************************************************************************)
(* The types, the time apart: its bound depends on where policyLoop is.  The *)
(* Boolean variables have a formula of their own, which needs no arithmetic. *)
(***************************************************************************)
Switches == serviceActive \in BOOLEAN /\ running_ \in BOOLEAN /\ action_ready_ \in BOOLEAN

Typed ==
    /\ mainPc \in {"checkMode", "releaseMode", "loadPolicy", "running", "destroying", "exited"}
    /\ name \in {"empty", "ai"}
    /\ statePc \in {"idle", "setMotor", "setImu"} /\ received \in 0..Len(Pose)
    /\ imu_buf_ \in 0..received /\ motor_buf_ \in 0..received
    /\ policyPc \in PolicyPcs /\ policyMotor \in 0..received /\ policyImu \in 0..received
    /\ phase_ \in {"FREEZE", "STAND", "POLICY"} /\ freeze_q_ \in [Motors -> Int]
    /\ phase_time_ \in Nat
    /\ inferences \in 0..Len(Output) /\ actions_ \in [Joints -> 0..inferences]
    /\ written \in 0..NumJoints /\ action_mu_ \in {"free", "policy", "command"}
    /\ commandPc \in CommandPcs /\ commandMotor \in 0..received /\ alphaTime \in Nat
    /\ picked \in [Joints -> 0..inferences] /\ read \in 0..NumJoints
    /\ newest \in 0..inferences
    /\ command.phase \in {"none", "FREEZE", "STAND", "POLICY"}
    /\ command.target \in [Motors -> Int] /\ command.time \in Nat

\* policyLoop has a snapshot from the test of both on, commandLoop from its start;
\* commandLoop reads joints as long as there are any left; policyLoop has an action
\* when it asks for the lock.
HasSnapshot ==
    /\ policyPc \in {"tick", "switch"} => policyMotor >= 1
    /\ commandPc # "idle" => commandMotor >= 1
    /\ commandPc = "read" => read < NumJoints
    /\ commandPc \notin {"read", "unlock", "send"} => read = 0
    /\ policyPc = "lock" => inferences >= 1

TInv == Typed /\ HasSnapshot

LEMMA TargetTypes ==
    ASSUME NEW k \in 0..Len(Output), NEW j \in Joints
    PROVE  PolicyTarget(k, j) \in Int
  <1>1. k # 0 => Output[k] \in [Joints -> Int]
    BY ControllerAssumption
  <1>2. Offset(k, j) \in Int
    BY <1>1, ControllerAssumption DEF Offset
  <1>. QED
    BY <1>2, ControllerAssumption DEF PolicyTarget

\* The joints are motors.
LEMMA JointsAreMotors == Joints \subseteq Motors
  BY ControllerAssumption DEF Joints, Motors

\* A message reports a position of every motor.
LEMMA PoseTyped ==
    ASSUME NEW n \in 1..Len(Pose)
    PROVE  Pose[n] \in [Motors -> Int]
  BY ControllerAssumption

LEMMA PoseTypes ==
    ASSUME NEW n \in 1..Len(Pose), NEW j \in Motors
    PROVE  Pose[n][j] \in Int
  BY PoseTyped

\* A multiple of a position is a target, and a point between two is one.
LEMMA ScaledTyped ==
    ASSUME NEW x \in Int
    PROVE  STAND_TICKS * x \in Int
  BY ControllerAssumption

LEMMA BetweenTyped ==
    ASSUME NEW from \in Int, NEW to \in Int, NEW time \in Nat
    PROVE  STAND_TICKS * from + time * (to - from) \in Int
  BY ControllerAssumption

LEMMA FreezeTyped ==
    ASSUME commandMotor \in 1..Len(Pose)
    PROVE  [j \in Joints |-> STAND_TICKS * Pose[commandMotor][j]] \in [Joints -> Int]
  BY PoseTypes, ScaledTyped, JointsAreMotors

LEMMA StandTyped ==
    ASSUME freeze_q_ \in [Motors -> Int], alphaTime \in Nat
    PROVE  [j \in Joints |-> STAND_TICKS * freeze_q_[j]
                                + alphaTime * (DefaultPose[j] - freeze_q_[j])] \in [Joints -> Int]
  <1>1. \A j \in Joints : freeze_q_[j] \in Int /\ DefaultPose[j] \in Int
    BY JointsAreMotors, ControllerAssumption
  <1>. QED
    BY <1>1, BetweenTyped

LEMMA TargetsTyped ==
    ASSUME NEW q \in [Joints -> Int], commandMotor \in 1..Len(Pose)
    PROVE  Targets(q) \in [Motors -> Int]
  <1>1. \A j \in Motors : STAND_TICKS * Pose[commandMotor][j] \in Int
    BY PoseTypes, ScaledTyped
  <1>. QED
    BY <1>1 DEF Targets

LEMMA InitTyped == Init => TInv
  BY ControllerAssumption
  DEF Init, TInv, Typed, HasSnapshot, PolicyPcs, CommandPcs, Joints

LEMMA MainTyped == TInv /\ (Main \/ Signal) => TInv'
  <1>. SUFFICES ASSUME TInv, Main \/ Signal PROVE TInv'
    OBVIOUS
  <1>1. /\ mainPc' \in {"checkMode", "releaseMode", "loadPolicy", "running", "destroying", "exited"}
        /\ name' \in {"empty", "ai"}
    BY DEF TInv, Typed, Main, Signal, CheckMode, ReleaseMode, LoadPolicy, RunReturns,
           ProcessExits, MainStep
  <1>2. UNCHANGED <<stateVars, phaseVars, actionVars, action_mu_, policyVars, commandVars>>
    BY DEF Main, Signal, CheckMode, ReleaseMode, LoadPolicy, RunReturns, ProcessExits, MainStep
  <1>. QED
    BY <1>1, <1>2 DEF TInv, Typed, HasSnapshot, stateVars, phaseVars, actionVars, policyVars,
                      commandVars

LEMMA StateTyped == TInv /\ StateThread => TInv'
  <1>. SUFFICES ASSUME TInv, StateThread PROVE TInv'
    OBVIOUS
  <1>. USE DEF TInv, Typed, HasSnapshot, StateStep, mainVars, phaseVars, actionVars,
               policyVars, commandVars
  <1>1. CASE LowStateArrives
    BY <1>1, ControllerAssumption DEF LowStateArrives
  <1>2. CASE SetMotorBuf
    BY <1>2 DEF SetMotorBuf
  <1>3. CASE SetImuBuf
    BY <1>3 DEF SetImuBuf
  <1>. QED
    BY <1>1, <1>2, <1>3 DEF StateThread

LEMMA NextJoint == TInv /\ WriteAction => written + 1 \in Joints
  <1>. SUFFICES ASSUME written \in 0..NumJoints, written < NumJoints PROVE written + 1 \in Joints
    BY DEF TInv, Typed, WriteAction
  <1>. QED
    BY ControllerAssumption DEF Joints

LEMMA PolicyTyped == TInv /\ PolicyThread => TInv'
  <1>. SUFFICES ASSUME TInv, PolicyThread PROVE TInv'
    OBVIOUS
  <1>0. FREEZE_TICKS \in Nat /\ STAND_TICKS \in Nat /\ NumJoints \in Nat
    BY ControllerAssumption
  <1>. USE <1>0 DEF TInv, Typed, HasSnapshot, PolicyStep, PolicyRuns,
           mainVars, stateVars, commandVars, phaseVars, actionVars, PolicyPcs
  <1>1. CASE PolicyGetsMotor
    BY <1>1 DEF PolicyGetsMotor
  <1>2. CASE PolicyGetsImu
    <2>1. \/ policyPc' = "idle" /\ policyMotor' = 0 /\ policyImu' = 0
          \/ policyPc' = "tick" /\ policyMotor' = policyMotor /\ policyImu' = imu_buf_
                /\ policyMotor # 0
      BY <1>2 DEF PolicyGetsImu
    <2>2. UNCHANGED <<mainVars, stateVars, commandVars, phaseVars, actionVars, action_mu_,
                      inferences>>
      BY <1>2 DEF PolicyGetsImu
    <2>. QED
      BY <2>1, <2>2
  <1>3. CASE Tick
    BY <1>3 DEF Tick
  <1>4. CASE LeaveFreeze
    <2>1. policyMotor \in 1..Len(Pose)
      BY <1>4 DEF LeaveFreeze
    <2>2. Pose[policyMotor] \in [Motors -> Int]
      BY <2>1, PoseTyped
    <2>. QED
      BY <1>4, <2>2 DEF LeaveFreeze
  <1>5. CASE SetStand
    BY <1>5 DEF SetStand
  <1>6. CASE LeaveStand
    BY <1>6 DEF LeaveStand
  <1>7. CASE ResetTime
    BY <1>7 DEF ResetTime
  <1>8. CASE StaysInPhase
    BY <1>8 DEF StaysInPhase
  <1>9. CASE Infer
    BY <1>9 DEF Infer
  <1>10. CASE PolicyLocks
    BY <1>10 DEF PolicyLocks
  <1>11. CASE WriteAction
    <2>1. written + 1 \in Joints
      BY <1>11, NextJoint
    <2>2. actions_' \in [Joints -> 0..inferences]
      BY <1>11, <2>1 DEF WriteAction
    <2>3. /\ policyPc' = "write" /\ written' \in 0..NumJoints
          /\ policyMotor' = 0 /\ policyImu' = 0
          /\ UNCHANGED <<mainVars, stateVars, commandVars, phaseVars, action_mu_, inferences>>
      BY <1>11 DEF WriteAction
    <2>. QED
      BY <2>2, <2>3
  <1>13. CASE SetActionReady
    BY <1>13 DEF SetActionReady
  <1>12. CASE PolicyUnlocks
    BY <1>12 DEF PolicyUnlocks
  <1>. QED
    BY <1>1, <1>2, <1>3, <1>4, <1>5, <1>6, <1>7, <1>8, <1>9, <1>10, <1>11, <1>12,
       <1>13
       DEF PolicyThread

LEMMA CommandTyped == TInv /\ CommandThread => TInv'
  <1>. SUFFICES ASSUME TInv, CommandThread PROVE TInv'
    OBVIOUS
  <1>10. STAND_TICKS \in Nat /\ NumJoints \in Nat /\ NumJoints >= 1
    BY ControllerAssumption
  <1>. USE <1>10 DEF TInv, Typed, HasSnapshot, CommandStep,
           mainVars, stateVars, phaseVars, actionVars, policyVars, pickedVars, CommandPcs
  <1>0. ASSUME NEW q \in [Joints -> Int], NEW from, NEW phase \in {"FREEZE", "STAND", "POLICY"},
               NEW time \in Nat, from # "idle", SendFrom(from, phase, Targets(q), time)
        PROVE  TInv'
    <2>1. commandMotor \in 1..Len(Pose)
      BY <1>0 DEF SendFrom
    <2>2. Targets(q) \in [Motors -> Int]
      BY <1>0, <2>1, TargetsTyped
    <2>3. /\ command'.phase = phase /\ command'.time = time
          /\ command'.target \in [Motors -> Int]
      BY <1>0, <2>2 DEF SendFrom
    <2>4. /\ commandPc' = "idle" /\ commandMotor' = 0 /\ alphaTime' = 0
          /\ picked' = [j \in Joints |-> 0] /\ read' = 0 /\ newest' = 0
          /\ UNCHANGED <<mainVars, stateVars, phaseVars, actionVars, policyVars, action_mu_>>
      BY <1>0 DEF SendFrom
    <2>5. picked' \in [Joints -> 0..inferences']
      BY <2>4
    <2>. QED
      BY <2>3, <2>4, <2>5
  <1>1. CASE CommandGetsMotor
    BY <1>1 DEF CommandGetsMotor
  <1>2. CASE SendFreeze
    <2>1. commandMotor \in 1..Len(Pose)
      BY <1>2 DEF SendFreeze, SendFrom
    <2>2. [j \in Joints |-> STAND_TICKS * Pose[commandMotor][j]] \in [Joints -> Int]
      BY <2>1, FreezeTyped
    <2>. QED
      BY <1>0, <1>2, <2>2 DEF SendFreeze
  <1>3. CASE ReadPhase
    <2>1. /\ commandPc = "readPhase" /\ commandPc' \in {"readTime", "lock"}
          /\ UNCHANGED <<mainVars, stateVars, phaseVars, actionVars, policyVars, action_mu_,
                         commandMotor, alphaTime, picked, read, newest, command>>
      BY <1>3 DEF ReadPhase
    <2>. QED
      BY <2>1
  <1>4. CASE ReadTime
    BY <1>4 DEF ReadTime
  <1>5. CASE SendStand
    <2>1. [j \in Joints |-> STAND_TICKS * freeze_q_[j]
                              + alphaTime * (DefaultPose[j] - freeze_q_[j])] \in [Joints -> Int]
      BY StandTyped
    <2>. DEFINE q == [j \in Joints |-> STAND_TICKS * freeze_q_[j]
                              + alphaTime * (DefaultPose[j] - freeze_q_[j])]
    <2>2. SendFrom("readFreeze", "STAND", Targets(q), alphaTime)
      BY ONLY <1>5 DEF SendStand
    <2>. HIDE DEF q
    <2>3. q \in [Joints -> Int]
      BY <2>1 DEF q
    <2>4. alphaTime \in Nat
      OBVIOUS
    <2>. QED
      BY ONLY <1>0, <2>2, <2>3, <2>4
  <1>6. CASE CommandLocks
    BY <1>6 DEF CommandLocks
  <1>7. CASE ReadAction
    <2>1. read \in Nat /\ read < NumJoints
      BY <1>7 DEF ReadAction
    <2>3. read + 1 \in Joints
      BY ONLY <1>10, <2>1 DEF Joints
    <2>2. picked' \in [Joints -> 0..inferences]
      BY <1>7, <2>3 DEF ReadAction
    <2>. QED
      BY <1>7, <2>1, <2>2 DEF ReadAction
  <1>8. CASE CommandUnlocks
    BY <1>8 DEF CommandUnlocks, LatestAction
  <1>9. CASE SendPolicy
    <2>1. \A j \in Joints : picked[j] \in 0..Len(Output)
      OBVIOUS
    <2>2. [j \in Joints |-> PolicyTarget(picked[j], j)] \in [Joints -> Int]
      BY <2>1, TargetTypes
    <2>. QED
      BY <1>0, <1>9, <2>2 DEF SendPolicy
  <1>. QED
    BY <1>1, <1>2, <1>3, <1>4, <1>5, <1>6, <1>7, <1>8, <1>9 DEF CommandThread

LEMMA NextTyped == TInv /\ [Next]_vars => TInv'
  <1>1. ASSUME TInv, UNCHANGED vars PROVE TInv'
    BY <1>1 DEF TInv, Typed, HasSnapshot, vars, mainVars, stateVars, phaseVars, actionVars,
                policyVars, commandVars
  <1>. QED
    BY <1>1, MainTyped, StateTyped, PolicyTyped, CommandTyped DEF Next

LEMMA SwitchesTyped == Switches /\ [Next]_vars => Switches'
  <1>. SUFFICES ASSUME Switches, [Next]_vars PROVE Switches'
    OBVIOUS
  <1>. USE DEF Switches, mainVars, stateVars, phaseVars, actionVars, policyVars, commandVars
  <1>1. CASE Main \/ Signal
    BY <1>1 DEF Main, Signal, CheckMode, ReleaseMode, LoadPolicy, RunReturns, ProcessExits,
                MainStep
  <1>2. CASE StateThread
    BY <1>2 DEF StateThread, StateStep, LowStateArrives, SetMotorBuf, SetImuBuf
  <1>3. CASE PolicyThread
    BY <1>3 DEF PolicyThread, PolicyStep, PolicyRuns, PolicyGetsMotor, PolicyGetsImu, Tick,
                LeaveFreeze, SetStand, LeaveStand, ResetTime, StaysInPhase, Infer,
                PolicyLocks, WriteAction, SetActionReady, PolicyUnlocks
  <1>4. CASE CommandThread
    BY <1>4 DEF CommandThread, CommandStep, SendFrom, CommandGetsMotor, SendFreeze,
                ReadPhase, ReadTime, SendStand, CommandLocks, ReadAction, CommandUnlocks, SendPolicy
  <1>5. CASE UNCHANGED vars
    BY <1>5 DEF vars
  <1>. QED
    BY <1>1, <1>2, <1>3, <1>4, <1>5 DEF Next

(***************************************************************************)
(* How far the time gets depends on the phase and on where policyLoop is    *)
(* between adding to it and setting it back.                                *)
(***************************************************************************)
TimeInv ==
    /\ policyPc = "setStand" => phase_ = "FREEZE"
    /\ policyPc = "resetTime" => phase_ \in {"STAND", "POLICY"}
    /\ phase_ = "FREEZE" =>
          phase_time_ <= IF policyPc \in {"switch", "setStand"} THEN FREEZE_TICKS + 1
                                                                ELSE FREEZE_TICKS
    /\ phase_ = "STAND" =>
          phase_time_ <= IF policyPc = "resetTime" THEN FREEZE_TICKS + 1
                         ELSE IF policyPc = "switch" THEN STAND_TICKS + 1
                         ELSE STAND_TICKS
    /\ phase_ = "POLICY" =>
          phase_time_ <= IF policyPc = "resetTime" THEN STAND_TICKS + 1 ELSE 0

LEMMA TimeStep == TInv /\ TimeInv /\ [Next]_vars => TimeInv'
  <1>. SUFFICES ASSUME TInv, TimeInv, [Next]_vars PROVE TimeInv'
    OBVIOUS
  <1>0. /\ phase_ \in {"FREEZE", "STAND", "POLICY"} /\ phase_time_ \in Nat
        /\ FREEZE_TICKS \in Nat /\ STAND_TICKS \in Nat
    BY ControllerAssumption DEF TInv, Typed
  <1>1. CASE UNCHANGED <<policyPc, phase_, phase_time_>>
    BY <1>1 DEF TimeInv
  <1>2. CASE PolicyThread
    <2>. USE <1>0 DEF TimeInv, PolicyStep, PolicyRuns, phaseVars
    <2>1. CASE PolicyGetsMotor
      BY <2>1 DEF PolicyGetsMotor
    <2>2. CASE PolicyGetsImu
      BY <2>2 DEF PolicyGetsImu
    <2>3. CASE Tick
      BY <2>3 DEF Tick
    <2>4. CASE LeaveFreeze
      BY <2>4 DEF LeaveFreeze
    <2>5. CASE SetStand
      BY <2>5 DEF SetStand
    <2>6. CASE LeaveStand
      BY <2>6 DEF LeaveStand
    <2>7. CASE ResetTime
      BY <2>7 DEF ResetTime
    <2>8. CASE StaysInPhase
      BY <2>8 DEF StaysInPhase
    <2>9. CASE Infer
      BY <2>9 DEF Infer
    <2>10. CASE PolicyLocks
      BY <2>10 DEF PolicyLocks
    <2>11. CASE WriteAction \/ SetActionReady
      BY <2>11 DEF WriteAction, SetActionReady
    <2>12. CASE PolicyUnlocks
      BY <2>12 DEF PolicyUnlocks
    <2>. QED
      BY <1>2, <2>1, <2>2, <2>3, <2>4, <2>5, <2>6, <2>7, <2>8, <2>9, <2>10, <2>11, <2>12
         DEF PolicyThread
  <1>3. CASE Main \/ Signal
    BY <1>1, <1>3 DEF Main, Signal, CheckMode, ReleaseMode, LoadPolicy, RunReturns,
                      ProcessExits, MainStep, phaseVars, policyVars
  <1>4. CASE StateThread
    BY <1>1, <1>4 DEF StateThread, LowStateArrives, SetMotorBuf, SetImuBuf, StateStep,
                      phaseVars, policyVars
  <1>5. CASE CommandThread
    BY <1>1, <1>5 DEF CommandThread, CommandGetsMotor, SendFreeze, ReadPhase, ReadTime, SendStand,
                      CommandLocks, ReadAction, CommandUnlocks, SendPolicy, CommandStep, SendFrom,
                      phaseVars, policyVars
  <1>6. CASE UNCHANGED vars
    BY <1>1, <1>6 DEF vars, phaseVars, policyVars
  <1>. QED
    BY <1>2, <1>3, <1>4, <1>5, <1>6 DEF Next

\* The type invariant, whatever the poses, the outputs and the lengths of the phases.
THEOREM TypeCorrect == Spec => []TypeOK
  <1>1. Init => TInv /\ TimeInv /\ Switches
    <2>1. Init => TimeInv
      BY ControllerAssumption DEF Init, TimeInv
    <2>2. Init => Switches
      BY DEF Init, Switches
    <2>. QED
      BY <2>1, <2>2, InitTyped
  <1>2. TInv /\ TimeInv /\ Switches /\ [Next]_vars => (TInv /\ TimeInv /\ Switches)'
    BY NextTyped, TimeStep, SwitchesTyped
  <1>3. TInv /\ TimeInv /\ Switches => TypeOK
    <2>. SUFFICES ASSUME TInv, TimeInv, Switches PROVE TypeOK
      OBVIOUS
    <2>1. \E ticks \in {FREEZE_TICKS, STAND_TICKS} : phase_time_ \in 0..(ticks + 1)
      BY ControllerAssumption DEF TInv, Typed, TimeInv
    <2>. QED
      BY <2>1 DEF TInv, Typed, Switches, TypeOK
  <1>. QED
    BY <1>1, <1>2, <1>3, PTL DEF Spec

(***************************************************************************)
(* The two buffers are never more than one message apart, and the motor     *)
(* buffer is the newer one; policyLoop reads it first.                      *)
(***************************************************************************)
SnapshotInv ==
    /\ motor_buf_ = IF statePc = "setMotor" THEN received - 1 ELSE received
    /\ imu_buf_ = IF statePc = "idle" THEN received ELSE received - 1
    /\ policyPc = "getImu" => policyMotor <= motor_buf_
    /\ ObservationIsRecent

LEMMA SnapshotStep == TInv /\ SnapshotInv /\ [Next]_vars => SnapshotInv'
  <1>. SUFFICES ASSUME TInv, SnapshotInv, [Next]_vars PROVE SnapshotInv'
    OBVIOUS
  <1>0. /\ received \in Nat /\ motor_buf_ \in Nat /\ imu_buf_ \in Nat
        /\ policyMotor \in Nat /\ policyImu \in Nat
        /\ statePc \in {"idle", "setMotor", "setImu"}
    BY ControllerAssumption DEF TInv, Typed
  <1>. USE DEF SnapshotInv, ObservationIsRecent
  <1>1. CASE UNCHANGED <<stateVars, policyVars>>
    BY <1>1 DEF stateVars, policyVars
  <1>2. CASE StateThread
    <2>. USE <1>0 DEF StateStep, policyVars
    <2>1. CASE LowStateArrives
      BY <2>1 DEF LowStateArrives
    <2>2. CASE SetMotorBuf
      BY <2>2 DEF SetMotorBuf
    <2>3. CASE SetImuBuf
      BY <2>3 DEF SetImuBuf
    <2>. QED
      BY <1>2, <2>1, <2>2, <2>3 DEF StateThread
  <1>3. CASE PolicyThread
    <2>. USE <1>0 DEF PolicyStep, stateVars
    <2>1. CASE PolicyGetsMotor
      BY <2>1 DEF PolicyGetsMotor
    <2>2. CASE PolicyGetsImu
      BY <2>2 DEF PolicyGetsImu, PolicyRuns
    <2>3. CASE PolicyThread /\ policyPc \notin {"idle", "getImu"}
      <3>1. policyPc' \notin {"getImu", "tick"} /\ UNCHANGED stateVars
        BY <2>3 DEF PolicyThread, PolicyGetsMotor, PolicyGetsImu, Tick, LeaveFreeze, SetStand,
                    LeaveStand, ResetTime, StaysInPhase, Infer, PolicyLocks, WriteAction,
                    SetActionReady, PolicyUnlocks, PolicyRuns
      <3>. QED
        BY <3>1
    <2>4. policyPc \in {"idle", "getImu"} => PolicyGetsMotor \/ PolicyGetsImu
      BY <1>3 DEF PolicyThread, Tick, LeaveFreeze, SetStand, LeaveStand, ResetTime,
                  StaysInPhase, Infer, PolicyLocks, WriteAction, SetActionReady, PolicyUnlocks,
                  PolicyRuns
    <2>. QED
      BY <1>3, <2>1, <2>2, <2>3, <2>4
  <1>4. CASE Main \/ Signal
    BY <1>1, <1>4 DEF Main, Signal, CheckMode, ReleaseMode, LoadPolicy, RunReturns,
                      ProcessExits, MainStep
  <1>5. CASE CommandThread
    BY <1>1, <1>5 DEF CommandThread, CommandGetsMotor, SendFreeze, ReadPhase, ReadTime, SendStand,
                      CommandLocks, ReadAction, CommandUnlocks, SendPolicy, CommandStep, SendFrom
  <1>6. CASE UNCHANGED vars
    BY <1>1, <1>6 DEF vars
  <1>. QED
    BY <1>2, <1>3, <1>4, <1>5, <1>6 DEF Next

\* The two snapshots of an observation are of one message or of two in a row, for
\* any number of messages, although the buffers are read and written one by one.
THEOREM ObservationCorrect == Spec => []ObservationIsRecent
  <1>1. Init => TInv /\ SnapshotInv
    <2>1. Init => SnapshotInv
      BY DEF Init, SnapshotInv, ObservationIsRecent
    <2>. QED
      BY <2>1, InitTyped
  <1>2. TInv /\ SnapshotInv /\ [Next]_vars => (TInv /\ SnapshotInv)'
    BY NextTyped, SnapshotStep
  <1>3. SnapshotInv => ObservationIsRecent
    BY DEF SnapshotInv
  <1>. QED
    BY <1>1, <1>2, <1>3, PTL DEF Spec

(***************************************************************************)
(* actions_ holds the action handed over last whenever policyLoop is not    *)
(* writing it, and whoever reads or writes it has action_mu_.               *)
(***************************************************************************)
ActionInv ==
    /\ policyPc \in {"write", "unlock"} => action_mu_ = "policy"
    /\ commandPc \in {"read", "unlock"} => action_mu_ = "command"
    /\ policyPc # "write" => /\ \A j \in Joints : actions_[j] = LatestAction
                             /\ action_ready_ \/ LatestAction = 0
                             /\ written = 0
    /\ policyPc = "write" => \A j \in Joints :
          actions_[j] = IF j <= written THEN inferences ELSE inferences - 1
    /\ commandPc = "read" => \A j \in Joints : j <= read => picked[j] = LatestAction
    /\ commandPc = "unlock" => \A j \in Joints : picked[j] = LatestAction
    /\ commandPc = "send" => \A j \in Joints : picked[j] = newest
    /\ commandPc \notin {"read", "unlock", "send"} => \A j \in Joints : picked[j] = 0

LEMMA ActionPolicyStep ==
    ASSUME TInv, ActionInv, PolicyThread
    PROVE  ActionInv'
  <1>0. /\ inferences \in Nat /\ UNCHANGED commandVars
        /\ actions_ \in [Joints -> 0..inferences] /\ Joints \subseteq Nat
        /\ written \in Nat
        /\ action_mu_ \in {"free", "policy", "command"}
    BY ControllerAssumption
    DEF TInv, Typed, Joints, PolicyThread, PolicyGetsMotor, PolicyGetsImu, Tick, LeaveFreeze,
        SetStand, LeaveStand, ResetTime, StaysInPhase, Infer, PolicyLocks, WriteAction,
        SetActionReady, PolicyUnlocks, PolicyRuns, PolicyStep
  <1>. USE DEF ActionInv, LatestAction, PolicyRuns, PolicyStep, actionVars, commandVars
  <1>1. CASE PolicyGetsMotor \/ PolicyGetsImu \/ Tick \/ LeaveFreeze \/ SetStand
             \/ LeaveStand \/ ResetTime \/ StaysInPhase
    <2>1. /\ UNCHANGED <<actionVars, action_mu_, inferences>>
          /\ policyPc \notin {"lock", "write", "unlock"}
          /\ policyPc' \notin {"lock", "write", "unlock"}
      BY <1>1 DEF PolicyGetsMotor, PolicyGetsImu, Tick, LeaveFreeze, SetStand, LeaveStand,
                  ResetTime, StaysInPhase
    <2>. QED
      BY <1>0, <2>1
  <1>2. CASE Infer
    BY <1>0, <1>2 DEF Infer
  <1>3. CASE PolicyLocks
    <2>1. /\ policyPc = "lock" /\ policyPc' = "write" /\ action_mu_ = "free"
          /\ action_mu_' = "policy" /\ UNCHANGED <<actionVars, inferences, commandVars>>
      BY <1>0, <1>3 DEF PolicyLocks
    <2>2. written = 0 /\ \A j \in Joints : actions_[j] = inferences - 1
      BY <2>1
    <2>3. \A j \in Joints : ~(j <= 0)
      BY DEF Joints
    <2>4. commandPc \notin {"read", "unlock"}
      BY <2>1
    <2>. QED
      BY <2>1, <2>2, <2>3, <2>4
  <1>4. CASE WriteAction
    <2>1. /\ action_mu_' = "policy" /\ commandPc \notin {"read", "unlock"}
          /\ inferences' = inferences /\ policyPc = "write" /\ policyPc' = "write"
          /\ written' = written + 1
          /\ actions_' = [actions_ EXCEPT ![written + 1] = inferences]
      BY <1>4 DEF WriteAction
    <2>2. \A j \in Joints : actions_'[j] = IF j <= written' THEN inferences ELSE inferences - 1
      BY <1>0, <2>1
    <2>. QED
      BY <1>0, <2>1, <2>2
  <1>5. CASE SetActionReady
    <2>1. \A j \in Joints : j <= written
      BY <1>5 DEF SetActionReady, Joints
    <2>. QED
      BY <1>0, <1>5, <2>1 DEF SetActionReady
  <1>6. CASE PolicyUnlocks
    BY <1>0, <1>6 DEF PolicyUnlocks
  <1>. QED
    BY <1>1, <1>2, <1>3, <1>4, <1>5, <1>6 DEF PolicyThread

LEMMA ActionCommandStep ==
    ASSUME TInv, ActionInv, CommandThread
    PROVE  ActionInv'
  <1>0. /\ UNCHANGED <<actionVars, policyVars>>
        /\ action_mu_ \in {"free", "policy", "command"}
        /\ inferences \in Nat /\ Joints \subseteq Nat /\ read \in Nat
        /\ actions_ \in [Joints -> 0..inferences] /\ picked \in [Joints -> 0..inferences]
    BY ControllerAssumption
    DEF TInv, Typed, Joints, CommandThread, CommandGetsMotor, SendFreeze, ReadPhase, ReadTime,
        SendStand, CommandLocks, ReadAction, CommandUnlocks, SendPolicy, CommandStep, SendFrom
  <1>. USE <1>0 DEF ActionInv, LatestAction, CommandStep, actionVars, policyVars, pickedVars
  <1>1. CASE CommandGetsMotor
    BY <1>1 DEF CommandGetsMotor
  <1>2. CASE SendFreeze
    BY <1>2 DEF SendFreeze, SendFrom
  <1>3. CASE ReadPhase
    BY <1>3 DEF ReadPhase
  <1>4. CASE ReadTime
    BY <1>4 DEF ReadTime
  <1>5. CASE SendStand
    BY <1>5 DEF SendStand, SendFrom
  <1>6. CASE CommandLocks
    <2>1. policyPc # "write" /\ \A j \in Joints : picked[j] = 0
      BY <1>6 DEF CommandLocks
    <2>2. commandPc' = "read" => read = 0
      BY <1>6 DEF CommandLocks, TInv, HasSnapshot
    <2>3. commandPc' = "unlock" => LatestAction = 0
      BY <1>6, <2>1 DEF CommandLocks
    <2>4. commandPc' \in {"read", "unlock"} /\ action_mu_' = "command"
          /\ UNCHANGED <<picked, read>>
      BY <1>6 DEF CommandLocks
    <2>5. LatestAction' = LatestAction
      OBVIOUS
    <2>. HIDE DEF LatestAction
    <2>6. commandPc' = "read" => \A j \in Joints : j <= read' => picked'[j] = LatestAction'
      BY <2>2, <2>4 DEF Joints
    <2>7. commandPc' = "unlock" => \A j \in Joints : picked'[j] = LatestAction'
      BY <2>1, <2>3, <2>4, <2>5
    <2>8. /\ \A j \in Joints : actions_'[j] = LatestAction'
          /\ action_ready_' \/ LatestAction' = 0
          /\ written' = 0 /\ policyPc' \notin {"write", "unlock"}
      BY <1>6, <2>1, <2>5 DEF CommandLocks
    <2>. QED
      BY <2>4, <2>6, <2>7, <2>8
  <1>7. CASE ReadAction
    <2>1. /\ action_mu_ = "command" /\ action_mu_' = action_mu_ /\ read' = read + 1
          /\ picked' = [picked EXCEPT ![read + 1] = actions_[read + 1]]
          /\ commandPc' = IF read + 1 = NumJoints THEN "unlock" ELSE "read"
      BY <1>7 DEF ReadAction
    <2>2. policyPc # "write" /\ \A j \in Joints : actions_[j] = LatestAction
      BY <2>1
    <2>3. \A j \in Joints : j <= read + 1 => picked'[j] = LatestAction
      BY <1>7, <2>1, <2>2 DEF ReadAction
    <2>4. read + 1 = NumJoints => \A j \in Joints : j <= read + 1
      BY DEF Joints
    <2>. QED
      BY <2>1, <2>2, <2>3, <2>4
  <1>8. CASE CommandUnlocks
    BY <1>8 DEF CommandUnlocks
  <1>9. CASE SendPolicy
    BY <1>9 DEF SendPolicy, SendFrom
  <1>. QED
    BY <1>1, <1>2, <1>3, <1>4, <1>5, <1>6, <1>7, <1>8, <1>9 DEF CommandThread

LEMMA ActionStep == TInv /\ ActionInv /\ [Next]_vars => ActionInv'
  <1>. SUFFICES ASSUME TInv, ActionInv, [Next]_vars PROVE ActionInv'
    OBVIOUS
  <1>1. CASE UNCHANGED <<actionVars, action_mu_, policyVars, commandVars>>
    BY <1>1 DEF ActionInv, LatestAction, actionVars, policyVars, commandVars
  <1>2. CASE Main \/ Signal
    BY <1>1, <1>2 DEF Main, Signal, CheckMode, ReleaseMode, LoadPolicy, RunReturns,
                      ProcessExits, MainStep
  <1>3. CASE StateThread
    BY <1>1, <1>3 DEF StateThread, LowStateArrives, SetMotorBuf, SetImuBuf, StateStep
  <1>4. CASE UNCHANGED vars
    BY <1>1, <1>4 DEF vars
  <1>. QED
    BY <1>2, <1>3, <1>4, ActionPolicyStep, ActionCommandStep DEF Next

\* The targets of a command that has been sent.
LEMMA SentTargets ==
    ASSUME NEW from, NEW phase, NEW time, NEW q, SendFrom(from, phase, Targets(q), time)
    PROVE  \A j \in Motors : command'.target[j] =
              IF j \in Joints THEN q[j] ELSE STAND_TICKS * Pose[commandMotor][j]
  <1>1. command'.target = Targets(q)
    BY DEF SendFrom
  <1>. QED
    BY <1>1 DEF Targets

\* The one step that sends a POLICY command.
LEMMA SentAction ==
    ASSUME TInv, ActionInv, [Next]_vars, commandPc = "send", commandPc' = "idle"
    PROVE  \A j \in Motors : command'.target[j] =
              IF j \in Joints THEN PolicyTarget(newest, j)
                              ELSE STAND_TICKS * Pose[commandMotor][j]
  <1>1. SendPolicy
    <2>1. CASE CommandThread
      BY <2>1 DEF CommandThread, CommandGetsMotor, SendFreeze, ReadPhase, ReadTime, SendStand,
                  CommandLocks, ReadAction, CommandUnlocks, CommandStep, SendFrom
    <2>2. CASE Main \/ Signal
      BY <2>2 DEF Main, Signal, CheckMode, ReleaseMode, LoadPolicy, RunReturns, ProcessExits,
                  MainStep, commandVars
    <2>3. CASE StateThread \/ PolicyThread
      BY <2>3 DEF StateThread, LowStateArrives, SetMotorBuf, SetImuBuf, StateStep, PolicyThread,
                  PolicyGetsMotor, PolicyGetsImu, Tick, LeaveFreeze, SetStand, LeaveStand,
                  ResetTime, StaysInPhase, Infer, PolicyLocks, WriteAction, SetActionReady,
                  PolicyUnlocks, PolicyRuns, PolicyStep, commandVars
    <2>4. CASE UNCHANGED vars
      BY <2>4 DEF vars, commandVars
    <2>. QED
      BY <2>1, <2>2, <2>3, <2>4 DEF Next
  <1>2. \A j \in Joints : picked[j] = newest
    BY DEF ActionInv
  <1>. DEFINE q == [j \in Joints |-> PolicyTarget(picked[j], j)]
  <1>3. \A j \in Joints : q[j] = PolicyTarget(newest, j)
    BY <1>2
  <1>4. SendFrom("send", "POLICY", Targets(q), 0)
    BY <1>1 DEF SendPolicy
  <1>. HIDE DEF q
  <1>5. \A j \in Motors : command'.target[j] =
              IF j \in Joints THEN q[j] ELSE STAND_TICKS * Pose[commandMotor][j]
    BY <1>4, SentTargets
  <1>. QED
    BY <1>3, <1>5

\* No command mixes the joints of two actions, for any number of joints and any list
\* of outputs: it is of the newest one handed over when the lock was released.
THEOREM ActionCorrect == Spec => CommandIsOfOneAction
  <1>. DEFINE Sent == commandPc = "send" /\ commandPc' = "idle" =>
                         \A j \in Motors : command'.target[j] =
                            IF j \in Joints THEN PolicyTarget(newest, j)
                                            ELSE STAND_TICKS * Pose[commandMotor][j]
  <1>1. Init => TInv /\ ActionInv
    <2>1. Init => ActionInv
      BY DEF Init, ActionInv, LatestAction
    <2>. QED
      BY <2>1, InitTyped
  <1>2. TInv /\ ActionInv /\ [Next]_vars => (TInv /\ ActionInv)'
    BY NextTyped, ActionStep
  <1>3. TInv /\ ActionInv /\ [Next]_vars => [Sent]_vars
    BY SentAction
  <1>. QED
    BY <1>1, <1>2, <1>3, PTL DEF Spec, CommandIsOfOneAction

(***************************************************************************)
(* Once policyLoop has left FREEZE, freeze_q_ is a pose the robot has       *)
(* reported, and commandLoop only interpolates from there, within the way.  *)
(***************************************************************************)
Reported(q) == \E n \in 1..received : q = Pose[n]

FreezeInv ==
    /\ phase_ # "FREEZE" \/ policyPc = "setStand" => Reported(freeze_q_)
    /\ commandPc \in {"readTime", "readFreeze"} => phase_ # "FREEZE"
    /\ commandPc = "readFreeze" => alphaTime \in 0..STAND_TICKS
    /\ TargetsAreOnTheWay

Between(target, from, to) ==
    \/ STAND_TICKS * from <= target /\ target <= STAND_TICKS * to
    \/ STAND_TICKS * to <= target /\ target <= STAND_TICKS * from

\* The interpolation stays between its ends.
LEMMA Interpolated ==
    ASSUME NEW from \in Int, NEW to \in Int, NEW a \in 0..STAND_TICKS
    PROVE  Between(STAND_TICKS * from + a * (to - from), from, to)
  <1>0. STAND_TICKS \in Nat
    BY ControllerAssumption
  <1>1. ASSUME NEW x \in Nat, NEW y \in Nat PROVE x * y \in Nat
    BY <1>1
  <1>2. CASE to >= from
    <2>1. a * (to - from) \in Nat /\ (STAND_TICKS - a) * (to - from) \in Nat
      BY <1>0, <1>1, <1>2
    <2>. QED
      BY <1>0, <2>1 DEF Between
  <1>3. CASE to < from
    <2>1. a * (from - to) \in Nat /\ (STAND_TICKS - a) * (from - to) \in Nat
      BY <1>0, <1>1, <1>3
    <2>. QED
      BY <1>0, <2>1 DEF Between
  <1>. QED
    BY <1>2, <1>3

\* What has been reported stays so, and a command that is not replaced stays on the way.
LEMMA ReportedStays ==
    ASSUME TInv, received' \in Nat, received' >= received
    PROVE  /\ \A q : Reported(q) => Reported(q)'
           /\ TargetsAreOnTheWay /\ UNCHANGED command => TargetsAreOnTheWay'
  <1>0. received \in Nat
    BY ControllerAssumption DEF TInv, Typed
  <1>1. \A n \in 1..received : n \in 1..received'
    BY <1>0
  <1>. QED
    BY <1>1 DEF Reported, TargetsAreOnTheWay

LEMMA FreezePolicyStep ==
    ASSUME TInv, TInv', FreezeInv, PolicyThread
    PROVE  FreezeInv'
  <1>0. UNCHANGED <<stateVars, commandVars>>
    BY DEF PolicyThread, PolicyGetsMotor, PolicyGetsImu, Tick, LeaveFreeze, SetStand,
           LeaveStand, ResetTime, StaysInPhase, Infer, PolicyLocks, WriteAction, SetActionReady,
           PolicyUnlocks, PolicyRuns, PolicyStep
  <1>1. TargetsAreOnTheWay' /\ (commandPc' = "readFreeze" => alphaTime' \in 0..STAND_TICKS)
    BY <1>0 DEF FreezeInv, TargetsAreOnTheWay, stateVars, commandVars
  <1>2. Reported(freeze_q_) /\ UNCHANGED freeze_q_ => Reported(freeze_q_)'
    BY <1>0 DEF Reported, stateVars
  <1>. USE DEF FreezeInv, PolicyRuns, PolicyStep, phaseVars, commandVars
  <1>3. CASE LeaveFreeze
    <2>1. policyMotor \in 1..received /\ UNCHANGED received
      BY <1>0, <1>3, ControllerAssumption DEF LeaveFreeze, TInv, Typed, HasSnapshot, stateVars
    <2>2. Reported(freeze_q_)'
      BY <1>3, <2>1 DEF LeaveFreeze, Reported
    <2>. QED
      BY <1>0, <1>1, <1>3, <2>2 DEF LeaveFreeze
  <1>4. CASE SetStand
    BY <1>0, <1>1, <1>2, <1>4 DEF SetStand
  <1>5. CASE LeaveStand
    BY <1>0, <1>1, <1>2, <1>5 DEF LeaveStand
  <1>6. CASE PolicyGetsMotor \/ PolicyGetsImu \/ Tick \/ ResetTime \/ StaysInPhase \/ Infer
             \/ PolicyLocks \/ WriteAction \/ SetActionReady \/ PolicyUnlocks
    <2>1. phase_' = phase_ /\ freeze_q_' = freeze_q_ /\ policyPc' # "setStand"
      BY <1>6 DEF PolicyGetsMotor, PolicyGetsImu, Tick, ResetTime, StaysInPhase, Infer,
                  PolicyLocks, WriteAction, SetActionReady, PolicyUnlocks
    <2>. QED
      BY <1>0, <1>1, <1>2, <2>1
  <1>. QED
    BY <1>3, <1>4, <1>5, <1>6 DEF PolicyThread

\* A command is on the way when its joints are, each between a position reported and
\* the default pose.
LEMMA SentOnTheWay ==
    ASSUME TInv, UNCHANGED stateVars, commandMotor \in 1..received,
           NEW from, NEW phase, NEW time, NEW q \in [Joints -> Int],
           SendFrom(from, phase, Targets(q), time),
           \A j \in Joints : \E n \in 1..received : \/ q[j] = STAND_TICKS * Pose[n][j]
                                                    \/ Between(q[j], Pose[n][j], DefaultPose[j])
    PROVE  TargetsAreOnTheWay'
  <1>. DEFINE Known(j) == {Pose[n][j] : n \in 1..received}
                            \cup (IF j \in Joints THEN {DefaultPose[j]} ELSE {})
              OnTheWay(j) == \E lowest, highest \in Known(j) :
                                /\ STAND_TICKS * lowest <= command'.target[j]
                                /\ command'.target[j] <= STAND_TICKS * highest
  <1>0. received' = received /\ 1..received \subseteq 1..Len(Pose) /\ STAND_TICKS \in Nat
    <2>1. received' = received
      BY DEF stateVars
    <2>2. received \in 0..Len(Pose)
      BY DEF TInv, Typed
    <2>3. Len(Pose) \in Nat /\ STAND_TICKS \in Nat
      BY ControllerAssumption
    <2>. QED
      BY ONLY <2>1, <2>2, <2>3
  <1>1. \A j \in Motors : command'.target[j] =
              IF j \in Joints THEN q[j] ELSE STAND_TICKS * Pose[commandMotor][j]
    BY SentTargets
  <1>2. ASSUME NEW j \in Motors, NEW n \in 1..received,
               command'.target[j] = STAND_TICKS * Pose[n][j]
        PROVE  OnTheWay(j)
    <2>1. Pose[n][j] \in Known(j)
      OBVIOUS
    <2>2. Pose[n][j] \in Int
      BY <1>0, PoseTypes
    <2>3. STAND_TICKS * Pose[n][j] <= command'.target[j]
          /\ command'.target[j] <= STAND_TICKS * Pose[n][j]
      BY <1>0, <1>2, <2>2
    <2>. QED
      BY <2>1, <2>3
  <1>3. ASSUME NEW j \in Joints, NEW n \in 1..received,
               Between(command'.target[j], Pose[n][j], DefaultPose[j])
        PROVE  OnTheWay(j)
    <2>1. Pose[n][j] \in Known(j) /\ DefaultPose[j] \in Known(j)
      OBVIOUS
    <2>. QED
      BY <1>3, <2>1 DEF Between
  <1>4. ASSUME NEW j \in Motors PROVE OnTheWay(j)
    <2>1. CASE j \in Joints
      BY <1>1, <1>2, <1>3, <2>1
    <2>2. CASE j \notin Joints
      BY <1>1, <1>2, <2>2
    <2>. QED
      BY <2>1, <2>2
  <1>. QED
    BY <1>0, <1>4 DEF TargetsAreOnTheWay

LEMMA FreezeCommandStep ==
    ASSUME TInv, TInv', FreezeInv, CommandThread
    PROVE  FreezeInv'
  <1>0. UNCHANGED <<stateVars, phaseVars, policyVars>>
    BY DEF CommandThread, CommandGetsMotor, SendFreeze, ReadPhase, ReadTime, SendStand,
           CommandLocks, ReadAction, CommandUnlocks, SendPolicy, CommandStep, SendFrom
  <1>1. phase_' # "FREEZE" \/ policyPc' = "setStand" => Reported(freeze_q_)'
    BY <1>0 DEF FreezeInv, Reported, stateVars, phaseVars, policyVars
  <1>2. UNCHANGED command => TargetsAreOnTheWay'
    BY <1>0 DEF FreezeInv, TargetsAreOnTheWay, stateVars
  <1>3. commandPc # "idle" => commandMotor \in 1..received
    BY ControllerAssumption DEF TInv, Typed, HasSnapshot
  <1>4. UNCHANGED stateVars /\ 1..received \subseteq 1..Len(Pose)
    BY <1>0, ControllerAssumption DEF TInv, Typed
  <1>. USE <1>1, <1>2 DEF FreezeInv, CommandStep, phaseVars
  <1>5. CASE CommandGetsMotor
    BY <1>5 DEF CommandGetsMotor
  <1>6. CASE SendFreeze
    <2>. DEFINE q == [j \in Joints |-> STAND_TICKS * Pose[commandMotor][j]]
    <2>1. commandMotor \in 1..received
      BY <1>3, <1>6 DEF SendFreeze, SendFrom
    <2>2. q \in [Joints -> Int]
      <3>1. \A j \in Joints : Pose[commandMotor][j] \in Int
        BY <1>4, <2>1, PoseTypes, JointsAreMotors
      <3>. QED
        BY <3>1, ControllerAssumption
    <2>3. \A j \in Joints : q[j] = STAND_TICKS * Pose[commandMotor][j]
      OBVIOUS
    <2>4. SendFrom("readPhase", "FREEZE", Targets(q), 0)
      BY <1>6 DEF SendFreeze
    <2>. HIDE DEF q
    <2>5. TargetsAreOnTheWay'
      BY <1>4, <2>1, <2>2, <2>3, <2>4, SentOnTheWay
    <2>. QED
      BY <2>4, <2>5 DEF SendFrom
  <1>7. CASE ReadPhase
    BY <1>7 DEF ReadPhase
  <1>8. CASE ReadTime
    <2>1. alphaTime' \in 0..STAND_TICKS
      BY <1>8, ControllerAssumption DEF ReadTime, TInv, Typed
    <2>. QED
      BY <1>8, <2>1 DEF ReadTime
  <1>9. CASE SendStand
    <2>. DEFINE q == [j \in Joints |-> STAND_TICKS * freeze_q_[j]
                                         + alphaTime * (DefaultPose[j] - freeze_q_[j])]
    <2>1. alphaTime \in 0..STAND_TICKS /\ Reported(freeze_q_) /\ commandMotor \in 1..received
      BY <1>3, <1>9 DEF SendStand, SendFrom
    <2>2. PICK n \in 1..received : freeze_q_ = Pose[n]
      BY <2>1 DEF Reported
    <2>3. \A j \in Joints : freeze_q_[j] \in Int /\ DefaultPose[j] \in Int
      BY JointsAreMotors, ControllerAssumption DEF TInv, Typed
    <2>4. \A j \in Joints : Between(q[j], Pose[n][j], DefaultPose[j])
      BY <2>1, <2>2, <2>3, Interpolated
    <2>5. q \in [Joints -> Int]
      BY <2>1, <2>3, ControllerAssumption
    <2>6. SendFrom("readFreeze", "STAND", Targets(q), alphaTime)
      BY <1>9 DEF SendStand
    <2>. HIDE DEF q
    <2>7. TargetsAreOnTheWay'
      BY <1>4, <2>1, <2>4, <2>5, <2>6, SentOnTheWay
    <2>. QED
      BY <2>6, <2>7 DEF SendFrom
  <1>10. CASE CommandLocks
    BY <1>10 DEF CommandLocks
  <1>11. CASE ReadAction
    BY <1>11 DEF ReadAction
  <1>12. CASE CommandUnlocks
    BY <1>12 DEF CommandUnlocks
  <1>13. CASE SendPolicy
    <2>1. TargetsAreOnTheWay'
      BY <1>13 DEF SendPolicy, SendFrom, TargetsAreOnTheWay
    <2>. QED
      BY <1>13, <2>1 DEF SendPolicy, SendFrom
  <1>. QED
    BY <1>5, <1>6, <1>7, <1>8, <1>9, <1>10, <1>11, <1>12, <1>13 DEF CommandThread

LEMMA FreezeStep == TInv /\ TInv' /\ FreezeInv /\ [Next]_vars => FreezeInv'
  <1>. SUFFICES ASSUME TInv, TInv', FreezeInv, [Next]_vars PROVE FreezeInv'
    OBVIOUS
  <1>1. ASSUME UNCHANGED <<phaseVars, policyVars, commandVars>>,
               received' \in Nat, received' >= received
        PROVE  FreezeInv'
    <2>1. TargetsAreOnTheWay'
      BY <1>1, ReportedStays DEF FreezeInv, commandVars
    <2>2. Reported(freeze_q_) => Reported(freeze_q_)'
      BY <1>1, ReportedStays DEF phaseVars, Reported
    <2>. QED
      BY <1>1, <2>1, <2>2 DEF FreezeInv, phaseVars, policyVars, commandVars
  <1>2. received \in Nat
    BY ControllerAssumption DEF TInv, Typed
  <1>3. CASE Main \/ Signal
    <2>1. UNCHANGED <<stateVars, phaseVars, policyVars, commandVars>>
      BY <1>3 DEF Main, Signal, CheckMode, ReleaseMode, LoadPolicy, RunReturns, ProcessExits,
                  MainStep
    <2>. QED
      BY <1>1, <1>2, <2>1 DEF stateVars
  <1>4. CASE StateThread
    BY <1>1, <1>2, <1>4 DEF StateThread, LowStateArrives, SetMotorBuf, SetImuBuf, StateStep
  <1>5. CASE UNCHANGED vars
    BY <1>1, <1>2, <1>5 DEF vars, stateVars
  <1>. QED
    BY <1>3, <1>4, <1>5, FreezePolicyStep, FreezeCommandStep DEF Next

\* On the way to the default pose no target leaves the poses reported and the
\* default pose, whatever the poses and however long the phases take.
THEOREM TargetsCorrect == Spec => []TargetsAreOnTheWay
  <1>1. Init => TInv /\ FreezeInv
    <2>1. Init => FreezeInv
      BY DEF Init, FreezeInv, TargetsAreOnTheWay
    <2>. QED
      BY <2>1, InitTyped
  <1>2. TInv /\ FreezeInv /\ [Next]_vars => (TInv /\ FreezeInv)'
    BY NextTyped, FreezeStep
  <1>3. FreezeInv => TargetsAreOnTheWay
    BY DEF FreezeInv
  <1>. QED
    BY <1>1, <1>2, <1>3, PTL DEF Spec
-----------------------------------------------------------------------------
\* Once CheckMode has reported a service the loop is left only with the service
\* off, whatever calls fail.
THEOREM ReleasedCorrect == Spec => ReportedServiceIsReleased
  <1> DEFINE Left == mainPc = "loadPolicy" => name = "empty"
             Released == name # "empty" /\ mainPc' = "loadPolicy" => ~serviceActive
  <1>1. Init => Left
    BY DEF Init
  <1>2. Left /\ [Next]_vars => Left' /\ Released
    <2>. SUFFICES ASSUME Left, [Next]_vars PROVE Left' /\ Released
      OBVIOUS
    <2>1. CASE CheckMode
      BY <2>1 DEF CheckMode, MainStep
    <2>2. CASE ReleaseMode \/ LoadPolicy \/ RunReturns \/ ProcessExits \/ Signal
      BY <2>2 DEF ReleaseMode, LoadPolicy, RunReturns, ProcessExits, Signal, MainStep
    <2>3. ASSUME UNCHANGED mainVars PROVE Left' /\ Released
      BY <2>3 DEF mainVars
    <2>4. CASE StateThread \/ PolicyThread \/ CommandThread
      <3>1. UNCHANGED mainVars
        BY <2>4 DEF StateThread, LowStateArrives, SetMotorBuf, SetImuBuf, StateStep,
                    PolicyThread, PolicyGetsMotor, PolicyGetsImu, Tick, LeaveFreeze, SetStand,
                    LeaveStand, ResetTime, StaysInPhase, Infer, PolicyLocks, WriteAction,
                    SetActionReady, PolicyUnlocks, PolicyRuns, PolicyStep, CommandThread,
                    CommandGetsMotor,
                    SendFreeze, ReadPhase, ReadTime, SendStand, CommandLocks,
                    ReadAction, CommandUnlocks, SendPolicy, SendFrom, CommandStep
      <3>. QED
        BY <2>3, <3>1
    <2>5. CASE UNCHANGED vars
      BY <2>3, <2>5 DEF vars
    <2>. QED
      BY <2>1, <2>2, <2>4, <2>5 DEF Next, Main
  <1>3. Left /\ [Next]_vars => [Released]_vars
    BY <1>2
  <1>4. Left /\ [Next]_vars => Left'
    BY <1>2
  <1>. QED
    BY <1>1, <1>3, <1>4, PTL DEF Spec, ReportedServiceIsReleased
=============================================================================
