------------------------ MODULE RobotControllerProofs ------------------------
(* Proofs about RobotController, for every ramp, gamepad and set of messages. *)
EXTENDS RobotController, TLAPS

ControlPcs == {"idle", "reset", "reset2", "mode", "check", "command"}
Modes == {"DAMPING", "STAND", "CTRL"}

\* What UpdateStateMachine works on.
Machines == [mode : Modes, pd : 0..PdFull, gains : Gains, reset : BOOLEAN]

\* Damping and every ratio make gains.
LEMMA GainsOfRatio ==
    /\ DampingGains \in Gains
    /\ \A ratio \in 0..PdFull : Scaled(ratio) \in Gains
BY ControllerAssumption DEF DampingGains, Scaled, Gains

\* The three transitions stay within the machines.
LEMMA TransitionsTyped ==
    ASSUME NEW m \in Machines
    PROVE  Stand(m) \in Machines /\ Ctrl(m) \in Machines /\ Stop(m) \in Machines
<1>1. Scaled(m.pd) \in Gains /\ Scaled(PdFull) \in Gains
      BY GainsOfRatio, ControllerAssumption DEF Machines
<1>2. Stand(m) \in Machines
      BY <1>1 DEF Stand, Machines, Modes
<1>3. Ctrl(m) \in Machines
      BY <1>1 DEF Ctrl, Machines, Modes
<1>4. \A z \in 0..PdFull : [m EXCEPT !.mode = "DAMPING", !.pd = z] \in Machines
      BY DEF Machines, Modes
<1>5. 0 \in 0..PdFull
      BY ControllerAssumption
<1>6. Stop(m) \in Machines
      BY <1>4, <1>5 DEF Stop
<1> QED BY <1>2, <1>3, <1>6

\* And so does their composition.
LEMMA UpdateTyped ==
    ASSUME NEW m \in Machines, NEW held, NEW new
    PROVE  UpdateStateMachine(m, held, new) \in Machines
<1> DEFINE stood == IF "R2" \in new THEN Stand(m) ELSE m
           ctrl  == IF "A" \in new THEN Ctrl(stood) ELSE stood
<1>1. stood \in Machines
      BY TransitionsTyped
<1>2. ctrl \in Machines
      BY <1>1, TransitionsTyped
<1>3. Stop(ctrl) \in Machines
      BY <1>2, TransitionsTyped
<1> QED BY <1>2, <1>3 DEF UpdateStateMachine

\* A quaternion of integers turns gravity into three integers.
LEMMA GravityTyped ==
    ASSUME NEW q \in Int \X Int \X Int \X Int
    PROVE  UpdateProjectedGravity(q) \in Int \X Int \X Int
<1>1. q[1] \in Int /\ q[2] \in Int /\ q[3] \in Int /\ q[4] \in Int
      OBVIOUS
<1>2. \A a, b \in Int : a * b \in Int
      OBVIOUS
<1> QED BY <1>1, <1>2 DEF UpdateProjectedGravity

\* The type invariant, whatever the messages.
THEOREM TypeCorrect == Spec => []TypeOK
<1>1. Init => TypeOK
  <2> SUFFICES ASSUME Init PROVE TypeOK
      OBVIOUS
  <2>1. Scaled(0) \in Gains
        BY GainsOfRatio, ControllerAssumption
  <2>2. <<0, 0, -1>> \in Int \X Int \X Int
        OBVIOUS
  <2>3. PdInit \in 0..PdFull
        BY ControllerAssumption
  <2>4. state \in [buttons : Pads \cup {{}}, quat : Quats \cup {Upright}, pose : Halves]
        BY DEF Init, Halves
  <2>5. iface \in [quat : Quats \cup {Upright}, gravity : Int \X Int \X Int, lo : Halves, hi : Halves]
        BY <2>2 DEF Init, Halves
  <2>6. input \in [lo : Halves, hi : Halves]
        BY DEF Init, Halves
  <2> QED BY <2>1, <2>3, <2>4, <2>5, <2>6 DEF Init, TypeOK
<1>2. TypeOK /\ [Next]_vars => TypeOK'
  <2> SUFFICES ASSUME TypeOK, [Next]_vars PROVE TypeOK'
      OBVIOUS
  <2>1. CASE HandlerAssigns
        BY <2>1 DEF TypeOK, HandlerAssigns, HandlerUnchanged, machine, Messages, Halves
  <2>2. CASE GetStateFirst
    <3>1. state.quat \in Int \X Int \X Int \X Int
          BY ControllerAssumption DEF TypeOK, Upright
    <3>2. UpdateProjectedGravity(state.quat) \in Int \X Int \X Int
          BY <3>1, GravityTyped
    <3>3. iface' \in [quat : Quats \cup {Upright}, gravity : Int \X Int \X Int, lo : Halves, hi : Halves]
          BY <2>2, <3>2 DEF TypeOK, GetStateFirst
    <3> QED BY <2>2, <3>3 DEF TypeOK, GetStateFirst, HandlerUnchanged, machine
  <2>3. CASE GetStateSecond
    <3>1. iface' \in [quat : Quats \cup {Upright}, gravity : Int \X Int \X Int, lo : Halves, hi : Halves]
          BY <2>3 DEF TypeOK, GetStateSecond
    <3> QED BY <2>3, <3>1 DEF TypeOK, GetStateSecond, HandlerUnchanged, machine
  <2>4. CASE StartControl
    <3>1. gains' \in Gains
          BY <2>4, GainsOfRatio DEF TypeOK, StartControl
    <3> QED BY <2>4, <3>1 DEF TypeOK, StartControl, ifaceVars
  <2>5. CASE StartSendCmd
        BY <2>5 DEF TypeOK, StartSendCmd, ifaceVars, machine
  <2>6. CASE LowCmdwriteHandler
        BY <2>6 DEF TypeOK, LowCmdwriteHandler, ifaceVars, machine
  <2>7. CASE InteprateGamePad
    <3> DEFINE m == UpdateStateMachine(Machine, state.buttons, state.buttons \ pressed)
    <3>1. Machine \in Machines
          BY DEF TypeOK, Machine, Machines, Modes
    <3>2. m \in Machines
          BY <3>1, UpdateTyped
    <3>3. mode' = m.mode /\ pd' = m.pd /\ gains' = m.gains
          BY <2>7 DEF InteprateGamePad, Becomes
    <3>4. mode' \in Modes /\ pd' \in 0..PdFull /\ gains' \in Gains
          BY <3>2, <3>3 DEF Machines
    <3>5. ctrlPc' \in ControlPcs
          BY <2>7 DEF InteprateGamePad, ControlPcs
    <3>6. pressed' \in Pads \cup {{}}
          BY <2>7 DEF InteprateGamePad, TypeOK
    <3> QED BY <2>7, <3>4, <3>5, <3>6
            DEF TypeOK, InteprateGamePad, ControlUnchanged, ifaceVars, Modes, ControlPcs
  <2>8. CASE Reset
        BY <2>8 DEF TypeOK, Reset, ControlUnchanged, ifaceVars, machine
  <2>9. CASE Standing
    <3>1. pd' \in 0..PdFull /\ gains' = Scaled(pd')
          BY <2>9, ControllerAssumption DEF TypeOK, Standing, Up, Down
    <3>2. gains' \in Gains
          BY <3>1, GainsOfRatio
    <3> QED BY <2>9, <3>1, <3>2 DEF TypeOK, Standing, GetInput, ControlUnchanged, ifaceVars
  <2>10. CASE Damping
         BY <2>10, GainsOfRatio DEF TypeOK, Damping, ControlUnchanged, ifaceVars
  <2>11. CASE UserControlStep
         BY <2>11 DEF TypeOK, UserControlStep, GetInput, ControlUnchanged, ifaceVars, machine
  <2>12. CASE CheckTermination
    <3>1. Machine \in Machines /\ Stop(Machine) \in Machines
          BY TransitionsTyped DEF TypeOK, Machine, Machines, Modes
    <3>2. mode' \in Modes /\ pd' \in 0..PdFull /\ gains' \in Gains
          BY <2>12, <3>1 DEF CheckTermination, Becomes, Machines
    <3> QED BY <2>12, <3>2 DEF TypeOK, CheckTermination, ControlUnchanged, ifaceVars, Modes
  <2>13. CASE SetCommand
         BY <2>13 DEF TypeOK, SetCommand, ControlUnchanged, ifaceVars, machine
  <2>14. CASE UNCHANGED vars
         BY <2>14 DEF TypeOK, vars, ifaceVars, machine
  <2> QED BY <2>1, <2>2, <2>3, <2>4, <2>5, <2>6, <2>7, <2>8, <2>9, <2>10, <2>11, <2>12,
             <2>13, <2>14 DEF Next, Main, GetState, LockingStep, ControlStep
<1> QED BY <1>1, <1>2, PTL DEF Spec

-----------------------------------------------------------------------------
(* The ramp.                                                               *)

\* With the stiffness c of the last command, if any: the controller runs past
\* the threshold, at full gains; damping has forgotten the ratio; and the ratio
\* is no step ahead of the command, unless that is past the threshold.
Sound(m, c, first) ==
    /\ m.mode = "CTRL" => m.gains.kp = PdFull /\ m.pd > PdCtrl /\ c > PdCtrl
    /\ m.mode = "DAMPING" => m.pd = 0
    /\ m.pd <= c \/ c > PdCtrl \/ (first /\ m.pd <= PdInit)

\* Each transition keeps that.
LEMMA TransitionsSound ==
    ASSUME NEW m \in Machines, NEW c \in Nat, NEW first \in BOOLEAN, Sound(m, c, first)
    PROVE  Sound(Stand(m), c, first) /\ Sound(Ctrl(m), c, first) /\ Sound(Stop(m), c, first)
<1> USE ControllerAssumption
<1>1. m.pd \in Nat /\ m.mode \in Modes
      BY DEF Machines
<1>2. Sound(Stand(m), c, first)
  <2>1. Stand(m).mode # "DAMPING" /\ Stand(m).pd = m.pd
        BY <1>1 DEF Stand, Machines, Modes
  <2>2. Stand(m).mode # "CTRL"
        BY <1>1 DEF Stand, Machines, Modes
  <2> QED BY <2>1, <2>2 DEF Sound
<1>3. Sound(Ctrl(m), c, first)
  <2>1. CASE m.mode = "STAND" /\ m.pd > PdCtrl
    <3>1. c > PdCtrl
          BY <2>1, <1>1 DEF Sound
    <3>2. Ctrl(m).mode = "CTRL" /\ Ctrl(m).pd = m.pd /\ Ctrl(m).gains = Scaled(PdFull)
          BY <2>1 DEF Ctrl, Machines
    <3>3. Scaled(PdFull).kp = PdFull
          BY DEF Scaled
    <3> QED BY <2>1, <3>1, <3>2, <3>3 DEF Sound
  <2>2. CASE ~(m.mode = "STAND" /\ m.pd > PdCtrl)
        BY <2>2 DEF Ctrl
  <2> QED BY <2>1, <2>2
<1>4. Sound(Stop(m), c, first)
  <2>1. Stop(m).mode = "DAMPING" /\ Stop(m).pd = 0
        BY DEF Stop, Machines
  <2> QED BY <2>1 DEF Sound
<1> QED BY <1>2, <1>3, <1>4

\* And so does UpdateStateMachine.
LEMMA UpdateSound ==
    ASSUME NEW m \in Machines, NEW c \in Nat, NEW first \in BOOLEAN, Sound(m, c, first),
           NEW held, NEW new
    PROVE  Sound(UpdateStateMachine(m, held, new), c, first)
<1> DEFINE stood == IF "R2" \in new THEN Stand(m) ELSE m
           ctrl  == IF "A" \in new THEN Ctrl(stood) ELSE stood
<1>1. stood \in Machines /\ Sound(stood, c, first)
      BY TransitionsTyped, TransitionsSound
<1>2. ctrl \in Machines /\ Sound(ctrl, c, first)
      BY <1>1, TransitionsTyped, TransitionsSound
<1>3. Sound(Stop(ctrl), c, first)
      BY <1>2, TransitionsSound
<1> QED BY <1>2, <1>3 DEF UpdateStateMachine

\* What a command may follow the last one.
NextCommand == \/ gains.kp <= cmd.kp + 1
               \/ cmd.kp > PdCtrl
               \/ ~commanded /\ gains.kp <= PdInit + 1

\* Between two commands the machine is sound; Standing has taken one step up
\* the ramp when the command is about to be set.
GainsInv ==
    /\ ctrlPc # "command" => Sound(Machine, cmd.kp, ~commanded)
    /\ mainPc = "polls" => mode = "STAND" /\ ctrlPc = "idle"
    /\ ctrlPc = "check" => mode = "CTRL"
    /\ ctrlPc = "command" =>
          /\ mode = "CTRL" => gains.kp = PdFull /\ pd > PdCtrl
          /\ mode = "DAMPING" => pd = 0
          /\ mode = "STAND" => gains.kp = pd
          /\ NextCommand

LEMMA GainsInvariant == Spec => [](TypeOK /\ GainsInv)
<1> USE ControllerAssumption
<1>1. Init => GainsInv
      BY DEF Init, GainsInv, Sound, Machine, Scaled
<1>2. TypeOK /\ GainsInv /\ [Next]_vars => GainsInv'
  <2> SUFFICES ASSUME TypeOK, GainsInv, [Next]_vars PROVE GainsInv'
      OBVIOUS
  <2>a. /\ Machine \in Machines /\ cmd.kp \in Nat /\ (~commanded) \in BOOLEAN
        /\ pd \in 0..PdFull /\ mode \in Modes /\ gains \in Gains
        BY DEF TypeOK, Machine, Machines, Modes, Gains
  <2>b. /\ Machine.mode = mode /\ Machine.pd = pd /\ Machine.gains = gains
        /\ Machine'.mode = mode' /\ Machine'.pd = pd' /\ Machine'.gains = gains'
        BY DEF Machine
  <2>1. CASE HandlerAssigns \/ GetState \/ StartSendCmd \/ LowCmdwriteHandler
    <3>1. /\ UNCHANGED <<mode, pd, gains, ctrlPc, cmd, commanded>>
          /\ mainPc' = mainPc \/ mainPc' = "sending"
          BY <2>1 DEF HandlerAssigns, GetState, GetStateFirst, GetStateSecond,
             HandlerUnchanged, StartSendCmd, LowCmdwriteHandler, machine
    <3> QED BY <3>1 DEF GainsInv, Machine, NextCommand
  <2>2. CASE StartControl
    <3>1. mode = "STAND" /\ ctrlPc = "idle" /\ UNCHANGED <<mode, pd, ctrlPc, cmd, commanded>>
          BY <2>2 DEF StartControl, GainsInv
    <3>2. Sound(Machine, cmd.kp, ~commanded)'
          BY <3>1, <2>b DEF GainsInv, Sound
    <3> QED BY <3>1, <3>2 DEF GainsInv
  <2>3. CASE InteprateGamePad
    <3> DEFINE m == UpdateStateMachine(Machine, state.buttons, state.buttons \ pressed)
    <3>1. Sound(m, cmd.kp, ~commanded)
          BY <2>3, <2>a, UpdateSound DEF GainsInv, InteprateGamePad
    <3>2. /\ mode' = m.mode /\ pd' = m.pd /\ gains' = m.gains /\ UNCHANGED <<cmd, commanded>>
          /\ mainPc' = mainPc /\ mainPc # "polls" /\ ctrlPc' \in {"reset", "mode"}
          BY <2>3 DEF InteprateGamePad, Becomes, ControlUnchanged
    <3>3. Sound(Machine, cmd.kp, ~commanded)'
          BY <3>1, <3>2, <2>b DEF Sound
    <3> QED BY <3>2, <3>3 DEF GainsInv
  <2>4. CASE Reset
        BY <2>4, <2>b DEF GainsInv, Reset, ControlUnchanged, machine, Sound
  <2>5. CASE Standing
    <3>1. /\ mode = "STAND" /\ mode' = mode /\ ctrlPc' = "command" /\ mainPc' = mainPc
          /\ ctrlPc = "mode" /\ gains' = Scaled(pd') /\ UNCHANGED <<cmd, commanded>>
          BY <2>5 DEF Standing, ControlUnchanged
    <3>2. gains'.kp = pd'
          BY <3>1 DEF Scaled
    <3>3. pd' \in Int /\ pd' <= pd + 1
          BY <2>5, <2>a DEF Standing, Up, Down
    <3>4. pd <= cmd.kp \/ cmd.kp > PdCtrl \/ (~commanded /\ pd <= PdInit)
          BY <3>1, <2>b DEF GainsInv, Sound
    <3>5. NextCommand'
          BY <3>1, <3>2, <3>3, <3>4, <2>a DEF NextCommand
    <3> QED BY <3>1, <3>2, <3>5 DEF GainsInv
  <2>6. CASE Damping
    <3>1. gains'.kp = 0
          BY <2>6 DEF Damping, DampingGains
    <3>2. NextCommand'
          BY <2>6, <3>1, <2>a DEF Damping, NextCommand
    <3> QED BY <2>6, <2>b, <3>2 DEF GainsInv, Damping, ControlUnchanged, Sound
  <2>7. CASE UserControlStep
        BY <2>7, <2>b DEF GainsInv, UserControlStep, ControlUnchanged, machine, Sound
  <2>8. CASE CheckTermination
    <3> DEFINE m == IF iface.gravity[3] > 0 THEN Stop(Machine) ELSE Machine
    <3>1. mode = "CTRL" /\ Sound(Machine, cmd.kp, ~commanded)
          BY <2>8 DEF CheckTermination, GainsInv
    <3>2. Sound(m, cmd.kp, ~commanded)
          BY <3>1, <2>a, TransitionsSound
    <3>3. /\ mode' = m.mode /\ pd' = m.pd /\ gains' = m.gains /\ UNCHANGED <<cmd, commanded>>
          /\ mainPc' = mainPc /\ ctrlPc = "check" /\ ctrlPc' = "command"
          BY <2>8 DEF CheckTermination, Becomes, ControlUnchanged
    <3>4. cmd.kp > PdCtrl
          BY <3>1, <2>b DEF Sound
    <3>5. mode' # "STAND"
          BY <3>1, <3>3, <2>b DEF Stop, Machine
    <3> QED BY <3>2, <3>3, <3>4, <3>5 DEF GainsInv, Sound, NextCommand
  <2>9. CASE SetCommand
    <3>1. /\ ctrlPc = "command" /\ ctrlPc' = "idle" /\ cmd' = gains /\ UNCHANGED <<mode, pd, gains>>
          /\ mainPc' = mainPc
          BY <2>9 DEF SetCommand, ControlUnchanged, machine
    <3>2. gains.kp \in Nat
          BY <2>a DEF Gains
    <3>3. Sound(Machine, cmd.kp, ~commanded)'
          BY <3>1, <3>2, <2>a, <2>b DEF GainsInv, Sound, Modes
    <3> QED BY <3>1, <3>3 DEF GainsInv
  <2>10. CASE UNCHANGED vars
         BY <2>10, <2>b DEF GainsInv, vars, ifaceVars, machine, Sound, NextCommand
  <2> QED BY <2>1, <2>2, <2>3, <2>4, <2>5, <2>6, <2>7, <2>8, <2>9, <2>10
          DEF Next, Main, LockingStep, ControlStep
<1> QED BY <1>1, <1>2, TypeCorrect, PTL DEF Spec

\* The user's controller runs past the threshold only, and a stop forgets the
\* ratio: whatever the buttons, the ramp and the interleaving.
THEOREM RatioCorrect == Spec => []RatioFitsState
<1>1. TypeOK /\ GainsInv => RatioFitsState
  <2>1. Machine.mode = mode /\ Machine.pd = pd
        BY DEF Machine
  <2> QED BY <2>1 DEF GainsInv, RatioFitsState, Sound
<1> QED BY <1>1, GainsInvariant, PTL

\* The stiffness commanded climbs the ramp, whatever the buttons and messages.
THEOREM GainsRiseCorrect == Spec => GainsRise
<1> DEFINE Rises == commanded' => \/ cmd'.kp <= cmd.kp + 1
                                  \/ cmd.kp > PdCtrl
                                  \/ ~commanded /\ cmd'.kp <= PdInit + 1
<1>1. TypeOK /\ GainsInv /\ [Next]_vars => [Rises]_vars
  <2> SUFFICES ASSUME TypeOK, GainsInv, Next PROVE Rises
      OBVIOUS
  <2>1. cmd.kp \in Nat
        BY DEF TypeOK, Gains
  <2>2. CASE SetCommand
        BY <2>2 DEF SetCommand, GainsInv, NextCommand
  <2>3. CASE ~SetCommand
    <3>1. cmd' = cmd
          BY <2>3 DEF Next, Main, GetState, LockingStep, ControlStep, HandlerAssigns, GetStateFirst,
             GetStateSecond, HandlerUnchanged, StartControl, StartSendCmd, LowCmdwriteHandler,
             InteprateGamePad, Reset, Standing, UserControlStep, Damping, CheckTermination
    <3> QED BY <3>1, <2>1
  <2> QED BY <2>2, <2>3
<1> QED BY <1>1, GainsInvariant, PTL DEF Spec, GainsRise

-----------------------------------------------------------------------------
(* The mutex around GetState and GetInput.                                 *)

\* Outside GetState robot_interface is whole, and in its midst the state it is
\* being copied from has not moved on.
InputInv ==
    /\ handlerPc # "half" => iface.lo = iface.hi
    /\ handlerPc = "half" => iface.lo = state.pose
    /\ ctrlPc = "check" => mode = "CTRL"
    /\ InputIsWhole

\* What the controller computes from is of one message: Reset's unlocked reads
\* are overwritten under the mutex before they are used.
THEOREM InputCorrect == Spec => []InputIsWhole
<1>1. Init => InputInv
      BY DEF Init, InputInv, InputIsWhole
<1>2. TypeOK /\ InputInv /\ [Next]_vars => InputInv'
  <2> SUFFICES ASSUME TypeOK, InputInv, [Next]_vars PROVE InputInv'
      OBVIOUS
  <2>1. CASE HandlerAssigns
        BY <2>1 DEF InputInv, InputIsWhole, HandlerAssigns, HandlerUnchanged, machine
  <2>2. CASE GetStateFirst
    <3>1. iface'.lo = state.pose
          BY <2>2 DEF TypeOK, GetStateFirst
    <3> QED BY <2>2, <3>1 DEF InputInv, InputIsWhole, GetStateFirst, HandlerUnchanged, machine
  <2>3. CASE GetStateSecond
    <3>1. iface'.hi = state.pose /\ iface'.lo = iface.lo
          BY <2>3 DEF TypeOK, GetStateSecond
    <3> QED BY <2>3, <3>1 DEF InputInv, InputIsWhole, GetStateSecond, HandlerUnchanged, machine
  <2>4. CASE Main \/ LowCmdwriteHandler
        BY <2>4 DEF InputInv, InputIsWhole, Main, StartControl, StartSendCmd, LowCmdwriteHandler,
           ifaceVars, machine
  <2>5. CASE InteprateGamePad
    <3>1. ctrlPc' \in {"reset", "mode"}
          BY <2>5 DEF InteprateGamePad
    <3> QED BY <2>5, <3>1 DEF InputInv, InputIsWhole, InteprateGamePad, ControlUnchanged, ifaceVars
  <2>6. CASE Reset
        BY <2>6 DEF InputInv, InputIsWhole, Reset, ControlUnchanged, ifaceVars
  <2>7. CASE Standing \/ UserControlStep
    <3>1. handlerPc # "half" /\ input' = [lo |-> iface.lo, hi |-> iface.hi]
          BY <2>7 DEF Standing, UserControlStep, GetInput
    <3>2. input'.lo = input'.hi
          BY <3>1 DEF InputInv
    <3> QED BY <2>7, <3>2 DEF InputInv, InputIsWhole, Standing, UserControlStep, ControlUnchanged,
            ifaceVars, machine
  <2>8. CASE Damping
        BY <2>8 DEF InputInv, InputIsWhole, Damping, ControlUnchanged, ifaceVars
  <2>9. CASE CheckTermination
    <3>1. mode = "CTRL" /\ input.lo = input.hi
          BY <2>9 DEF InputInv, InputIsWhole, CheckTermination
    <3> QED BY <2>9, <3>1 DEF InputInv, InputIsWhole, CheckTermination, ControlUnchanged, ifaceVars
  <2>10. CASE SetCommand
         BY <2>10 DEF InputInv, InputIsWhole, SetCommand, ControlUnchanged, ifaceVars
  <2>11. CASE UNCHANGED vars
         BY <2>11 DEF InputInv, InputIsWhole, vars, ifaceVars, machine
  <2> QED BY <2>1, <2>2, <2>3, <2>4, <2>5, <2>6, <2>7, <2>8, <2>9, <2>10, <2>11
          DEF Next, GetState, LockingStep, ControlStep
<1>3. InputInv => InputIsWhole
      BY DEF InputInv
<1> QED BY <1>1, <1>2, <1>3, TypeCorrect, PTL DEF Spec

-----------------------------------------------------------------------------
(* Gravity.                                                                *)

\* The code's polynomials, multiplied out.
LEMMA Polynomials ==
    ASSUME NEW a \in Int, NEW b \in Int, NEW c \in Int, NEW d \in Int
    PROVE  UpdateProjectedGravity(<<a, b, c, d>>) =
              <<2*(a*c) - 2*(b*d), 0 - 2*(c*d) - 2*(a*b), b*b + c*c - a*a - d*d>>
<1>1. /\ -2 * ((-b)*(-d) + a*(-c)) = 2*(a*c) - 2*(b*d)
      /\ -2 * ((-c)*(-d) - a*(-b)) = 0 - 2*(c*d) - 2*(a*b)
      /\ -(a*a - (-b)*(-b) - (-c)*(-c) + (-d)*(-d)) = b*b + c*c - a*a - d*d
      OBVIOUS
<1> QED BY <1>1 DEF UpdateProjectedGravity

\* They are those of the quaternion product.
LEMMA ForwardBackward ==
    ASSUME NEW q \in Int \X Int \X Int \X Int
    PROVE  LET t == Turned(q) IN UpdateProjectedGravity(q) = <<t[2], t[3], t[4]>>
<1>1. PICK a \in Int, b \in Int, c \in Int, d \in Int : q = <<a, b, c, d>>
      OBVIOUS
<1> DEFINE conj == <<a, -b, -c, -d>>
           v == <<0, 0, 0, -1>>
           half == <<-d, c, -b, -a>>
<1>2. Product(conj, v) = half
  <2>1. /\ a*0 - (-b)*0 - (-c)*0 - (-d)*(-1) = -d
        /\ a*0 + (-b)*0 + (-c)*(-1) - (-d)*0 = c
        /\ a*0 - (-b)*(-1) + (-c)*0 + (-d)*0 = -b
        /\ a*(-1) + (-b)*0 - (-c)*0 + (-d)*0 = -a
        OBVIOUS
  <2> QED BY <2>1 DEF Product
<1> DEFINE t == Product(half, q)
<1>3. /\ t[2] = 2*(a*c) - 2*(b*d)
      /\ t[3] = 0 - 2*(c*d) - 2*(a*b)
      /\ t[4] = b*b + c*c - a*a - d*d
  <2>1. /\ (-d)*b + c*a + (-b)*d - (-a)*c = 2*(a*c) - 2*(b*d)
        /\ (-d)*c - c*d + (-b)*a + (-a)*b = 0 - 2*(c*d) - 2*(a*b)
        /\ (-d)*d + c*c - (-b)*b + (-a)*a = b*b + c*c - a*a - d*d
        OBVIOUS
  <2> QED BY <2>1, <1>1 DEF Product
<1>4. Turned(q) = t
      BY <1>1, <1>2 DEF Turned
<1>5. UpdateProjectedGravity(q) = <<t[2], t[3], t[4]>>
  <2> HIDE DEF t
  <2> QED BY <1>1, <1>3, Polynomials
<1> HIDE DEF t
<1> QED BY <1>4, <1>5

\* The termination check reads the gravity in the robot's frame, for every
\* quaternion.
THEOREM GravityCorrect == Spec => []GravityIsTurned
<1>1. Init => GravityIsTurned
  <2> SUFFICES ASSUME Init PROVE GravityIsTurned
      OBVIOUS
  <2>1. iface.quat = Upright /\ iface.gravity = <<0, 0, -1>>
        BY DEF Init
  <2>2. UpdateProjectedGravity(Upright) = <<0, 0, -1>>
    <3>1. /\ 2*(1*0) - 2*(0*0) = 0 /\ 0 - 2*(0*0) - 2*(1*0) = 0
          /\ 0*0 + 0*0 - 1*1 - 0*0 = -1
          OBVIOUS
    <3> QED BY <3>1, Polynomials DEF Upright
  <2>3. Upright \in Int \X Int \X Int \X Int
        BY DEF Upright
  <2> QED BY <2>1, <2>2, <2>3, ForwardBackward DEF GravityIsTurned
<1>2. TypeOK /\ GravityIsTurned /\ [Next]_vars => GravityIsTurned'
  <2> SUFFICES ASSUME TypeOK, GravityIsTurned, [Next]_vars PROVE GravityIsTurned'
      OBVIOUS
  <2>1. CASE GetStateFirst
    <3>1. iface'.quat = state.quat /\ iface'.gravity = UpdateProjectedGravity(state.quat)
          BY <2>1 DEF TypeOK, GetStateFirst
    <3>2. state.quat \in Int \X Int \X Int \X Int
          BY ControllerAssumption DEF TypeOK, Upright
    <3> QED BY <3>1, <3>2, ForwardBackward DEF GravityIsTurned
  <2>2. CASE GetStateSecond
    <3>1. iface'.quat = iface.quat /\ iface'.gravity = iface.gravity
          BY <2>2 DEF TypeOK, GetStateSecond
    <3> QED BY <3>1 DEF GravityIsTurned
  <2>3. CASE ~GetState
    <3>1. iface' = iface
          BY <2>3 DEF Next, vars, Main, LockingStep, ControlStep, HandlerAssigns, StartControl,
             StartSendCmd, LowCmdwriteHandler, InteprateGamePad, Reset, Standing, UserControlStep,
             Damping, CheckTermination, SetCommand, ControlUnchanged, ifaceVars
    <3> QED BY <3>1 DEF GravityIsTurned
  <2> QED BY <2>1, <2>2, <2>3 DEF GetState
<1> QED BY <1>1, <1>2, TypeCorrect, PTL DEF Spec

-----------------------------------------------------------------------------
(* L2 + B.                                                                 *)

\* Stop comes last in UpdateStateMachine.
LEMMA UpdateStops ==
    ASSUME NEW m \in Machines, NEW held, NEW new, {"L2", "B"} \subseteq held
    PROVE  UpdateStateMachine(m, held, new).mode = "DAMPING"
<1> DEFINE stood == IF "R2" \in new THEN Stand(m) ELSE m
           ctrl  == IF "A" \in new THEN Ctrl(stood) ELSE stood
<1>1. ctrl \in Machines
      BY TransitionsTyped
<1>2. Stop(ctrl).mode = "DAMPING"
  <2> HIDE DEF ctrl
  <2> QED BY <1>1 DEF Stop, Machines
<1> QED BY <1>2 DEF UpdateStateMachine

StopHeld == {"L2", "B"} \subseteq pressed

\* The reading of the gamepad in which they are held leads to damping gains.
StopInv ==
    /\ mainPc = "polls" => ctrlPc = "idle"
    /\ ctrlPc = "check" => mode = "CTRL"
    /\ ctrlPc # "idle" /\ StopHeld => mode = "DAMPING"
    /\ ctrlPc = "command" /\ StopHeld => gains = DampingGains

\* Every command computed while L2 + B is held damps, whatever else is pressed and
\* whatever state the robot is in.
THEOREM StopCorrect == Spec => StopHasTheLastWord
<1> DEFINE Wins == ctrlPc = "command" /\ ctrlPc' = "idle" /\ StopHeld => cmd' = DampingGains
<1>1. Init => StopInv
      BY DEF Init, StopInv
<1>2. TypeOK /\ StopInv /\ [Next]_vars => StopInv'
  <2> SUFFICES ASSUME TypeOK, StopInv, [Next]_vars PROVE StopInv'
      OBVIOUS
  <2>1. CASE HandlerAssigns \/ GetState
        BY <2>1 DEF StopInv, StopHeld, HandlerAssigns, GetState, GetStateFirst, GetStateSecond,
           HandlerUnchanged, machine
  <2>2. CASE Main \/ LowCmdwriteHandler
        BY <2>2 DEF StopInv, StopHeld, Main, StartControl, StartSendCmd, LowCmdwriteHandler,
           ifaceVars, machine
  <2>3. CASE InteprateGamePad
    <3>1. Machine \in Machines
          BY DEF TypeOK, Machine, Machines, Modes
    <3>2. StopHeld' => mode' = "DAMPING"
          BY <2>3, <3>1, UpdateStops DEF InteprateGamePad, Becomes, StopHeld
    <3> QED BY <2>3, <3>2 DEF StopInv, InteprateGamePad, ControlUnchanged
  <2>4. CASE Reset
        BY <2>4 DEF StopInv, StopHeld, Reset, ControlUnchanged, machine
  <2>5. CASE Standing
        BY <2>5 DEF StopInv, StopHeld, Standing, ControlUnchanged
  <2>6. CASE Damping
        BY <2>6 DEF StopInv, StopHeld, Damping, ControlUnchanged
  <2>7. CASE UserControlStep
        BY <2>7 DEF StopInv, StopHeld, UserControlStep, ControlUnchanged, machine
  <2>8. CASE CheckTermination
        BY <2>8 DEF StopInv, StopHeld, CheckTermination, ControlUnchanged
  <2>9. CASE SetCommand
        BY <2>9 DEF StopInv, StopHeld, SetCommand, ControlUnchanged, machine
  <2>10. CASE UNCHANGED vars
         BY <2>10 DEF StopInv, StopHeld, vars, ifaceVars, machine
  <2> QED BY <2>1, <2>2, <2>3, <2>4, <2>5, <2>6, <2>7, <2>8, <2>9, <2>10
          DEF Next, LockingStep, ControlStep
<1>3. StopInv /\ [Next]_vars => [Wins]_vars
  <2> SUFFICES ASSUME StopInv, Next PROVE Wins
      OBVIOUS
  <2>1. CASE SetCommand
        BY <2>1 DEF SetCommand, StopInv
  <2>2. CASE ~SetCommand
    <3>1. ctrlPc = "command" => ctrlPc' = "command"
          BY <2>2 DEF Next, Main, GetState, LockingStep, ControlStep, HandlerAssigns,
             GetStateFirst, GetStateSecond, HandlerUnchanged, StartControl, StartSendCmd,
             LowCmdwriteHandler, InteprateGamePad, Reset, Standing, UserControlStep, Damping,
             CheckTermination, StopInv
    <3> QED BY <3>1
  <2> QED BY <2>1, <2>2
<1> QED BY <1>1, <1>2, <1>3, TypeCorrect, PTL DEF Spec, StopHasTheLastWord, StopHeld
=============================================================================
