--------------------------- MODULE RobotController ---------------------------
(***************************************************************************)
(* example/state_machine: RobotController with SimpleStateMachine, Gamepad *)
(* and RobotInterface.  Threads: the subscriber's handler, main until it    *)
(* has started the others, the control thread, and the writer of commands. *)
(*                                                                          *)
(* pd_ratio is counted in steps of delta_pd.  Both pairs of gains are 40    *)
(* and 1 (the defaults of Standing and params.json), so that a gain is the  *)
(* ratio it is multiplied with, and the 2.0 of Damping is twice the full.   *)
(* The joint positions are two halves, lo and hi: they do not fit a word.   *)
(***************************************************************************)
EXTENDS Integers

CONSTANTS PdFull,  \* pd_ratio = 1 in steps of delta_pd
          PdInit,  \* pd_ratio_init
          PdCtrl,  \* the ratio Ctrl() must exceed
          Pads,    \* sets of buttons of the messages
          Quats,   \* IMU quaternions of the messages
          Poses,   \* joint positions of the messages
          NoPose   \* joint positions nobody has set yet

ASSUME ControllerAssumption ==
    /\ PdFull \in Nat /\ PdCtrl \in 0..PdFull /\ PdInit \in 0..PdCtrl
    /\ Quats \subseteq Int \X Int \X Int \X Int

Messages == [buttons : Pads, quat : Quats, pose : Poses]
Halves == Poses \cup {NoPose}
Gains == [kp : 0..PdFull, kd : 0..2*PdFull]
DampingGains == [kp |-> 0, kd |-> 2*PdFull]
Scaled(ratio) == [kp |-> ratio, kd |-> ratio]

VARIABLES
    state,      \* the last message, assigned outside state_mutex
    handlerPc,  \* "idle", "assigned", "half": holds state_mutex in GetState
    iface,      \* robot_interface: quat, projected_gravity, jpos
    pressed,    \* gamepad: the buttons held when it was last updated
    mode, pd,   \* state_machine: state and pd_ratio
    gains,      \* robot_interface: kp and kd
    input,      \* ctrl: jpos_processed
    mainPc,     \* "polls", "started" (the control thread), "sending" (the writer too)
    ctrlPc,     \* "idle", "reset", "reset2", "mode", "check", "command"
    cmd,        \* the command, under cmd_mutex
    commanded,  \* history: SetCommand has been called
    sent        \* history: the command written last

ifaceVars == <<state, handlerPc, iface>>
machine == <<mode, pd, gains>>
vars == <<ifaceVars, pressed, machine, input, mainPc, ctrlPc, cmd, commanded, sent>>

UpdateProjectedGravity_Forward(q) ==   \* mutation: the quaternion is not inverted
    LET w == q[1]  x == q[2]  y == q[3]  z == q[4]
    IN  <<-2 * (x*z + w*y), -2 * (y*z - w*x), -(w*w - x*x - y*y + z*z)>>

UpdateProjectedGravity(q) ==
    LET w == q[1]  x == -q[2]  y == -q[3]  z == -q[4]
    IN  <<-2 * (x*z + w*y), -2 * (y*z - w*x), -(w*w - x*x - y*y + z*z)>>

Upright == <<1, 0, 0, 0>>

TypeOK ==
    /\ state \in [buttons : Pads \cup {{}}, quat : Quats \cup {Upright}, pose : Halves]
    /\ handlerPc \in {"idle", "assigned", "half"}
    /\ iface \in [quat : Quats \cup {Upright}, gravity : Int \X Int \X Int, lo : Halves, hi : Halves]
    /\ pressed \in Pads \cup {{}} /\ mode \in {"DAMPING", "STAND", "CTRL"} /\ pd \in 0..PdFull
    /\ gains \in Gains /\ input \in [lo : Halves, hi : Halves]
    /\ mainPc \in {"polls", "started", "sending"}
    /\ ctrlPc \in {"idle", "reset", "reset2", "mode", "check", "command"}
    /\ cmd \in Gains /\ sent \in Gains /\ commanded \in BOOLEAN

\* After InitDdsModel.  The state machine starts in STAND.  jpos and the
\* controller's input are not initialised.
Init ==
    /\ state = [buttons |-> {}, quat |-> Upright, pose |-> NoPose] /\ handlerPc = "idle"
    /\ iface = [quat |-> Upright, gravity |-> <<0, 0, -1>>, lo |-> NoPose, hi |-> NoPose]
    /\ pressed = {} /\ mode = "STAND" /\ pd = PdInit /\ gains = Scaled(0)
    /\ input = [lo |-> NoPose, hi |-> NoPose]
    /\ mainPc = "polls" /\ ctrlPc = "idle"
    /\ cmd = Scaled(0) /\ sent = Scaled(0) /\ commanded = FALSE

-----------------------------------------------------------------------------
(* LowStateMessageHandler.                                                 *)

HandlerUnchanged == UNCHANGED <<pressed, machine, input, mainPc, ctrlPc, cmd, commanded, sent>>

\* state = message: the button bytes lie in one word of it.
HandlerAssigns ==
    /\ handlerPc = "idle" /\ handlerPc' = "assigned"
    /\ state' \in Messages
    /\ HandlerUnchanged /\ UNCHANGED iface

GetStateFirst ==
    /\ handlerPc = "assigned" /\ handlerPc' = "half"
    /\ iface' = [iface EXCEPT !.quat = state.quat, !.lo = state.pose,
                              !.gravity = UpdateProjectedGravity(state.quat)]
    /\ HandlerUnchanged /\ UNCHANGED state

GetStateSecond ==
    /\ handlerPc = "half" /\ handlerPc' = "idle"
    /\ iface' = [iface EXCEPT !.hi = state.pose]
    /\ HandlerUnchanged /\ UNCHANGED state

-----------------------------------------------------------------------------
(* StartControl.                                                           *)

\* One poll; R2 going down ends the loop, Damping() and the control thread follow.
StartControl ==
    /\ mainPc = "polls"
    /\ pressed' = state.buttons
    /\ IF "R2" \in state.buttons \ pressed
       THEN mainPc' = "started" /\ gains' = DampingGains
       ELSE UNCHANGED <<mainPc, gains>>
    /\ UNCHANGED <<ifaceVars, mode, pd, input, ctrlPc, cmd, commanded, sent>>

StartSendCmd ==
    /\ mainPc = "started" /\ mainPc' = "sending"
    /\ UNCHANGED <<ifaceVars, pressed, machine, input, ctrlPc, cmd, commanded, sent>>

LowCmdwriteHandler ==
    /\ mainPc = "sending" /\ sent' = cmd
    /\ UNCHANGED <<ifaceVars, pressed, machine, input, mainPc, ctrlPc, cmd, commanded>>

-----------------------------------------------------------------------------
(* ControlStep.                                                            *)

ControlUnchanged == UNCHANGED <<ifaceVars, mainPc, sent>>

\* Stand, Ctrl and Stop act on [mode, pd, gains, reset]: the machine, the gains
\* of the callbacks, and whether CtrlCallback has called ctrl.Reset.
Stand(m) ==
    IF m.mode \in {"DAMPING", "CTRL"}
    THEN [m EXCEPT !.mode = "STAND", !.gains = Scaled(m.pd)] ELSE m

Ctrl_AnyRatio(m) ==   \* mutation: the ratio is not tested
    IF m.mode = "STAND"
    THEN [m EXCEPT !.mode = "CTRL", !.gains = Scaled(PdFull), !.reset = TRUE] ELSE m

Ctrl(m) ==
    IF m.mode = "STAND" /\ m.pd > PdCtrl
    THEN [m EXCEPT !.mode = "CTRL", !.gains = Scaled(PdFull), !.reset = TRUE] ELSE m

Stop(m) == [m EXCEPT !.mode = "DAMPING", !.pd = 0]

Machine == [mode |-> mode, pd |-> pd, gains |-> gains, reset |-> FALSE]

UpdateStateMachine_OnPress(m, held, new) ==   \* mutation: L2 and B must go down together
    LET stood == IF "R2" \in new THEN Stand(m) ELSE m
        ctrl  == IF "A" \in new THEN Ctrl(stood) ELSE stood
    IN  IF {"L2", "B"} \subseteq new THEN Stop(ctrl) ELSE ctrl

UpdateStateMachine_StopFirst(m, held, new) ==   \* mutation: Stop does not come last
    LET stopped == IF {"L2", "B"} \subseteq held THEN Stop(m) ELSE m
        stood == IF "R2" \in new THEN Stand(stopped) ELSE stopped
    IN  IF "A" \in new THEN Ctrl(stood) ELSE stood

UpdateStateMachine(m, held, new) ==
    LET stood == IF "R2" \in new THEN Stand(m) ELSE m
        ctrl  == IF "A" \in new THEN Ctrl(stood) ELSE stood
    IN  IF {"L2", "B"} \subseteq held THEN Stop(ctrl) ELSE ctrl

Becomes(m) == mode' = m.mode /\ pd' = m.pd /\ gains' = m.gains

InteprateGamePad ==
    /\ ctrlPc = "idle" /\ mainPc # "polls"
    /\ pressed' = state.buttons
    /\ LET m == UpdateStateMachine(Machine, state.buttons, state.buttons \ pressed)
       IN  Becomes(m) /\ ctrlPc' = IF m.reset THEN "reset" ELSE "mode"
    /\ ControlUnchanged /\ UNCHANGED <<input, cmd, commanded>>

\* ctrl.Reset reads robot_interface without state_mutex.
Reset ==
    /\ \/ ctrlPc = "reset" /\ ctrlPc' = "reset2" /\ input' = [input EXCEPT !.lo = iface.lo]
       \/ ctrlPc = "reset2" /\ ctrlPc' = "mode" /\ input' = [input EXCEPT !.hi = iface.hi]
    /\ ControlUnchanged /\ UNCHANGED <<pressed, machine, cmd, commanded>>

Up(ratio) == IF ratio < PdFull THEN ratio + 1 ELSE ratio
Down(ratio) == IF ratio > 0 THEN ratio - 1 ELSE ratio

GetInput_Unlocked ==   \* mutation: without state_mutex
    input' = [lo |-> iface.lo, hi |-> iface.hi]

\* Under state_mutex.
GetInput == handlerPc # "half" /\ input' = [lo |-> iface.lo, hi |-> iface.hi]

Standing ==
    /\ ctrlPc = "mode" /\ mode = "STAND" /\ ctrlPc' = "command"
    /\ GetInput
    /\ LET up == IF "R2" \in pressed THEN Up(pd) ELSE pd
           down == IF "R1" \in pressed THEN Down(up) ELSE up
       IN  pd' = down /\ gains' = Scaled(down)
    /\ ControlUnchanged /\ UNCHANGED <<pressed, mode, cmd, commanded>>

Damping ==
    /\ ctrlPc = "mode" /\ mode = "DAMPING" /\ ctrlPc' = "command"
    /\ gains' = DampingGains
    /\ ControlUnchanged /\ UNCHANGED <<pressed, mode, pd, input, cmd, commanded>>

UserControlStep ==
    /\ ctrlPc = "mode" /\ mode = "CTRL" /\ ctrlPc' = "check"
    /\ GetInput
    /\ ControlUnchanged /\ UNCHANGED <<pressed, machine, cmd, commanded>>

CheckTermination_Inverted ==   \* mutation: the sign of the gravity is the other one
    /\ ctrlPc = "check" /\ ctrlPc' = "command"
    /\ Becomes(IF iface.gravity[3] < 0 THEN Stop(Machine) ELSE Machine)
    /\ ControlUnchanged /\ UNCHANGED <<pressed, input, cmd, commanded>>

\* The gravity is read without state_mutex.  The gains stay those of CTRL.
CheckTermination ==
    /\ ctrlPc = "check" /\ ctrlPc' = "command"
    /\ Becomes(IF iface.gravity[3] > 0 THEN Stop(Machine) ELSE Machine)
    /\ ControlUnchanged /\ UNCHANGED <<pressed, input, cmd, commanded>>

SetCommand ==
    /\ ctrlPc = "command" /\ ctrlPc' = "idle"
    /\ cmd' = gains /\ commanded' = TRUE
    /\ ControlUnchanged /\ UNCHANGED <<pressed, machine, input>>

Main == StartControl \/ StartSendCmd
GetState == GetStateFirst \/ GetStateSecond
LockingStep == Standing \/ UserControlStep
ControlStep == \/ InteprateGamePad \/ Reset \/ LockingStep \/ Damping
               \/ CheckTermination \/ SetCommand

Next == HandlerAssigns \/ GetState \/ Main \/ LowCmdwriteHandler \/ ControlStep

Spec == Init /\ [][Next]_vars

\* The threads run; messages need not come.  The control thread gets state_mutex
\* although messages keep coming: the handler holds it for a moment only.
FairSpec == /\ Spec /\ WF_vars(GetState) /\ WF_vars(Main) /\ WF_vars(LowCmdwriteHandler)
            /\ WF_vars(ControlStep) /\ SF_vars(LockingStep)
-----------------------------------------------------------------------------
\* The user's controller runs at (almost) full gains only: in CTRL the ratio has
\* been climbed past the threshold, and after any stop the climb begins at 0.
RatioFitsState == /\ mode = "CTRL" => pd > PdCtrl
                  /\ mode = "DAMPING" => pd = 0

\* No command raises the stiffness by more than a step of the ramp over the one
\* before it, unless that is past the threshold of CTRL; the first command
\* starts from the initial ratio.
GainsRise ==
    [][commanded' => \/ cmd'.kp <= cmd.kp + 1
                     \/ cmd.kp > PdCtrl
                     \/ ~commanded /\ cmd'.kp <= PdInit + 1]_vars

\* L2 + B damps the very command computed from that reading of the gamepad, whatever
\* else is pressed and whichever command went before, the same one included.
StopHasTheLastWord ==
    [][ctrlPc = "command" /\ ctrlPc' = "idle" /\ {"L2", "B"} \subseteq pressed =>
          cmd' = DampingGains]_vars

\* What the user's controller computes a command from is one message's joint
\* positions, although Reset reads them without the mutex.
InputIsWhole == ctrlPc \in {"check", "command"} /\ mode # "DAMPING" => input.lo = input.hi

\* The projected gravity is the vector (0, 0, -1) turned by the inverse of the
\* quaternion: conj(q) * v * q.
Product(p, q) == <<p[1]*q[1] - p[2]*q[2] - p[3]*q[3] - p[4]*q[4],
                   p[1]*q[2] + p[2]*q[1] + p[3]*q[4] - p[4]*q[3],
                   p[1]*q[3] - p[2]*q[4] + p[3]*q[1] + p[4]*q[2],
                   p[1]*q[4] + p[2]*q[3] - p[3]*q[2] + p[4]*q[1]>>
Turned(q) == Product(Product(<<q[1], -q[2], -q[3], -q[4]>>, <<0, 0, 0, -1>>), q)
GravityIsTurned == LET t == Turned(iface.quat) IN iface.gravity = <<t[2], t[3], t[4]>>

\* L2 + B held: what is sent in the end is damping.
StopIsSent ==
    (mainPc = "sending" /\ []({"L2", "B"} \subseteq state.buttons)) ~> sent = DampingGains

\* A robot that stays upside down in CTRL: the stiffness is given up and comes
\* back by the ramp only, unless the user goes to STAND, where nobody checks.
FallIsDamped ==
    (mode = "CTRL" /\ [](iface.gravity[3] > 0)) ~> (cmd.kp <= 1 \/ mode = "STAND")
=============================================================================
