------------------------------- MODULE DjiMotion -------------------------------
(***************************************************************************)
(* The DJI captain moving the drone: setpoints of velocity and of position *)
(* drive one joystick timer while the captain has control; the remote      *)
(* control takes it away.                                                  *)
(*                                                                         *)
(* Time is in half seconds.  Ages are those of the stamps of messages, so  *)
(* that of a message from a clock that is ahead is negative.  Joystick     *)
(* messages follow at ten a second: a timer that runs ticks in every half  *)
(* second, and any number of times.  All callbacks share the node's        *)
(* default callback group: each is atomic.                                 *)
(***************************************************************************)
EXTENDS Integers

CONSTANTS
    MaxSetpointAge,     \* MOTION_SETPOINT_MAX_AGE
    FutureTolerance     \* how far ahead the stamp of a setpoint may be

ASSUME DjiMotionAssumption == MaxSetpointAge \in Nat /\ FutureTolerance \in Nat

VARIABLES
    velocity_setpoint,  \* _move_to_velocity_setpoint: [dir, age], or NoSetpoint
    position_setpoint,  \* _move_to_position_setpoint, in the frame of the drone
    joy_timer,          \* whose tick _joy_timer runs: "none", "velocity" or "position"
    got_control,        \* _got_control
    velocity_known,     \* _velocity_ground is not None
    ramp,               \* _prev_vel_out
    ticked,             \* the timer ran in this half second
    authority,          \* the PSDK has control of the drone
    releasing,          \* a call of the release service is on its way
    told,               \* auxiliary: the last control mode heard was that of the PSDK
    quiet,              \* auxiliary: for each kind, time since a setpoint was accepted
    pause               \* auxiliary: time since a joystick message was published

setpointVars == <<velocity_setpoint, position_setpoint, quiet>>
controlVars  == <<got_control, authority, releasing, told>>
joyVars      == <<joy_timer, ramp, ticked, pause>>
motionVars   == <<setpointVars, controlVars, joyVars, velocity_known>>

Kind == {"velocity", "position"}

NoSetpoint == [dir |-> "none", age |-> 0]

\* Directions against each other are dissimilar; a setpoint of "rest" has none.
Dir  == {"fore", "aft", "rest"}
Ages == -FutureTolerance .. MaxSetpointAge + 1

LongQuiet == MaxSetpointAge + FutureTolerance + 2
LongPause == 2

MotionInit ==
    /\ velocity_setpoint = NoSetpoint /\ position_setpoint = NoSetpoint
    /\ quiet = [kind \in Kind |-> LongQuiet]
    /\ got_control = FALSE /\ authority = FALSE /\ releasing = FALSE
    /\ told = FALSE
    /\ joy_timer = "none" /\ ramp = FALSE /\ ticked = FALSE /\ pause = LongPause
    /\ velocity_known = FALSE

----------------------------------------------------------------------------
(* Setpoints *)

\* setpoint_valid, for the time of the message
SetpointValid(age) == -FutureTolerance <= age /\ age <= MaxSetpointAge

\* Within 0.3 seconds of the stamp of the setpoint before, and against it.
TooDifferent(old, dir) == old.age <= 0 /\ {old.dir, dir} = {"fore", "aft"}

StartTimer(kind) ==
    /\ joy_timer' = IF joy_timer = "none" THEN kind ELSE joy_timer
    /\ UNCHANGED <<ramp, ticked, pause>>

\* _move_to_velocity_setpoint_callback
MoveToVelocity(dir, age) ==
    /\ SetpointValid(age) /\ ~TooDifferent(velocity_setpoint, dir)
    /\ velocity_setpoint' = [dir |-> dir, age |-> age]
    /\ quiet' = [quiet EXCEPT !["velocity"] = 0]
    /\ StartTimer("velocity")
    /\ UNCHANGED <<position_setpoint, controlVars, velocity_known>>

\* _move_to_position_setpoint_callback.  The setpoint takes the stamp of the transform,
\* which may be older than the message, and is lost where there is no transform.
MoveToPosition(dir, transform_age) ==
    /\ ~TooDifferent(position_setpoint, dir)
    /\ position_setpoint' = [dir |-> dir, age |-> transform_age]
    /\ quiet' = [quiet EXCEPT !["position"] = 0]
    /\ StartTimer("position")
    /\ UNCHANGED <<velocity_setpoint, controlVars, velocity_known>>

LosePosition ==
    /\ position_setpoint # NoSetpoint
    /\ position_setpoint' = NoSetpoint
    /\ UNCHANGED <<velocity_setpoint, quiet, controlVars, joyVars, velocity_known>>

----------------------------------------------------------------------------
(* The joystick timer *)

\* Mutant: the controller goes on from the speed it had.
CancelJoyTimerKeepsRamp ==
    /\ position_setpoint' = NoSetpoint
    /\ joy_timer' = "none"
    /\ UNCHANGED ramp

\* _cancel_joy_timer.  The velocity setpoint stays.
CancelJoyTimer ==
    /\ position_setpoint' = NoSetpoint
    /\ ramp' = FALSE
    /\ joy_timer' = "none"

\* Mutant: only the callbacks look at the age of a setpoint.
UsableAtAnyAge(setpoint) == setpoint # NoSetpoint /\ got_control /\ velocity_known

\* _setpoint_still_usable
SetpointStillUsable(setpoint) ==
    /\ setpoint # NoSetpoint
    /\ setpoint.age <= MaxSetpointAge
    /\ got_control /\ velocity_known

Setpoint == IF joy_timer = "velocity" THEN velocity_setpoint ELSE position_setpoint

\* A tick that publishes: full speed when there is a speed to go on from, slow otherwise.
PublishJoy ==
    /\ joy_timer # "none"
    /\ SetpointStillUsable(Setpoint)
    /\ Setpoint.dir = "rest" => joy_timer = "velocity" /\ ramp
    /\ ramp' = TRUE /\ pause' = 0 /\ ticked' = TRUE
    /\ UNCHANGED <<setpointVars, controlVars, joy_timer, velocity_known>>

\* A tick that cancels: nothing to follow, a position that is reached or too far, or a
\* command of nothing.
JoyEnds ==
    /\ joy_timer # "none"
    /\ SetpointStillUsable(Setpoint) => joy_timer = "position" \/ Setpoint.dir = "rest" \/ ramp
    /\ CancelJoyTimer
    /\ ticked' = TRUE
    /\ UNCHANGED <<velocity_setpoint, quiet, controlVars, pause, velocity_known>>

----------------------------------------------------------------------------
(* Control *)

\* _dji_rc_cb, when a stick or the mode switch is not at rest
RemoteControl ==
    /\ IF got_control
       THEN got_control' = FALSE /\ releasing' = TRUE
       ELSE UNCHANGED <<got_control, releasing>>
    /\ UNCHANGED <<setpointVars, authority, told, joyVars, velocity_known>>

\* Mutant: control is only ever gained.
ControlModeGains ==
    /\ got_control' = (got_control \/ authority)
    /\ told' = authority
    /\ UNCHANGED <<setpointVars, authority, releasing, joyVars, velocity_known>>

\* _control_mode_callback
ControlMode ==
    /\ got_control' = authority
    /\ told' = authority
    /\ IF got_control /\ ~authority
       THEN CancelJoyTimer
       ELSE UNCHANGED <<position_setpoint, joy_timer, ramp>>
    /\ UNCHANGED <<velocity_setpoint, quiet, authority, releasing, ticked, pause, velocity_known>>

\* _velocity_ground_callback
VelocityGround ==
    /\ velocity_known' = TRUE
    /\ UNCHANGED <<setpointVars, controlVars, joyVars>>

\* The release service answers, with success or without; the operator gives the PSDK
\* control or takes it.
Authority ==
    /\ \/ releasing /\ releasing' = FALSE /\ authority' \in {FALSE, authority}
       \/ authority' = ~authority /\ UNCHANGED releasing
    /\ UNCHANGED <<setpointVars, got_control, told, joyVars, velocity_known>>

----------------------------------------------------------------------------
Later(age, bound) == IF age < bound THEN age + 1 ELSE bound

TimePasses ==
    /\ joy_timer # "none" => ticked
    /\ velocity_setpoint' = IF velocity_setpoint = NoSetpoint THEN NoSetpoint
                            ELSE [velocity_setpoint EXCEPT !.age = Later(@, MaxSetpointAge + 1)]
    /\ position_setpoint' = IF position_setpoint = NoSetpoint THEN NoSetpoint
                            ELSE [position_setpoint EXCEPT !.age = Later(@, MaxSetpointAge + 1)]
    /\ quiet' = [kind \in Kind |-> Later(quiet[kind], LongQuiet)]
    /\ pause' = Later(pause, LongPause)
    /\ ticked' = FALSE
    /\ UNCHANGED <<controlVars, joy_timer, ramp, velocity_known>>

MotionNext ==
    \/ \E dir \in Dir, age \in Ages : MoveToVelocity(dir, age)
    \/ \E dir \in Dir, age \in 0 .. MaxSetpointAge + 1 : MoveToPosition(dir, age)
    \/ LosePosition
    \/ PublishJoy
    \/ JoyEnds
    \/ RemoteControl
    \/ ControlMode
    \/ VelocityGround
    \/ Authority
    \/ TimePasses

MotionSpec == MotionInit /\ [][MotionNext]_motionVars

----------------------------------------------------------------------------
(* Properties *)

\* Every variable holds a value of the kind the code gives it, and there is no timer for
\* a setpoint of velocity that never came.
MotionTypeOK ==
    /\ velocity_setpoint \in {NoSetpoint} \cup [dir : Dir, age : Ages]
    /\ position_setpoint \in {NoSetpoint} \cup [dir : Dir, age : 0 .. MaxSetpointAge + 1]
    /\ quiet \in [Kind -> 0 .. LongQuiet]
    /\ joy_timer \in Kind \cup {"none"}
    /\ joy_timer = "velocity" => velocity_setpoint # NoSetpoint
    /\ pause \in 0 .. LongPause
    /\ {got_control, authority, releasing, told, ramp, ticked, velocity_known} \subseteq BOOLEAN

\* A dead man's switch for each kind of setpoint, whatever happened to the other kind and
\* to control: half a second after the last setpoint of its kind could be too old by the
\* clock that stamped it, a timer has ended.
DeadManSwitch ==
    /\ joy_timer = "velocity" => quiet["velocity"] <= MaxSetpointAge + FutureTolerance + 1
    /\ joy_timer = "position" => quiet["position"] <= MaxSetpointAge + 1

\* The drone is commanded only while the last control mode heard gives the PSDK control,
\* although the remote control and the service change it in between.
OnlyInControl == [][PublishJoy => told]_motionVars

\* After a pause the drone starts slowly, whatever ended the commands before it.
SmoothStart == [][PublishJoy /\ ramp => pause < LongPause]_motionVars
=============================================================================
