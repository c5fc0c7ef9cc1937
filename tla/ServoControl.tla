---------------------------- MODULE ServoControl ----------------------------
(***************************************************************************)
(* The two head servos of IDF_esp32c3_servo_control: the CAN message       *)
(* handler and the task that switches the PWM output off when nothing      *)
(* moves (src/IDF_esp32c3_servo_control/main/servo_control.c).             *)
(*                                                                         *)
(* s_servo_lock makes a handled frame and a pass of the idle task atomic;  *)
(* the idle task looks at output_enabled before it takes the lock.         *)
(* Frames that are no servo command return without a change and are left   *)
(* out.                                                                    *)
(***************************************************************************)
EXTENDS Integers

CONSTANTS
  MaxAngle,     \* SERVO_MAX_ANGLE (SERVO_MIN_ANGLE is 0)
  InitAngle,    \* SERVO_INIT_ANGLE
  DefaultStep,  \* step of a frame without one
  MaxStep,      \* largest step decode_step lets through
  StepArgs,     \* step arguments a frame may carry (uint32, any size)
  NoStep,       \* a frame too short to carry a step
  LrInvert,     \* SERVO_LR_INVERT
  UdInvert,     \* SERVO_UD_INVERT
  IdleTimeout   \* SERVO_IDLE_POWER_SAVE_TIMEOUT_MS, in clock ticks

ASSUME ServoAssumption ==
  /\ MaxAngle \in Nat \ {0} /\ InitAngle \in 0..MaxAngle
  /\ DefaultStep \in Nat /\ MaxStep \in Nat
  /\ StepArgs \subseteq Nat /\ NoStep \notin StepArgs
  /\ LrInvert \in BOOLEAN /\ UdInvert \in BOOLEAN
  /\ IdleTimeout \in Nat

VARIABLES
  lr_angle, ud_angle,
  output_enabled,
  lr_duty, ud_duty,  \* what the two LEDC channels put out, 0 for nothing
  idle,              \* ticks since s_last_activity_us (saturates)
  idle_task          \* asleep, or waiting for the lock

angles == <<lr_angle, ud_angle>>
duties == <<lr_duty, ud_duty>>
servo   == <<angles, output_enabled, duties, idle, idle_task>>

-----------------------------------------------------------------------------
(* Angles and pulses *)

InRange(angle) ==
  IF angle < 0 THEN 0 ELSE IF angle > MaxAngle THEN MaxAngle ELSE angle

max_duty == 2^14 - 1

\* Duty of a 14 bit, 50 Hz PWM whose pulses last 500 to 2500 us; the product
\* is one of uint32_t.
angle_to_duty(angle) ==
  LET pulse_us == 500 + (InRange(angle) * 2000) \div MaxAngle
      duty     == (pulse_us * 50 * 16384) \div 1000000
  IN  IF duty > max_duty THEN max_duty ELSE duty

decode_step(v) ==
  IF v = NoStep \/ v = 0 THEN DefaultStep
  ELSE IF v > MaxStep THEN MaxStep ELSE v

signed_step(step, invert) == IF invert THEN -step ELSE step

ServoInit ==
  /\ lr_angle = InitAngle /\ ud_angle = InitAngle
  /\ output_enabled = TRUE
  /\ lr_duty = angle_to_duty(InitAngle) /\ ud_duty = angle_to_duty(InitAngle)
  /\ idle = 0
  /\ idle_task = "asleep"

-----------------------------------------------------------------------------
(* servo_control_canbus_message_handler *)

\* Fault: a sleeping servo is switched on where it was, the step comes late.
MoveLate(lr, ud) ==
  /\ output_enabled' = TRUE
  /\ lr_angle' = InRange(lr_angle + lr)
  /\ ud_angle' = InRange(ud_angle + ud)
  /\ IF output_enabled
       THEN lr_duty' = angle_to_duty(lr_angle') /\ ud_duty' = angle_to_duty(ud_angle')
       ELSE lr_duty' = angle_to_duty(lr_angle) /\ ud_duty' = angle_to_duty(ud_angle)
  /\ idle' = 0
  /\ UNCHANGED idle_task

\* What every moving command does once its step is known.  Switching the
\* output on drives the old angles first, within the same critical section.
Move(lr, ud) ==
  /\ output_enabled' = TRUE
  /\ lr_angle' = InRange(lr_angle + lr)
  /\ ud_angle' = InRange(ud_angle + ud)
  /\ lr_duty' = angle_to_duty(lr_angle')
  /\ ud_duty' = angle_to_duty(ud_angle')
  /\ idle' = 0
  /\ UNCHANGED idle_task

ServoUp(v)    == Move(0, signed_step(decode_step(v), UdInvert))
ServoDown(v)  == Move(0, -signed_step(decode_step(v), UdInvert))
ServoLeft(v)  == Move(-signed_step(decode_step(v), LrInvert), 0)
ServoRight(v) == Move(signed_step(decode_step(v), LrInvert), 0)

\* Fault: SERVO_STOP counts as activity.
ServoStopActive ==
  /\ lr_duty' = angle_to_duty(lr_angle) /\ ud_duty' = angle_to_duty(ud_angle)
  /\ idle' = 0
  /\ UNCHANGED <<angles, output_enabled, idle_task>>

\* SERVO_STOP drives both channels whether or not the output is enabled.
ServoStop ==
  /\ lr_duty' = angle_to_duty(lr_angle) /\ ud_duty' = angle_to_duty(ud_angle)
  /\ UNCHANGED <<angles, output_enabled, idle, idle_task>>

MovingCommand ==
  \E v \in StepArgs \cup {NoStep} :
    ServoUp(v) \/ ServoDown(v) \/ ServoLeft(v) \/ ServoRight(v)

Command == MovingCommand \/ ServoStop

-----------------------------------------------------------------------------
(* servo_idle_power_save_task *)

IdleLook ==
  /\ idle_task = "asleep"
  /\ output_enabled
  /\ idle_task' = "wait"
  /\ UNCHANGED <<angles, output_enabled, duties, idle>>

\* Fault: the time is not looked at again under the lock.
IdlePassBlind ==
  /\ idle_task = "wait"
  /\ idle_task' = "asleep"
  /\ output_enabled' = FALSE
  /\ lr_duty' = 0 /\ ud_duty' = 0
  /\ UNCHANGED <<angles, idle>>

IdlePass ==
  /\ idle_task = "wait"
  /\ idle_task' = "asleep"
  /\ IF idle >= IdleTimeout
       THEN output_enabled' = FALSE /\ lr_duty' = 0 /\ ud_duty' = 0
       ELSE UNCHANGED <<output_enabled, duties>>
  /\ UNCHANGED <<angles, idle>>

ServoTick ==
  /\ idle <= IdleTimeout
  /\ idle' = idle + 1
  /\ UNCHANGED <<angles, output_enabled, duties, idle_task>>

ServoNext == Command \/ IdleLook \/ IdlePass \/ ServoTick

\* The idle task runs every SERVO_POWER_SAVE_CHECK_PERIOD_MS and the handler
\* holds the lock for a moment only; no frame has to come.
ServoFair == WF_servo(IdleLook) /\ WF_servo(IdlePass) /\ WF_servo(ServoTick)

ServoSpec == ServoInit /\ [][ServoNext]_servo /\ ServoFair

-----------------------------------------------------------------------------
(* Properties *)

ServoTypeOK ==
  /\ lr_angle \in 0..MaxAngle /\ ud_angle \in 0..MaxAngle
  /\ output_enabled \in BOOLEAN
  /\ lr_duty \in 0..max_duty /\ ud_duty \in 0..max_duty
  /\ idle \in 0..(IdleTimeout + 1)
  /\ idle_task \in {"asleep", "wait"}

\* While the output is enabled both servos are driven to the recorded angles:
\* no command, and no switching on after a power save, leaves one behind.
EnabledAtAngles ==
  output_enabled =>
    lr_duty = angle_to_duty(lr_angle) /\ ud_duty = angle_to_duty(ud_angle)

\* The power save never takes the torque from a servo that was moved within
\* the timeout: the idle task looked at output_enabled before it had the lock,
\* and a command may have come in between.
PowerSaveSafe == output_enabled /\ ~output_enabled' => idle >= IdleTimeout

PowerSaveOnlyWhenIdle == [][PowerSaveSafe]_servo

\* The head holds no torque: the flag says so, and neither channel puts out pulses.
Asleep == ~output_enabled /\ lr_duty = 0 /\ ud_duty = 0

\* When nothing moves any more an enabled head is put to sleep, flag and channels,
\* however many SERVO_STOP frames still come.
IdleDisablesOutput == []<><<MovingCommand>>_servo \/ (output_enabled ~> Asleep)

\* What the comment in the handler says of SERVO_STOP (servo_control.c:216): the
\* idle task powers the head down after it.  While commands go on nothing is claimed.
StopIsFollowedBySleep ==
  \/ []<><<MovingCommand>>_servo \/ []<><<ServoStop>>_servo
  \/ []<>Asleep

=============================================================================
