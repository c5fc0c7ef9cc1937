----------------------------- MODULE RobotMotor -----------------------------
(***************************************************************************)
(* The mecanum motor controller of IDF_robot_control: the 20 ms motor      *)
(* task, the CAN message handler and the silence watchdog run from the     *)
(* main task (src/IDF_robot_control/main/control/control_callback.c).      *)
(*                                                                         *)
(* Three tasks share the motor state.  motor_lock makes the motor task's   *)
(* pass, the handler's switch and the watchdog's stop atomic; the          *)
(* timestamp led_updated_time_ and the LED are written OUTSIDE the lock,   *)
(* so the handler and the watchdog are split there.                        *)
(*                                                                         *)
(* Time is relative: led_age is now - led_updated_time_ and boot_age is    *)
(* now - boottime_ms while UpdateLed runs, so the code's comparison of the *)
(* two timestamps is led_age - boot_age > NoMessageStopDelay.              *)
(***************************************************************************)
EXTENDS Integers

CONSTANTS
  Motions,             \* the moving members of motion_cmd_t
  MOTION_STOP,         \* the member that stops the robot
  NoDirection,         \* the direction pins before any motion was applied
  MaxSpeed,            \* 255: full PWM duty
  AccelStep,           \* MOTOR_ACCEL_STEP
  DecelStep,           \* MOTOR_DECEL_STEP
  DefaultSpeed,        \* DEFAULT_MOTOR_SPEED
  SpeedArgs,           \* speed arguments a frame may carry (uint32, any size)
  NoSpeed,             \* a frame too short to carry a speed argument
  NoMessageStopDelay,  \* NO_MESSAGE_STOP_DELAY, in clock ticks
  LoopPeriod,          \* the main loop's vTaskDelay, in clock ticks
  MaxDelay             \* bound: longest preemption of the main task, in ticks

ASSUME MotionAssumption ==
  /\ MOTION_STOP \notin Motions
  /\ NoDirection \notin Motions

ASSUME SpeedAssumption ==
  /\ MaxSpeed \in Nat \ {0}
  /\ AccelStep \in Nat \ {0}
  /\ DecelStep \in Nat \ {0}
  /\ DefaultSpeed \in 0..MaxSpeed
  /\ SpeedArgs \subseteq Nat
  /\ NoSpeed \notin SpeedArgs

ASSUME TimeAssumption ==
  /\ NoMessageStopDelay \in Nat
  /\ LoopPeriod \in Nat \ {0}
  /\ MaxDelay \in Nat

VARIABLES
  requested_motion_, requested_speed_,  \* what the last command asked for
  current_motion_, current_speed_,      \* what the motor task has reached
  configured_speed_,                    \* default for frames without a speed
  dir,       \* motion whose levels the port expander holds
  duty,      \* PWM duty on the four channels
  led,       \* TRUE while the LED shows a live link
  led_age,   \* now - led_updated_time_ (saturates at AgeCap)
  boot_age,  \* main task: ticks since it read boottime_ms or began to sleep
  main,      \* main task: asleep, or the step of UpdateLed it reached
  handler,   \* CAN receive task: idle, or past motor_unlock
  silence    \* history: ticks since a message was last being handled

motorVars == <<requested_motion_, requested_speed_, current_motion_,
               current_speed_, configured_speed_, dir, duty>>
timeVars  == <<led_age, boot_age, silence>>
motor == <<motorVars, timeVars, led, main, handler>>

AllMotions == Motions \cup {MOTION_STOP}

\* Longest time the watchdog needs to stop a silent robot.
StopBound == NoMessageStopDelay + LoopPeriod + 3 * MaxDelay
\* Ages are not counted beyond this point: no guard tells larger ones apart.
AgeCap == StopBound + 1
Older(age) == IF age < AgeCap THEN age + 1 ELSE age

MotorInit ==
  /\ requested_motion_ = MOTION_STOP /\ requested_speed_ = 0
  /\ current_motion_ = MOTION_STOP   /\ current_speed_ = 0
  /\ configured_speed_ = DefaultSpeed
  /\ dir = NoDirection /\ duty = 0
  /\ led = FALSE /\ led_age = 0
  /\ main = "check" /\ boot_age = 0
  /\ handler = "idle" /\ silence = 0

-----------------------------------------------------------------------------
(* Motor task *)

\* Fault: no detour over speed zero for a change of motion.
TargetSpeedStraight(m) == requested_speed_

\* The speed the motor task steers to once it drives motion m.
TargetSpeed(m) == IF m = requested_motion_ THEN requested_speed_ ELSE 0

\* Fault: an accel step is not cut at the target.
RampOvershooting(s, t) ==
  CASE s < t -> s + AccelStep
    [] s > t -> IF s - DecelStep < t THEN t ELSE s - DecelStep
    [] OTHER -> s

\* One accel/decel step from speed s towards target t.
Ramp(s, t) ==
  CASE s < t -> IF s + AccelStep > t THEN t ELSE s + AccelStep
    [] s > t -> IF s - DecelStep < t THEN t ELSE s - DecelStep
    [] OTHER -> s

\* Fault: the direction changes at any speed.
NextMotionAtOnce == requested_motion_

\* The direction may change only at zero speed.
NextMotion ==
  IF current_motion_ # requested_motion_ /\ current_speed_ = 0
    THEN requested_motion_ ELSE current_motion_

\* One pass of motor_control_task, under motor_lock throughout.
MotorTick ==
  /\ current_motion_' = NextMotion
  /\ dir' = IF NextMotion # current_motion_ /\ NextMotion # MOTION_STOP
              THEN NextMotion ELSE dir
  /\ current_speed_' = Ramp(current_speed_, TargetSpeed(NextMotion))
  /\ duty' = current_speed_'
  /\ UNCHANGED <<requested_motion_, requested_speed_, configured_speed_,
                 timeVars, led, main, handler>>

-----------------------------------------------------------------------------
(* CAN message handler *)

\* Fault: a speed of 32 bits is taken as it is.
ClampNothing(v) == v

Clamp(v) == IF v > MaxSpeed THEN MaxSpeed ELSE v

ParseSpeedOrDefault(v) == IF v = NoSpeed THEN configured_speed_ ELSE Clamp(v)

SetMotionTarget(m, s) ==
  /\ requested_motion_' = m
  /\ requested_speed_' = IF m = MOTION_STOP THEN 0 ELSE Clamp(s)

\* After the switch the handler has released the lock and has yet to note
\* the message in led_updated_time_.
Unlocked ==
  /\ handler = "idle"
  /\ handler' = "stamp"
  /\ silence' = 0
  /\ UNCHANGED <<current_motion_, current_speed_, dir, duty,
                 led, led_age, boot_age, main>>

\* Messages 8, 2, 4, 6, 7, 9 (a moving motion) and 5 (stop).
HandleMotion(m, v) ==
  /\ Unlocked
  /\ SetMotionTarget(m, ParseSpeedOrDefault(v))
  /\ UNCHANGED configured_speed_

\* Message 10: also retargets a robot that is asked to move.
HandleSpeedUpdate(v) ==
  /\ Unlocked
  /\ configured_speed_' = ParseSpeedOrDefault(v)
  /\ requested_speed_' = IF requested_motion_ # MOTION_STOP
                           THEN ParseSpeedOrDefault(v) ELSE requested_speed_
  /\ UNCHANGED requested_motion_

\* Any other frame with the shared identifier (servo frames, the bus
\* heartbeat): only logged, yet noted like a command.
HandleOther ==
  /\ Unlocked
  /\ UNCHANGED <<requested_motion_, requested_speed_, configured_speed_>>

\* The end of HandleControlMessage, after motor_unlock.
StampMessage ==
  /\ handler = "stamp"
  /\ handler' = "idle"
  /\ led_age' = 0 /\ led' = TRUE
  /\ silence' = 0
  /\ UNCHANGED <<motorVars, boot_age, main>>

\* Message 66: esp_restart.  The port expander keeps its levels, the rest
\* starts over.
HandleRestart ==
  /\ handler = "idle"
  /\ requested_motion_' = MOTION_STOP /\ requested_speed_' = 0
  /\ current_motion_' = MOTION_STOP   /\ current_speed_' = 0
  /\ configured_speed_' = DefaultSpeed
  /\ duty' = 0 /\ dir' = dir
  /\ led' = FALSE /\ led_age' = 0
  /\ main' = "check" /\ boot_age' = 0
  /\ handler' = "idle" /\ silence' = 0

-----------------------------------------------------------------------------
(* Main task: UpdateLed every LoopPeriod *)

\* boottime_ms is read by app_main, before UpdateLed runs.
MainWake ==
  /\ main = "delay" /\ boot_age >= LoopPeriod
  /\ main' = "check" /\ boot_age' = 0
  /\ UNCHANGED <<motorVars, led_age, silence, led, handler>>

UpdateLedCheck ==
  /\ main = "check"
  /\ IF led_age - boot_age > NoMessageStopDelay
       THEN main' = "expired" /\ led' = FALSE /\ UNCHANGED boot_age
       ELSE main' = "delay"   /\ boot_age' = 0 /\ UNCHANGED led
  /\ UNCHANGED <<motorVars, led_age, silence, handler>>

UpdateLedStamp ==
  /\ main = "expired"
  /\ main' = "stop"
  /\ led_age' = boot_age
  /\ UNCHANGED <<motorVars, boot_age, silence, led, handler>>

\* Fault: the watchdog only darkens the LED.
UpdateLedStopNothing ==
  /\ main = "stop"
  /\ main' = "delay" /\ boot_age' = 0
  /\ UNCHANGED <<motorVars, led_age, silence, led, handler>>

UpdateLedStop ==
  /\ main = "stop"
  /\ SetMotionTarget(MOTION_STOP, 0)
  /\ main' = "delay" /\ boot_age' = 0
  /\ UNCHANGED <<current_motion_, current_speed_, configured_speed_, dir, duty,
                 led_age, silence, led, handler>>

-----------------------------------------------------------------------------
\* A clock tick.  The main task is never preempted for more than MaxDelay
\* ticks, neither when its delay is over nor inside UpdateLed.
Tick ==
  /\ boot_age < (IF main = "delay" THEN LoopPeriod + MaxDelay ELSE MaxDelay)
  /\ led_age' = Older(led_age)
  /\ boot_age' = boot_age + 1
  /\ silence' = Older(silence)
  /\ UNCHANGED <<motorVars, led, main, handler>>

Handle ==
  \/ \E m \in AllMotions, v \in SpeedArgs \cup {NoSpeed} : HandleMotion(m, v)
  \/ \E v \in SpeedArgs \cup {NoSpeed} : HandleSpeedUpdate(v)
  \/ HandleOther
  \/ HandleRestart

UpdateLed == UpdateLedCheck \/ UpdateLedStamp \/ UpdateLedStop

MotorNext == MotorTick \/ Handle \/ StampMessage \/ MainWake \/ UpdateLed \/ Tick

\* The RTOS runs every ready task; nothing obliges the bus to carry messages.
MotorFair ==
  /\ WF_motor(MotorTick) /\ WF_motor(StampMessage)
  /\ WF_motor(MainWake) /\ WF_motor(UpdateLed) /\ WF_motor(Tick)

MotorSpec == MotorInit /\ [][MotorNext]_motor /\ MotorFair

-----------------------------------------------------------------------------
(* Properties *)

TypeOK ==
  /\ requested_motion_ \in AllMotions /\ current_motion_ \in AllMotions
  /\ requested_speed_ \in 0..MaxSpeed /\ current_speed_ \in 0..MaxSpeed
  /\ configured_speed_ \in 0..MaxSpeed /\ duty \in 0..MaxSpeed
  /\ dir \in Motions \cup {NoDirection}
  /\ led \in BOOLEAN
  /\ led_age \in 0..AgeCap /\ silence \in 0..AgeCap
  /\ boot_age \in 0..(LoopPeriod + MaxDelay)
  /\ main \in {"delay", "check", "expired", "stop"}
  /\ handler \in {"idle", "stamp"}

\* The wheels are powered only while the port expander holds the levels of
\* the motion the motor task is executing, whatever commands arrive, in
\* whatever order, between its passes (motor_control_task, "Change direction
\* only at zero speed to avoid abrupt torque reversal").
PoweredInCurrentDirection ==
  duty > 0 => current_motion_ # MOTION_STOP /\ dir = current_motion_

\* The direction levels never change while the wheels are powered, nor does
\* the pass that changes them power the wheels by more than one accel step.
ReversalSafe == dir' # dir => duty = 0 /\ duty' <= AccelStep

NoReversalUnderPower == [][ReversalSafe]_motor

\* A restart aside, the duty moves by at most one accel step up or one decel
\* step down at a time, and it never climbs past the speed that was asked
\* for last, however the request changes while the ramp is under way.
SlewSafe ==
  duty' # duty =>
    \/ HandleRestart
    \/ /\ duty' - duty <= AccelStep
       /\ duty - duty' <= DecelStep
       /\ duty' > duty => duty' <= requested_speed_

SlewLimited == [][SlewSafe]_motor

\* Once no message was handled for StopBound, the watchdog has withdrawn the
\* last command (control_callback.h, "if no message for a long time, we will
\* stop the robot"), despite its unlocked timestamp.
SilenceStops == silence > StopBound => requested_motion_ = MOTION_STOP

\* When neither task is inside its unlocked section, a dark LED means the
\* robot is not asked to move.
DarkMeansStopped ==
  ~led /\ main \in {"delay", "check"} /\ handler = "idle" =>
    requested_motion_ = MOTION_STOP

\* A request that stands is reached: the wheels stop, the direction changes
\* and the requested speed is attained and kept.
RequestReached ==
  \A m \in AllMotions, s \in 0..MaxSpeed :
    <>[](requested_motion_ = m /\ requested_speed_ = s) =>
      <>[](current_motion_ = m /\ duty = s)

=============================================================================
