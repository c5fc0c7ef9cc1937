---------------------------- MODULE RobotProofs ----------------------------
(***************************************************************************)
(* Proofs about the two nodes on the robot's CAN bus.                      *)
(*                                                                         *)
(* RobotMotor, for every set of motions, every speed range, every ramp     *)
(* step and every timing: PoweredInCurrentDirection is not inductive, it   *)
(* needs that the duty is the motor task's own current_speed_, that a      *)
(* stopped motion has no speed, and that a request to stop carries no      *)
(* speed.                                                                  *)
(*                                                                         *)
(* ServoControl, for every range of angles, every step size and every      *)
(* timeout: the enabled output is where the recorded angles are, and the   *)
(* power save never takes the torque from a servo just moved.              *)
(***************************************************************************)
EXTENDS RobotMotor, ServoControl, TLAPS

\* The part of the state the motor task and the commands share is typed.
MotorTypeOK ==
  /\ requested_motion_ \in AllMotions /\ current_motion_ \in AllMotions
  /\ requested_speed_ \in 0..MaxSpeed /\ current_speed_ \in 0..MaxSpeed
  /\ configured_speed_ \in 0..MaxSpeed

MotorInv ==
  /\ MotorTypeOK
  /\ duty = current_speed_
  /\ requested_motion_ = MOTION_STOP => requested_speed_ = 0
  /\ current_motion_ = MOTION_STOP => current_speed_ = 0
  /\ current_motion_ # MOTION_STOP => dir = current_motion_

-----------------------------------------------------------------------------
(* Lemmas about the operators *)

\* One ramp step stays within the speed range, moves towards the target and
\* by no more than the step of its direction.
LEMMA RampStep ==
  ASSUME NEW s \in 0..MaxSpeed, NEW t \in 0..MaxSpeed
  PROVE  /\ Ramp(s, t) \in 0..MaxSpeed
         /\ Ramp(s, t) - s <= AccelStep
         /\ s - Ramp(s, t) <= DecelStep
         /\ s = 0 => Ramp(s, t) <= AccelStep
         /\ Ramp(s, t) > s => Ramp(s, t) <= t
         /\ s = 0 /\ t = 0 => Ramp(s, t) = 0
BY SpeedAssumption DEF Ramp

\* Clamping brings every speed argument into the range of the PWM duty.
LEMMA ClampRange ==
  ASSUME NEW v \in Nat
  PROVE  Clamp(v) \in 0..MaxSpeed
BY SpeedAssumption DEF Clamp

\* A frame yields a speed within the range, whether it carries one or not.
LEMMA ParsedSpeedRange ==
  ASSUME MotorTypeOK, NEW v \in SpeedArgs \cup {NoSpeed}
  PROVE  ParseSpeedOrDefault(v) \in 0..MaxSpeed
<1>1. CASE v = NoSpeed
  BY <1>1 DEF ParseSpeedOrDefault, MotorTypeOK
<1>2. CASE v # NoSpeed
  <2>1. v \in Nat
    BY <1>2, SpeedAssumption
  <2>2. QED
    BY <1>2, <2>1, ClampRange DEF ParseSpeedOrDefault
<1>3. QED
  BY <1>1, <1>2

\* Setting a target keeps a request to stop free of speed.
LEMMA TargetKept ==
  ASSUME MotorInv, NEW m \in AllMotions, NEW s \in 0..MaxSpeed,
         SetMotionTarget(m, s)
  PROVE  /\ requested_motion_' \in AllMotions
         /\ requested_speed_' \in 0..MaxSpeed
         /\ requested_motion_' = MOTION_STOP => requested_speed_' = 0
<1>1. s \in Nat
  BY SpeedAssumption
<1>2. Clamp(s) \in 0..MaxSpeed
  BY <1>1, ClampRange
<1>3. QED
  BY <1>2, SpeedAssumption DEF SetMotionTarget

-----------------------------------------------------------------------------
(* The inductive invariant *)

\* One pass of the motor task keeps the invariant.
LEMMA MotorTickKeepsInv == MotorInv /\ MotorTick => MotorInv'
<1> SUFFICES ASSUME MotorInv, MotorTick PROVE MotorInv'
  OBVIOUS
<1> DEFINE m == NextMotion
           t == TargetSpeed(m)
<1>1. m \in AllMotions
  BY DEF NextMotion, MotorInv, MotorTypeOK
<1>2. t \in 0..MaxSpeed
  BY SpeedAssumption DEF TargetSpeed, MotorInv, MotorTypeOK
<1>3. /\ current_speed_' = Ramp(current_speed_, t)
      /\ current_speed_' \in 0..MaxSpeed
      /\ current_speed_ = 0 /\ t = 0 => current_speed_' = 0
  BY <1>2, RampStep DEF MotorTick, MotorInv, MotorTypeOK
<1>4. MotorTypeOK'
  BY <1>1, <1>3 DEF MotorTick, MotorInv, MotorTypeOK
<1>5. m = MOTION_STOP => current_speed_ = 0 /\ t = 0
  BY DEF NextMotion, TargetSpeed, MotorInv
<1>6. (current_motion_ = MOTION_STOP => current_speed_ = 0)'
  BY <1>3, <1>5 DEF MotorTick
<1>7. (current_motion_ # MOTION_STOP => dir = current_motion_)'
  <2>1. CASE m = current_motion_
    BY <2>1 DEF MotorTick, MotorInv
  <2>2. CASE m # current_motion_
    BY <2>2 DEF MotorTick
  <2>3. QED
    BY <2>1, <2>2
<1>8. QED
  BY <1>4, <1>6, <1>7 DEF MotorTick, MotorInv

\* Every command, and the restart, keeps the invariant.
LEMMA HandleKeepsInv == MotorInv /\ Handle => MotorInv'
<1> SUFFICES ASSUME MotorInv, Handle PROVE MotorInv'
  OBVIOUS
<1>1. ASSUME NEW m \in AllMotions, NEW v \in SpeedArgs \cup {NoSpeed},
             HandleMotion(m, v)
      PROVE  MotorInv'
  <2>1. SetMotionTarget(m, ParseSpeedOrDefault(v))
    BY <1>1 DEF HandleMotion
  <2>2. ParseSpeedOrDefault(v) \in 0..MaxSpeed
    BY ParsedSpeedRange DEF MotorInv
  <2>3. /\ requested_motion_' \in AllMotions
        /\ requested_speed_' \in 0..MaxSpeed
        /\ requested_motion_' = MOTION_STOP => requested_speed_' = 0
    BY <2>1, <2>2, TargetKept
  <2>4. QED
    BY <1>1, <2>3 DEF HandleMotion, Unlocked, MotorInv, MotorTypeOK
<1>2. ASSUME NEW v \in SpeedArgs \cup {NoSpeed}, HandleSpeedUpdate(v)
      PROVE  MotorInv'
  <2>1. ParseSpeedOrDefault(v) \in 0..MaxSpeed
    BY ParsedSpeedRange DEF MotorInv
  <2>2. QED
    BY <1>2, <2>1 DEF HandleSpeedUpdate, Unlocked, MotorInv, MotorTypeOK
<1>3. CASE HandleOther
  BY <1>3 DEF HandleOther, Unlocked, MotorInv, MotorTypeOK
<1>4. CASE HandleRestart
  BY <1>4, SpeedAssumption
  DEF HandleRestart, MotorInv, MotorTypeOK, AllMotions
<1>5. QED
  BY <1>1, <1>2, <1>3, <1>4 DEF Handle

\* Every step keeps the invariant.
LEMMA NextKeepsMotorInv == MotorInv /\ [MotorNext]_motor => MotorInv'
<1> SUFFICES ASSUME MotorInv, [MotorNext]_motor PROVE MotorInv'
  OBVIOUS
<1> USE DEF MotorInv, MotorTypeOK
<1>1. CASE MotorTick
  BY <1>1, MotorTickKeepsInv
<1>2. CASE Handle
  BY <1>2, HandleKeepsInv
<1>3. CASE StampMessage
  BY <1>3 DEF StampMessage, motorVars
<1>4. CASE MainWake
  BY <1>4 DEF MainWake, motorVars
<1>5. CASE UpdateLedCheck
  BY <1>5 DEF UpdateLedCheck, motorVars
<1>6. CASE UpdateLedStamp
  BY <1>6 DEF UpdateLedStamp, motorVars
<1>7. CASE UpdateLedStop
  BY <1>7, SpeedAssumption
  DEF UpdateLedStop, SetMotionTarget, AllMotions
<1>8. CASE Tick
  BY <1>8 DEF Tick, motorVars
<1>9. CASE UNCHANGED motor
  BY <1>9 DEF motor, motorVars
<1>10. QED
  BY <1>1, <1>2, <1>3, <1>4, <1>5, <1>6, <1>7, <1>8, <1>9
  DEF MotorNext, UpdateLed

\* The invariant holds initially.
LEMMA InitMotorInv == MotorInit => MotorInv
BY SpeedAssumption DEF MotorInit, MotorInv, MotorTypeOK, AllMotions

\* The inductive invariant of the motor task and the command handler.
THEOREM MotorInvariance == MotorSpec => []MotorInv
BY InitMotorInv, NextKeepsMotorInv, PTL DEF MotorSpec

-----------------------------------------------------------------------------
(* Safety of the drive *)

\* For every instance, the wheels are powered only in the direction the port
\* expander holds and the motor task executes.
THEOREM PoweredDirection == MotorSpec => []PoweredInCurrentDirection
<1>1. MotorInv => PoweredInCurrentDirection
  BY SpeedAssumption DEF MotorInv, MotorTypeOK, PoweredInCurrentDirection
<1>2. QED
  BY <1>1, MotorInvariance, PTL

\* For every instance, the direction levels change only while the duty is
\* zero ("Change direction only at zero speed", motor_control_task).
THEOREM NoReversal == MotorSpec => NoReversalUnderPower
<1>1. MotorInv /\ [MotorNext]_motor => [ReversalSafe]_motor
  <2> SUFFICES ASSUME MotorInv, [MotorNext]_motor, dir' # dir
               PROVE  duty = 0 /\ duty' <= AccelStep
    BY DEF ReversalSafe
  <2>1. MotorTick
    BY DEF MotorNext, Handle, HandleMotion, HandleSpeedUpdate, HandleOther,
           Unlocked, HandleRestart, StampMessage, MainWake, UpdateLed,
           UpdateLedCheck, UpdateLedStamp, UpdateLedStop, Tick,
           motor, motorVars
  <2>2. NextMotion # current_motion_ /\ NextMotion # MOTION_STOP
    BY <2>1 DEF MotorTick
  <2>3. current_speed_ = 0
    BY <2>2 DEF NextMotion
  <2>4. TargetSpeed(NextMotion) \in 0..MaxSpeed
    BY SpeedAssumption DEF TargetSpeed, MotorInv, MotorTypeOK
  <2>5. duty' = Ramp(0, TargetSpeed(NextMotion))
    BY <2>1, <2>3 DEF MotorTick
  <2>6. duty' <= AccelStep
    BY <2>4, <2>5, RampStep, SpeedAssumption
  <2>7. QED
    BY <2>3, <2>6 DEF MotorInv
<1>2. QED
  BY <1>1, MotorInvariance, PTL DEF MotorSpec, NoReversalUnderPower

\* For every instance, a restart aside, the duty follows the ramp and never
\* overshoots the request.
THEOREM SlewIsLimited == MotorSpec => SlewLimited
<1>1. MotorInv /\ [MotorNext]_motor => [SlewSafe]_motor
  <2> SUFFICES ASSUME MotorInv, [MotorNext]_motor, duty' # duty, ~HandleRestart
               PROVE  /\ duty' - duty <= AccelStep
                      /\ duty - duty' <= DecelStep
                      /\ duty' > duty => duty' <= requested_speed_
    BY DEF SlewSafe
  <2>1. MotorTick
    BY DEF MotorNext, Handle, HandleMotion, HandleSpeedUpdate, HandleOther,
           Unlocked, StampMessage, MainWake, UpdateLed,
           UpdateLedCheck, UpdateLedStamp, UpdateLedStop, Tick,
           motor, motorVars
  <2> DEFINE t == TargetSpeed(NextMotion)
  <2>2. t \in 0..MaxSpeed /\ t <= requested_speed_
    BY SpeedAssumption DEF TargetSpeed, MotorInv, MotorTypeOK
  <2>3. duty' = Ramp(duty, t) /\ duty \in 0..MaxSpeed
    BY <2>1 DEF MotorTick, MotorInv, MotorTypeOK
  <2>4. /\ duty' \in 0..MaxSpeed
        /\ duty' - duty <= AccelStep
        /\ duty - duty' <= DecelStep
        /\ duty' > duty => duty' <= t
    BY <2>2, <2>3, RampStep
  <2>5. duty' > duty => duty' <= requested_speed_
    BY <2>2, <2>4, SpeedAssumption DEF MotorInv, MotorTypeOK
  <2>6. QED
    BY <2>4, <2>5
<1>2. QED
  BY <1>1, MotorInvariance, PTL DEF MotorSpec, SlewLimited

-----------------------------------------------------------------------------
(* The silence watchdog *)

\* Time, and the watchdog's place in its loop.
ClockTypeOK ==
  /\ led_age \in 0..AgeCap /\ silence \in 0..AgeCap
  /\ boot_age \in 0..(LoopPeriod + MaxDelay)
  /\ main \in {"delay", "check", "expired", "stop"}
  /\ main # "delay" => boot_age <= MaxDelay

Moving == requested_motion_ # MOTION_STOP

\* The oldest timestamp that can still pass the watchdog's next check.
LastChance == NoMessageStopDelay + LoopPeriod + 2 * MaxDelay

\* SilenceStops is about the messages; the watchdog sees its own timestamp
\* only.  The timestamp of a moving robot is never younger than its last
\* message unless the watchdog has just replaced it on its way to a stop, and
\* its age is bounded by the watchdog's progress through its loop.
WatchdogInv ==
  /\ ClockTypeOK
  /\ Moving /\ main # "stop" => silence <= led_age
  /\ main = "delay" => led_age <= NoMessageStopDelay + MaxDelay + boot_age
  /\ main \in {"check", "expired"} => led_age <= LastChance + boot_age
  /\ main = "stop" => led_age <= boot_age
  /\ main = "stop" /\ Moving => silence <= LastChance + boot_age

\* The watchdog's invariant holds initially.
LEMMA InitWatchdogInv == MotorInit => WatchdogInv
BY TimeAssumption
DEF MotorInit, WatchdogInv, ClockTypeOK, Moving, LastChance, AgeCap, StopBound

\* Every step keeps the watchdog's invariant.
LEMMA NextKeepsWatchdogInv == WatchdogInv /\ [MotorNext]_motor => WatchdogInv'
<1> SUFFICES ASSUME WatchdogInv, [MotorNext]_motor PROVE WatchdogInv'
  OBVIOUS
<1> USE TimeAssumption
    DEF WatchdogInv, ClockTypeOK, Moving, LastChance, AgeCap, StopBound
<1>1. CASE MotorTick
  BY <1>1 DEF MotorTick, timeVars
<1>2. ASSUME Unlocked PROVE WatchdogInv'
  BY <1>2 DEF Unlocked
<1>3. CASE HandleRestart
  BY <1>3 DEF HandleRestart
<1>4. CASE Handle
  BY <1>2, <1>3, <1>4
  DEF Handle, HandleMotion, HandleSpeedUpdate, HandleOther
<1>5. CASE StampMessage
  BY <1>5 DEF StampMessage, motorVars
<1>6. CASE MainWake
  BY <1>6 DEF MainWake, motorVars
<1>7. CASE UpdateLedCheck
  BY <1>7 DEF UpdateLedCheck, motorVars
<1>8. CASE UpdateLedStamp
  BY <1>8 DEF UpdateLedStamp, motorVars
<1>9. CASE UpdateLedStop
  BY <1>9 DEF UpdateLedStop, SetMotionTarget
<1>10. CASE Tick
  BY <1>10 DEF Tick, Older, motorVars
<1>11. CASE UNCHANGED motor
  BY <1>11 DEF motor, motorVars, timeVars
<1>12. QED
  BY <1>1, <1>4, <1>5, <1>6, <1>7, <1>8, <1>9, <1>10, <1>11
  DEF MotorNext, UpdateLed

\* For every instance, a robot that is asked to move has heard a message
\* within StopBound.
THEOREM SilenceIsNoticed == MotorSpec => []SilenceStops
<1>1. WatchdogInv => SilenceStops
  BY TimeAssumption
  DEF WatchdogInv, ClockTypeOK, Moving, LastChance, StopBound, AgeCap,
      SilenceStops
<1>2. QED
  BY <1>1, InitWatchdogInv, NextKeepsWatchdogInv, PTL DEF MotorSpec

-----------------------------------------------------------------------------
(* The LED *)

\* Every step keeps it, since each of the two tasks writes the LED before or
\* after the request, in one unlocked section the property leaves out.
LEMMA DarkStays == DarkMeansStopped /\ [MotorNext]_motor => DarkMeansStopped'
<1> SUFFICES ASSUME DarkMeansStopped, [MotorNext]_motor PROVE DarkMeansStopped'
  OBVIOUS
<1> USE DEF DarkMeansStopped
<1>1. CASE MotorTick
  BY <1>1 DEF MotorTick
<1>2. CASE Handle
  BY <1>2 DEF Handle, HandleMotion, HandleSpeedUpdate, HandleOther, Unlocked,
              HandleRestart
<1>3. CASE StampMessage
  BY <1>3 DEF StampMessage, motorVars
<1>4. CASE MainWake \/ Tick \/ UNCHANGED motor
  BY <1>4 DEF MainWake, Tick, motorVars, motor
<1>5. CASE UpdateLedCheck \/ UpdateLedStamp
  BY <1>5 DEF UpdateLedCheck, UpdateLedStamp, motorVars
<1>6. CASE UpdateLedStop
  BY <1>6 DEF UpdateLedStop, SetMotionTarget
<1>7. QED
  BY <1>1, <1>2, <1>3, <1>4, <1>5, <1>6 DEF MotorNext, UpdateLed

\* For every instance, a dark LED means the robot is not asked to move, when
\* neither task is inside its unlocked section (HandleControlMessage,
\* UpdateLed).
THEOREM DarkIsStopped == MotorSpec => []DarkMeansStopped
<1>1. MotorInit => DarkMeansStopped
  BY DEF MotorInit, DarkMeansStopped
<1>2. QED
  BY <1>1, DarkStays, PTL DEF MotorSpec

-----------------------------------------------------------------------------
(* Type correctness *)

\* The direction, the LED and the handler's place have their types.
OutputTypeOK ==
  /\ dir \in Motions \cup {NoDirection}
  /\ led \in BOOLEAN
  /\ handler \in {"idle", "stamp"}

\* The motor pass applies a moving motion only, so the outputs keep theirs.
LEMMA OutputsTyped == MotorInv /\ OutputTypeOK /\ [MotorNext]_motor => OutputTypeOK'
<1> SUFFICES ASSUME MotorInv, OutputTypeOK, [MotorNext]_motor PROVE OutputTypeOK'
  OBVIOUS
<1> USE DEF OutputTypeOK
<1>1. CASE MotorTick
  BY <1>1 DEF MotorTick, NextMotion, MotorInv, MotorTypeOK, AllMotions
<1>2. CASE Handle
  BY <1>2 DEF Handle, HandleMotion, HandleSpeedUpdate, HandleOther, Unlocked,
              HandleRestart
<1>3. CASE StampMessage \/ MainWake \/ UpdateLed \/ Tick \/ UNCHANGED motor
  BY <1>3 DEF StampMessage, MainWake, UpdateLed, UpdateLedCheck,
              UpdateLedStamp, UpdateLedStop, Tick, motorVars, motor
<1>4. QED
  BY <1>1, <1>2, <1>3 DEF MotorNext

\* For every instance, every variable keeps its type.
THEOREM TypeCorrect == MotorSpec => []TypeOK
<1>1. MotorInit => OutputTypeOK
  BY DEF MotorInit, OutputTypeOK
<1>2. MotorInv /\ WatchdogInv /\ OutputTypeOK => TypeOK
  BY DEF MotorInv, MotorTypeOK, WatchdogInv, ClockTypeOK, OutputTypeOK, TypeOK
<1>3. QED
  BY <1>1, <1>2, MotorInvariance, InitWatchdogInv, NextKeepsWatchdogInv,
     OutputsTyped, PTL DEF MotorSpec

-----------------------------------------------------------------------------
(* The head servos: steps, angles and duties *)

\* A step never leaves the integers, whatever the frame carries.
LEMMA StepTyped ==
  ASSUME NEW v \in StepArgs \cup {NoStep}, NEW invert \in BOOLEAN
  PROVE  /\ signed_step(decode_step(v), invert) \in Int
         /\ -signed_step(decode_step(v), invert) \in Int
BY ServoAssumption DEF signed_step, decode_step

\* Clamping returns an angle of the range.
LEMMA InRangeTyped ==
  ASSUME NEW a \in Int
  PROVE  InRange(a) \in 0..MaxAngle
BY ServoAssumption DEF InRange

\* A duty fits the 14 bits of the timer.
LEMMA DutyTyped ==
  ASSUME NEW a \in Int
  PROVE  angle_to_duty(a) \in 0..max_duty
<1> DEFINE p == (InRange(a) * 2000) \div MaxAngle
<1> DEFINE d == ((500 + p) * 50 * 16384) \div 1000000
<1>1. InRange(a) \in Nat
  BY InRangeTyped
<1>2. p \in Nat
  BY <1>1, ServoAssumption
<1>3. d \in Nat
  <2> HIDE DEF p
  <2> QED  BY <1>2
<1> HIDE DEF d
<1>4. max_duty \in Nat
  BY DEF max_duty
<1>5. (IF d > max_duty THEN max_duty ELSE d) \in 0..max_duty
  BY <1>3, <1>4
<1>6. angle_to_duty(a) = IF d > max_duty THEN max_duty ELSE d
  BY DEF angle_to_duty, d, p
<1> QED  BY <1>5, <1>6

-----------------------------------------------------------------------------

ServoInv == ServoTypeOK /\ EnabledAtAngles

LEMMA InitServoInv == ServoInit => ServoInv
<1> SUFFICES ASSUME ServoInit  PROVE ServoInv
  OBVIOUS
<1>1. InitAngle \in Int
  BY ServoAssumption
<1>2. lr_duty \in 0..max_duty /\ ud_duty \in 0..max_duty
  BY <1>1, DutyTyped DEF ServoInit
<1>3. ServoTypeOK
  BY <1>2, ServoAssumption DEF ServoInit, ServoTypeOK
<1>4. EnabledAtAngles
  BY DEF ServoInit, EnabledAtAngles
<1> QED  BY <1>3, <1>4 DEF ServoInv

\* A move keeps the angles in their range and drives both servos to them.
LEMMA MoveKeepsInv ==
  ASSUME NEW lr \in Int, NEW ud \in Int, ServoInv, Move(lr, ud)
  PROVE  ServoInv'
<1>1. lr_angle' \in 0..MaxAngle /\ ud_angle' \in 0..MaxAngle
  BY InRangeTyped, ServoAssumption DEF Move, ServoInv, ServoTypeOK
<1>2. lr_duty' \in 0..max_duty /\ ud_duty' \in 0..max_duty
  BY <1>1, ServoAssumption, DutyTyped DEF Move
<1>3. ServoTypeOK'
  BY <1>1, <1>2, ServoAssumption DEF Move, ServoInv, ServoTypeOK
<1>4. EnabledAtAngles'
  BY DEF Move, EnabledAtAngles
<1> QED  BY <1>3, <1>4 DEF ServoInv

LEMMA NextKeepsServoInv == ServoInv /\ [ServoNext]_servo => ServoInv'
<1> SUFFICES ASSUME ServoInv, [ServoNext]_servo  PROVE ServoInv'
  OBVIOUS
<1>0. lr_angle \in Int /\ ud_angle \in Int
  BY ServoAssumption DEF ServoInv, ServoTypeOK
<1>1. CASE MovingCommand
  <2>1. PICK v \in StepArgs \cup {NoStep} :
          ServoUp(v) \/ ServoDown(v) \/ ServoLeft(v) \/ ServoRight(v)
    BY <1>1 DEF MovingCommand
  <2>2. \E lr \in Int, ud \in Int : Move(lr, ud)
    BY <2>1, StepTyped, ServoAssumption DEF ServoUp, ServoDown, ServoLeft, ServoRight
  <2> QED  BY <2>2, MoveKeepsInv
<1>2. CASE ServoStop
  <2>1. lr_duty' \in 0..max_duty /\ ud_duty' \in 0..max_duty
    BY <1>0, <1>2, DutyTyped DEF ServoStop
  <2>2. ServoTypeOK'
    BY <1>2, <2>1 DEF ServoStop, ServoInv, ServoTypeOK, angles
  <2>3. EnabledAtAngles'
    BY <1>2 DEF ServoStop, EnabledAtAngles, angles
  <2> QED  BY <2>2, <2>3 DEF ServoInv
<1>zero. 0 \in 0..max_duty
  BY DEF max_duty
<1>3. CASE IdleLook
  BY <1>3 DEF IdleLook, ServoInv, ServoTypeOK, EnabledAtAngles, angles, duties
<1>4. CASE IdlePass
  BY <1>4, <1>zero DEF IdlePass, ServoInv, ServoTypeOK, EnabledAtAngles, angles, duties
<1>5. CASE ServoTick
  BY <1>5, ServoAssumption
     DEF ServoTick, ServoInv, ServoTypeOK, EnabledAtAngles, angles, duties
<1>6. CASE UNCHANGED servo
  BY <1>6 DEF servo, ServoInv, ServoTypeOK, EnabledAtAngles, angles, duties
<1> QED
  BY <1>1, <1>2, <1>3, <1>4, <1>5, <1>6 DEF ServoNext, Command

THEOREM ServoInvariance == ServoSpec => []ServoInv
<1> QED  BY InitServoInv, NextKeepsServoInv, PTL DEF ServoSpec

\* Both angles stay in their range, whatever frames arrive.
THEOREM ServoTypeCorrect == ServoSpec => []ServoTypeOK
<1>1. ServoInv => ServoTypeOK
  BY DEF ServoInv
<1> QED  BY <1>1, ServoInvariance, PTL

\* The enabled output holds both servos at the recorded angles.
THEOREM EnabledHoldsAngles == ServoSpec => []EnabledAtAngles
<1>1. ServoInv => EnabledAtAngles
  BY DEF ServoInv
<1> QED  BY <1>1, ServoInvariance, PTL

\* Only a servo that has been idle for the timeout loses its torque, although
\* the idle task looks at output_enabled before it has the lock.
THEOREM PowerSaveIsSafe == ServoSpec => PowerSaveOnlyWhenIdle
<1>1. [ServoNext]_servo => [PowerSaveSafe]_servo
  BY DEF ServoNext, Command, MovingCommand, ServoUp, ServoDown, ServoLeft, ServoRight,
         Move, ServoStop, IdleLook, IdlePass, ServoTick, PowerSaveSafe
<1> QED  BY <1>1, PTL DEF ServoSpec, PowerSaveOnlyWhenIdle
=============================================================================
