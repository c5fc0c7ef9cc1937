------------------------------- MODULE MCRobot -------------------------------
(***************************************************************************)
(* The motor controller, the servo controller and the way of a command to  *)
(* them for TLC.  RobotMotor and ServoControl take whatever frames the bus *)
(* may bring at any time, CommandBus says which frames it does bring: the  *)
(* three share no state, one of them runs in a behaviour, and `board'      *)
(* tells which.                                                            *)
(*                                                                         *)
(* The speeds 0..255 with steps 8 and 12 are scaled to 0..5 with steps 2   *)
(* and 3: both steps still overshoot their target and have to be cut.  The *)
(* servos keep their range of angles and take steps of 45 and 60 degrees,  *)
(* so that both ends of the range are met within a few commands; one servo *)
(* is inverted and one is not.  The bus carries a command to go, one to    *)
(* stop, one to look up and a step beyond the range, through queues that   *)
(* fill up.                                                                *)
(***************************************************************************)
EXTENDS RobotMotor, ServoControl, CommandBus

CONSTANTS forward, backward, stop, none, short

CONSTANT Boards      \* the parts that may run, of "motor", "servo" and "bus"

VARIABLE board

MCMotions == {forward, backward}
MCSpeedArgs == {1, 9}
MCStepArgs == {0, 200}

SomeMoves == {"ROBOT_UP", "ROBOT_STOP"}
SomeHeads == {"SERVO_UP"}
SomeSteps == {30}

vars == <<board, motor, servo, bus>>

Init == board \in Boards /\ MotorInit /\ ServoInit /\ BusInit

Next ==
  \/ board = "motor" /\ MotorNext /\ UNCHANGED <<board, servo, bus>>
  \/ board = "servo" /\ ServoNext /\ UNCHANGED <<board, motor, bus>>
  \/ board = "bus" /\ BusNext /\ UNCHANGED <<board, motor, servo>>

\* MotorFair, ServoFair and BusFair, each on its board.
Fairness ==
  /\ WF_motor(board = "motor" /\ MotorTick)
  /\ WF_motor(board = "motor" /\ StampMessage)
  /\ WF_motor(board = "motor" /\ MainWake)
  /\ WF_motor(board = "motor" /\ UpdateLed)
  /\ WF_motor(board = "motor" /\ Tick)
  /\ WF_servo(board = "servo" /\ IdleLook)
  /\ WF_servo(board = "servo" /\ IdlePass)
  /\ WF_servo(board = "servo" /\ ServoTick)
  /\ WF_bus(board = "bus" /\ (Transmit \/ TransmitFails))
  /\ WF_bus(board = "bus" /\ RobotReceive)
  /\ WF_bus(board = "bus" /\ ServoReceive)

Spec ==
  /\ Init /\ [][Next]_vars
  /\ Fairness

\* ServoControl: when nothing moves any more an enabled head is put to sleep.
HeadSleeps == board = "servo" => IdleDisablesOutput

\* ServoControl: the comment of SERVO_STOP, which the code does not keep: a stop
\* after the power save drives both channels of a head whose flag is down, and the
\* idle task passes such a head by.
StopLetsSleep == board = "servo" => StopIsFollowedBySleep
=============================================================================
