------------------------------ MODULE CommandBus ------------------------------
(***************************************************************************)
(* The way of a command from the P4 to the wheels and the camera: send_cmd *)
(* (src/IDF_esp32p4_webrtc/main/webrtc.c) turns it into a CAN frame, the   *)
(* helper library of all three controllers queues, sends and receives it   *)
(* (src/submodules/robot_canbus/lib/robot_canbus.c), and the robot and the *)
(* servo controller each act on the frames that are theirs.                *)
(*                                                                         *)
(* Frames carry one identifier, so that every controller receives every    *)
(* frame, the idle heartbeats of the others included.  A frame may get     *)
(* lost where the code ignores a result: a full send queue, a transmission *)
(* that times out, a receive queue of the driver that runs over.           *)
(*                                                                         *)
(* What the receivers do in time (ramp, watchdog, power save) is left to   *)
(* RobotMotor and ServoControl.                                            *)
(***************************************************************************)
EXTENDS Integers, Sequences

CONSTANTS
  Moves,       \* the motion commands in use, a subset of DOMAIN MoveType
  Heads,       \* the servo commands in use, a subset of DOMAIN HeadType
  ConfigArgs,  \* arguments of SERVO_STEP
  QueueLen,    \* MAX_QUEUE_ELEMENT
  RxLen,       \* frames the TWAI driver holds for a receiver
  None

\* The message types of ProcessMoveCommand and ProcessServoCommand.
MoveType == [ROBOT_UP |-> 8, ROBOT_DOWN |-> 2, ROBOT_LEFT |-> 4, ROBOT_RIGHT |-> 6,
             ROBOT_ROTATE_LEFT |-> 7, ROBOT_ROTATE_RIGHT |-> 9, ROBOT_STOP |-> 5]
HeadType == [SERVO_UP |-> 18, SERVO_DOWN |-> 12, SERVO_LEFT |-> 14,
             SERVO_RIGHT |-> 16, SERVO_STOP |-> 15]

ASSUME BusAssumption ==
  /\ Moves \subseteq DOMAIN MoveType /\ Heads \subseteq DOMAIN HeadType
  /\ ConfigArgs \subseteq Nat
  /\ QueueLen \in Nat \ {0} /\ RxLen \in Nat \ {0}

\* What the receivers take the types for.
MotionOf == [t \in {8, 2, 4, 5, 6, 7, 9} |->
  CASE t = 8 -> "forward" [] t = 2 -> "backward" [] t = 4 -> "left" [] t = 5 -> "stop"
    [] t = 6 -> "right" [] t = 7 -> "rotate_left" [] t = 9 -> "rotate_right"]
TurnOf == [t \in {18, 12, 14, 15, 16} |->
  CASE t = 18 -> "up" [] t = 12 -> "down" [] t = 14 -> "left" [] t = 15 -> "hold"
    [] t = 16 -> "right"]
DefaultVelocity == 125
MaxServoStep == 20

Senders == {"mqtt", "console"}      \* the tasks that call send_cmd
Receivers == {"robot", "servo"}
Nodes == Receivers \cup {"p4"}

VARIABLES
  current_velocity_, servo_velocity_,
  sending,   \* the command each sender is about to queue and its frame, or None
  queue,     \* canbus_send_queue_ of the P4
  rx,        \* what the driver of each receiver holds
  wheels,    \* requested_motion_, requested_speed_ and configured_speed_
  head,      \* history: the last turn of the camera
  asked,     \* history: the last command queued for each receiver
  lost       \* history: has the last frame for each receiver been lost?

history == <<asked, lost>>
bus == <<current_velocity_, servo_velocity_, sending, queue, rx, wheels, head, history>>

Frame(type, value) == [type |-> type, value |-> value]
Heartbeat == Frame(171, None)   \* two bytes, 0xAB and 0xCD

\* The receiver a frame is meant for.
IsFor(r, f) ==
  IF r = "robot" THEN \E m \in DOMAIN MoveType : MoveType[m] = f.type
                 ELSE \E h \in DOMAIN HeadType : HeadType[h] = f.type

BusInit ==
  /\ current_velocity_ = DefaultVelocity /\ servo_velocity_ = 5
  /\ sending = [s \in Senders |-> None]
  /\ queue = << >>
  /\ rx = [r \in Receivers |-> << >>]
  /\ wheels = [motion |-> "stop", speed |-> 0, configured |-> DefaultVelocity]
  /\ head = "hold"
  /\ asked = [robot |-> "ROBOT_STOP", servo |-> "SERVO_STOP"]
  /\ lost = [r \in Receivers |-> FALSE]

-----------------------------------------------------------------------------
(* send_cmd *)

Ready(s) == sending[s] = None
Sending(s, cmd, type, value) ==
  /\ sending' = [sending EXCEPT ![s] = [cmd |-> cmd, frame |-> Frame(type, value)]]
  /\ UNCHANGED <<current_velocity_, servo_velocity_, queue, rx, wheels, head, history>>

\* ProcessMoveCommand; a stop carries no speed.
ProcessMoveCommand(s, m) ==
  /\ Ready(s)
  /\ Sending(s, m, MoveType[m], IF m = "ROBOT_STOP" THEN 0 ELSE current_velocity_)

\* Fault: a head that is to look up is a robot that is to go up.
HeadUpAsMove(s, h) ==
  /\ Ready(s)
  /\ Sending(s, h, IF h = "SERVO_UP" THEN 8 ELSE HeadType[h], servo_velocity_)

ProcessServoCommand(s, h) ==
  /\ Ready(s)
  /\ Sending(s, h, HeadType[h], IF h = "SERVO_STOP" THEN 0 ELSE servo_velocity_)

\* SERVO_STEP:n
ProcessServoConfigCommand(s, n) ==
  /\ Ready(s)
  /\ servo_velocity_' = IF n > MaxServoStep THEN MaxServoStep ELSE n
  /\ UNCHANGED <<current_velocity_, sending, queue, rx, wheels, head, history>>

-----------------------------------------------------------------------------
(* AddMessageToSend *)

Target(cmd) == IF cmd \in DOMAIN MoveType THEN "robot" ELSE "servo"

Asked(s) ==
  /\ asked' = [asked EXCEPT ![Target(sending[s].cmd)] = sending[s].cmd]
  /\ sending' = [sending EXCEPT ![s] = None]

\* Fault: the newest command goes first.
AddMessageInFront(s) ==
  /\ ~Ready(s)
  /\ Len(queue) < QueueLen
  /\ queue' = <<sending[s].frame>> \o queue
  /\ Asked(s)
  /\ lost' = [lost EXCEPT ![Target(sending[s].cmd)] = FALSE]
  /\ UNCHANGED <<current_velocity_, servo_velocity_, rx, wheels, head>>

AddMessageToSend(s) ==
  /\ ~Ready(s)
  /\ Len(queue) < QueueLen
  /\ queue' = Append(queue, sending[s].frame)
  /\ Asked(s)
  /\ lost' = [lost EXCEPT ![Target(sending[s].cmd)] = FALSE]
  /\ UNCHANGED <<current_velocity_, servo_velocity_, rx, wheels, head>>

\* The queue stays full for 10 ms.
AddMessageFails(s) ==
  /\ ~Ready(s)
  /\ Len(queue) = QueueLen
  /\ Asked(s)
  /\ lost' = [lost EXCEPT ![Target(sending[s].cmd)] = TRUE]
  /\ UNCHANGED <<current_velocity_, servo_velocity_, queue, rx, wheels, head>>

-----------------------------------------------------------------------------
(* The bus *)

HasRoom(r) == Len(rx[r]) < RxLen

\* f reaches every receiver of `to' that has room for it.
Deliver(f, to) ==
  rx' = [r \in Receivers |->
           IF r \in to /\ HasRoom(r) THEN Append(rx[r], f) ELSE rx[r]]

\* f is lost for the receivers in `missed'; it matters to one it was meant for
\* unless a later frame for that one is queued.
Losing(f, missed) ==
  lost' = [r \in Receivers |->
    \/ lost[r]
    \/ r \in missed /\ IsFor(r, f)
       /\ ~\E i \in 2..Len(queue) : IsFor(r, queue[i])]

\* canbus_send_task with a frame to send.
Transmit ==
  /\ queue # << >>
  /\ queue' = Tail(queue)
  /\ Deliver(Head(queue), Receivers)
  /\ Losing(Head(queue), {r \in Receivers : ~HasRoom(r)})
  /\ UNCHANGED <<current_velocity_, servo_velocity_, sending, wheels, head, asked>>

\* twai_transmit times out after CANBUS_MAX_WAIT_MS.
TransmitFails ==
  /\ queue # << >>
  /\ queue' = Tail(queue)
  /\ Losing(Head(queue), Receivers)
  /\ UNCHANGED <<current_velocity_, servo_velocity_, sending, rx, wheels, head, asked>>

\* canbus_send_task after a second without a frame, on any controller; only
\* the P4 ever queues frames.
SendHeartbeat(n) ==
  /\ n = "p4" => queue = << >>
  /\ Deliver(Heartbeat, Receivers \ {n})
  /\ UNCHANGED <<current_velocity_, servo_velocity_, sending, queue, wheels, head, history>>

-----------------------------------------------------------------------------
(* The receivers: canbus_receive_task and the handler it calls *)

Received(r) ==
  /\ rx[r] # << >>
  /\ rx' = [rx EXCEPT ![r] = Tail(@)]
  /\ UNCHANGED <<current_velocity_, servo_velocity_, sending, queue, history>>

\* HandleControlMessage: a motion and its speed, a configured speed, or a frame
\* of no meaning to the robot.
RobotReceive ==
  /\ Received("robot")
  /\ LET f == Head(rx["robot"])
     IN  wheels' = IF f.type \in DOMAIN MotionOf
                    THEN [wheels EXCEPT !.motion = MotionOf[f.type], !.speed = f.value]
                  ELSE IF f.type = 10
                    THEN [wheels EXCEPT !.configured = f.value,
                                       !.speed = IF wheels.motion = "stop" THEN @ ELSE f.value]
                    ELSE wheels
  /\ UNCHANGED head

\* servo_control_canbus_message_handler; ServoControl has the steps and the angles.
ServoReceive ==
  /\ Received("servo")
  /\ LET f == Head(rx["servo"])
     IN  head' = IF f.type \in DOMAIN TurnOf THEN TurnOf[f.type] ELSE head
  /\ UNCHANGED wheels

-----------------------------------------------------------------------------
\* ROBOT_SPEED:n and the rest are none of the commands send_cmd looks for.
send_cmd(s) ==
  \/ \E m \in Moves : ProcessMoveCommand(s, m)
  \/ \E h \in Heads : ProcessServoCommand(s, h)
  \/ \E n \in ConfigArgs : ProcessServoConfigCommand(s, n)

canbus_receive_task == RobotReceive \/ ServoReceive

BusNext ==
  \/ \E s \in Senders : send_cmd(s) \/ AddMessageToSend(s) \/ AddMessageFails(s)
  \/ Transmit \/ TransmitFails
  \/ \E n \in Nodes : SendHeartbeat(n)
  \/ canbus_receive_task

\* The tasks of the library run; commands come as they please.
BusFair ==
  /\ WF_bus(Transmit \/ TransmitFails)
  /\ WF_bus(RobotReceive) /\ WF_bus(ServoReceive)

BusSpec == BusInit /\ [][BusNext]_bus /\ BusFair

-----------------------------------------------------------------------------
(* Properties *)

\* What a command is to bring about.
Meaning ==
  [ROBOT_UP |-> "forward", ROBOT_DOWN |-> "backward", ROBOT_LEFT |-> "left",
   ROBOT_RIGHT |-> "right", ROBOT_ROTATE_LEFT |-> "rotate_left",
   ROBOT_ROTATE_RIGHT |-> "rotate_right", ROBOT_STOP |-> "stop",
   SERVO_UP |-> "up", SERVO_DOWN |-> "down", SERVO_LEFT |-> "left",
   SERVO_RIGHT |-> "right", SERVO_STOP |-> "hold"]

InFlight(r) ==
  \/ \E i \in DOMAIN queue : IsFor(r, queue[i])
  \/ \E i \in DOMAIN rx[r] : IsFor(r, rx[r][i])

\* Once nothing is on its way, robot and head do what the last command for
\* each asked for, unless that very frame was lost: no frame of the other, no
\* heartbeat and no older frame undoes it, and both sides mean the same by a
\* message type (README.md, "MQTT -> CAN forwarding for robot motion and
\* servo control").
LastCommandStands ==
  /\ ~lost["robot"] /\ ~InFlight("robot") =>
       /\ wheels.motion = Meaning[asked.robot]
       /\ wheels.speed = IF wheels.motion = "stop" THEN 0 ELSE current_velocity_
  /\ ~lost["servo"] /\ ~InFlight("servo") => head = Meaning[asked.servo]

\* A robot that is told to stop, and then nothing more, stops if the bus
\* carried the frame, however many heartbeats come between.
StopIsCarriedOut ==
  \/ []<><<\E s \in Senders : AddMessageToSend(s)>>_bus
  \/ []<>(asked.robot # "ROBOT_STOP" \/ lost["robot"])
  \/ <>[](wheels.motion = "stop")

=============================================================================
