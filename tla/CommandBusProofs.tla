-------------------------- MODULE CommandBusProofs --------------------------
(***************************************************************************)
(* Proof that a command stands: for queues of every length, every set of   *)
(* commands in use and every order of sending, losing and receiving, robot *)
(* and head do what the last command for each asked for, once nothing is   *)
(* on its way and unless that frame was lost.                              *)
(*                                                                         *)
(* LastCommandStands speaks of the end only.  The invariant follows the    *)
(* last frame for a receiver along its line: in the send queue, else in    *)
(* what the driver holds, else in the receiver's state.                    *)
(***************************************************************************)
EXTENDS CommandBus, TLAPS

Types == {8, 2, 4, 5, 6, 7, 9, 18, 12, 14, 15, 16, 171}
Frames == [type : Types, value : Nat \cup {None}]
Commands == DOMAIN MoveType \cup DOMAIN HeadType

\* The speed a motion command is sent with.
SpeedOf(cmd) == IF cmd = "ROBOT_STOP" THEN 0 ELSE DefaultVelocity

\* f is what send_cmd makes of cmd for r.
Speaks(r, f, cmd) ==
  IF r = "robot"
    THEN cmd \in DOMAIN MoveType /\ f.type = MoveType[cmd] /\ f.value = SpeedOf(cmd)
    ELSE cmd \in DOMAIN HeadType /\ f.type = HeadType[cmd]

Silent(r, line) == \A i \in 1..Len(line) : ~IsFor(r, line[i])

\* The last frame for r in the line is that of cmd.
LastSays(r, line, cmd) ==
  \A i \in 1..Len(line) :
    IsFor(r, line[i]) /\ (\A j \in (i + 1)..Len(line) : ~IsFor(r, line[j]))
      => Speaks(r, line[i], cmd)

\* r does what cmd asks for.
Does(r, cmd) ==
  IF r = "robot" THEN wheels.motion = Meaning[cmd] /\ wheels.speed = SpeedOf(cmd)
                 ELSE head = Meaning[cmd]

BusTypes ==
  /\ current_velocity_ = DefaultVelocity /\ servo_velocity_ \in Nat
  /\ queue \in Seq(Frames)
  /\ rx \in [Receivers -> Seq(Frames)]
  /\ DOMAIN sending = Senders
  /\ asked \in [Receivers -> Commands]
  /\ lost \in [Receivers -> BOOLEAN]
  /\ DOMAIN wheels = {"motion", "speed", "configured"}

\* What a sender is about to queue is the frame of its command, and a frame
\* for nobody else.
SendersAgree ==
  \A s \in Senders : ~Ready(s) =>
    /\ sending[s].cmd \in Commands
    /\ sending[s].frame \in Frames
    /\ Speaks(Target(sending[s].cmd), sending[s].frame, sending[s].cmd)

\* The last frame for r is in the queue, or with the driver, or carried out.
Follows(r) ==
  /\ LastSays(r, queue, asked[r])
  /\ Silent(r, queue) => LastSays(r, rx[r], asked[r])
  /\ Silent(r, queue) /\ Silent(r, rx[r]) => Does(r, asked[r])

BusInv ==
  /\ BusTypes
  /\ SendersAgree
  /\ asked["robot"] \in DOMAIN MoveType /\ asked["servo"] \in DOMAIN HeadType
  /\ \A r \in Receivers : lost[r] = FALSE => Follows(r)

-----------------------------------------------------------------------------
(* Frames *)

\* Which types are for whom.
LEMMA WhoseFrames ==
  ASSUME NEW f
  PROVE  /\ IsFor("robot", f) <=> f.type \in {8, 2, 4, 5, 6, 7, 9}
         /\ IsFor("servo", f) <=> f.type \in {18, 12, 14, 15, 16}
<1>1. /\ MoveType["ROBOT_UP"] = 8 /\ MoveType["ROBOT_DOWN"] = 2
      /\ MoveType["ROBOT_LEFT"] = 4 /\ MoveType["ROBOT_RIGHT"] = 6
      /\ MoveType["ROBOT_ROTATE_LEFT"] = 7 /\ MoveType["ROBOT_ROTATE_RIGHT"] = 9
      /\ MoveType["ROBOT_STOP"] = 5
  BY DEF MoveType
<1>2. DOMAIN MoveType = {"ROBOT_UP", "ROBOT_DOWN", "ROBOT_LEFT", "ROBOT_RIGHT",
                         "ROBOT_ROTATE_LEFT", "ROBOT_ROTATE_RIGHT", "ROBOT_STOP"}
  BY DEF MoveType
<1>3. /\ HeadType["SERVO_UP"] = 18 /\ HeadType["SERVO_DOWN"] = 12
      /\ HeadType["SERVO_LEFT"] = 14 /\ HeadType["SERVO_RIGHT"] = 16
      /\ HeadType["SERVO_STOP"] = 15
  BY DEF HeadType
<1>4. DOMAIN HeadType = {"SERVO_UP", "SERVO_DOWN", "SERVO_LEFT", "SERVO_RIGHT", "SERVO_STOP"}
  BY DEF HeadType
<1>5. IsFor("robot", f) <=> f.type \in {8, 2, 4, 5, 6, 7, 9}
  BY <1>1, <1>2, Zenon DEF IsFor
<1>6. IsFor("servo", f) <=> f.type \in {18, 12, 14, 15, 16}
  <2>1. IsFor("servo", f) <=> \E h \in DOMAIN HeadType : HeadType[h] = f.type
    BY DEF IsFor
  <2> QED BY <2>1, <1>3, <1>4, Zenon
<1> QED BY <1>5, <1>6

\* The frame of a command is one for its receiver and for no other.
LEMMA SpokenToOne ==
  ASSUME NEW cmd \in Commands, NEW f, Speaks(Target(cmd), f, cmd)
  PROVE  /\ IsFor(Target(cmd), f)
         /\ \A r \in Receivers : r # Target(cmd) => ~IsFor(r, f)
<1>1. CASE cmd \in DOMAIN MoveType
  <2>1. Target(cmd) = "robot" BY <1>1 DEF Target
  <2>2. f.type \in {8, 2, 4, 5, 6, 7, 9} BY <2>1, <1>1 DEF Speaks, MoveType
  <2>3. f.type \notin {18, 12, 14, 15, 16} BY <2>2
  <2> QED BY <2>1, <2>2, <2>3, WhoseFrames DEF Receivers
<1>2. CASE cmd \notin DOMAIN MoveType
  <2>1. Target(cmd) = "servo" BY <1>2 DEF Target
  <2>2. f.type \in {18, 12, 14, 15, 16} BY <2>1, <1>2 DEF Speaks, HeadType, Commands
  <2>3. f.type \notin {8, 2, 4, 5, 6, 7, 9} BY <2>2
  <2> QED BY <2>1, <2>2, <2>3, WhoseFrames DEF Receivers
<1> QED BY <1>1, <1>2

-----------------------------------------------------------------------------
(* Lines of frames *)

LEMMA SilentAppend ==
  ASSUME NEW r, NEW line \in Seq(Frames), NEW f \in Frames, Silent(r, Append(line, f))
  PROVE  Silent(r, line) /\ ~IsFor(r, f)
<1>1. Len(Append(line, f)) = Len(line) + 1 /\ Len(line) \in Nat
  BY DEF Frames
<1>2. Append(line, f)[Len(line) + 1] = f
  OBVIOUS
<1>3. \A i \in 1..Len(line) : Append(line, f)[i] = line[i]
  OBVIOUS
<1>4. Len(line) + 1 \in 1..Len(Append(line, f)) /\ 1..Len(line) \subseteq 1..Len(Append(line, f))
  BY <1>1
<1> QED BY <1>2, <1>3, <1>4, Zenon DEF Silent

LEMMA SilentTail ==
  ASSUME NEW r, NEW line \in Seq(Frames), line # << >>,
         Silent(r, Tail(line)), ~IsFor(r, Head(line))
  PROVE  Silent(r, line)
<1> SUFFICES ASSUME NEW i \in 1..Len(line) PROVE ~IsFor(r, line[i])
  BY DEF Silent
<1>1. CASE i = 1
  <2>1. line[i] = Head(line) BY <1>1
  <2> QED BY <2>1
<1>2. CASE i # 1
  <2>1. i - 1 \in 1..Len(Tail(line)) /\ Tail(line)[i - 1] = line[i]
    BY <1>2
  <2> QED BY <2>1, Zenon DEF Silent
<1> QED BY <1>1, <1>2

\* A frame put behind a line is the last one if it is for r.
LEMMA LastAppend ==
  ASSUME NEW r, NEW cmd, NEW line \in Seq(Frames), NEW f \in Frames,
         IsFor(r, f) => Speaks(r, f, cmd),
         ~IsFor(r, f) => LastSays(r, line, cmd)
  PROVE  LastSays(r, Append(line, f), cmd)
<1> DEFINE n == Len(line)
           l == Append(line, f)
<1>1. n \in Nat /\ Len(l) = n + 1 /\ l[n + 1] = f
  OBVIOUS
<1>2. \A i \in 1..n : l[i] = line[i]
  OBVIOUS
<1> SUFFICES ASSUME NEW i \in 1..Len(l), IsFor(r, l[i]),
                    \A j \in (i + 1)..Len(l) : ~IsFor(r, l[j])
             PROVE  Speaks(r, l[i], cmd)
  BY Zenon DEF LastSays
<1> HIDE DEF l, n
<1>3. CASE i = n + 1
  BY <1>1, <1>3, Zenon
<1>4. CASE i # n + 1
  <2>1. i \in 1..n /\ n + 1 \in (i + 1)..Len(l) BY <1>1, <1>4
  <2>2. ~IsFor(r, f) BY <2>1, <1>1, Zenon
  <2>3. l[i] = line[i] BY <2>1, <1>2
  <2>4. \A j \in (i + 1)..n : j \in (i + 1)..Len(l) /\ l[j] = line[j]
    BY <1>1, <1>2, <2>1
  <2>5. IsFor(r, line[i]) /\ \A j \in (i + 1)..n : ~IsFor(r, line[j])
    BY <2>3, <2>4, Zenon
  <2>6. LastSays(r, line, cmd) BY <2>2
  <2> QED BY <2>1, <2>3, <2>5, <2>6, Zenon DEF LastSays, n
<1> QED BY <1>3, <1>4

\* Taking the first frame leaves the last one, unless it was that.
LEMMA LastTail ==
  ASSUME NEW r, NEW cmd, NEW line \in Seq(Frames), line # << >>, LastSays(r, line, cmd)
  PROVE  /\ LastSays(r, Tail(line), cmd)
         /\ IsFor(r, Head(line)) /\ Silent(r, Tail(line)) => Speaks(r, Head(line), cmd)
<1> DEFINE n == Len(line)
           t == Tail(line)
<1>1. n \in Nat /\ n >= 1 /\ Len(t) = n - 1 /\ Head(line) = line[1] /\ t \in Seq(Frames)
  OBVIOUS
<1>2. \A i \in 1..Len(t) : t[i] = line[i + 1]
  OBVIOUS
<1> HIDE DEF n, t
<1>3. LastSays(r, t, cmd)
  <2> SUFFICES ASSUME NEW i \in 1..Len(t), IsFor(r, t[i]),
                      \A j \in (i + 1)..Len(t) : ~IsFor(r, t[j])
               PROVE  Speaks(r, t[i], cmd)
    BY Zenon DEF LastSays
  <2>1. i + 1 \in 1..n /\ t[i] = line[i + 1] BY <1>1, <1>2
  <2>2. \A j \in (i + 1 + 1)..n : ~IsFor(r, line[j])
    <3> TAKE j \in (i + 1 + 1)..n
    <3>1. j - 1 \in (i + 1)..Len(t) /\ j - 1 \in 1..Len(t) /\ (j - 1) + 1 = j BY <1>1
    <3>2. t[j - 1] = line[j] BY <3>1, <1>2
    <3> QED BY <3>1, <3>2, Zenon
  <2> QED BY <2>1, <2>2, Zenon DEF LastSays, n
<1>4. ASSUME IsFor(r, Head(line)), Silent(r, t)
      PROVE  Speaks(r, Head(line), cmd)
  <2>1. \A j \in (1 + 1)..n : ~IsFor(r, line[j])
    <3> TAKE j \in (1 + 1)..n
    <3>1. j - 1 \in 1..Len(t) /\ (j - 1) + 1 = j BY <1>1
    <3>2. t[j - 1] = line[j] BY <3>1, <1>2
    <3> QED BY <3>1, <3>2, <1>4, Zenon DEF Silent
  <2>2. 1 \in 1..n BY <1>1
  <2>3. IsFor(r, line[1]) BY <1>1, <1>4, Zenon
  <2>4. Speaks(r, line[1], cmd) BY <2>1, <2>2, <2>3, Zenon DEF LastSays, n
  <2> QED BY <2>4, <1>1, Zenon
<1> QED BY <1>3, <1>4, Zenon DEF t

-----------------------------------------------------------------------------
(* The invariant *)

LEMMA InitBusInv == BusInit => BusInv
<1> SUFFICES ASSUME BusInit PROVE BusInv
  OBVIOUS
<1> USE DEF BusInit, history
<1>1. BusTypes
  BY DEF BusTypes, DefaultVelocity, Receivers, Commands, MoveType, HeadType
<1>2. SendersAgree
  BY DEF SendersAgree, Ready
<1>3. asked["robot"] = "ROBOT_STOP" /\ asked["servo"] = "SERVO_STOP"
  OBVIOUS
<1>4. asked["robot"] \in DOMAIN MoveType /\ asked["servo"] \in DOMAIN HeadType
  BY <1>3 DEF MoveType, HeadType
<1>5. ASSUME NEW r \in Receivers PROVE Follows(r)
  <2>1. Silent(r, << >>) /\ \A cmd : LastSays(r, << >>, cmd)
    BY DEF Silent, LastSays
  <2>2. Does(r, asked[r])
    BY <1>3 DEF Does, Receivers, Meaning, SpeedOf
  <2>3. queue = << >> /\ rx[r] = << >> BY <1>5
  <2> QED BY <2>1, <2>2, <2>3, Zenon DEF Follows
<1> QED BY <1>1, <1>2, <1>4, <1>5 DEF BusInv

\* A receiver nothing happens to keeps its command.
LEMMA StillFollows ==
  ASSUME NEW r \in Receivers, Follows(r), asked'[r] = asked[r], queue' = queue,
         rx'[r] = rx[r], wheels' = wheels, head' = head
  PROVE  Follows(r)'
<1>1. Does(r, asked[r]) => Does(r, asked[r])'
  BY DEF Does
<1>2. LastSays(r, queue, asked[r])'
  BY DEF Follows, LastSays, IsFor, Speaks
<1>3. Silent(r, queue)' => Silent(r, queue)
  BY DEF Silent, IsFor
<1>4. Silent(r, rx[r])' => Silent(r, rx[r])
  BY DEF Silent, IsFor
<1>5. LastSays(r, rx[r], asked[r]) => LastSays(r, rx[r], asked[r])'
  BY DEF LastSays, IsFor, Speaks
<1> QED BY <1>1, <1>2, <1>3, <1>4, <1>5, Zenon DEF Follows

\* Queueing a command, or failing to.
LEMMA AddFollows ==
  ASSUME BusInv, NEW s \in Senders,
         AddMessageToSend(s) \/ AddMessageFails(s)
  PROVE  BusInv'
<1> DEFINE cmd == sending[s].cmd
           f == sending[s].frame
           to == Target(cmd)
<1>0. ~Ready(s) BY DEF AddMessageToSend, AddMessageFails
<1>1. cmd \in Commands /\ f \in Frames /\ Speaks(to, f, cmd)
  BY <1>0 DEF BusInv, SendersAgree
<1>2. to \in Receivers BY DEF Target, Receivers
<1>3. IsFor(to, f) /\ \A r \in Receivers : r # to => ~IsFor(r, f)
  BY <1>1, SpokenToOne, Zenon
<1>4. asked' = [asked EXCEPT ![to] = cmd] /\ sending' = [sending EXCEPT ![s] = None]
  BY DEF AddMessageToSend, AddMessageFails, Asked
<1>5. UNCHANGED <<current_velocity_, servo_velocity_, rx, wheels, head>>
  BY DEF AddMessageToSend, AddMessageFails
<1>6. \/ queue' = Append(queue, f) /\ lost' = [lost EXCEPT ![to] = FALSE]
      \/ queue' = queue /\ lost' = [lost EXCEPT ![to] = TRUE]
  BY DEF AddMessageToSend, AddMessageFails
<1> HIDE DEF cmd, f, to
<1>7. BusTypes BY DEF BusInv
<1>8. queue' \in Seq(Frames)
  <2>1. queue \in Seq(Frames) BY <1>7 DEF BusTypes
  <2>2. Append(queue, f) \in Seq(Frames) BY <2>1, <1>1
  <2> QED BY <2>1, <2>2, <1>6, Zenon
<1>9. lost' \in [Receivers -> BOOLEAN]
  BY <1>6, <1>7, Zenon DEF BusTypes
<1>10. asked' \in [Receivers -> Commands]
  BY <1>1, <1>4, <1>7, Zenon DEF BusTypes
<1>11. DOMAIN sending' = Senders
  BY <1>4, <1>7, Zenon DEF BusTypes
<1>12. BusTypes'
  BY <1>5, <1>7, <1>8, <1>9, <1>10, <1>11 DEF BusTypes
<1>13. SendersAgree'
  <2> SUFFICES ASSUME NEW u \in Senders, ~Ready(u)'
               PROVE  sending'[u] = sending[u] /\ ~Ready(u)
    BY DEF BusInv, SendersAgree, Speaks, Ready
  <2>1. u # s BY <1>4, <1>7 DEF Ready, BusTypes
  <2> QED BY <2>1, <1>4 DEF Ready
<1>14. asked'["robot"] \in DOMAIN MoveType /\ asked'["servo"] \in DOMAIN HeadType
  <2>1. CASE to = "robot"
    <3>1. cmd \in DOMAIN MoveType BY <1>1, <2>1, Zenon DEF Speaks
    <3> QED BY <3>1, <2>1, <1>4, <1>7 DEF BusInv, BusTypes, Receivers
  <2>2. CASE to = "servo"
    <3>1. cmd \in DOMAIN HeadType BY <1>1, <2>2 DEF Speaks
    <3> QED BY <3>1, <2>2, <1>4, <1>7 DEF BusInv, BusTypes, Receivers
  <2> QED BY <2>1, <2>2, <1>2 DEF Receivers
<1>15. ASSUME NEW r \in Receivers, lost'[r] = FALSE
       PROVE  Follows(r)'
  <2>1. CASE r = to
    <3>1. queue' = Append(queue, f)
      BY <1>6, <1>7, <1>15, <2>1 DEF BusTypes
    <3>2. asked'[r] = cmd BY <1>4, <1>7, <2>1 DEF BusTypes
    <3>3. LastSays(r, queue', cmd)
      BY <3>1, <1>1, <1>3, <1>7, <2>1, LastAppend, Zenon DEF BusTypes
    <3>4. ~Silent(r, queue')
      BY <3>1, <1>1, <1>3, <1>7, <2>1, SilentAppend, Zenon DEF BusTypes
    <3>5. LastSays(r, queue, asked[r])' BY <3>2, <3>3 DEF LastSays, IsFor, Speaks
    <3>6. ~Silent(r, queue)' BY <3>4 DEF Silent, IsFor
    <3> QED BY <3>5, <3>6 DEF Follows
  <2>2. CASE r # to
    <3>1. asked'[r] = asked[r] /\ lost[r] = FALSE
      BY <1>4, <1>6, <1>7, <1>15, <2>2 DEF BusTypes
    <3>2. Follows(r) BY <3>1 DEF BusInv
    <3>3. ~IsFor(r, f) BY <1>3, <2>2
    <3>4. CASE queue' = Append(queue, f)
      <4>1. LastSays(r, queue', asked[r])
        BY <3>2, <3>3, <3>4, <1>1, <1>7, LastAppend, Zenon DEF Follows, BusTypes
      <4>2. Silent(r, queue') => Silent(r, queue)
        BY <3>4, <1>1, <1>7, SilentAppend, Zenon DEF BusTypes
      <4>3. LastSays(r, queue, asked[r])' /\ (Silent(r, queue)' => Silent(r, queue'))
        BY <4>1, <3>1 DEF LastSays, Silent, IsFor, Speaks
      <4>4. Silent(r, queue)' => LastSays(r, rx[r], asked[r])'
        BY <4>2, <4>3, <3>1, <3>2, <1>5 DEF Follows, LastSays, IsFor, Speaks
      <4>5. Silent(r, rx[r])' => Silent(r, rx[r])
        BY <1>5 DEF Silent, IsFor
      <4>6. Does(r, asked[r]) => Does(r, asked[r])'
        BY <3>1, <1>5 DEF Does
      <4> QED BY <4>2, <4>3, <4>4, <4>5, <4>6, <3>2 DEF Follows
    <3>5. CASE queue' = queue
      BY <3>1, <3>2, <3>5, <1>5, StillFollows
    <3> QED BY <3>4, <3>5, <1>6
  <2> QED BY <2>1, <2>2
<1> QED BY <1>12, <1>13, <1>14, <1>15 DEF BusInv

\* A command on its way from send_cmd to the queue.
LEMMA SendFollows ==
  ASSUME BusInv, NEW s \in Senders, send_cmd(s)
  PROVE  BusInv'
<1> USE BusAssumption
<1>1. UNCHANGED <<queue, rx, wheels, head, asked, lost, current_velocity_>>
  BY DEF send_cmd, ProcessMoveCommand, ProcessServoCommand, ProcessServoConfigCommand,
         Sending, history
<1>2. BusTypes /\ SendersAgree BY DEF BusInv
<1>3. ASSUME NEW r \in Receivers, lost'[r] = FALSE PROVE Follows(r)'
  BY <1>1, <1>3, StillFollows DEF BusInv
<1>4. ASSUME NEW cmd \in Commands, NEW f \in Frames, Speaks(Target(cmd), f, cmd),
             sending' = [sending EXCEPT ![s] = [cmd |-> cmd, frame |-> f]]
      PROVE  SendersAgree' /\ DOMAIN sending' = Senders
  <2>1. DOMAIN sending' = Senders BY <1>2, <1>4, Zenon DEF BusTypes
  <2> SUFFICES ASSUME NEW u \in Senders, ~Ready(u)'
               PROVE  /\ sending'[u].cmd \in Commands /\ sending'[u].frame \in Frames
                      /\ Speaks(Target(sending'[u].cmd), sending'[u].frame, sending'[u].cmd)
    BY <2>1 DEF SendersAgree, Speaks
  <2>2. CASE u = s
    <3>1. sending'[u] = [cmd |-> cmd, frame |-> f] BY <2>2, <1>2, <1>4, Zenon DEF BusTypes
    <3>2. sending'[u].cmd = cmd /\ sending'[u].frame = f BY <3>1
    <3> QED BY <3>2, <1>4, Zenon
  <2>3. CASE u # s
    <3>1. sending'[u] = sending[u] BY <2>3, <1>2, <1>4, Zenon DEF BusTypes
    <3>2. ~Ready(u) BY <3>1 DEF Ready
    <3> QED BY <3>1, <3>2, <1>2, Zenon DEF SendersAgree
  <2> QED BY <2>2, <2>3
<1>5. SendersAgree' /\ DOMAIN sending' = Senders /\ servo_velocity_' \in Nat
  <2>1. ASSUME NEW m \in Moves, ProcessMoveCommand(s, m)
        PROVE  SendersAgree' /\ DOMAIN sending' = Senders /\ servo_velocity_' \in Nat
    <3> DEFINE f == Frame(MoveType[m], IF m = "ROBOT_STOP" THEN 0 ELSE current_velocity_)
    <3>1. m \in DOMAIN MoveType /\ m \in Commands BY BusAssumption DEF Commands
    <3>2. f.type = MoveType[m] /\ f.value = SpeedOf(m)
      BY <1>2 DEF Frame, SpeedOf, BusTypes
    <3>3. MoveType[m] \in Types BY <3>1 DEF MoveType, Types
    <3>4. SpeedOf(m) \in Nat \cup {None} BY DEF SpeedOf, DefaultVelocity
    <3>5. f \in Frames BY <3>2, <3>3, <3>4 DEF Frame, Frames
    <3>6. Target(m) = "robot" BY <3>1, Zenon DEF Target
    <3>7. Speaks(Target(m), f, m) BY <3>1, <3>2, <3>6, Zenon DEF Speaks
    <3>8. sending' = [sending EXCEPT ![s] = [cmd |-> m, frame |-> f]]
      BY <2>1 DEF ProcessMoveCommand, Sending
    <3>9. servo_velocity_' \in Nat BY <2>1, <1>2 DEF ProcessMoveCommand, Sending, BusTypes
    <3> QED BY <3>1, <3>5, <3>7, <3>8, <3>9, <1>4, Zenon
  <2>2. ASSUME NEW h \in Heads, ProcessServoCommand(s, h)
        PROVE  SendersAgree' /\ DOMAIN sending' = Senders /\ servo_velocity_' \in Nat
    <3> DEFINE f == Frame(HeadType[h], IF h = "SERVO_STOP" THEN 0 ELSE servo_velocity_)
    <3>1. h \in DOMAIN HeadType /\ h \in Commands BY BusAssumption DEF Commands
    <3>2. f.type = HeadType[h] BY DEF Frame
    <3>3. HeadType[h] \in Types BY <3>1 DEF HeadType, Types
    <3>4. servo_velocity_ \in Nat BY <1>2 DEF BusTypes
    <3>5. f \in Frames BY <3>3, <3>4 DEF Frame, Frames
    <3>6. Target(h) = "servo" BY <3>1 DEF Target, MoveType, HeadType
    <3>7. Speaks(Target(h), f, h) BY <3>1, <3>2, <3>6 DEF Speaks
    <3>8. sending' = [sending EXCEPT ![s] = [cmd |-> h, frame |-> f]]
      BY <2>2 DEF ProcessServoCommand, Sending
    <3>9. servo_velocity_' \in Nat BY <2>2, <3>4 DEF ProcessServoCommand, Sending
    <3> QED BY <3>1, <3>5, <3>7, <3>8, <3>9, <1>4, Zenon
  <2>3. ASSUME NEW n \in ConfigArgs, ProcessServoConfigCommand(s, n)
        PROVE  SendersAgree' /\ DOMAIN sending' = Senders /\ servo_velocity_' \in Nat
    <3>1. sending' = sending /\ servo_velocity_' \in Nat
      BY <2>3, BusAssumption DEF ProcessServoConfigCommand, MaxServoStep
    <3> QED BY <3>1, <1>2 DEF SendersAgree, Ready, Speaks, BusTypes
  <2> QED BY <2>1, <2>2, <2>3 DEF send_cmd
<1>6. BusTypes' BY <1>1, <1>2, <1>5 DEF BusTypes
<1> QED BY <1>1, <1>3, <1>5, <1>6 DEF BusInv

\* A frame leaves the queue, for the drivers or for nowhere.
LEMMA TransmitFollows ==
  ASSUME BusInv, Transmit \/ TransmitFails
  PROVE  BusInv'
<1> DEFINE f == Head(queue)
<1>1. queue # << >> /\ queue' = Tail(queue)
  BY DEF Transmit, TransmitFails
<1>2. UNCHANGED <<current_velocity_, servo_velocity_, sending, wheels, head, asked>>
  BY DEF Transmit, TransmitFails
<1>3. BusTypes /\ SendersAgree BY DEF BusInv
<1>4. queue \in Seq(Frames) /\ rx \in [Receivers -> Seq(Frames)] /\ lost \in [Receivers -> BOOLEAN]
  BY <1>3 DEF BusTypes
<1>5. f \in Frames /\ queue' \in Seq(Frames) BY <1>1, <1>4
<1>6. ASSUME NEW r \in Receivers
      PROVE  /\ rx'[r] = rx[r] \/ rx'[r] = Append(rx[r], f)
             /\ lost'[r] \in BOOLEAN
             /\ lost'[r] = FALSE =>
                  /\ lost[r] = FALSE
                  /\ \/ rx'[r] = Append(rx[r], f)
                     \/ ~IsFor(r, f)
                     \/ \E i \in 2..Len(queue) : IsFor(r, queue[i])
  <2>1. CASE Transmit
    BY <2>1, <1>4 DEF Transmit, Deliver, Losing, HasRoom
  <2>2. CASE TransmitFails
    BY <2>2, <1>4 DEF TransmitFails, Losing
  <2> QED BY <2>1, <2>2
<1>7. rx' \in [Receivers -> Seq(Frames)]
  <2>1. DOMAIN rx' = Receivers /\ rx' = [r \in Receivers |-> rx'[r]]
    BY <1>4 DEF Transmit, TransmitFails, Deliver
  <2>2. ASSUME NEW r \in Receivers PROVE rx'[r] \in Seq(Frames)
    <3>1. rx[r] \in Seq(Frames) BY <1>4
    <3>2. Append(rx[r], f) \in Seq(Frames) BY <3>1, <1>5
    <3> QED BY <3>1, <3>2, <1>6, Zenon
  <2> QED BY <2>1, <2>2, Zenon
<1>8. lost' \in [Receivers -> BOOLEAN]
  <2>1. lost' = [r \in Receivers |-> lost'[r]]
    BY DEF Transmit, TransmitFails, Losing
  <2> QED BY <2>1, <1>6, Zenon
<1>9. BusTypes' BY <1>2, <1>3, <1>5, <1>7, <1>8 DEF BusTypes
<1>10. SendersAgree' BY <1>2, <1>3 DEF SendersAgree, Ready, Speaks
<1>11. ASSUME NEW r \in Receivers, lost'[r] = FALSE
       PROVE  Follows(r)'
  <2> DEFINE c == asked[r]
  <2>1. Follows(r) /\ lost[r] = FALSE BY <1>6, <1>11, Zenon DEF BusInv
  <2>2. /\ LastSays(r, Tail(queue), c)
        /\ IsFor(r, f) /\ Silent(r, Tail(queue)) => Speaks(r, f, c)
    BY <2>1, <1>1, <1>4, LastTail, Zenon DEF Follows
  <2>3. Silent(r, Tail(queue)) /\ ~IsFor(r, f) => Silent(r, queue)
    BY <1>1, <1>4, SilentTail, Zenon
  <2>4. Silent(r, Tail(queue)) => LastSays(r, rx'[r], c)
    <3> SUFFICES ASSUME Silent(r, Tail(queue)) PROVE LastSays(r, rx'[r], c)
      OBVIOUS
    <3>1. IsFor(r, f) => Speaks(r, f, c) BY <2>2
    <3>2. ~IsFor(r, f) => LastSays(r, rx[r], c) BY <2>1, <2>3 DEF Follows
    <3>3. LastSays(r, Append(rx[r], f), c)
      BY <3>1, <3>2, <1>4, <1>5, LastAppend, Zenon
    <3>4. CASE rx'[r] = Append(rx[r], f) BY <3>3, <3>4
    <3>5. CASE rx'[r] # Append(rx[r], f)
      <4>1. ~\E i \in 2..Len(queue) : IsFor(r, queue[i])
        <5> SUFFICES ASSUME NEW i \in 2..Len(queue), IsFor(r, queue[i]) PROVE FALSE
          OBVIOUS
        <5>1. i - 1 \in 1..Len(Tail(queue)) /\ Tail(queue)[i - 1] = queue[i]
          BY <1>1, <1>4
        <5> QED BY <5>1, Zenon DEF Silent
      <4>2. ~IsFor(r, f) /\ rx'[r] = rx[r] BY <4>1, <3>5, <1>6, <1>11, Zenon
      <4> QED BY <4>2, <3>2
    <3> QED BY <3>4, <3>5
  <2>5. Silent(r, Tail(queue)) /\ Silent(r, rx'[r]) => Does(r, c)
    <3> SUFFICES ASSUME Silent(r, Tail(queue)), Silent(r, rx'[r]) PROVE Does(r, c)
      OBVIOUS
    <3>1. rx[r] \in Seq(Frames) BY <1>4
    <3>2. CASE rx'[r] = Append(rx[r], f)
      <4>1. Silent(r, rx[r]) /\ ~IsFor(r, f) BY <3>1, <3>2, <1>5, SilentAppend, Zenon
      <4> QED BY <4>1, <2>1, <2>3 DEF Follows
    <3>3. CASE rx'[r] # Append(rx[r], f)
      <4>1. ~\E i \in 2..Len(queue) : IsFor(r, queue[i])
        <5> SUFFICES ASSUME NEW i \in 2..Len(queue), IsFor(r, queue[i]) PROVE FALSE
          OBVIOUS
        <5>1. i - 1 \in 1..Len(Tail(queue)) /\ Tail(queue)[i - 1] = queue[i]
          BY <1>1, <1>4
        <5> QED BY <5>1, Zenon DEF Silent
      <4>2. ~IsFor(r, f) /\ rx'[r] = rx[r] BY <4>1, <3>3, <1>6, <1>11, Zenon
      <4> QED BY <4>2, <2>1, <2>3 DEF Follows
    <3> QED BY <3>2, <3>3
  <2>6. asked'[r] = c BY <1>2
  <2> HIDE DEF c
  <2>7. LastSays(r, queue, asked[r])' BY <2>2, <2>6, <1>1 DEF LastSays, IsFor, Speaks
  <2>8. Silent(r, queue)' => Silent(r, Tail(queue)) BY <1>1 DEF Silent, IsFor
  <2>9. Silent(r, rx[r])' => Silent(r, rx'[r]) BY DEF Silent, IsFor
  <2>10. LastSays(r, rx'[r], c) => LastSays(r, rx[r], asked[r])'
    BY <2>6 DEF LastSays, IsFor, Speaks
  <2>11. Does(r, c) => Does(r, asked[r])' BY <2>6, <1>2 DEF Does
  <2> QED BY <2>4, <2>5, <2>7, <2>8, <2>9, <2>10, <2>11, Zenon DEF Follows
<1>12. asked'["robot"] \in DOMAIN MoveType /\ asked'["servo"] \in DOMAIN HeadType
  BY <1>2 DEF BusInv
<1> QED BY <1>9, <1>10, <1>11, <1>12 DEF BusInv

\* A heartbeat is for nobody.
LEMMA HeartbeatFollows ==
  ASSUME BusInv, NEW n \in Nodes, SendHeartbeat(n)
  PROVE  BusInv'
<1>1. UNCHANGED <<current_velocity_, servo_velocity_, sending, queue, wheels, head, asked, lost>>
  BY DEF SendHeartbeat, history
<1>2. BusTypes /\ SendersAgree BY DEF BusInv
<1>3. rx \in [Receivers -> Seq(Frames)] BY <1>2 DEF BusTypes
<1>4. Heartbeat \in Frames /\ \A r \in Receivers : ~IsFor(r, Heartbeat)
  <2>1. Heartbeat.type = 171 /\ Heartbeat \in Frames BY DEF Heartbeat, Frame, Frames, Types
  <2>2. Heartbeat.type \notin {8, 2, 4, 5, 6, 7, 9} /\ Heartbeat.type \notin {18, 12, 14, 15, 16}
    BY <2>1
  <2> QED BY <2>1, <2>2, WhoseFrames DEF Receivers
<1>5. \A r \in Receivers : rx'[r] = rx[r] \/ rx'[r] = Append(rx[r], Heartbeat)
  BY DEF SendHeartbeat, Deliver
<1>6. rx' \in [Receivers -> Seq(Frames)]
  <2>1. rx' = [r \in Receivers |-> rx'[r]] BY DEF SendHeartbeat, Deliver
  <2>2. ASSUME NEW r \in Receivers PROVE rx'[r] \in Seq(Frames)
    <3>1. rx[r] \in Seq(Frames) BY <1>3
    <3>2. Append(rx[r], Heartbeat) \in Seq(Frames) BY <3>1, <1>4
    <3> QED BY <3>1, <3>2, <1>5, Zenon
  <2> QED BY <2>1, <2>2, Zenon
<1>7. ASSUME NEW r \in Receivers, lost'[r] = FALSE PROVE Follows(r)'
  <2>1. Follows(r) BY <1>1, <1>7 DEF BusInv
  <2>2. CASE rx'[r] = rx[r] BY <2>1, <2>2, <1>1, StillFollows
  <2>3. CASE rx'[r] = Append(rx[r], Heartbeat)
    <3>1. LastSays(r, rx[r], asked[r]) => LastSays(r, rx'[r], asked[r])
      BY <2>3, <1>3, <1>4, LastAppend, Zenon
    <3>2. Silent(r, rx'[r]) => Silent(r, rx[r])
      BY <2>3, <1>3, <1>4, SilentAppend, Zenon
    <3>3. LastSays(r, queue, asked[r])' BY <2>1, <1>1 DEF Follows, LastSays, IsFor, Speaks
    <3>4. Silent(r, queue)' => Silent(r, queue) BY <1>1 DEF Silent, IsFor
    <3>5. Silent(r, rx[r])' => Silent(r, rx'[r]) BY DEF Silent, IsFor
    <3>6. LastSays(r, rx'[r], asked[r]) => LastSays(r, rx[r], asked[r])'
      BY <1>1 DEF LastSays, IsFor, Speaks
    <3>7. Does(r, asked[r]) => Does(r, asked[r])' BY <1>1 DEF Does
    <3> QED BY <2>1, <3>1, <3>2, <3>3, <3>4, <3>5, <3>6, <3>7, Zenon DEF Follows
  <2> QED BY <2>2, <2>3, <1>5
<1>8. BusTypes' BY <1>1, <1>2, <1>6 DEF BusTypes
<1>9. SendersAgree' BY <1>1, <1>2 DEF SendersAgree, Ready, Speaks
<1> QED BY <1>1, <1>7, <1>8, <1>9 DEF BusInv

\* What the receiver of a frame does is what the frame says.
LEMMA ReceiverDoes ==
  ASSUME BusInv, NEW r \in Receivers, rx[r] # << >>,
         (r = "robot" /\ RobotReceive) \/ (r = "servo" /\ ServoReceive),
         Head(rx[r]).type \in Types
  PROVE  /\ Speaks(r, Head(rx[r]), asked[r]) => Does(r, asked[r])'
         /\ ~IsFor(r, Head(rx[r])) /\ Does(r, asked[r]) => Does(r, asked[r])'
         /\ DOMAIN wheels' = {"motion", "speed", "configured"}
<1> DEFINE f == Head(rx[r])
<1>1. f.type \in Types OBVIOUS
<1>2. asked' = asked BY DEF RobotReceive, ServoReceive, Received, history
<1>3. DOMAIN wheels = {"motion", "speed", "configured"} BY DEF BusInv, BusTypes
<1>4. CASE r = "robot"
  <2>1. RobotReceive BY <1>4
  <2>2. wheels' = IF f.type \in DOMAIN MotionOf
                   THEN [wheels EXCEPT !.motion = MotionOf[f.type], !.speed = f.value]
                 ELSE IF f.type = 10
                   THEN [wheels EXCEPT !.configured = f.value,
                                      !.speed = IF wheels.motion = "stop" THEN @ ELSE f.value]
                   ELSE wheels
    BY <2>1, <1>4 DEF RobotReceive
  <2> HIDE DEF f
  <2>3. DOMAIN MotionOf = {8, 2, 4, 5, 6, 7, 9} BY DEF MotionOf
  <2>4. DOMAIN wheels' = DOMAIN wheels BY <2>2
  <2>5. ASSUME Speaks(r, f, asked[r]) PROVE Does(r, asked[r])'
    <3>1. asked[r] \in DOMAIN MoveType /\ f.type = MoveType[asked[r]] /\ f.value = SpeedOf(asked[r])
      BY <2>5, <1>4 DEF Speaks
    <3>2. f.type \in DOMAIN MotionOf /\ MotionOf[f.type] = Meaning[asked[r]]
      BY <3>1 DEF MoveType, MotionOf, Meaning
    <3>3. wheels'.motion = MotionOf[f.type] /\ wheels'.speed = f.value
      BY <2>2, <3>2, <1>3
    <3> QED BY <3>1, <3>2, <3>3, <1>2, <1>4 DEF Does
  <2>6. ASSUME ~IsFor(r, f), Does(r, asked[r]) PROVE Does(r, asked[r])'
    <3>1. f.type \notin {8, 2, 4, 5, 6, 7, 9} BY <2>6, <1>4, WhoseFrames, Zenon
    <3>2. f.type # 10 BY <1>1 DEF Types
    <3>3. wheels' = wheels BY <2>2, <2>3, <3>1, <3>2
    <3> QED BY <2>6, <3>3, <1>2, <1>4 DEF Does
  <2> QED BY <2>4, <2>5, <2>6, <1>3 DEF f
<1>5. CASE r = "servo"
  <2>1. ServoReceive BY <1>5
  <2>2. /\ wheels' = wheels
        /\ head' = IF f.type \in DOMAIN TurnOf THEN TurnOf[f.type] ELSE head
    BY <2>1, <1>5 DEF ServoReceive
  <2> HIDE DEF f
  <2>3. DOMAIN TurnOf = {18, 12, 14, 15, 16} BY DEF TurnOf
  <2>4. ASSUME Speaks(r, f, asked[r]) PROVE Does(r, asked[r])'
    <3>1. asked[r] \in DOMAIN HeadType /\ f.type = HeadType[asked[r]]
      BY <2>4, <1>5 DEF Speaks
    <3>2. f.type \in DOMAIN TurnOf /\ TurnOf[f.type] = Meaning[asked[r]]
      BY <3>1 DEF HeadType, TurnOf, Meaning
    <3>3. head' = TurnOf[f.type] BY <2>2, <3>2
    <3> QED BY <3>2, <3>3, <1>2, <1>5 DEF Does
  <2>5. ASSUME ~IsFor(r, f), Does(r, asked[r]) PROVE Does(r, asked[r])'
    <3>1. f.type \notin {18, 12, 14, 15, 16} BY <2>5, <1>5, WhoseFrames, Zenon
    <3>2. head' = head BY <2>2, <2>3, <3>1
    <3> QED BY <2>5, <3>2, <1>2, <1>5 DEF Does
  <2> QED BY <2>2, <2>4, <2>5, <1>3 DEF f
<1> QED BY <1>4, <1>5 DEF Receivers

\* A receiver takes its first frame.
LEMMA ReceiveFollows ==
  ASSUME BusInv, NEW r \in Receivers,
         (r = "robot" /\ RobotReceive) \/ (r = "servo" /\ ServoReceive)
  PROVE  BusInv'
<1> DEFINE f == Head(rx[r])
<1>1. /\ rx[r] # << >> /\ rx' = [rx EXCEPT ![r] = Tail(@)]
      /\ UNCHANGED <<current_velocity_, servo_velocity_, sending, queue, asked, lost>>
  BY DEF RobotReceive, ServoReceive, Received, history
<1>2. BusTypes /\ SendersAgree BY DEF BusInv
<1>3. rx \in [Receivers -> Seq(Frames)] BY <1>2 DEF BusTypes
<1>4. rx[r] \in Seq(Frames) BY <1>3
<1>5. f \in Frames /\ Tail(rx[r]) \in Seq(Frames) BY <1>1, <1>4
<1>6. rx' \in [Receivers -> Seq(Frames)] BY <1>1, <1>3, <1>5, Zenon
<1>7. rx'[r] = Tail(rx[r]) BY <1>1, <1>3, Zenon
<1>8. f.type \in Types BY <1>5 DEF Frames
<1>9. /\ Speaks(r, f, asked[r]) => Does(r, asked[r])'
      /\ ~IsFor(r, f) /\ Does(r, asked[r]) => Does(r, asked[r])'
      /\ DOMAIN wheels' = {"motion", "speed", "configured"}
  BY <1>1, <1>8, ReceiverDoes
<1>10. ASSUME NEW u \in Receivers, lost'[u] = FALSE PROVE Follows(u)'
  <2>1. Follows(u) BY <1>1, <1>10 DEF BusInv
  <2>2. CASE u = r
    <3> DEFINE c == asked[r]
    <3>1. Follows(r) BY <2>1, <2>2
    <3>2. LastSays(r, rx[r], c) => /\ LastSays(r, Tail(rx[r]), c)
                                   /\ IsFor(r, f) /\ Silent(r, Tail(rx[r])) => Speaks(r, f, c)
      BY <1>1, <1>4, LastTail, Zenon
    <3>3. Silent(r, Tail(rx[r])) /\ ~IsFor(r, f) => Silent(r, rx[r])
      BY <1>1, <1>4, SilentTail, Zenon
    <3>4. Silent(r, queue) => LastSays(r, Tail(rx[r]), c) BY <3>1, <3>2 DEF Follows
    <3>5. Silent(r, queue) /\ Silent(r, Tail(rx[r])) => Does(r, asked[r])'
      <4> SUFFICES ASSUME Silent(r, queue), Silent(r, Tail(rx[r])) PROVE Does(r, asked[r])'
        OBVIOUS
      <4>1. CASE IsFor(r, f) BY <4>1, <3>1, <3>2, <1>9, Zenon DEF Follows
      <4>2. CASE ~IsFor(r, f) BY <4>2, <3>1, <3>3, <1>9, Zenon DEF Follows
      <4> QED BY <4>1, <4>2
    <3>6. LastSays(r, queue, asked[r])'
      BY <3>1, <1>1 DEF Follows, LastSays, IsFor, Speaks
    <3>7. Silent(r, queue)' => Silent(r, queue) BY <1>1 DEF Silent, IsFor
    <3>8. Silent(r, rx[r])' => Silent(r, Tail(rx[r])) BY <1>7 DEF Silent, IsFor
    <3>9. LastSays(r, Tail(rx[r]), c) => LastSays(r, rx[r], asked[r])'
      <4>1. asked'[r] = c BY <1>1
      <4> HIDE DEF c
      <4> QED BY <4>1, <1>7 DEF LastSays, IsFor, Speaks
    <3>10. Follows(r)' BY <3>4, <3>5, <3>6, <3>7, <3>8, <3>9, Zenon DEF Follows
    <3> QED BY <3>10, <2>2
  <2>3. CASE u # r
    <3>1. rx'[u] = rx[u] BY <1>1, <1>3, <2>3, Zenon
    <3>2. Does(u, asked[u]) => Does(u, asked[u])'
      BY <1>1, <2>3 DEF Does, Receivers, RobotReceive, ServoReceive
    <3>3. LastSays(u, queue, asked[u])'
      BY <2>1, <1>1 DEF Follows, LastSays, IsFor, Speaks
    <3>4. Silent(u, queue)' => Silent(u, queue) BY <1>1 DEF Silent, IsFor
    <3>5. Silent(u, rx[u])' => Silent(u, rx[u]) BY <3>1 DEF Silent, IsFor
    <3>6. LastSays(u, rx[u], asked[u]) => LastSays(u, rx[u], asked[u])'
      BY <3>1, <1>1 DEF LastSays, IsFor, Speaks
    <3> QED BY <2>1, <3>2, <3>3, <3>4, <3>5, <3>6, Zenon DEF Follows
  <2> QED BY <2>2, <2>3
<1>11. BusTypes' BY <1>1, <1>2, <1>6, <1>9 DEF BusTypes
<1>12. SendersAgree' BY <1>1, <1>2 DEF SendersAgree, Ready, Speaks
<1> QED BY <1>1, <1>10, <1>11, <1>12 DEF BusInv

LEMMA NextBusInv == BusInv /\ [BusNext]_bus => BusInv'
<1> SUFFICES ASSUME BusInv, [BusNext]_bus PROVE BusInv'
  OBVIOUS
<1>1. ASSUME NEW s \in Senders, send_cmd(s) PROVE BusInv'
  BY <1>1, SendFollows
<1>2. ASSUME NEW s \in Senders, AddMessageToSend(s) \/ AddMessageFails(s) PROVE BusInv'
  BY <1>2, AddFollows
<1>3. CASE Transmit \/ TransmitFails
  BY <1>3, TransmitFollows
<1>4. ASSUME NEW n \in Nodes, SendHeartbeat(n) PROVE BusInv'
  BY <1>4, HeartbeatFollows
<1>5. CASE canbus_receive_task
  BY <1>5, ReceiveFollows DEF canbus_receive_task, Receivers
<1>6. CASE UNCHANGED bus
  <2>1. /\ UNCHANGED <<current_velocity_, servo_velocity_, sending, queue, rx>>
        /\ UNCHANGED <<wheels, head, asked, lost>>
    BY <1>6 DEF bus, history
  <2>2. ASSUME NEW r \in Receivers, lost'[r] = FALSE PROVE Follows(r)'
    BY <2>1, <2>2, StillFollows DEF BusInv
  <2>3. BusTypes' BY <2>1 DEF BusInv, BusTypes
  <2>4. SendersAgree' BY <2>1 DEF BusInv, SendersAgree, Ready, Speaks
  <2> QED BY <2>1, <2>2, <2>3, <2>4 DEF BusInv
<1> QED BY <1>1, <1>2, <1>3, <1>4, <1>5, <1>6 DEF BusNext

\* What the invariant says once nothing is on its way.
LEMMA BusInvMeans == BusInv => LastCommandStands
<1> SUFFICES ASSUME BusInv PROVE LastCommandStands
  OBVIOUS
<1>1. BusTypes BY DEF BusInv
<1>2. ASSUME NEW r \in Receivers, ~lost[r], ~InFlight(r) PROVE Does(r, asked[r])
  <2>1. DOMAIN queue = 1..Len(queue) /\ DOMAIN rx[r] = 1..Len(rx[r])
    BY <1>1 DEF BusTypes
  <2>2. Silent(r, queue) /\ Silent(r, rx[r]) BY <2>1, <1>2, Zenon DEF InFlight, Silent
  <2>3. lost[r] = FALSE BY <1>1, <1>2 DEF BusTypes
  <2>4. Follows(r) BY <2>3 DEF BusInv
  <2> QED BY <2>2, <2>4 DEF Follows
<1>3. ASSUME ~lost["robot"], ~InFlight("robot")
      PROVE  /\ wheels.motion = Meaning[asked.robot]
             /\ wheels.speed = IF wheels.motion = "stop" THEN 0 ELSE current_velocity_
  <2>1. Does("robot", asked["robot"]) BY <1>2, <1>3 DEF Receivers
  <2>2. wheels.motion = Meaning[asked["robot"]] /\ wheels.speed = SpeedOf(asked["robot"])
    BY <2>1 DEF Does
  <2>3. asked["robot"] \in DOMAIN MoveType BY DEF BusInv
  <2>4. Meaning[asked["robot"]] = "stop" <=> asked["robot"] = "ROBOT_STOP"
    BY <2>3 DEF MoveType, Meaning
  <2>5. current_velocity_ = DefaultVelocity BY <1>1 DEF BusTypes
  <2> QED BY <2>2, <2>4, <2>5 DEF SpeedOf
<1>4. ASSUME ~lost["servo"], ~InFlight("servo")
      PROVE  head = Meaning[asked.servo]
  BY <1>2, <1>4 DEF Receivers, Does
<1> QED BY <1>3, <1>4 DEF LastCommandStands

\* Whatever two tasks send, whatever the queues drop and whatever heartbeats
\* come between, the last command for a receiver stands once nothing is on its
\* way, unless its own frame was lost (send_cmd, AddMessageToSend,
\* canbus_send_task, canbus_receive_task and both handlers).
THEOREM CommandsStand == BusSpec => []LastCommandStands
<1>1. BusInit => BusInv BY InitBusInv
<1>2. BusInv /\ [BusNext]_bus => BusInv' BY NextBusInv
<1>3. BusInv => LastCommandStands BY BusInvMeans
<1> QED BY <1>1, <1>2, <1>3, PTL DEF BusSpec

=============================================================================
