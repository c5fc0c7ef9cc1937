--------------------------- MODULE P4SessionProofs ---------------------------
(***************************************************************************)
(* Proofs about the session control of the P4 (module P4Session), for      *)
(* every set of callers, any number of session objects and retry tasks,    *)
(* and every length of the timers.                                         *)
(*                                                                         *)
(* Whatever overlaps, a session opened by a command does not outlive a     *)
(* network loss.  The argument is the order of webrtc_network_callback:    *)
(* once the system event task is past mqtt_bridge_stop, the MQTT task is   *)
(* out of its handler and stays out, so that the session stop_webrtc then  *)
(* finds is the last one a command has opened.                             *)
(*                                                                         *)
(* Nor does anything leak, or open unasked, but by the crossings of calls  *)
(* that P4Session names.  The argument is what each task has yet to do:    *)
(* who takes webrtc holds it and clears it before the close (Owned), who   *)
(* may clear it has taken back that it is ready (Flagged), a retry task    *)
(* that has begun says so (OneRetries), and when nobody wants a session    *)
(* no list can still start one and the retries are told (Asked).           *)
(***************************************************************************)
EXTENDS P4Session, SequenceTheorems, FiniteSetTheorems, TLAPS

\* What the system event task has left of a network loss, stage by stage.
LossBegun  == <<"mqtt_stop", "stop", "take", "reset">>
BridgeDown == <<"stop", "take", "reset">>
Stopping   == <<"take", "reset">>
Taken      == <<"null", "close", "reset">>
Cleared    == <<"close", "reset">>
Resetting  == <<"reset">>
Stages == {<< >>, LossBegun, BridgeDown, Stopping, Taken, Cleared, Resetting}

LossInv ==
  /\ DOMAIN todo = Tasks
  /\ todo["sys"] \in Stages /\ network_connected \in BOOLEAN
  /\ todo["sys"] # << >> => network_connected = FALSE
  /\ commanded = TRUE => webrtc # NULL
  /\ network_connected = FALSE /\ todo["sys"] # LossBegun =>
       mqtt_started = FALSE /\ todo["mqtt"] = << >>
  /\ network_connected = FALSE /\ todo["sys"] \in {Cleared, Resetting, << >>} =>
       commanded # TRUE

\* The callers are none of the retry tasks and none of the sessions' tasks.
LEMMA TasksApart ==
  /\ "sys" \in Tasks /\ "mqtt" \in Tasks
  /\ {"sys", "mqtt"} \cap (RetryTasks \cup Handles) = {}
BY SessionAssumption DEF Tasks, AllCallers

\* Short lists of steps, one behind the other.
LEMMA OneTwo ==
  ASSUME NEW a, NEW b, NEW c
  PROVE  <<a>> \o <<b, c>> = <<a, b, c>>
<1> DEFINE S == {a, b, c}
<1>0. a \in S /\ b \in S /\ c \in S
  OBVIOUS
<1> HIDE DEF S
<1>1. <<a>> \in Seq(S) /\ <<b, c>> \in Seq(S) /\ <<a, b, c>> \in Seq(S)
  BY <1>0
<1>2. <<a>> \o <<b, c>> \in Seq(S) /\ Len(<<a>> \o <<b, c>>) = 3
  BY <1>1
<1>3. \A i \in 1..3 : (<<a>> \o <<b, c>>)[i] = <<a, b, c>>[i]
  BY <1>1
<1> QED BY <1>1, <1>2, <1>3, SeqEqual

LEMMA TwoOne ==
  ASSUME NEW a, NEW b, NEW c
  PROVE  <<a, b>> \o <<c>> = <<a, b, c>>
<1> DEFINE S == {a, b, c}
<1>0. a \in S /\ b \in S /\ c \in S
  OBVIOUS
<1> HIDE DEF S
<1>1. <<a, b>> \in Seq(S) /\ <<c>> \in Seq(S) /\ <<a, b, c>> \in Seq(S)
  BY <1>0
<1>2. <<a, b>> \o <<c>> \in Seq(S) /\ Len(<<a, b>> \o <<c>>) = 3
  BY <1>1
<1>3. \A i \in 1..3 : (<<a, b>> \o <<c>>)[i] = <<a, b, c>>[i]
  BY <1>1
<1> QED BY <1>1, <1>2, <1>3, SeqEqual

LEMMA ThreeOne ==
  ASSUME NEW a, NEW b, NEW c, NEW d
  PROVE  <<a, b, c>> \o <<d>> = <<a, b, c, d>>
<1> DEFINE S == {a, b, c, d}
<1>0. a \in S /\ b \in S /\ c \in S /\ d \in S
  OBVIOUS
<1> HIDE DEF S
<1>1. <<a, b, c>> \in Seq(S) /\ <<d>> \in Seq(S) /\ <<a, b, c, d>> \in Seq(S)
  BY <1>0
<1>2. <<a, b, c>> \o <<d>> \in Seq(S) /\ Len(<<a, b, c>> \o <<d>>) = 4
  BY <1>1
<1>3. \A i \in 1..4 : (<<a, b, c>> \o <<d>>)[i] = <<a, b, c, d>>[i]
  BY <1>1
<1> QED BY <1>1, <1>2, <1>3, SeqEqual

StepNames == {"mqtt_stop", "stop", "take", "null", "close", "reset"}

\* Stages differ in their first steps.
LEMMA StagesApart ==
  /\ \A s \in Stages : s # << >> =>
       /\ Head(s) \in {"mqtt_stop", "stop", "take", "null", "close", "reset"}
       /\ Head(s) = "mqtt_stop" => s = LossBegun /\ Tail(s) = BridgeDown
       /\ Head(s) = "stop"      => s = BridgeDown /\ Tail(s) = Stopping
       /\ Head(s) = "take"      => s = Stopping /\ Tail(s) = Resetting
       /\ Head(s) = "null"      => s = Taken /\ Tail(s) = Cleared
       /\ Head(s) = "close"     => s = Cleared /\ Tail(s) = Resetting
       /\ Head(s) = "reset"     => s = Resetting /\ Tail(s) = << >>
  /\ <<"null", "close">> \o Resetting = Taken
  /\ << >> \o BridgeDown = BridgeDown /\ << >> \o Stopping = Stopping
  /\ << >> \o Resetting = Resetting /\ << >> \o Cleared = Cleared
  /\ << >> \o << >> = << >>
  /\ LossBegun # << >> /\ LossBegun # <<"retry">>
  /\ \A s \in Stages : s # << >> => s # <<"retry">>
  /\ LossBegun \notin {BridgeDown, Stopping, Taken, Cleared, Resetting, << >>}
  /\ {BridgeDown, Stopping, Taken} \cap {Cleared, Resetting, << >>} = {}
  /\ <<"mqtt_stop">> \o stop_webrtc \o <<"reset">> = LossBegun
<1> USE DEF LossBegun, BridgeDown, Stopping, Taken, Cleared, Resetting
<1>1. /\ Head(LossBegun) = "mqtt_stop" /\ Tail(LossBegun) = BridgeDown
      /\ Head(BridgeDown) = "stop" /\ Tail(BridgeDown) = Stopping
      /\ Head(Stopping) = "take" /\ Tail(Stopping) = Resetting
      /\ Head(Taken) = "null" /\ Tail(Taken) = Cleared
      /\ Head(Cleared) = "close" /\ Tail(Cleared) = Resetting
      /\ Head(Resetting) = "reset" /\ Tail(Resetting) = << >>
  OBVIOUS
<1>2. /\ <<"null", "close">> \o Resetting = Taken
      /\ << >> \o BridgeDown = BridgeDown /\ << >> \o Stopping = Stopping
      /\ << >> \o Resetting = Resetting /\ << >> \o Cleared = Cleared
      /\ << >> \o << >> = << >>
  <2>1. \A s \in Seq(StepNames) : << >> \o s = s
    BY ConcatEmptySeq
  <2>2. /\ BridgeDown \in Seq(StepNames) /\ Stopping \in Seq(StepNames)
        /\ Resetting \in Seq(StepNames) /\ Cleared \in Seq(StepNames) /\ << >> \in Seq(StepNames)
    BY DEF StepNames
  <2>3. <<"null", "close">> \o <<"reset">> = <<"null", "close", "reset">>
    BY TwoOne
  <2> HIDE DEF LossBegun, BridgeDown, Stopping, Taken, Cleared
  <2>4. <<"null", "close">> \o Resetting = Taken
    BY <2>3 DEF Resetting, Taken
  <2> HIDE DEF Resetting
  <2> QED BY <2>1, <2>2, <2>4
<1>3. /\ Len(LossBegun) = 4 /\ Len(BridgeDown) = 3 /\ Len(Stopping) = 2
      /\ Len(Taken) = 3 /\ Len(Cleared) = 2 /\ Len(Resetting) = 1
      /\ Len(<< >>) = 0 /\ Len(<<"retry">>) = 1 /\ Head(<<"retry">>) = "retry"
  OBVIOUS
<1>4. <<"mqtt_stop">> \o stop_webrtc \o <<"reset">> = LossBegun
  <2>1. <<"mqtt_stop">> \o <<"stop", "take">> = <<"mqtt_stop", "stop", "take">>
    BY OneTwo
  <2>2. <<"mqtt_stop", "stop", "take">> \o <<"reset">> = <<"mqtt_stop", "stop", "take", "reset">>
    BY ThreeOne
  <2> QED BY <2>1, <2>2 DEF stop_webrtc
<1> HIDE DEF LossBegun, BridgeDown, Stopping, Taken, Cleared, Resetting
<1>5. \A s \in Stages : s # << >> => s # <<"retry">>
  BY <1>1, <1>3 DEF Stages
<1>6. LossBegun \notin {BridgeDown, Stopping, Taken, Cleared, Resetting, << >>}
  BY <1>3
<1>7. {BridgeDown, Stopping, Taken} \cap {Cleared, Resetting, << >>} = {}
  BY <1>1, <1>3
<1> QED BY <1>1, <1>2, <1>3, <1>4, <1>5, <1>6, <1>7 DEF Stages

LEMMA InitLossInv == Init => LossInv
BY TasksApart DEF Init, LossInv, Stages, network, sessions

\* What it takes to keep the invariant while the system event task stands still.
LEMMA Undisturbed ==
  ASSUME LossInv,
         DOMAIN todo' = Tasks,
         network_connected' = network_connected, mqtt_started' = mqtt_started,
         todo'["sys"] = todo["sys"],
         mqtt_started = FALSE /\ todo["mqtt"] = << >> =>
           todo'["mqtt"] = << >> /\ (commanded' = TRUE => commanded = TRUE),
         commanded' = TRUE => webrtc' # NULL
  PROVE  LossInv'
<1>1. network_connected = FALSE /\ todo["sys"] \in {Cleared, Resetting, << >>} =>
        mqtt_started = FALSE /\ todo["mqtt"] = << >>
  BY StagesApart DEF LossInv
<1> QED BY <1>1 DEF LossInv, Stages, LossBegun, BridgeDown, Stopping, Taken, Cleared, Resetting

\* A step of a call by any other task.
LEMMA OthersKeepLossInv ==
  ASSUME LossInv, NEW t \in Tasks, t # "sys", CallStep(t)
  PROVE  LossInv'
<1>0. DOMAIN todo = Tasks BY DEF LossInv
<1>1. network_connected' = network_connected /\ mqtt_started' = mqtt_started
  BY DEF CallStep, Stop, Take, ClearWebrtc, Close, Start, Open, OpenFail, ConnectOk, ConnectFail,
         Schedule, network, globals
<1>2. todo[t] # << >>
  BY DEF CallStep, Stop, Take, ClearWebrtc, Close, Start, Open, OpenFail, ConnectOk, ConnectFail,
         Schedule, At
<1>3. /\ DOMAIN todo' = Tasks
      /\ \A u \in {"sys", "mqtt"} : u # t => todo'[u] = todo[u]
  <2>1. CASE Schedule(t)
    <3>1. \/ \E s : todo' = [todo EXCEPT ![t] = s]
          \/ \E r \in RetryTasks : \E s : todo' = [todo EXCEPT ![t] = s, ![r] = <<"begin">>]
      BY <2>1 DEF Schedule, GoOn
    <3> QED BY <3>1, <1>0, TasksApart
  <2>2. CASE ~Schedule(t)
    <3>1. \E s : todo' = [todo EXCEPT ![t] = s]
      BY <2>2 DEF CallStep, Stop, Take, ClearWebrtc, Close, Start, Open, OpenFail, ConnectOk,
                  ConnectFail, GoOn
    <3> QED BY <3>1, <1>0
  <2> QED BY <2>1, <2>2
<1>4. commanded' = TRUE => webrtc' # NULL
  <2>1. CASE ClearWebrtc(t) BY <2>1 DEF ClearWebrtc
  <2>2. CASE Open(t) BY <2>2, SessionAssumption DEF Open
  <2>3. CASE ~ClearWebrtc(t) /\ ~Open(t)
    BY <2>3 DEF CallStep, Stop, Take, Close, Start, OpenFail, ConnectOk, ConnectFail, Schedule,
                history, globals, sessions, LossInv
  <2> QED BY <2>1, <2>2, <2>3
<1>5. commanded' = TRUE => commanded = TRUE \/ t = "mqtt"
  <2>1. CASE ClearWebrtc(t) BY <2>1 DEF ClearWebrtc
  <2>2. CASE Open(t) BY <2>2 DEF Open
  <2>3. CASE ~ClearWebrtc(t) /\ ~Open(t)
    BY <2>3 DEF CallStep, Stop, Take, Close, Start, OpenFail, ConnectOk, ConnectFail, Schedule, history
  <2> QED BY <2>1, <2>2, <2>3
<1>6. todo'["sys"] = todo["sys"] BY <1>3
<1>7. todo["mqtt"] = << >> => t # "mqtt" BY <1>2
<1>8. todo["mqtt"] = << >> => todo'["mqtt"] = << >> /\ (commanded' = TRUE => commanded = TRUE)
  BY <1>3, <1>5, <1>7
<1> QED BY <1>1, <1>3, <1>4, <1>6, <1>8, Undisturbed

\* stop_webrtc in the system event task, after a network loss.
LEMMA LossKeepsLossInv ==
  ASSUME LossInv, CallStep("sys")
  PROVE  LossInv'
<1> DEFINE s == todo["sys"]
<1>0. DOMAIN todo = Tasks /\ "sys" \in Tasks /\ s \in Stages BY TasksApart DEF LossInv
<1>1. s # << >> /\ network_connected = FALSE
  BY DEF CallStep, Stop, Take, ClearWebrtc, Close, Start, Open, OpenFail, ConnectOk, ConnectFail,
         Schedule, At, LossInv
<1>2. Head(s) \notin {"start", "open", "connect", "schedule"}
  BY <1>0, <1>1, StagesApart
<1>3. Stop("sys") \/ Take("sys") \/ ClearWebrtc("sys") \/ Close("sys")
  BY <1>2 DEF CallStep, Start, Open, OpenFail, ConnectOk, ConnectFail, Schedule, At
<1>4. network_connected' = network_connected /\ mqtt_started' = mqtt_started
  BY <1>3 DEF Stop, Take, ClearWebrtc, Close, network, globals
<1>5. ASSUME NEW l, GoOn("sys", l)
      PROVE  /\ DOMAIN todo' = Tasks /\ todo'["sys"] = l \o Tail(s)
             /\ todo'["mqtt"] = todo["mqtt"]
  BY <1>0, <1>5 DEF GoOn
<1> HIDE DEF s
<1>6. CASE Stop("sys")
  <2>1. Head(s) = "stop" /\ GoOn("sys", << >>) BY <1>6 DEF Stop, At, s
  <2>2. todo'["sys"] = Stopping /\ s = BridgeDown BY <2>1, <1>0, <1>1, <1>5, StagesApart
  <2>3. webrtc' = webrtc /\ commanded' = commanded BY <1>6 DEF Stop, history
  <2> QED BY <2>1, <2>2, <2>3, <1>1, <1>4, <1>5, StagesApart DEF LossInv, Stages, s
<1>7. CASE Take("sys")
  <2>1. Head(s) = "take" BY <1>7 DEF Take, At, s
  <2>2. s = Stopping /\ Tail(s) = Resetting BY <2>1, <1>0, <1>1, StagesApart
  <2>3. webrtc' = webrtc /\ commanded' = commanded
    BY <1>7 DEF Take, history, globals, sessions
  <2>4. CASE webrtc = NULL
    <3>1. GoOn("sys", << >>) BY <1>7, <2>4 DEF Take
    <3>2. todo'["sys"] = Resetting BY <3>1, <2>2, <1>5, StagesApart
    <3> QED BY <3>1, <3>2, <2>2, <2>3, <2>4, <1>1, <1>4, <1>5, StagesApart DEF LossInv, Stages, s
  <2>5. CASE webrtc # NULL
    <3>1. GoOn("sys", <<"null", "close">>) BY <1>7, <2>5 DEF Take
    <3>2. todo'["sys"] = Taken BY <3>1, <2>2, <1>5, StagesApart
    <3> QED BY <3>1, <3>2, <2>2, <2>3, <1>1, <1>4, <1>5, StagesApart DEF LossInv, Stages, s
  <2> QED BY <2>4, <2>5
<1>8. CASE ClearWebrtc("sys")
  <2>1. Head(s) = "null" /\ GoOn("sys", << >>) BY <1>8 DEF ClearWebrtc, At, s
  <2>2. todo'["sys"] = Cleared /\ s = Taken BY <2>1, <1>0, <1>1, <1>5, StagesApart
  <2>3. commanded' = FALSE BY <1>8 DEF ClearWebrtc
  <2> QED BY <2>1, <2>2, <2>3, <1>1, <1>4, <1>5, StagesApart DEF LossInv, Stages, s
<1>9. CASE Close("sys")
  <2>1. Head(s) = "close" /\ GoOn("sys", << >>) BY <1>9 DEF Close, At, s
  <2>2. todo'["sys"] = Resetting /\ s = Cleared BY <2>1, <1>0, <1>1, <1>5, StagesApart
  <2>3. webrtc' = webrtc /\ commanded' = commanded BY <1>9 DEF Close
  <2> QED BY <2>1, <2>2, <2>3, <1>1, <1>4, <1>5, StagesApart DEF LossInv, Stages, s
<1> QED BY <1>3, <1>6, <1>7, <1>8, <1>9

\* The network comes and goes.
LEMMA NetworkKeepsLossInv == LossInv /\ Sys => LossInv'
<1> SUFFICES ASSUME LossInv, Sys PROVE LossInv'
  OBVIOUS
<1> DEFINE s == todo["sys"]
<1>0. DOMAIN todo = Tasks /\ "sys" \in Tasks /\ s \in Stages BY TasksApart DEF LossInv
<1>1. ASSUME MayBegin("sys") PROVE s = << >>
  BY <1>1, <1>0, StagesApart DEF MayBegin, Busy
<1>2. CASE NetworkUp
  BY <1>2, <1>1, StagesApart DEF NetworkUp, LossInv, sessions, history
<1>3. CASE NetworkDown
  <2>1. todo' = [todo EXCEPT !["sys"] = LossBegun] BY <1>3, StagesApart DEF NetworkDown
  <2>2. DOMAIN todo' = Tasks /\ todo'["sys"] = LossBegun BY <2>1, <1>0
  <2>3. webrtc' = webrtc /\ commanded' = commanded /\ network_connected' = FALSE
    BY <1>3 DEF NetworkDown, sessions, history
  <2> QED BY <2>2, <2>3, StagesApart DEF LossInv, Stages
<1>4. CASE MqttBridgeStop
  <2>1. s # << >> /\ Head(s) = "mqtt_stop" /\ GoOn("sys", << >>) /\ todo["mqtt"] = << >>
    BY <1>4 DEF MqttBridgeStop, At
  <2>2. s = LossBegun /\ Tail(s) = BridgeDown BY <2>1, <1>0, StagesApart
  <2>3. DOMAIN todo' = Tasks /\ todo'["sys"] = << >> \o Tail(s) /\ todo'["mqtt"] = << >>
    BY <2>1, <1>0 DEF GoOn
  <2>4. todo'["sys"] = BridgeDown BY <2>2, <2>3, StagesApart
  <2>5. /\ webrtc' = webrtc /\ commanded' = commanded /\ mqtt_started' = FALSE
        /\ network_connected' = network_connected /\ network_connected = FALSE
    BY <1>4, <2>1 DEF MqttBridgeStop, sessions, history, LossInv
  <2> QED BY <2>3, <2>4, <2>5, StagesApart DEF LossInv, Stages
<1>5. CASE NetworkReset
  <2>1. s # << >> /\ Head(s) = "reset" /\ GoOn("sys", << >>)
    BY <1>5 DEF NetworkReset, At
  <2>2. s = Resetting /\ Tail(s) = << >> BY <2>1, <1>0, StagesApart
  <2>3. DOMAIN todo' = Tasks /\ todo'["sys"] = << >> \o Tail(s) /\ todo'["mqtt"] = todo["mqtt"]
    BY <2>1, <1>0 DEF GoOn
  <2>4. todo'["sys"] = << >> BY <2>2, <2>3, StagesApart
  <2>5. /\ webrtc' = webrtc /\ commanded' = commanded /\ mqtt_started' = mqtt_started
        /\ network_connected' = network_connected
    BY <1>5 DEF NetworkReset, globals, network, sessions, history
  <2> QED BY <2>2, <2>3, <2>4, <2>5, StagesApart DEF LossInv, Stages
<1> QED BY <1>2, <1>3, <1>4, <1>5 DEF Sys

\* Beginnings of calls, timers and the loops of the other tasks.
LEMMA CallersKeepLossInv ==
  ASSUME LossInv,
         \/ \E r \in RetryTasks : Retry(r)
         \/ \E h \in Handles : PeerConnected(h) \/ PeerLost(h)
         \/ Command \/ Main \/ Cli \/ Tick \/ UNCHANGED vars
  PROVE  LossInv'
<1>0. DOMAIN todo = Tasks BY DEF LossInv
<1>1. /\ network_connected' = network_connected /\ mqtt_started' = mqtt_started
      /\ webrtc' = webrtc /\ commanded' = commanded
  <2>1. CASE \E r \in RetryTasks : Retry(r)
    BY <2>1 DEF Retry, RetryBegin, RetryRound, RetryStopped, RetryEnd,
                globals, network, sessions, history
  <2>2. CASE \E h \in Handles : PeerConnected(h) \/ PeerLost(h)
    BY <2>2 DEF PeerConnected, PeerLost, network, history
  <2>3. CASE Command \/ Main \/ Cli \/ Tick \/ UNCHANGED vars
    BY <2>3 DEF Command, OpenOrHeartbeat, CloseCommand, Main, MainSample, MainRecover,
                MainTimeout, MainQuiet, MainForget, Cli, CliStart, CliStop, Tick, vars,
                globals, network, sessions, history
  <2> QED BY <2>1, <2>2, <2>3
<1>2. \/ todo' = todo
      \/ \E t \in RetryTasks \cup Handles \cup {"main", "cli", "cli_stop"} :
           \E l : todo' = [todo EXCEPT ![t] = l]
      \/ mqtt_started /\ \E l : todo' = [todo EXCEPT !["mqtt"] = l]
  <2>1. CASE \E r \in RetryTasks : Retry(r)
    BY <2>1 DEF Retry, RetryBegin, RetryRound, RetryStopped, RetryEnd, GoOn
  <2>2. CASE \E h \in Handles : PeerConnected(h) \/ PeerLost(h)
    BY <2>2 DEF PeerConnected, PeerLost
  <2>3. CASE Command
    BY <2>3 DEF Command, OpenOrHeartbeat, CloseCommand, MqttReady
  <2>4. CASE Main
    BY <2>4 DEF Main, MainSample, MainRecover, MainTimeout, MainQuiet, MainForget, GoOn
  <2>5. CASE Cli \/ Tick \/ UNCHANGED vars
    BY <2>5 DEF Cli, CliStart, CliStop, Tick, vars
  <2> QED BY <2>1, <2>2, <2>3, <2>4, <2>5
<1>3. /\ DOMAIN todo' = Tasks /\ todo'["sys"] = todo["sys"]
      /\ mqtt_started = FALSE => todo'["mqtt"] = todo["mqtt"]
  BY <1>0, <1>2, TasksApart
<1>4. commanded' = TRUE => webrtc' # NULL BY <1>1 DEF LossInv
<1> QED BY <1>1, <1>3, <1>4, Undisturbed

LEMMA NextLossInv == LossInv /\ [Next]_vars => LossInv'
<1> SUFFICES ASSUME LossInv, [Next]_vars PROVE LossInv'
  OBVIOUS
<1>1. ASSUME NEW t \in Tasks, CallStep(t) PROVE LossInv'
  BY <1>1, OthersKeepLossInv, LossKeepsLossInv
<1>2. CASE Sys BY <1>2, NetworkKeepsLossInv
<1>3. CASE \/ \E r \in RetryTasks : Retry(r)
           \/ \E h \in Handles : PeerConnected(h) \/ PeerLost(h)
           \/ Command \/ Main \/ Cli \/ Tick \/ UNCHANGED vars
  BY <1>3, CallersKeepLossInv
<1> QED BY <1>1, <1>2, <1>3 DEF Next

\* Whoever calls start_webrtc and stop_webrtc and whatever overlaps, a session
\* opened by a command does not outlive the handling of a network loss
\* (webrtc_network_callback stops the MQTT bridge first).
THEOREM CommandSessionsEnd == Spec => []NoCommandSessionOffline
<1>1. LossInv => NoCommandSessionOffline
  <2> SUFFICES ASSUME LossInv, ~network_connected, ~Busy("sys"), commanded
               PROVE  webrtc = NULL
    BY DEF NoCommandSessionOffline
  <2>1. todo["sys"] = << >> BY StagesApart DEF LossInv, Busy
  <2> QED BY <2>1, StagesApart DEF LossInv
<1>2. QED
  BY <1>1, InitLossInv, NextLossInv, PTL DEF Spec

-----------------------------------------------------------------------------
(* The steps a task has left *)

Steps ==
  {"mqtt_stop", "stop", "take", "null", "close", "start", "open", "connect", "schedule",
   "begin", "retry", "end", "decide", "forget", "reset"}

\* What may come after a step in a list.
AfterTake == {"start", "open", "schedule", "reset", "forget", "retry"}
After(s) ==
  CASE s = "mqtt_stop" -> {"stop", "take", "reset"}
    [] s = "stop" -> {"take", "start", "reset", "forget"}
    [] s \in {"take", "close"} -> AfterTake
    [] s = "null" -> AfterTake \cup {"close"}
    [] s \in {"start", "open", "connect", "schedule"} -> {"retry"}
    [] OTHER -> {}

InOrder(l) == \A i, j \in DOMAIN l : i < j => l[j] \in After(l[i])
Elems(l) == {l[i] : i \in DOMAIN l}

Lists == todo \in [Tasks -> Seq(Steps)] /\ \A t \in Tasks : InOrder(todo[t])

-----------------------------------------------------------------------------
(* The invariant: what each task has yet to do, until calls cross *)

SessionTypes ==
  /\ webrtc \in Handles \cup {NULL} /\ DOMAIN session = Handles /\ DOMAIN held = Tasks
  /\ {webrtc_connected, janus_retry_running, janus_retry_stop, wanted} \subseteq BOOLEAN

\* A session object is webrtc's, or one task holds it and will close it.
OneOwner ==
  /\ misused = FALSE
  /\ webrtc # NULL => session[webrtc] # "free"
  /\ \A h \in Handles : session[h] # "free" =>
       webrtc = h \/ \E t \in Tasks : "close" \in Todo(t) /\ held[t] = h
  /\ \A t \in Tasks : "close" \in Todo(t) => held[t] \in Handles /\ session[held[t]] # "free"
  /\ \A t, u \in Tasks :
       "close" \in Todo(t) /\ "close" \in Todo(u) /\ held[t] = held[u] => t = u
  /\ \A t \in Tasks : "null" \in Todo(t) => "close" \in Todo(t) /\ held[t] = webrtc
  /\ \A t \in Tasks : "close" \in Todo(t) /\ "null" \notin Todo(t) => held[t] # webrtc
  /\ \A t \in Tasks : "open" \in Todo(t) /\ "take" \notin Todo(t) =>
       webrtc = NULL \/ "null" \in Todo(t)

Owned == crossed \cap {"taken", "opened"} = {} => OneOwner

\* One retry task lives, and the flag tells so once it has begun.
OneRetry ==
  /\ \A r, s \in RetryTasks : Todo(r) # {} /\ Todo(s) # {} => r = s
  /\ \A r \in RetryTasks : Todo(r) # {} /\ "begin" \notin Todo(r) => janus_retry_running

OneRetries == "scheduled" \notin crossed => OneRetry

\* What is reported ready is there; who may clear webrtc has taken that back.
MayUnset(t) ==
  Todo(t) \cap {"take", "null", "open", "connect"} # {} /\ "stop" \notin Todo(t)
Flagged ==
  "reported" \notin crossed =>
    /\ webrtc_connected => webrtc # NULL
    /\ \A t \in Tasks : MayUnset(t) => ~webrtc_connected

\* Nobody has asked for a session yet, and none was ever started.
Fresh ==
  /\ webrtc = NULL /\ \A h \in Handles : session[h] = "free"
  /\ \A t \in Tasks : Todo(t) \cap {"start", "open", "connect", "schedule"} = {}
  /\ \A r \in RetryTasks : Todo(r) = {}

\* What nobody wants any more is not started, and stopped where it runs.
Unwanted ==
  /\ \A t \in Tasks : Todo(t) \cap {"start", "open"} = {}
  /\ "decide" \in Todo("main") => ~sample.running
  /\ webrtc = NULL \/ \E t \in Tasks : Todo(t) \cap {"take", "null"} # {}
  /\ janus_retry_stop \/ (\E t \in Tasks : "stop" \in Todo(t)) \/ Fresh

Asked == crossed \cap {"stopped", "begun"} = {} => wanted \/ Unwanted

KeptInv == Lists /\ SessionTypes /\ Owned /\ OneRetries /\ Flagged /\ Asked

-----------------------------------------------------------------------------
(* Lists in order *)

LEMMA Tails ==
  ASSUME NEW l \in Seq(Steps), InOrder(l), l # << >>
  PROVE  /\ Tail(l) \in Seq(Steps) /\ InOrder(Tail(l))
         /\ Head(l) \in Elems(l) /\ Head(l) \in Steps
         /\ Elems(l) = {Head(l)} \cup Elems(Tail(l))
         /\ Elems(Tail(l)) \subseteq After(Head(l))
<1>1. /\ Len(l) \in Nat \ {0} /\ DOMAIN l = 1..Len(l) /\ Head(l) = l[1]
      /\ Tail(l) \in Seq(Steps) /\ Len(Tail(l)) = Len(l) - 1
      /\ DOMAIN Tail(l) = 1..Len(l) - 1
      /\ \A i \in 1..Len(l) - 1 : Tail(l)[i] = l[i + 1]
  OBVIOUS
<1>2. InOrder(Tail(l))
  BY <1>1 DEF InOrder
<1>3. Elems(l) = {Head(l)} \cup Elems(Tail(l))
  <2>1. ASSUME NEW i \in DOMAIN l  PROVE l[i] = l[1] \/ \E j \in DOMAIN Tail(l) : l[i] = Tail(l)[j]
    <3>1. CASE i = 1
      BY <3>1
    <3>2. CASE i # 1
      <4>1. i - 1 \in DOMAIN Tail(l) /\ Tail(l)[i - 1] = l[i]
        BY <1>1, <3>2
      <4> QED  BY <4>1
    <3> QED  BY <3>1, <3>2
  <2>2. \A j \in DOMAIN Tail(l) : j + 1 \in DOMAIN l /\ Tail(l)[j] = l[j + 1]
    BY <1>1
  <2>3. 1 \in DOMAIN l
    BY <1>1
  <2> QED  BY <1>1, <2>1, <2>2, <2>3 DEF Elems
<1>4. Elems(Tail(l)) \subseteq After(Head(l))
  BY <1>1 DEF Elems, InOrder
<1> QED  BY <1>1, <1>2, <1>3, <1>4 DEF Elems

LEMMA Joined ==
  ASSUME NEW s \in Seq(Steps), NEW l \in Seq(Steps), InOrder(s), InOrder(l),
         \A x \in Elems(s) : Elems(l) \subseteq After(x)
  PROVE  /\ s \o l \in Seq(Steps) /\ InOrder(s \o l)
         /\ Elems(s \o l) = Elems(s) \cup Elems(l)
<1> DEFINE n == Len(s)
           m == Len(l)
           c == s \o l
<1>1. /\ n \in Nat /\ m \in Nat /\ DOMAIN s = 1..n /\ DOMAIN l = 1..m
      /\ c \in Seq(Steps) /\ Len(c) = n + m /\ DOMAIN c = 1..n + m
      /\ \A i \in 1..n : c[i] = s[i]
      /\ \A i \in 1..m : c[n + i] = l[i]
      /\ \A i \in n + 1..n + m : c[i] = l[i - n]
  OBVIOUS
<1> HIDE DEF c, n, m
<1>2. InOrder(c)
  <2> SUFFICES ASSUME NEW i \in 1..n + m, NEW j \in 1..n + m, i < j
               PROVE  c[j] \in After(c[i])
    BY <1>1 DEF InOrder
  <2>1. CASE j <= n
    <3>1. i \in DOMAIN s /\ j \in DOMAIN s /\ c[i] = s[i] /\ c[j] = s[j]
      BY <1>1, <2>1
    <3> QED  BY <3>1 DEF InOrder
  <2>2. CASE i > n
    <3>1. i - n \in DOMAIN l /\ j - n \in DOMAIN l /\ i - n < j - n
          /\ c[i] = l[i - n] /\ c[j] = l[j - n]
      BY <1>1, <2>2
    <3> QED  BY <3>1 DEF InOrder
  <2>3. CASE i <= n /\ j > n
    <3>1. i \in DOMAIN s /\ j - n \in DOMAIN l /\ c[i] = s[i] /\ c[j] = l[j - n]
      BY <1>1, <2>3
    <3> QED  BY <3>1 DEF Elems
  <2> QED  BY <1>1, <2>1, <2>2, <2>3
<1>3. Elems(c) = Elems(s) \cup Elems(l)
  <2>1. ASSUME NEW i \in DOMAIN c  PROVE c[i] \in Elems(s) \cup Elems(l)
    <3>1. CASE i <= n
      BY <1>1, <3>1 DEF Elems
    <3>2. CASE i > n
      <4>1. i - n \in DOMAIN l /\ c[i] = l[i - n]
        BY <1>1, <3>2
      <4> QED  BY <4>1 DEF Elems
    <3> QED  BY <1>1, <3>1, <3>2
  <2>2. \A i \in DOMAIN s : i \in DOMAIN c /\ c[i] = s[i]
    BY <1>1
  <2>3. \A i \in DOMAIN l : n + i \in DOMAIN c /\ c[n + i] = l[i]
    BY <1>1
  <2> QED  BY <2>1, <2>2, <2>3 DEF Elems
<1> QED  BY <1>1, <1>2, <1>3 DEF c

LEMMA NoStep == << >> \in Seq(Steps) /\ InOrder(<< >>) /\ Elems(<< >>) = {}
BY DEF InOrder, Elems

LEMMA OneStep ==
  ASSUME NEW a \in Steps
  PROVE  <<a>> \in Seq(Steps) /\ InOrder(<<a>>) /\ Elems(<<a>>) = {a}
BY DEF InOrder, Elems

LEMMA TwoSteps ==
  ASSUME NEW a \in Steps, NEW b \in Steps, b \in After(a)
  PROVE  <<a, b>> \in Seq(Steps) /\ InOrder(<<a, b>>) /\ Elems(<<a, b>>) = {a, b}
BY DEF InOrder, Elems

LEMMA ThreeSteps ==
  ASSUME NEW a \in Steps, NEW b \in Steps, NEW c \in Steps,
         b \in After(a), c \in After(a), c \in After(b)
  PROVE  /\ <<a, b, c>> \in Seq(Steps) /\ InOrder(<<a, b, c>>)
         /\ Elems(<<a, b, c>>) = {a, b, c}
<1>1. DOMAIN <<a, b, c>> = {1, 2, 3}
  OBVIOUS
<1>2. <<a, b, c>>[1] = a /\ <<a, b, c>>[2] = b /\ <<a, b, c>>[3] = c
  OBVIOUS
<1> QED  BY <1>1, <1>2 DEF InOrder, Elems

\* The lists the code begins with.
LEMMA Begun ==
  /\ start_webrtc \in Seq(Steps) /\ InOrder(start_webrtc) /\ Elems(start_webrtc) = {"start"}
  /\ stop_webrtc \in Seq(Steps) /\ InOrder(stop_webrtc)
  /\ Elems(stop_webrtc) = {"stop", "take"}
  /\ stop_webrtc \o start_webrtc \in Seq(Steps) /\ InOrder(stop_webrtc \o start_webrtc)
  /\ Elems(stop_webrtc \o start_webrtc) = {"stop", "take", "start"}
  /\ stop_webrtc \o <<"forget">> \in Seq(Steps) /\ InOrder(stop_webrtc \o <<"forget">>)
  /\ Elems(stop_webrtc \o <<"forget">>) = {"stop", "take", "forget"}
  /\ <<"mqtt_stop">> \o stop_webrtc \o <<"reset">> \in Seq(Steps)
  /\ InOrder(<<"mqtt_stop">> \o stop_webrtc \o <<"reset">>)
  /\ Elems(<<"mqtt_stop">> \o stop_webrtc \o <<"reset">>) = {"mqtt_stop", "stop", "take", "reset"}
  /\ <<"take", "schedule">> \in Seq(Steps) /\ InOrder(<<"take", "schedule">>)
  /\ Elems(<<"take", "schedule">>) = {"take", "schedule"}
<1>0. {"start", "stop", "take", "forget", "mqtt_stop", "reset", "schedule"} \subseteq Steps
  BY DEF Steps
<1>1. "take" \in After("stop") /\ "schedule" \in After("take")
  BY DEF After, AfterTake
<1>2. /\ start_webrtc \in Seq(Steps) /\ InOrder(start_webrtc) /\ Elems(start_webrtc) = {"start"}
      /\ stop_webrtc \in Seq(Steps) /\ InOrder(stop_webrtc)
      /\ Elems(stop_webrtc) = {"stop", "take"}
  BY <1>0, <1>1, OneStep, TwoSteps DEF start_webrtc, stop_webrtc
<1>3. /\ <<"take", "schedule">> \in Seq(Steps) /\ InOrder(<<"take", "schedule">>)
      /\ Elems(<<"take", "schedule">>) = {"take", "schedule"}
  BY <1>0, <1>1, TwoSteps
<1>4. \A x \in {"stop", "take"} : {"start", "forget", "reset"} \subseteq After(x)
  BY DEF After, AfterTake
<1>5. /\ stop_webrtc \o start_webrtc \in Seq(Steps) /\ InOrder(stop_webrtc \o start_webrtc)
      /\ Elems(stop_webrtc \o start_webrtc) = {"stop", "take", "start"}
  <2>1. \A x \in Elems(stop_webrtc) : Elems(start_webrtc) \subseteq After(x)
    BY <1>2, <1>4
  <2> QED  BY <1>2, <2>1, Joined
<1>6. ASSUME NEW a \in {"forget", "reset"}
      PROVE  /\ <<a>> \in Seq(Steps) /\ InOrder(<<a>>) /\ Elems(<<a>>) = {a}
             /\ stop_webrtc \o <<a>> \in Seq(Steps) /\ InOrder(stop_webrtc \o <<a>>)
             /\ Elems(stop_webrtc \o <<a>>) = {"stop", "take", a}
  <2>1. <<a>> \in Seq(Steps) /\ InOrder(<<a>>) /\ Elems(<<a>>) = {a}
    BY <1>0, OneStep
  <2>2. \A x \in Elems(stop_webrtc) : Elems(<<a>>) \subseteq After(x)
    BY <1>2, <1>4, <2>1
  <2>3. /\ stop_webrtc \o <<a>> \in Seq(Steps) /\ InOrder(stop_webrtc \o <<a>>)
        /\ Elems(stop_webrtc \o <<a>>) = Elems(stop_webrtc) \cup Elems(<<a>>)
    BY <1>2, <2>1, <2>2, Joined
  <2> QED  BY <1>2, <2>1, <2>3
<1>7. /\ <<"mqtt_stop">> \in Seq(Steps) /\ InOrder(<<"mqtt_stop">>)
      /\ Elems(<<"mqtt_stop">>) = {"mqtt_stop"}
  BY <1>0, OneStep
<1>8. /\ <<"mqtt_stop">> \o stop_webrtc \in Seq(Steps) /\ InOrder(<<"mqtt_stop">> \o stop_webrtc)
      /\ Elems(<<"mqtt_stop">> \o stop_webrtc) = {"mqtt_stop", "stop", "take"}
  <2>1. \A x \in Elems(<<"mqtt_stop">>) : Elems(stop_webrtc) \subseteq After(x)
    BY <1>2, <1>7 DEF After
  <2>2. /\ <<"mqtt_stop">> \o stop_webrtc \in Seq(Steps) /\ InOrder(<<"mqtt_stop">> \o stop_webrtc)
        /\ Elems(<<"mqtt_stop">> \o stop_webrtc) = Elems(<<"mqtt_stop">>) \cup Elems(stop_webrtc)
    BY <1>2, <1>7, <2>1, Joined
  <2> QED  BY <1>2, <1>7, <2>2
<1>9. /\ <<"mqtt_stop">> \o stop_webrtc \o <<"reset">> \in Seq(Steps)
      /\ InOrder(<<"mqtt_stop">> \o stop_webrtc \o <<"reset">>)
      /\ Elems(<<"mqtt_stop">> \o stop_webrtc \o <<"reset">>) = {"mqtt_stop", "stop", "take", "reset"}
  <2>1. /\ <<"reset">> \in Seq(Steps) /\ InOrder(<<"reset">>) /\ Elems(<<"reset">>) = {"reset"}
    BY <1>6
  <2>2. \A x \in {"mqtt_stop", "stop", "take"} : {"reset"} \subseteq After(x)
    BY DEF After, AfterTake
  <2>3. \A x \in Elems(<<"mqtt_stop">> \o stop_webrtc) : Elems(<<"reset">>) \subseteq After(x)
    BY <1>8, <2>1, <2>2
  <2>4. /\ <<"mqtt_stop">> \o stop_webrtc \o <<"reset">> \in Seq(Steps)
        /\ InOrder(<<"mqtt_stop">> \o stop_webrtc \o <<"reset">>)
        /\ Elems(<<"mqtt_stop">> \o stop_webrtc \o <<"reset">>)
             = Elems(<<"mqtt_stop">> \o stop_webrtc) \cup Elems(<<"reset">>)
    BY <1>8, <2>1, <2>3, Joined
  <2> QED  BY <1>8, <2>1, <2>4
<1>10. /\ stop_webrtc \o <<"forget">> \in Seq(Steps) /\ InOrder(stop_webrtc \o <<"forget">>)
       /\ Elems(stop_webrtc \o <<"forget">>) = {"stop", "take", "forget"}
  BY <1>6
<1> QED  BY <1>2, <1>3, <1>5, <1>9, <1>10

-----------------------------------------------------------------------------
(* How a task goes on *)

\* A task does h and has P to do before the rest.
Moves(t, h, P) ==
  /\ Lists'
  /\ h \in Todo(t) /\ h \in Steps /\ Todo(t) \ {h} \subseteq After(h)
  /\ Todo(t)' = P \cup (Todo(t) \ {h})
  /\ \A u \in Tasks \ {t} : Todo(u)' = Todo(u)

LEMMA HeadOf ==
  ASSUME Lists, NEW t \in Tasks, NEW h, At(t, h)
  PROVE  /\ todo[t] \in Seq(Steps) /\ todo[t] # << >>
         /\ h \in Steps /\ h \in Todo(t)
         /\ Tail(todo[t]) \in Seq(Steps) /\ InOrder(Tail(todo[t]))
         /\ Elems(Tail(todo[t])) = Todo(t) \ {h} /\ Todo(t) \ {h} \subseteq After(h)
<1>1. /\ todo[t] \in Seq(Steps) /\ InOrder(todo[t]) /\ todo[t] # << >> /\ h = Head(todo[t])
  BY DEF Lists, At
<1>2. /\ Tail(todo[t]) \in Seq(Steps) /\ InOrder(Tail(todo[t])) /\ h \in Todo(t) /\ h \in Steps
      /\ Todo(t) = {h} \cup Elems(Tail(todo[t])) /\ Elems(Tail(todo[t])) \subseteq After(h)
  BY <1>1, Tails DEF Todo, Elems
<1>3. h \notin Elems(Tail(todo[t]))
  BY <1>2 DEF Steps, After, AfterTake
<1> QED  BY <1>1, <1>2, <1>3

LEMMA ListsOf ==
  ASSUME Lists, NEW t \in Tasks, NEW l \in Seq(Steps), InOrder(l),
         todo' = [todo EXCEPT ![t] = l]
  PROVE  Lists' /\ Todo(t)' = Elems(l) /\ \A u \in Tasks \ {t} : Todo(u)' = Todo(u)
<1>1. /\ todo' \in [Tasks -> Seq(Steps)] /\ todo'[t] = l
      /\ \A u \in Tasks \ {t} : todo'[u] = todo[u]
  BY DEF Lists
<1>2. Todo(t)' = Elems(l) /\ \A u \in Tasks \ {t} : Todo(u)' = Todo(u)
  BY <1>1 DEF Todo, Elems
<1>3. \A u \in Tasks : InOrder(todo'[u])
  BY <1>1 DEF Lists
<1> QED  BY <1>1, <1>2, <1>3 DEF Lists

LEMMA GoesOn ==
  ASSUME Lists, NEW t \in Tasks, NEW h, At(t, h), NEW s \in Seq(Steps), InOrder(s),
         \A x \in Elems(s) : After(h) \subseteq After(x), GoOn(t, s)
  PROVE  Moves(t, h, Elems(s))
<1> DEFINE l == Tail(todo[t])
<1>1. /\ l \in Seq(Steps) /\ InOrder(l) /\ h \in Steps /\ h \in Todo(t)
      /\ Elems(l) = Todo(t) \ {h} /\ Todo(t) \ {h} \subseteq After(h)
  BY HeadOf
<1>2. todo' = [todo EXCEPT ![t] = s \o l]
  BY DEF GoOn
<1> HIDE DEF l
<1>3. s \o l \in Seq(Steps) /\ InOrder(s \o l) /\ Elems(s \o l) = Elems(s) \cup Elems(l)
  BY <1>1, Joined
<1> QED  BY <1>1, <1>2, <1>3, ListsOf DEF Moves

LEMMA Pops ==
  ASSUME Lists, NEW t \in Tasks, NEW h, At(t, h), GoOn(t, << >>)
  PROVE  Moves(t, h, {})
BY NoStep, GoesOn

\* Between calls a task has nothing to do, or sleeps in its retry loop.
LEMMA BusyOf ==
  ASSUME Lists, NEW t \in Tasks
  PROVE  /\ Busy(t) <=> ~(Todo(t) \subseteq {"retry"})
         /\ todo[t] = << >> <=> Todo(t) = {}
         /\ todo[t] = <<"retry">> => Todo(t) = {"retry"} /\ At(t, "retry")
<1> DEFINE l == todo[t]
<1>1. l \in Seq(Steps) /\ DOMAIN l = 1..Len(l) /\ Len(l) \in Nat /\ InOrder(l)
  BY DEF Lists
<1>2. l = << >> <=> Len(l) = 0
  BY <1>1
<1>3. "retry" \in Steps /\ After("retry") = {}
  BY DEF Steps, After
<1>4. l = <<"retry">> => Todo(t) = {"retry"} /\ Head(l) = "retry" /\ l # << >>
  BY <1>3, OneStep DEF Todo
<1>5. l = << >> => Todo(t) = {}
  BY NoStep DEF Todo, Elems
<1>6. l # << >> => Todo(t) # {}
  BY <1>1, Tails DEF Todo, Elems
<1>7. ASSUME Todo(t) \subseteq {"retry"}, l # << >>  PROVE l = <<"retry">>
  <2>1. \A i \in 1..Len(l) : l[i] = "retry"
    BY <1>1, <1>7 DEF Todo, Elems
  <2>2. ASSUME Len(l) > 1  PROVE FALSE
    <3>1. 1 \in DOMAIN l /\ 2 \in DOMAIN l /\ 1 < 2
      BY <1>1, <2>2
    <3>2. l[2] \in After(l[1]) /\ l[1] = "retry"
      BY <1>1, <2>1, <3>1 DEF InOrder
    <3> QED  BY <1>3, <3>2
  <2>5. <<"retry">> \in Seq(Steps) /\ Len(<<"retry">>) = 1 /\ <<"retry">>[1] = "retry"
    BY <1>3
  <2> HIDE DEF l
  <2>3. Len(l) = 1
    <3>1. Len(l) # 0
      BY <1>2, <1>7
    <3> QED  BY <1>1, <2>2, <3>1
  <2>4. l[1] = "retry"
    BY <2>1, <2>3
  <2>6. \A i \in 1..Len(l) : l[i] = <<"retry">>[i]
    BY <2>3, <2>4, <2>5
  <2> QED  BY <1>1, <2>3, <2>5, <2>6, SeqEqual
<1> QED  BY <1>4, <1>5, <1>6, <1>7 DEF Busy, At

\* A task that is in no call begins to do P.
Begins(t, P) ==
  /\ Lists'
  /\ t \in Tasks \ RetryTasks /\ Todo(t) \subseteq {"retry"} /\ Todo(t)' = P
  /\ \A u \in Tasks \ {t} : Todo(u)' = Todo(u)

LEMMA BeginsOf ==
  ASSUME Lists, NEW t \in Tasks \ RetryTasks, MayBegin(t), NEW l \in Seq(Steps), InOrder(l),
         todo' = [todo EXCEPT ![t] = l]
  PROVE  Begins(t, Elems(l))
<1>1. Todo(t) \subseteq {"retry"}
  BY BusyOf DEF MayBegin
<1> QED  BY <1>1, ListsOf DEF Begins

LEMMA Crossing ==
  ASSUME NEW name, NEW others, Crosses(name, others)
  PROVE  crossed \subseteq crossed' /\ (others = {} \/ name \in crossed')
BY DEF Crosses

-----------------------------------------------------------------------------
(* What keeps each part of the invariant *)

LEMMA KeepsOwned ==
  ASSUME Owned, crossed \subseteq crossed',
         webrtc' = webrtc, held' = held, misused' = misused,
         \A h \in Handles : session'[h] = "free" <=> session[h] = "free",
         webrtc \in Handles \cup {NULL},
         \A u \in Tasks :
           /\ "close" \in Todo(u)' <=> "close" \in Todo(u)
           /\ "null" \in Todo(u)' <=> "null" \in Todo(u)
           /\ "open" \in Todo(u)' /\ "take" \notin Todo(u)' =>
                webrtc = NULL \/ ("open" \in Todo(u) /\ "take" \notin Todo(u))
  PROVE  Owned'
<1> SUFFICES ASSUME crossed' \cap {"taken", "opened"} = {}  PROVE OneOwner'
  BY DEF Owned
<1>1. OneOwner
  BY DEF Owned
<1>2. /\ misused' = FALSE
      /\ webrtc' # NULL => session'[webrtc'] # "free"
      /\ \A t \in Tasks : "close" \in Todo(t)' => held'[t] \in Handles /\ session'[held'[t]] # "free"
  BY <1>1 DEF OneOwner
<1>3. \A h \in Handles : session'[h] # "free" =>
        webrtc' = h \/ \E t \in Tasks : "close" \in Todo(t)' /\ held'[t] = h
  BY <1>1 DEF OneOwner
<1>4. \A t, u \in Tasks :
        "close" \in Todo(t)' /\ "close" \in Todo(u)' /\ held'[t] = held'[u] => t = u
  BY <1>1 DEF OneOwner
<1>5. /\ \A t \in Tasks : "null" \in Todo(t)' => "close" \in Todo(t)' /\ held'[t] = webrtc'
      /\ \A t \in Tasks : "close" \in Todo(t)' /\ "null" \notin Todo(t)' => held'[t] # webrtc'
  BY <1>1 DEF OneOwner
<1>6. \A t \in Tasks : "open" \in Todo(t)' /\ "take" \notin Todo(t)' =>
        webrtc' = NULL \/ "null" \in Todo(t)'
  BY <1>1 DEF OneOwner
<1> QED  BY <1>2, <1>3, <1>4, <1>5, <1>6 DEF OneOwner

LEMMA KeepsRetries ==
  ASSUME OneRetries, crossed \subseteq crossed', janus_retry_running' = janus_retry_running,
         \A r \in RetryTasks :
           /\ Todo(r)' # {} => Todo(r) # {}
           /\ "begin" \in Todo(r) => "begin" \in Todo(r)'
  PROVE  OneRetries'
BY DEF OneRetries, OneRetry

LEMMA KeepsFlagged ==
  ASSUME Flagged, crossed \subseteq crossed', webrtc' = webrtc,
         webrtc_connected' => webrtc_connected,
         \A u \in Tasks : MayUnset(u)' => MayUnset(u) \/ ~webrtc_connected'
  PROVE  Flagged'
BY DEF Flagged

LEMMA KeepsAsked ==
  ASSUME Asked, crossed \subseteq crossed', wanted' = wanted,
         webrtc' = webrtc \/ webrtc' = NULL,
         janus_retry_stop => janus_retry_stop',
         \A u \in Tasks :
           /\ Todo(u)' \cap {"start", "open"} # {} => Todo(u) \cap {"start", "open"} # {}
           /\ Todo(u) \cap {"take", "null"} # {} =>
                Todo(u)' \cap {"take", "null"} # {} \/ webrtc' = NULL
           /\ "stop" \in Todo(u) => "stop" \in Todo(u)' \/ janus_retry_stop',
         "decide" \in Todo("main")' => "decide" \in Todo("main") /\ sample' = sample,
         Fresh => Fresh'
  PROVE  Asked'
<1> SUFFICES ASSUME crossed' \cap {"stopped", "begun"} = {}, ~wanted  PROVE Unwanted'
  BY DEF Asked
<1>1. Unwanted
  BY DEF Asked
<1>2. \A t \in Tasks : Todo(t)' \cap {"start", "open"} = {}
  BY <1>1 DEF Unwanted
<1>3. "decide" \in Todo("main")' => ~sample'.running
  BY <1>1 DEF Unwanted
<1>4. webrtc' = NULL \/ \E t \in Tasks : Todo(t)' \cap {"take", "null"} # {}
  BY <1>1 DEF Unwanted
<1>5. janus_retry_stop' \/ (\E t \in Tasks : "stop" \in Todo(t)') \/ Fresh'
  BY <1>1 DEF Unwanted
<1> QED  BY <1>2, <1>3, <1>4, <1>5 DEF Unwanted

\* A freshness that no step of the task touches.
LEMMA KeepsFresh ==
  ASSUME Fresh, webrtc' = webrtc \/ webrtc' = NULL,
         \A h \in Handles : session[h] = "free" => session'[h] = "free",
         \A u \in Tasks :
           \/ Todo(u)' \cap {"start", "open", "connect", "schedule"} = {}
           \/ Todo(u) \cap {"start", "open", "connect", "schedule"} # {},
         \A r \in RetryTasks : Todo(r)' # {} => Todo(r) # {}
  PROVE  Fresh'
BY DEF Fresh

\* A step that only takes a step off the task's list.
LEMMA PopKeeps ==
  ASSUME KeptInv, NEW t \in Tasks, NEW h \in {"decide", "forget", "reset", "mqtt_stop", "schedule"},
         Moves(t, h, {}),
         UNCHANGED <<webrtc, session, held, misused, janus_retry_running, janus_retry_stop,
                     webrtc_connected, wanted, crossed>>,
         sample' = sample \/ (t = "main" /\ h = "decide")
  PROVE  KeptInv'
<1>1. /\ Lists' /\ Todo(t)' = Todo(t) \ {h} /\ \A u \in Tasks \ {t} : Todo(u)' = Todo(u)
      /\ h \in Todo(t)
  BY DEF Moves
<1>2. \A u \in Tasks, s \in {"close", "null", "open", "take", "stop", "connect", "start", "begin"} :
        s \in Todo(u)' <=> s \in Todo(u)
  BY <1>1
<1>3. \A u \in Tasks : Todo(u)' \subseteq Todo(u)
  BY <1>1
<1>4. SessionTypes' /\ webrtc \in Handles \cup {NULL}
  BY DEF KeptInv, SessionTypes
<1>5. Owned'
  BY <1>2, <1>4, KeepsOwned DEF KeptInv
<1>6. OneRetries'
  BY <1>2, <1>3, KeepsRetries DEF KeptInv, Tasks
<1>7. Flagged'
  BY <1>2, KeepsFlagged DEF KeptInv, MayUnset
<1>8. Asked'
  <2>1. Fresh => Fresh'
    BY <1>3, KeepsFresh DEF Tasks
  <2>2. "decide" \in Todo("main")' => "decide" \in Todo("main") /\ sample' = sample
    <3>1. "main" \in Tasks
      BY DEF Tasks, AllCallers
    <3> QED  BY <1>1, <1>3, <3>1
  <2>3. \A u \in Tasks : Todo(u)' \cap {"start", "open"} = Todo(u) \cap {"start", "open"}
    BY <1>2
  <2>4. \A u \in Tasks : Todo(u)' \cap {"take", "null"} = Todo(u) \cap {"take", "null"}
    BY <1>2
  <2> QED  BY <1>2, <2>1, <2>2, <2>3, <2>4, KeepsAsked DEF KeptInv
<1> QED  BY <1>1, <1>4, <1>5, <1>6, <1>7, <1>8 DEF KeptInv

\* A beginning leaves the sessions and the retry tasks alone.
LEMMA BeginKeeps ==
  ASSUME KeptInv, NEW t, NEW P, Begins(t, P),
         P \cap {"close", "null", "open", "connect"} = {},
         UNCHANGED <<webrtc, session, held, misused, janus_retry_running>>,
         crossed \subseteq crossed', webrtc_connected' => webrtc_connected,
         "take" \in P => "stop" \in P \/ ~webrtc_connected'
  PROVE  Lists' /\ Owned' /\ OneRetries' /\ Flagged'
<1>1. /\ Lists' /\ Todo(t) \subseteq {"retry"} /\ Todo(t)' = P /\ t \in Tasks \ RetryTasks
      /\ \A u \in Tasks \ {t} : Todo(u)' = Todo(u)
  BY DEF Begins
<1>2. \A u \in Tasks, s \in {"close", "null", "open"} :
        (s \in Todo(u)' <=> s \in Todo(u)) /\ (u = t => s \notin Todo(u)')
  BY <1>1
<1>3. Owned'
  <2>1. \A u \in Tasks : "open" \in Todo(u)' /\ "take" \notin Todo(u)' =>
                           "open" \in Todo(u) /\ "take" \notin Todo(u)
    BY <1>1, <1>2
  <2>2. webrtc \in Handles \cup {NULL}
    BY DEF KeptInv, SessionTypes
  <2> QED  BY <1>2, <2>1, <2>2, KeepsOwned DEF KeptInv
<1>4. OneRetries'
  <2>1. \A r \in RetryTasks : Todo(r)' = Todo(r)
    BY <1>1 DEF Tasks
  <2> QED  BY <2>1, KeepsRetries DEF KeptInv
<1>5. Flagged'
  <2>1. \A u \in Tasks : MayUnset(u)' => MayUnset(u) \/ ~webrtc_connected'
    <3>1. MayUnset(t)' => ~webrtc_connected'
      BY <1>1 DEF MayUnset
    <3>2. \A u \in Tasks \ {t} : MayUnset(u)' => MayUnset(u)
      BY <1>1 DEF MayUnset
    <3> QED  BY <3>1, <3>2
  <2> QED  BY <2>1, KeepsFlagged DEF KeptInv
<1> QED  BY <1>1, <1>3, <1>4, <1>5

-----------------------------------------------------------------------------
(* The steps of a call *)

LEMMA StopKept ==
  ASSUME KeptInv, NEW t \in Tasks, Stop(t)
  PROVE  KeptInv'
<1>1. Moves(t, "stop", {})
  BY Pops DEF KeptInv, Stop
<1>2. /\ webrtc' = webrtc /\ session' = session /\ held' = held /\ wanted' = wanted
      /\ misused' = misused /\ sample' = sample /\ janus_retry_running' = janus_retry_running
      /\ crossed' = crossed /\ webrtc_connected' = FALSE /\ janus_retry_stop' = TRUE
  BY DEF Stop, locals, history
<1>3. /\ Lists' /\ Todo(t)' = Todo(t) \ {"stop"} /\ \A u \in Tasks \ {t} : Todo(u)' = Todo(u)
  BY <1>1 DEF Moves
<1>4. \A u \in Tasks, s \in Steps \ {"stop"} : s \in Todo(u)' <=> s \in Todo(u)
  BY <1>3
<1>5. SessionTypes' /\ webrtc \in Handles \cup {NULL}
  BY <1>2 DEF KeptInv, SessionTypes
<1>6. \A u \in Tasks :
        /\ "close" \in Todo(u)' <=> "close" \in Todo(u)
        /\ "null" \in Todo(u)' <=> "null" \in Todo(u)
        /\ "open" \in Todo(u)' <=> "open" \in Todo(u)
        /\ "take" \in Todo(u)' <=> "take" \in Todo(u)
        /\ "begin" \in Todo(u)' <=> "begin" \in Todo(u)
        /\ "start" \in Todo(u)' <=> "start" \in Todo(u)
        /\ "decide" \in Todo(u)' <=> "decide" \in Todo(u)
        /\ Todo(u)' \subseteq Todo(u)
  BY <1>3, <1>4 DEF Steps
<1>7. Owned'
  BY <1>2, <1>5, <1>6, KeepsOwned DEF KeptInv
<1>8. OneRetries'
  BY <1>2, <1>6, KeepsRetries DEF KeptInv, Tasks
<1>9. Flagged'
  BY <1>2, KeepsFlagged DEF KeptInv
<1>10. Asked'
  <2>1. Fresh => Fresh'
    BY <1>2, <1>6, KeepsFresh DEF Tasks
  <2>2. \A u \in Tasks : Todo(u)' \cap {"start", "open"} = Todo(u) \cap {"start", "open"}
    BY <1>6
  <2>3. \A u \in Tasks : Todo(u)' \cap {"take", "null"} = Todo(u) \cap {"take", "null"}
    BY <1>6
  <2>4. "main" \in Tasks
    BY DEF Tasks, AllCallers
  <2> QED  BY <1>2, <1>6, <2>1, <2>2, <2>3, <2>4, KeepsAsked DEF KeptInv
<1> QED  BY <1>3, <1>5, <1>7, <1>8, <1>9, <1>10 DEF KeptInv

LEMMA TakeKept ==
  ASSUME KeptInv, NEW t \in Tasks, Take(t)
  PROVE  KeptInv'
<1> DEFINE P == IF webrtc = NULL THEN {} ELSE {"null", "close"}
<1>1. /\ webrtc' = webrtc /\ session' = session /\ wanted' = wanted
      /\ misused' = misused /\ sample' = sample /\ janus_retry_running' = janus_retry_running
      /\ webrtc_connected' = webrtc_connected /\ janus_retry_stop' = janus_retry_stop
      /\ held' = [held EXCEPT ![t] = webrtc] /\ At(t, "take")
      /\ GoOn(t, IF webrtc = NULL THEN << >> ELSE <<"null", "close">>)
      /\ Crosses("taken", IF webrtc = NULL THEN {} ELSE ToClear \ {t})
  BY DEF Take, globals, sessions, retries
<1>2. Moves(t, "take", P)
  <2>1. CASE webrtc = NULL
    BY <1>1, <2>1, Pops DEF KeptInv
  <2>2. CASE webrtc # NULL
    <3>1. /\ <<"null", "close">> \in Seq(Steps) /\ InOrder(<<"null", "close">>)
          /\ Elems(<<"null", "close">>) = {"null", "close"}
      BY TwoSteps DEF Steps, After
    <3>2. \A x \in {"null", "close"} : After("take") \subseteq After(x)
      BY DEF After
    <3> QED  BY <1>1, <2>2, <3>1, <3>2, GoesOn DEF KeptInv
  <2> QED  BY <2>1, <2>2
<1>3. /\ Lists' /\ Todo(t)' = P \cup (Todo(t) \ {"take"}) /\ "take" \in Todo(t)
      /\ Todo(t) \ {"take"} \subseteq AfterTake /\ \A u \in Tasks \ {t} : Todo(u)' = Todo(u)
  BY <1>2 DEF Moves, After
<1>4. /\ crossed \subseteq crossed'
      /\ webrtc = NULL \/ ToClear \ {t} = {} \/ "taken" \in crossed'
  BY <1>1, Crossing
<1>5. \A s \in {"stop", "close", "null", "decide", "begin", "connect"} : s \notin Todo(t)
  BY <1>3 DEF AfterTake
<1>6. SessionTypes'
  BY <1>1 DEF KeptInv, SessionTypes
<1> DEFINE took == webrtc # NULL
<1>7. /\ "close" \in Todo(t)' <=> took
      /\ "null" \in Todo(t)' <=> took
      /\ "take" \notin Todo(t)' /\ "begin" \notin Todo(t)' /\ "decide" \notin Todo(t)'
      /\ "stop" \notin Todo(t)'
      /\ "open" \in Todo(t)' <=> "open" \in Todo(t)
      /\ "start" \in Todo(t)' <=> "start" \in Todo(t)
      /\ "schedule" \in Todo(t)' <=> "schedule" \in Todo(t)
      /\ "connect" \notin Todo(t)'
  BY <1>3, <1>5
<1> HIDE DEF P
<1>8. Owned'
  <2> SUFFICES ASSUME crossed' \cap {"taken", "opened"} = {}  PROVE OneOwner'
    BY DEF Owned
  <2>1. OneOwner
    BY <1>4 DEF KeptInv, Owned
  <2>2. CASE webrtc = NULL
    <3>1. \A u \in Tasks : "close" \in Todo(u)' => u # t
      BY <1>7, <2>2
    <3>2. \A u \in Tasks \ {t} : held'[u] = held[u] /\ Todo(u)' = Todo(u)
      BY <1>1, <1>3 DEF KeptInv, SessionTypes
    <3>3. \A u \in Tasks : "null" \in Todo(u)' => u # t
      BY <1>7, <2>2
    <3>4. \A h \in Handles : session'[h] # "free" =>
            webrtc' = h \/ \E u \in Tasks : "close" \in Todo(u)' /\ held'[u] = h
      <4> SUFFICES ASSUME NEW h \in Handles, session[h] # "free", webrtc # h
                   PROVE  \E u \in Tasks : "close" \in Todo(u)' /\ held'[u] = h
        BY <1>1
      <4>1. PICK u \in Tasks : "close" \in Todo(u) /\ held[u] = h
        BY <2>1 DEF OneOwner
      <4>2. u # t
        BY <1>5, <4>1
      <4> QED  BY <3>2, <4>1, <4>2
    <3>5. /\ \A u \in Tasks : "close" \in Todo(u)' => held'[u] \in Handles /\ session'[held'[u]] # "free"
          /\ \A u, v \in Tasks :
               "close" \in Todo(u)' /\ "close" \in Todo(v)' /\ held'[u] = held'[v] => u = v
          /\ \A u \in Tasks : "null" \in Todo(u)' => "close" \in Todo(u)' /\ held'[u] = webrtc'
          /\ \A u \in Tasks : "close" \in Todo(u)' /\ "null" \notin Todo(u)' => held'[u] # webrtc'
      BY <1>1, <2>1, <3>1, <3>2, <3>3 DEF OneOwner
    <3> QED  BY <1>1, <2>1, <2>2, <3>4, <3>5 DEF OneOwner
  <2>3. CASE webrtc # NULL
    <3>1. \A u \in Tasks \ {t} : "null" \notin Todo(u)
      BY <1>4, <2>3 DEF ToClear
    <3>2. \A u \in Tasks \ {t} : held'[u] = held[u] /\ Todo(u)' = Todo(u)
      BY <1>1, <1>3 DEF KeptInv, SessionTypes
    <3>3. held'[t] = webrtc /\ webrtc \in Handles /\ session[webrtc] # "free"
      BY <1>1, <2>1, <2>3 DEF KeptInv, SessionTypes, OneOwner
    <3>4. \A u \in Tasks \ {t} : "close" \in Todo(u) => held[u] # webrtc
      BY <2>1, <3>1 DEF OneOwner
    <3>5. \A h \in Handles : session'[h] # "free" =>
            webrtc' = h \/ \E u \in Tasks : "close" \in Todo(u)' /\ held'[u] = h
      <4> SUFFICES ASSUME NEW h \in Handles, session[h] # "free", webrtc # h
                   PROVE  \E u \in Tasks : "close" \in Todo(u)' /\ held'[u] = h
        BY <1>1
      <4>1. PICK u \in Tasks : "close" \in Todo(u) /\ held[u] = h
        BY <2>1 DEF OneOwner
      <4>2. u # t
        BY <1>5, <4>1
      <4> QED  BY <3>2, <4>1, <4>2
    <3>6. \A u \in Tasks : "close" \in Todo(u)' => held'[u] \in Handles /\ session'[held'[u]] # "free"
      BY <1>1, <2>1, <3>2, <3>3 DEF OneOwner
    <3>7. \A u, v \in Tasks :
            "close" \in Todo(u)' /\ "close" \in Todo(v)' /\ held'[u] = held'[v] => u = v
      BY <2>1, <3>2, <3>3, <3>4 DEF OneOwner
    <3>8. /\ \A u \in Tasks : "null" \in Todo(u)' => "close" \in Todo(u)' /\ held'[u] = webrtc'
          /\ \A u \in Tasks : "close" \in Todo(u)' /\ "null" \notin Todo(u)' => held'[u] # webrtc'
      BY <1>1, <1>7, <2>1, <2>3, <3>2, <3>3, <3>1, <3>4 DEF OneOwner
    <3>9. \A u \in Tasks : "open" \in Todo(u)' /\ "take" \notin Todo(u)' =>
            webrtc' = NULL \/ "null" \in Todo(u)'
      BY <1>1, <1>7, <2>1, <2>3, <3>2 DEF OneOwner
    <3> QED  BY <1>1, <2>1, <3>5, <3>6, <3>7, <3>8, <3>9 DEF OneOwner
  <2> QED  BY <2>2, <2>3
<1>9. OneRetries'
  <2>1. \A r \in RetryTasks : (Todo(r)' # {} => Todo(r) # {}) /\ ("begin" \in Todo(r) => "begin" \in Todo(r)')
    BY <1>3, <1>5 DEF Tasks
  <2> QED  BY <1>1, <1>4, <2>1, KeepsRetries DEF KeptInv
<1>10. Flagged'
  <2>1. MayUnset(t)
    BY <1>3, <1>5 DEF MayUnset
  <2>2. \A u \in Tasks : MayUnset(u)' => MayUnset(u)
    BY <1>3, <2>1 DEF MayUnset
  <2> QED  BY <1>1, <1>4, <2>2, KeepsFlagged DEF KeptInv
<1>11. Asked'
  <2>1. \A u \in Tasks : Todo(u)' \cap {"start", "open"} # {} => Todo(u) \cap {"start", "open"} # {}
    BY <1>3, <1>7
  <2>2. \A u \in Tasks : Todo(u) \cap {"take", "null"} # {} =>
          Todo(u)' \cap {"take", "null"} # {} \/ webrtc' = NULL
    BY <1>1, <1>3, <1>7
  <2>3. "main" \in Tasks
    BY DEF Tasks, AllCallers
  <2>4. "decide" \in Todo("main")' => "decide" \in Todo("main") /\ sample' = sample
    BY <1>1, <1>3, <1>7, <2>3
  <2>5. \A u \in Tasks : "stop" \in Todo(u) => "stop" \in Todo(u)'
    BY <1>3, <1>5
  <2>6. Fresh => Fresh'
    <3>1. \A u \in Tasks :
            \/ Todo(u)' \cap {"start", "open", "connect", "schedule"} = {}
            \/ Todo(u) \cap {"start", "open", "connect", "schedule"} # {}
      BY <1>3, <1>7
    <3>2. \A r \in RetryTasks : Todo(r)' # {} => Todo(r) # {}
      BY <1>3 DEF Tasks
    <3> QED  BY <1>1, <3>1, <3>2, KeepsFresh
  <2> QED  BY <1>1, <1>4, <2>1, <2>2, <2>4, <2>5, <2>6, KeepsAsked DEF KeptInv
<1> QED  BY <1>3, <1>6, <1>8, <1>9, <1>10, <1>11 DEF KeptInv

LEMMA ClearKept ==
  ASSUME KeptInv, NEW t \in Tasks, ClearWebrtc(t)
  PROVE  KeptInv'
<1>1. Moves(t, "null", {})
  BY Pops DEF KeptInv, ClearWebrtc
<1>2. /\ webrtc' = NULL /\ session' = session /\ held' = held /\ wanted' = wanted
      /\ misused' = misused /\ sample' = sample /\ janus_retry_running' = janus_retry_running
      /\ webrtc_connected' = webrtc_connected /\ janus_retry_stop' = janus_retry_stop
      /\ crossed' = crossed
  BY DEF ClearWebrtc, locals, retries
<1>3. /\ Lists' /\ Todo(t)' = Todo(t) \ {"null"} /\ "null" \in Todo(t)
      /\ Todo(t) \ {"null"} \subseteq AfterTake \cup {"close"}
      /\ \A u \in Tasks \ {t} : Todo(u)' = Todo(u)
  BY <1>1 DEF Moves, After
<1>4. \A s \in {"stop", "decide", "begin", "connect"} : s \notin Todo(t)
  BY <1>3 DEF AfterTake
<1>5. SessionTypes'
  BY <1>2 DEF KeptInv, SessionTypes
<1>6. \A u \in Tasks : Todo(u)' \subseteq Todo(u)
  BY <1>3
<1>7. Owned'
  <2> SUFFICES ASSUME crossed \cap {"taken", "opened"} = {}  PROVE OneOwner'
    BY <1>2 DEF Owned
  <2>1. OneOwner
    BY DEF KeptInv, Owned
  <2>2. "close" \in Todo(t) /\ held[t] = webrtc /\ held[t] \in Handles
    BY <1>3, <2>1 DEF OneOwner
  <2>3. \A u \in Tasks : "close" \in Todo(u)' <=> "close" \in Todo(u)
    BY <1>3
  <2>4. \A u \in Tasks : "null" \notin Todo(u)'
    <3> SUFFICES ASSUME NEW u \in Tasks, u # t, "null" \in Todo(u)  PROVE FALSE
      BY <1>3
    <3> QED  BY <2>1, <2>2 DEF OneOwner
  <2>5. \A u \in Tasks : "close" \in Todo(u) => held[u] # NULL
    BY <2>1, SessionAssumption DEF OneOwner
  <2>6. \A h \in Handles : session'[h] # "free" =>
          webrtc' = h \/ \E u \in Tasks : "close" \in Todo(u)' /\ held'[u] = h
    BY <1>2, <2>1, <2>2, <2>3 DEF OneOwner
  <2>7. /\ \A u \in Tasks : "close" \in Todo(u)' => held'[u] \in Handles /\ session'[held'[u]] # "free"
        /\ \A u, v \in Tasks :
             "close" \in Todo(u)' /\ "close" \in Todo(v)' /\ held'[u] = held'[v] => u = v
    BY <1>2, <2>1, <2>3 DEF OneOwner
  <2> QED  BY <1>2, <2>1, <2>3, <2>4, <2>5, <2>6, <2>7 DEF OneOwner
<1>8. OneRetries'
  <2>1. \A r \in RetryTasks : (Todo(r)' # {} => Todo(r) # {}) /\ ("begin" \in Todo(r) => "begin" \in Todo(r)')
    BY <1>3 DEF Tasks
  <2> QED  BY <1>2, <2>1, KeepsRetries DEF KeptInv
<1>9. Flagged'
  <2>1. MayUnset(t)
    BY <1>3, <1>4 DEF MayUnset
  <2>2. \A u \in Tasks : MayUnset(u)' => MayUnset(u)
    BY <1>3, <2>1 DEF MayUnset
  <2> QED  BY <1>2, <2>1, <2>2 DEF KeptInv, Flagged
<1>10. Asked'
  <2>1. Fresh => Fresh'
    BY <1>2, <1>6, KeepsFresh DEF Tasks
  <2>2. \A u \in Tasks : Todo(u)' \cap {"start", "open"} # {} => Todo(u) \cap {"start", "open"} # {}
    BY <1>6
  <2>3. \A u \in Tasks : "stop" \in Todo(u) => "stop" \in Todo(u)'
    BY <1>3
  <2>4. "main" \in Tasks
    BY DEF Tasks, AllCallers
  <2> QED  BY <1>2, <1>6, <2>1, <2>2, <2>3, <2>4, KeepsAsked DEF KeptInv
<1> QED  BY <1>3, <1>5, <1>7, <1>8, <1>9, <1>10 DEF KeptInv

LEMMA CloseKept ==
  ASSUME KeptInv, NEW t \in Tasks, Close(t)
  PROVE  KeptInv'
<1>1. Moves(t, "close", {})
  BY Pops DEF KeptInv, Close
<1>2. /\ webrtc' = webrtc /\ wanted' = wanted /\ crossed' = crossed
      /\ sample' = sample /\ janus_retry_running' = janus_retry_running
      /\ webrtc_connected' = webrtc_connected /\ janus_retry_stop' = janus_retry_stop
      /\ session' = [session EXCEPT ![held[t]] = "free"] /\ held' = [held EXCEPT ![t] = NULL]
      /\ misused' = (misused \/ session[held[t]] = "free")
  BY DEF Close, retries
<1>3. /\ Lists' /\ Todo(t)' = Todo(t) \ {"close"} /\ "close" \in Todo(t)
      /\ Todo(t) \ {"close"} \subseteq AfterTake
      /\ \A u \in Tasks \ {t} : Todo(u)' = Todo(u)
  BY <1>1 DEF Moves, After
<1>4. \A s \in {"stop", "null", "begin"} : s \notin Todo(t)
  BY <1>3 DEF AfterTake
<1>5. SessionTypes'
  BY <1>2 DEF KeptInv, SessionTypes
<1>6. /\ \A u \in Tasks : Todo(u)' \subseteq Todo(u)
      /\ \A u \in Tasks : "null" \in Todo(u)' <=> "null" \in Todo(u)
      /\ \A u \in Tasks : "take" \in Todo(u)' <=> "take" \in Todo(u)
      /\ \A u \in Tasks : "stop" \in Todo(u)' <=> "stop" \in Todo(u)
      /\ \A u \in Tasks : "begin" \in Todo(u)' <=> "begin" \in Todo(u)
      /\ \A u \in Tasks : "close" \in Todo(u)' <=> "close" \in Todo(u) /\ u # t
  BY <1>3
<1>7. Owned'
  <2> SUFFICES ASSUME crossed \cap {"taken", "opened"} = {}  PROVE OneOwner'
    BY <1>2 DEF Owned
  <2>1. OneOwner
    BY DEF KeptInv, Owned
  <2>2. held[t] \in Handles /\ session[held[t]] # "free" /\ held[t] # webrtc
    BY <1>3, <1>4, <2>1 DEF OneOwner
  <2>3. \A h \in Handles : session'[h] = IF h = held[t] THEN "free" ELSE session[h]
    BY <1>2, <2>2 DEF KeptInv, SessionTypes
  <2>4. \A u \in Tasks \ {t} : held'[u] = held[u]
    BY <1>2 DEF KeptInv, SessionTypes
  <2>5. misused' = FALSE
    BY <1>2, <2>1, <2>2 DEF OneOwner
  <2>6. webrtc' # NULL => session'[webrtc'] # "free"
    BY <1>2, <2>1, <2>2, <2>3 DEF KeptInv, SessionTypes, OneOwner
  <2>7. \A h \in Handles : session'[h] # "free" =>
          webrtc' = h \/ \E u \in Tasks : "close" \in Todo(u)' /\ held'[u] = h
    <3> SUFFICES ASSUME NEW h \in Handles, h # held[t], session[h] # "free", webrtc # h
                 PROVE  \E u \in Tasks : "close" \in Todo(u)' /\ held'[u] = h
      BY <1>2, <2>3
    <3>1. PICK u \in Tasks : "close" \in Todo(u) /\ held[u] = h
      BY <2>1 DEF OneOwner
    <3> QED  BY <1>6, <2>4, <3>1
  <2>8. \A u \in Tasks : "close" \in Todo(u)' => held'[u] \in Handles /\ session'[held'[u]] # "free"
    <3> SUFFICES ASSUME NEW u \in Tasks \ {t}, "close" \in Todo(u)
                 PROVE  held'[u] \in Handles /\ session'[held'[u]] # "free"
      BY <1>6
    <3>1. held[u] \in Handles /\ session[held[u]] # "free" /\ held[u] # held[t]
      BY <1>3, <2>1 DEF OneOwner
    <3> QED  BY <2>3, <2>4, <3>1
  <2>9. \A u, v \in Tasks :
          "close" \in Todo(u)' /\ "close" \in Todo(v)' /\ held'[u] = held'[v] => u = v
    BY <1>6, <2>1, <2>4 DEF OneOwner
  <2>10. /\ \A u \in Tasks : "null" \in Todo(u)' => "close" \in Todo(u)' /\ held'[u] = webrtc'
         /\ \A u \in Tasks : "close" \in Todo(u)' /\ "null" \notin Todo(u)' => held'[u] # webrtc'
    <3>1. \A u \in Tasks : "null" \in Todo(u) => u # t
      BY <1>4
    <3> QED  BY <1>2, <1>6, <2>1, <2>4, <3>1 DEF OneOwner
  <2>11. \A u \in Tasks : "open" \in Todo(u)' /\ "take" \notin Todo(u)' =>
           webrtc' = NULL \/ "null" \in Todo(u)'
    BY <1>2, <1>6, <2>1 DEF OneOwner
  <2> QED  BY <2>5, <2>6, <2>7, <2>8, <2>9, <2>10, <2>11 DEF OneOwner
<1>8. OneRetries'
  BY <1>2, <1>6, KeepsRetries DEF KeptInv, Tasks
<1>9. Flagged'
  <2>1. \A u \in Tasks : MayUnset(u)' => MayUnset(u)
    BY <1>6 DEF MayUnset
  <2> QED  BY <1>2, <2>1, KeepsFlagged DEF KeptInv
<1>10. Asked'
  <2>1. Fresh => Fresh'
    <3>1. \A h \in Handles : session[h] = "free" => session'[h] = "free"
      BY <1>2 DEF KeptInv, SessionTypes
    <3> QED  BY <1>2, <1>6, <3>1, KeepsFresh DEF Tasks
  <2>2. \A u \in Tasks : Todo(u)' \cap {"start", "open"} # {} => Todo(u) \cap {"start", "open"} # {}
    BY <1>6
  <2>3. \A u \in Tasks : Todo(u)' \cap {"take", "null"} = Todo(u) \cap {"take", "null"}
    BY <1>6
  <2>4. "main" \in Tasks
    BY DEF Tasks, AllCallers
  <2> QED  BY <1>2, <1>6, <2>1, <2>2, <2>3, <2>4, KeepsAsked DEF KeptInv
<1> QED  BY <1>3, <1>5, <1>7, <1>8, <1>9, <1>10 DEF KeptInv

LEMMA StartKept ==
  ASSUME KeptInv, NEW t \in Tasks, Start(t)
  PROVE  KeptInv'
<1> DEFINE P == IF ~network_connected THEN {} ELSE IF webrtc = NULL THEN {"open"}
                ELSE {"take", "open"}
<1>1. /\ webrtc' = webrtc /\ session' = session /\ held' = held /\ wanted' = wanted
      /\ misused' = misused /\ sample' = sample /\ janus_retry_running' = janus_retry_running
      /\ crossed' = crossed /\ At(t, "start")
      /\ P = {} => webrtc_connected' = webrtc_connected /\ janus_retry_stop' = janus_retry_stop
      /\ P # {} => /\ webrtc_connected' = (webrtc_connected /\ webrtc = NULL)
                   /\ janus_retry_stop' = FALSE
  BY DEF Start, locals, history
<1>2. Moves(t, "start", P)
  <2>1. /\ <<"open">> \in Seq(Steps) /\ InOrder(<<"open">>) /\ Elems(<<"open">>) = {"open"}
        /\ <<"take", "open">> \in Seq(Steps) /\ InOrder(<<"take", "open">>)
        /\ Elems(<<"take", "open">>) = {"take", "open"}
    <3>1. "take" \in Steps /\ "open" \in Steps /\ "open" \in After("take")
      BY DEF Steps, After, AfterTake
    <3> QED  BY <3>1, OneStep, TwoSteps
  <2>2. \A x \in {"take", "open"} : After("start") \subseteq After(x)
    BY DEF After, AfterTake
  <2>3. CASE ~network_connected
    BY <1>1, <2>3, Pops DEF KeptInv, Start
  <2>4. CASE network_connected /\ webrtc = NULL
    <3>1. GoOn(t, <<"open">>)
      BY <2>4 DEF Start
    <3> QED  BY <1>1, <2>1, <2>2, <2>4, <3>1, GoesOn DEF KeptInv
  <2>5. CASE network_connected /\ webrtc # NULL
    <3>1. GoOn(t, <<"take", "open">>)
      BY <2>5 DEF Start
    <3> QED  BY <1>1, <2>1, <2>2, <2>5, <3>1, GoesOn DEF KeptInv
  <2> QED  BY <2>3, <2>4, <2>5
<1>3. /\ Lists' /\ Todo(t)' = P \cup (Todo(t) \ {"start"}) /\ "start" \in Todo(t)
      /\ Todo(t) \ {"start"} \subseteq {"retry"}
      /\ \A u \in Tasks \ {t} : Todo(u)' = Todo(u)
  BY <1>2 DEF Moves, After
<1>4. /\ \A s \in {"close", "null", "begin"} : s \notin Todo(t) /\ s \notin Todo(t)'
      /\ "open" \in Todo(t)' => "take" \in Todo(t)' \/ webrtc = NULL
  BY <1>3
<1>5. SessionTypes' /\ webrtc \in Handles \cup {NULL}
  BY <1>1 DEF KeptInv, SessionTypes
<1>6. Owned'
  <2>1. \A u \in Tasks :
          /\ "close" \in Todo(u)' <=> "close" \in Todo(u)
          /\ "null" \in Todo(u)' <=> "null" \in Todo(u)
          /\ "open" \in Todo(u)' /\ "take" \notin Todo(u)' =>
               webrtc = NULL \/ ("open" \in Todo(u) /\ "take" \notin Todo(u))
    BY <1>3, <1>4
  <2> QED  BY <1>1, <1>5, <2>1, KeepsOwned DEF KeptInv
<1>7. OneRetries'
  <2>1. \A r \in RetryTasks : (Todo(r)' # {} => Todo(r) # {}) /\ ("begin" \in Todo(r) => "begin" \in Todo(r)')
    BY <1>3, <1>4 DEF Tasks
  <2> QED  BY <1>1, <2>1, KeepsRetries DEF KeptInv
<1>8. Flagged'
  <2>1. CASE P = {}
    <3>1. \A u \in Tasks : MayUnset(u)' => MayUnset(u)
      BY <1>3, <2>1 DEF MayUnset
    <3> QED  BY <1>1, <2>1, <3>1, KeepsFlagged DEF KeptInv
  <2>2. CASE P # {}
    BY <1>1, <2>2 DEF KeptInv, Flagged
  <2> QED  BY <2>1, <2>2
<1>9. Asked'
  BY <1>1, <1>3 DEF KeptInv, Asked, Unwanted
<1> QED  BY <1>3, <1>5, <1>6, <1>7, <1>8, <1>9 DEF KeptInv

LEMMA OpenKept ==
  ASSUME KeptInv, NEW t \in Tasks, Open(t)
  PROVE  KeptInv'
<1>1. /\ held' = held /\ wanted' = wanted
      /\ misused' = misused /\ sample' = sample /\ janus_retry_running' = janus_retry_running
      /\ webrtc_connected' = webrtc_connected /\ janus_retry_stop' = janus_retry_stop
      /\ At(t, "open") /\ GoOn(t, <<"connect">>)
      /\ Crosses("opened", (ToClear \cup ToOpen) \ {t})
  BY DEF Open, retries, locals
<1>2. PICK h \in Handles :
        session[h] = "free" /\ session' = [session EXCEPT ![h] = "open"] /\ webrtc' = h
  BY DEF Open
<1>3. Moves(t, "open", {"connect"})
  <2>1. <<"connect">> \in Seq(Steps) /\ InOrder(<<"connect">>) /\ Elems(<<"connect">>) = {"connect"}
    BY OneStep DEF Steps
  <2>2. \A x \in {"connect"} : After("open") \subseteq After(x)
    BY DEF After
  <2> QED  BY <1>1, <2>1, <2>2, GoesOn DEF KeptInv
<1>4. /\ Lists' /\ Todo(t)' = {"connect"} \cup (Todo(t) \ {"open"}) /\ "open" \in Todo(t)
      /\ Todo(t) \ {"open"} \subseteq {"retry"}
      /\ \A u \in Tasks \ {t} : Todo(u)' = Todo(u)
  BY <1>3 DEF Moves, After
<1>5. /\ crossed \subseteq crossed'
      /\ (ToClear \cup ToOpen) \ {t} = {} \/ "opened" \in crossed'
  BY <1>1, Crossing
<1>6. /\ \A s \in {"close", "null", "take", "stop", "begin"} : s \notin Todo(t) /\ s \notin Todo(t)'
      /\ "open" \notin Todo(t)'
  BY <1>4
<1>7. h # NULL
  BY SessionAssumption
<1>8. SessionTypes'
  BY <1>1, <1>2 DEF KeptInv, SessionTypes
<1>9. Owned'
  <2> SUFFICES ASSUME crossed' \cap {"taken", "opened"} = {}  PROVE OneOwner'
    BY DEF Owned
  <2>1. OneOwner
    BY <1>5 DEF KeptInv, Owned
  <2>2. webrtc = NULL
    BY <1>4, <1>6, <2>1 DEF OneOwner
  <2>3. \A u \in Tasks \ {t} : "null" \notin Todo(u) /\ ("open" \in Todo(u) => "take" \in Todo(u))
    BY <1>5 DEF ToClear, ToOpen
  <2>4. \A k \in Handles : session'[k] = IF k = h THEN "open" ELSE session[k]
    BY <1>2 DEF KeptInv, SessionTypes
  <2>5. \A u \in Tasks : ("close" \in Todo(u)' <=> "close" \in Todo(u)) /\ "null" \notin Todo(u)'
    BY <1>4, <1>6, <2>3
  <2>6. \A u \in Tasks : "close" \in Todo(u)' =>
          held'[u] \in Handles /\ session'[held'[u]] # "free" /\ held'[u] # webrtc'
    BY <1>1, <1>2, <2>1, <2>4, <2>5 DEF OneOwner
  <2>7. \A k \in Handles : session'[k] # "free" =>
          webrtc' = k \/ \E u \in Tasks : "close" \in Todo(u)' /\ held'[u] = k
    BY <1>1, <1>2, <2>1, <2>2, <2>4, <2>5, SessionAssumption DEF OneOwner
  <2>8. \A u, v \in Tasks :
          "close" \in Todo(u)' /\ "close" \in Todo(v)' /\ held'[u] = held'[v] => u = v
    BY <1>1, <2>1, <2>5 DEF OneOwner
  <2>9. \A u \in Tasks : ~("open" \in Todo(u)' /\ "take" \notin Todo(u)')
    BY <1>4, <1>6, <2>3
  <2>10. misused' = FALSE /\ session'[webrtc'] # "free"
    BY <1>1, <1>2, <2>1, <2>4 DEF OneOwner
  <2> QED  BY <2>5, <2>6, <2>7, <2>8, <2>9, <2>10 DEF OneOwner
<1>10. OneRetries'
  <2>1. \A r \in RetryTasks : (Todo(r)' # {} => Todo(r) # {}) /\ ("begin" \in Todo(r) => "begin" \in Todo(r)')
    BY <1>4, <1>6 DEF Tasks
  <2> QED  BY <1>1, <1>5, <2>1, KeepsRetries DEF KeptInv
<1>11. Flagged'
  <2>1. MayUnset(t)
    BY <1>4, <1>6 DEF MayUnset
  <2>2. \A u \in Tasks : MayUnset(u)' => MayUnset(u)
    BY <1>4, <2>1 DEF MayUnset
  <2>3. \A u \in Tasks : MayUnset(u)' \in BOOLEAN
    BY DEF MayUnset
  <2> QED  BY <1>1, <1>2, <1>5, <1>7, <2>1, <2>2 DEF KeptInv, Flagged
<1>12. Asked'
  BY <1>1, <1>4, <1>5 DEF KeptInv, Asked, Unwanted
<1> QED  BY <1>4, <1>8, <1>9, <1>10, <1>11, <1>12 DEF KeptInv

\* A failed start: clean up, then try again.
LEMMA FailKept ==
  ASSUME KeptInv, NEW t \in Tasks, OpenFail(t) \/ ConnectFail(t)
  PROVE  KeptInv'
<1>1. /\ webrtc' = webrtc /\ session' = session /\ held' = held /\ wanted' = wanted
      /\ misused' = misused /\ sample' = sample /\ janus_retry_running' = janus_retry_running
      /\ webrtc_connected' = webrtc_connected /\ janus_retry_stop' = janus_retry_stop
      /\ crossed' = crossed /\ GoOn(t, <<"take", "schedule">>)
  BY DEF OpenFail, ConnectFail, locals, history, retries, globals, sessions
<1>2. PICK h \in {"open", "connect"} : At(t, h)
  BY DEF OpenFail, ConnectFail
<1>3. Moves(t, h, {"take", "schedule"})
  <2>1. /\ <<"take", "schedule">> \in Seq(Steps) /\ InOrder(<<"take", "schedule">>)
        /\ Elems(<<"take", "schedule">>) = {"take", "schedule"}
    BY Begun
  <2>2. \A x \in {"take", "schedule"} : After(h) \subseteq After(x)
    BY DEF After, AfterTake
  <2> QED  BY <1>1, <1>2, <2>1, <2>2, GoesOn DEF KeptInv
<1>4. /\ Lists' /\ Todo(t)' = {"take", "schedule"} \cup (Todo(t) \ {h}) /\ h \in Todo(t)
      /\ Todo(t) \ {h} \subseteq {"retry"}
      /\ \A u \in Tasks \ {t} : Todo(u)' = Todo(u)
  BY <1>3 DEF Moves, After
<1>5. \A s \in {"close", "null", "stop", "begin", "decide"} : s \notin Todo(t) /\ s \notin Todo(t)'
  BY <1>4
<1>6. SessionTypes' /\ webrtc \in Handles \cup {NULL}
  BY <1>1 DEF KeptInv, SessionTypes
<1>7. Owned'
  <2>1. \A u \in Tasks :
          /\ "close" \in Todo(u)' <=> "close" \in Todo(u)
          /\ "null" \in Todo(u)' <=> "null" \in Todo(u)
          /\ "open" \in Todo(u)' /\ "take" \notin Todo(u)' =>
               webrtc = NULL \/ ("open" \in Todo(u) /\ "take" \notin Todo(u))
    BY <1>4, <1>5
  <2> QED  BY <1>1, <1>6, <2>1, KeepsOwned DEF KeptInv
<1>8. OneRetries'
  <2>1. \A r \in RetryTasks : (Todo(r)' # {} => Todo(r) # {}) /\ ("begin" \in Todo(r) => "begin" \in Todo(r)')
    BY <1>4, <1>5 DEF Tasks
  <2> QED  BY <1>1, <2>1, KeepsRetries DEF KeptInv
<1>9. Flagged'
  <2>1. MayUnset(t)
    BY <1>4, <1>5 DEF MayUnset
  <2>2. \A u \in Tasks : MayUnset(u)' => MayUnset(u)
    BY <1>4, <2>1 DEF MayUnset
  <2> QED  BY <1>1, <2>2, KeepsFlagged DEF KeptInv
<1>10. Asked'
  <2>1. Fresh => Fresh'
    BY <1>4 DEF Fresh
  <2>2. \A u \in Tasks : Todo(u)' \cap {"start", "open"} # {} => Todo(u) \cap {"start", "open"} # {}
    BY <1>4
  <2>3. \A u \in Tasks : Todo(u) \cap {"take", "null"} # {} => Todo(u)' \cap {"take", "null"} # {}
    BY <1>4
  <2>4. \A u \in Tasks : "stop" \in Todo(u) => "stop" \in Todo(u)'
    BY <1>4, <1>5
  <2>5. "decide" \in Todo("main")' => "decide" \in Todo("main") /\ sample' = sample
    <3>1. "main" \in Tasks
      BY DEF Tasks, AllCallers
    <3> QED  BY <1>1, <1>4, <1>5, <3>1
  <2> QED  BY <1>1, <2>1, <2>2, <2>3, <2>4, <2>5, KeepsAsked DEF KeptInv
<1> QED  BY <1>4, <1>6, <1>7, <1>8, <1>9, <1>10 DEF KeptInv

LEMMA ConnectKept ==
  ASSUME KeptInv, NEW t \in Tasks, ConnectOk(t)
  PROVE  KeptInv'
<1>1. /\ held' = held /\ wanted' = wanted /\ webrtc' = webrtc
      /\ misused' = misused /\ sample' = sample /\ janus_retry_running' = janus_retry_running
      /\ webrtc_connected' = webrtc_connected /\ janus_retry_stop' = janus_retry_stop
      /\ session' = [session EXCEPT ![webrtc] = "started"] /\ webrtc # NULL
      /\ session[webrtc] = "open" /\ crossed' = crossed /\ At(t, "connect")
      /\ todo' = [todo EXCEPT ![t] = IF t \in RetryTasks THEN <<"end">> ELSE Tail(@)]
  BY DEF ConnectOk, locals, history, retries
<1>2. /\ "connect" \in Todo(t) /\ Todo(t) \ {"connect"} \subseteq {"retry"}
      /\ Tail(todo[t]) \in Seq(Steps) /\ InOrder(Tail(todo[t]))
      /\ Elems(Tail(todo[t])) = Todo(t) \ {"connect"}
  BY <1>1, HeadOf DEF KeptInv, After
<1>3. /\ Lists' /\ Todo(t)' \subseteq {"retry", "end"}
      /\ \A u \in Tasks \ {t} : Todo(u)' = Todo(u)
  <2>1. CASE t \in RetryTasks
    <3>1. <<"end">> \in Seq(Steps) /\ InOrder(<<"end">>) /\ Elems(<<"end">>) = {"end"}
      BY OneStep DEF Steps
    <3>2. todo' = [todo EXCEPT ![t] = <<"end">>]
      BY <1>1, <2>1
    <3> QED  BY <3>1, <3>2, ListsOf DEF KeptInv
  <2>2. CASE t \notin RetryTasks
    <3>1. todo' = [todo EXCEPT ![t] = Tail(todo[t])]
      BY <1>1, <2>2
    <3>2. Lists' /\ Todo(t)' = Todo(t) \ {"connect"} /\ \A u \in Tasks \ {t} : Todo(u)' = Todo(u)
      BY <1>2, <3>1, ListsOf DEF KeptInv
    <3> QED  BY <1>2, <3>2
  <2> QED  BY <2>1, <2>2
<1>4. /\ \A s \in {"close", "null", "stop", "begin", "decide", "take", "open", "start", "schedule"} :
           s \notin Todo(t) /\ s \notin Todo(t)'
      /\ "connect" \notin Todo(t)'
  BY <1>2, <1>3
<1>5. SessionTypes' /\ webrtc \in Handles
  BY <1>1 DEF KeptInv, SessionTypes
<1>6. \A h \in Handles : session'[h] = "free" <=> session[h] = "free"
  BY <1>1, <1>5 DEF KeptInv, SessionTypes
<1>7. \A u \in Tasks, s \in {"close", "null", "stop", "begin", "take", "open", "start", "schedule"} :
        s \in Todo(u)' <=> s \in Todo(u)
  BY <1>3, <1>4
<1>8. Owned'
  BY <1>1, <1>5, <1>6, <1>7, KeepsOwned DEF KeptInv
<1>9. OneRetries'
  <2>1. \A r \in RetryTasks : (Todo(r)' # {} => Todo(r) # {}) /\ ("begin" \in Todo(r) => "begin" \in Todo(r)')
    BY <1>2, <1>3, <1>7 DEF Tasks
  <2> QED  BY <1>1, <2>1, KeepsRetries DEF KeptInv
<1>10. Flagged'
  <2>1. \A u \in Tasks : MayUnset(u)' => MayUnset(u)
    BY <1>3, <1>4 DEF MayUnset
  <2> QED  BY <1>1, <2>1, KeepsFlagged DEF KeptInv
<1>11. Asked'
  <2>1. Fresh => Fresh'
    BY <1>1 DEF Fresh
  <2>2. \A u \in Tasks : Todo(u)' \cap {"start", "open"} = Todo(u) \cap {"start", "open"}
    BY <1>7
  <2>3. \A u \in Tasks : Todo(u)' \cap {"take", "null"} = Todo(u) \cap {"take", "null"}
    BY <1>7
  <2>4. "decide" \in Todo("main")' => "decide" \in Todo("main") /\ sample' = sample
    <3>1. "main" \in Tasks
      BY DEF Tasks, AllCallers
    <3> QED  BY <1>1, <1>3, <1>4, <3>1
  <2> QED  BY <1>1, <1>7, <2>1, <2>2, <2>3, <2>4, KeepsAsked DEF KeptInv
<1> QED  BY <1>3, <1>5, <1>8, <1>9, <1>10, <1>11 DEF KeptInv

LEMMA ScheduleKept ==
  ASSUME KeptInv, NEW t \in Tasks, Schedule(t)
  PROVE  KeptInv'
<1>1. /\ held' = held /\ wanted' = wanted /\ webrtc' = webrtc /\ session' = session
      /\ misused' = misused /\ sample' = sample /\ janus_retry_running' = janus_retry_running
      /\ webrtc_connected' = webrtc_connected /\ janus_retry_stop' = janus_retry_stop
      /\ At(t, "schedule")
  BY DEF Schedule, locals, retries, globals, sessions
<1>2. CASE GoOn(t, << >>) /\ crossed' = crossed
  <2>1. Moves(t, "schedule", {})
    BY <1>1, <1>2, Pops DEF KeptInv
  <2> QED  BY <1>1, <1>2, <2>1, PopKeeps
<1>3. CASE ~(GoOn(t, << >>) /\ crossed' = crossed)
  <2>1. PICK r \in RetryTasks :
          /\ todo[r] = << >>
          /\ todo' = [todo EXCEPT ![t] = Tail(todo[t]), ![r] = <<"begin">>]
    BY <1>3 DEF Schedule
  <2>2. ~janus_retry_running /\ Crosses("scheduled", ToBegin \ {t})
    BY <1>3 DEF Schedule
  <2>3. /\ "schedule" \in Todo(t) /\ Todo(t) \ {"schedule"} \subseteq {"retry"}
        /\ Tail(todo[t]) \in Seq(Steps) /\ InOrder(Tail(todo[t])) /\ todo[t] # << >>
        /\ Elems(Tail(todo[t])) = Todo(t) \ {"schedule"}
    BY <1>1, HeadOf DEF KeptInv, After
  <2>4. r # t /\ r \in Tasks /\ Todo(r) = {}
    BY <2>1, <2>3, BusyOf DEF KeptInv, Tasks
  <2>5. /\ <<"begin">> \in Seq(Steps) /\ InOrder(<<"begin">>) /\ Elems(<<"begin">>) = {"begin"}
    BY OneStep DEF Steps
  <2>6. /\ todo' \in [Tasks -> Seq(Steps)] /\ todo'[t] = Tail(todo[t]) /\ todo'[r] = <<"begin">>
        /\ \A u \in Tasks \ {t, r} : todo'[u] = todo[u]
    <3>1. todo \in [Tasks -> Seq(Steps)]
      BY DEF KeptInv, Lists
    <3>2. Tail(todo[t]) \in Seq(Steps) /\ <<"begin">> \in Seq(Steps)
      BY <2>3, <2>5
    <3> QED  BY <2>1, <2>4, <3>1, <3>2
  <2>7. /\ Todo(t)' = Todo(t) \ {"schedule"} /\ Todo(r)' = {"begin"}
        /\ \A u \in Tasks \ {t, r} : Todo(u)' = Todo(u)
    <3>1. Todo(t)' = Elems(Tail(todo[t])) /\ Todo(r)' = Elems(<<"begin">>)
      BY <2>6 DEF Todo, Elems
    <3>2. \A u \in Tasks \ {t, r} : Todo(u)' = Todo(u)
      BY <2>6 DEF Todo
    <3> QED  BY <2>3, <2>5, <3>1, <3>2
  <2>8. Lists'
    BY <2>3, <2>5, <2>6 DEF KeptInv, Lists
  <2>9. /\ crossed \subseteq crossed'
        /\ ToBegin \ {t} = {} \/ "scheduled" \in crossed'
    BY <2>2, Crossing
  <2>10. \A u \in Tasks, s \in {"close", "null", "stop", "take", "open", "start", "connect", "decide"} :
           s \in Todo(u)' <=> s \in Todo(u)
    BY <2>4, <2>7
  <2>11. SessionTypes' /\ webrtc \in Handles \cup {NULL}
    BY <1>1 DEF KeptInv, SessionTypes
  <2>12. Owned'
    BY <1>1, <2>9, <2>10, <2>11, KeepsOwned DEF KeptInv
  <2>13. OneRetries'
    <3> SUFFICES ASSUME "scheduled" \notin crossed'  PROVE OneRetry'
      BY DEF OneRetries
    <3>1. OneRetry /\ ToBegin \ {t} = {}
      BY <2>9 DEF KeptInv, OneRetries
    <3>2. ASSUME NEW q \in RetryTasks, Todo(q) # {}  PROVE FALSE
      <4>1. "begin" \in Todo(q)
        BY <2>2, <3>1, <3>2 DEF OneRetry
      <4>2. q # t
        BY <2>3, <4>1
      <4> QED  BY <3>1, <4>1, <4>2 DEF ToBegin
    <3>3. \A q \in RetryTasks \ {r} : Todo(q)' = {}
      BY <2>3, <2>7, <3>2 DEF Tasks
    <3> QED  BY <2>7, <3>3 DEF OneRetry
  <2>14. Flagged'
    <3>1. \A u \in Tasks : MayUnset(u)' => MayUnset(u)
      BY <2>10 DEF MayUnset
    <3> QED  BY <1>1, <2>9, <3>1, KeepsFlagged DEF KeptInv
  <2>15. Asked'
    <3>1. Fresh => Fresh'
      BY <2>3 DEF Fresh
    <3>2. \A u \in Tasks : Todo(u)' \cap {"start", "open"} = Todo(u) \cap {"start", "open"}
      BY <2>10
    <3>3. \A u \in Tasks : Todo(u)' \cap {"take", "null"} = Todo(u) \cap {"take", "null"}
      BY <2>10
    <3>4. "main" \in Tasks
      BY DEF Tasks, AllCallers
    <3> QED  BY <1>1, <2>9, <2>10, <3>1, <3>2, <3>3, <3>4, KeepsAsked DEF KeptInv
  <2> QED  BY <2>8, <2>11, <2>12, <2>13, <2>14, <2>15 DEF KeptInv
<1> QED  BY <1>2, <1>3

LEMMA CallKept ==
  ASSUME KeptInv, NEW t \in Tasks, CallStep(t)
  PROVE  KeptInv'
BY StopKept, TakeKept, ClearKept, CloseKept, StartKept, OpenKept, FailKept, ConnectKept,
   ScheduleKept
DEF CallStep

-----------------------------------------------------------------------------
(* The retry task *)

\* What the retry task leaves alone.
LEMMA RetryLeaves ==
  ASSUME NEW r \in RetryTasks, Retry(r)
  PROVE  /\ webrtc' = webrtc /\ session' = session /\ webrtc_connected' = webrtc_connected
         /\ janus_retry_stop' = janus_retry_stop /\ held' = held /\ sample' = sample
         /\ wanted' = wanted /\ misused' = misused /\ crossed \subseteq crossed'
BY Crossing
DEF Retry, RetryBegin, RetryRound, RetryStopped, RetryEnd, locals, history, globals, sessions,
    retries

LEMMA GoesOnToOne ==
  ASSUME Lists, NEW t \in Tasks, NEW h, At(t, h), NEW s \in Steps,
         After(h) \subseteq After(s), GoOn(t, <<s>>)
  PROVE  Moves(t, h, {s})
<1>1. <<s>> \in Seq(Steps) /\ InOrder(<<s>>) /\ Elems(<<s>>) = {s}
  BY OneStep
<1>2. \A x \in Elems(<<s>>) : After(h) \subseteq After(x)
  BY <1>1
<1>3. Moves(t, h, Elems(<<s>>))
  BY <1>1, <1>2, GoesOn
<1> QED  BY <1>1, <1>3

\* Its lists, round by round.
LEMMA RetryDoes ==
  ASSUME Lists, NEW r \in RetryTasks, Retry(r)
  PROVE  /\ Lists' /\ \A u \in Tasks \ {r} : Todo(u)' = Todo(u)
         /\ RetryBegin(r) => Todo(r) = {"begin"} /\ Todo(r)' = {"retry"}
         /\ RetryRound(r) => Todo(r) = {"retry"} /\ Todo(r)' = {"start", "retry"}
         /\ RetryStopped(r) => Todo(r) = {"retry"} /\ Todo(r)' = {"end"}
         /\ RetryEnd(r) => Todo(r) = {"end"} /\ Todo(r)' = {}
<1>1. r \in Tasks
  BY DEF Tasks
<1>2. /\ <<"retry">> \in Seq(Steps) /\ InOrder(<<"retry">>) /\ Elems(<<"retry">>) = {"retry"}
      /\ start_webrtc \in Seq(Steps) /\ InOrder(start_webrtc) /\ Elems(start_webrtc) = {"start"}
      /\ {"retry", "end"} \subseteq Steps
  <2>1. {"retry", "end"} \subseteq Steps
    BY DEF Steps
  <2> QED  BY <2>1, OneStep, Begun
<1>3. /\ After("begin") = {} /\ After("retry") = {} /\ After("end") = {}
      /\ "retry" \in After("start")
  BY DEF After
<1>4. \A s : {} \subseteq After(s)
  OBVIOUS
<1>5. ASSUME RetryBegin(r)
      PROVE  Moves(r, "begin", {"retry"})
  <2>1. At(r, "begin") /\ GoOn(r, <<"retry">>)
    BY <1>5 DEF RetryBegin
  <2> QED  BY <1>1, <1>2, <1>3, <2>1, GoesOnToOne
<1>6. ASSUME RetryRound(r)
      PROVE  Moves(r, "retry", {"start", "retry"})
  <2>1. At(r, "retry") /\ GoOn(r, start_webrtc \o <<"retry">>)
    BY <1>1, <1>6, BusyOf DEF RetryRound
  <2>2. \A x \in Elems(start_webrtc) : Elems(<<"retry">>) \subseteq After(x)
    BY <1>2, <1>3
  <2>3. /\ start_webrtc \o <<"retry">> \in Seq(Steps) /\ InOrder(start_webrtc \o <<"retry">>)
        /\ Elems(start_webrtc \o <<"retry">>) = Elems(start_webrtc) \cup Elems(<<"retry">>)
    BY <1>2, <2>2, Joined
  <2>4. Elems(start_webrtc \o <<"retry">>) = {"start", "retry"}
    BY <1>2, <2>3
  <2> QED  BY <1>1, <1>3, <1>4, <2>1, <2>3, <2>4, GoesOn
<1>7. ASSUME RetryStopped(r)
      PROVE  Moves(r, "retry", {"end"})
  <2>1. At(r, "retry") /\ GoOn(r, <<"end">>)
    BY <1>1, <1>7, BusyOf DEF RetryStopped
  <2> QED  BY <1>1, <1>2, <1>3, <2>1, GoesOnToOne
<1>8. ASSUME RetryEnd(r)
      PROVE  Moves(r, "end", {})
  BY <1>1, <1>8, Pops DEF RetryEnd
<1> QED  BY <1>3, <1>5, <1>6, <1>7, <1>8 DEF Moves, Retry

LEMMA RetryKept ==
  ASSUME KeptInv, NEW r \in RetryTasks, Retry(r)
  PROVE  KeptInv'
<1>0. r \in Tasks /\ "main" \in Tasks
  BY DEF Tasks, AllCallers
<1>1. /\ Lists' /\ \A u \in Tasks \ {r} : Todo(u)' = Todo(u)
      /\ RetryBegin(r) => Todo(r) = {"begin"} /\ Todo(r)' = {"retry"}
      /\ RetryRound(r) => Todo(r) = {"retry"} /\ Todo(r)' = {"start", "retry"}
      /\ RetryStopped(r) => Todo(r) = {"retry"} /\ Todo(r)' = {"end"}
      /\ RetryEnd(r) => Todo(r) = {"end"} /\ Todo(r)' = {}
  BY RetryDoes DEF KeptInv
<1>2. /\ webrtc' = webrtc /\ session' = session /\ webrtc_connected' = webrtc_connected
      /\ janus_retry_stop' = janus_retry_stop /\ held' = held /\ sample' = sample
      /\ wanted' = wanted /\ misused' = misused /\ crossed \subseteq crossed'
  BY RetryLeaves
<1>3. /\ Todo(r) \subseteq {"begin", "retry", "end"} /\ Todo(r) # {}
      /\ Todo(r)' \subseteq {"retry", "start", "end"}
  BY <1>1 DEF Retry
<1>4. \A s \in {"close", "null", "stop", "take", "open", "connect", "schedule", "decide"} :
        s \notin Todo(r) /\ s \notin Todo(r)'
  BY <1>3
<1>5. /\ RetryBegin(r) => janus_retry_running' = TRUE
      /\ RetryRound(r) \/ RetryStopped(r) => janus_retry_running' = janus_retry_running
      /\ RetryEnd(r) => janus_retry_running' = FALSE
  BY DEF RetryBegin, RetryRound, RetryStopped, RetryEnd, globals, retries
<1>6. SessionTypes' /\ webrtc \in Handles \cup {NULL}
  <2>1. janus_retry_running' \in BOOLEAN
    BY <1>5 DEF KeptInv, SessionTypes, Retry
  <2> QED  BY <1>2, <2>1 DEF KeptInv, SessionTypes
<1>7. \A u \in Tasks, s \in {"close", "null", "stop", "take", "open", "connect", "schedule", "decide"} :
        s \in Todo(u)' <=> s \in Todo(u)
  BY <1>1, <1>4
<1>8. Owned'
  BY <1>2, <1>6, <1>7, KeepsOwned DEF KeptInv
<1>9. OneRetries'
  <2> SUFFICES ASSUME "scheduled" \notin crossed'  PROVE OneRetry'
    BY DEF OneRetries
  <2>1. OneRetry
    BY <1>2 DEF KeptInv, OneRetries
  <2>2. \A q \in RetryTasks \ {r} : Todo(q) = {} /\ Todo(q)' = {}
    BY <1>1, <1>3, <2>1 DEF OneRetry, Tasks
  <2>3. Todo(r)' # {} => janus_retry_running'
    <3>1. "begin" \in Todo(r) \/ janus_retry_running
      BY <1>3, <2>1 DEF OneRetry
    <3> QED  BY <1>1, <1>5, <3>1 DEF Retry
  <2> QED  BY <2>2, <2>3 DEF OneRetry
<1>10. Flagged'
  <2>1. \A u \in Tasks : MayUnset(u)' => MayUnset(u)
    BY <1>7 DEF MayUnset
  <2> QED  BY <1>2, <2>1, KeepsFlagged DEF KeptInv
<1>11. Asked'
  <2> SUFFICES ASSUME crossed' \cap {"stopped", "begun"} = {}, ~wanted  PROVE Unwanted'
    BY <1>2 DEF Asked
  <2>1. Unwanted
    BY <1>2 DEF KeptInv, Asked
  <2>2. ~RetryRound(r)
    <3> SUFFICES ASSUME RetryRound(r)  PROVE FALSE
      OBVIOUS
    <3>1. ~janus_retry_stop /\ Crosses("begun", ToStop \ {r})
      BY DEF RetryRound
    <3>2. ToStop \ {r} = {}
      BY <3>1, Crossing
    <3>3. \A u \in Tasks : "stop" \notin Todo(u)
      BY <1>4, <3>2 DEF ToStop
    <3> QED  BY <1>3, <2>1, <3>1, <3>3 DEF Unwanted, Fresh
  <2>3. "start" \notin Todo(r)'
    BY <1>1, <2>2 DEF Retry
  <2>4. ~Fresh
    BY <1>3 DEF Fresh
  <2>5. \A u \in Tasks : Todo(u)' \cap {"start", "open"} = {}
    BY <1>1, <1>4, <2>1, <2>3 DEF Unwanted
  <2>6. webrtc' = NULL \/ \E u \in Tasks : Todo(u)' \cap {"take", "null"} # {}
    BY <1>2, <1>7, <2>1 DEF Unwanted
  <2>7. janus_retry_stop' \/ \E u \in Tasks : "stop" \in Todo(u)'
    BY <1>2, <1>7, <2>1, <2>4 DEF Unwanted
  <2>8. "decide" \in Todo("main")' => ~sample'.running
    BY <1>0, <1>2, <1>7, <2>1 DEF Unwanted
  <2> QED  BY <2>5, <2>6, <2>7, <2>8 DEF Unwanted
<1> QED  BY <1>1, <1>6, <1>8, <1>9, <1>10, <1>11 DEF KeptInv

-----------------------------------------------------------------------------
(* Beginnings of calls *)

\* Somebody wants no session any more, and will stop the one there is.
LEMMA StopsAsked ==
  ASSUME KeptInv, NEW t \in Tasks, NEW P, Lists', Todo(t)' = P,
         \A u \in Tasks \ {t} : Todo(u)' = Todo(u),
         {"stop", "take"} \subseteq P, P \cap {"start", "open", "decide"} = {},
         Crosses("stopped", ToStart \ {t})
  PROVE  Asked'
<1> SUFFICES ASSUME crossed' \cap {"stopped", "begun"} = {}  PROVE Unwanted'
  BY DEF Asked
<1>1. ToStart \ {t} = {}
  BY Crossing
<1>2. \A u \in Tasks : Todo(u)' \cap {"start", "open", "decide"} = {}
  BY <1>1 DEF ToStart
<1>3. "main" \in Tasks
  BY DEF Tasks, AllCallers
<1>4. "decide" \notin Todo("main")'
  BY <1>2, <1>3
<1>5. \A u \in Tasks : Todo(u)' \cap {"start", "open"} = {}
  BY <1>2
<1>6. \E u \in Tasks : Todo(u)' \cap {"take", "null"} # {}
  OBVIOUS
<1>7. \E u \in Tasks : "stop" \in Todo(u)'
  OBVIOUS
<1> QED  BY <1>4, <1>5, <1>6, <1>7 DEF Unwanted

\* A beginning that leaves what is wanted alone.
LEMMA BeginsAsked ==
  ASSUME KeptInv, NEW t, NEW P, Begins(t, P), P \cap {"start", "open", "decide"} = {},
         wanted' = wanted, webrtc' = webrtc, crossed \subseteq crossed',
         janus_retry_stop' = janus_retry_stop, sample' = sample, session' = session,
         "schedule" \in P => ~Fresh, P \cap {"connect"} = {}
  PROVE  Asked'
<1>1. /\ Todo(t) \subseteq {"retry"} /\ Todo(t)' = P /\ t \in Tasks \ RetryTasks
      /\ \A u \in Tasks \ {t} : Todo(u)' = Todo(u)
  BY DEF Begins
<1>2. "main" \in Tasks
  BY DEF Tasks, AllCallers
<1>3. Fresh => Fresh'
  BY <1>1 DEF Fresh, Tasks
<1>4. \A u \in Tasks :
        /\ Todo(u)' \cap {"start", "open"} # {} => Todo(u) \cap {"start", "open"} # {}
        /\ Todo(u) \cap {"take", "null"} # {} => Todo(u)' \cap {"take", "null"} # {}
        /\ "stop" \in Todo(u) => "stop" \in Todo(u)'
  BY <1>1
<1>5. "decide" \in Todo("main")' => "decide" \in Todo("main")
  BY <1>1, <1>2
<1> QED  BY <1>3, <1>4, <1>5, KeepsAsked DEF KeptInv

LEMMA PeerKept ==
  ASSUME KeptInv, NEW h \in Handles, PeerConnected(h) \/ PeerLost(h)
  PROVE  KeptInv'
<1>1. /\ webrtc' = webrtc /\ session' = session /\ held' = held /\ wanted' = wanted
      /\ misused' = misused /\ sample' = sample /\ janus_retry_running' = janus_retry_running
      /\ janus_retry_stop' = janus_retry_stop /\ webrtc_connected' \in BOOLEAN
      /\ session[h] = "started" /\ MayBegin(h) /\ crossed \subseteq crossed'
  BY Crossing DEF PeerConnected, PeerLost, retries, locals, history
<1>2. h \in Tasks \ RetryTasks /\ "main" \in Tasks
  BY SessionAssumption DEF Tasks, AllCallers
<1>3. SessionTypes' /\ webrtc \in Handles \cup {NULL}
  BY <1>1 DEF KeptInv, SessionTypes
<1>4. CASE PeerConnected(h)
  <2>1. todo' = todo /\ Crosses("reported", Unflagged \cup IF webrtc = NULL THEN {h} ELSE {})
    BY <1>4 DEF PeerConnected
  <2>2. \A u \in Tasks : Todo(u)' = Todo(u)
    BY <2>1 DEF Todo
  <2>3. Lists'
    BY <2>1 DEF KeptInv, Lists
  <2>4. Owned'
    BY <1>1, <1>3, <2>2, KeepsOwned DEF KeptInv
  <2>5. OneRetries'
    BY <1>1, <2>2, KeepsRetries DEF KeptInv, Tasks
  <2>6. Flagged'
    <3> SUFFICES ASSUME "reported" \notin crossed'
                 PROVE  webrtc # NULL /\ \A u \in Tasks : ~MayUnset(u)
      BY <1>1, <2>2 DEF Flagged, MayUnset
    <3>1. Unflagged \cup (IF webrtc = NULL THEN {h} ELSE {}) = {}
      BY <2>1, Crossing
    <3> QED  BY <3>1 DEF Unflagged, ToStop, MayUnset
  <2>7. Asked'
    <3>1. Fresh => Fresh'
      BY <1>1, <2>2 DEF Fresh, Tasks
    <3> QED  BY <1>1, <1>2, <2>2, <3>1, KeepsAsked DEF KeptInv
  <2> QED  BY <1>3, <2>3, <2>4, <2>5, <2>6, <2>7 DEF KeptInv
<1>5. CASE PeerLost(h)
  <2>1. todo' = [todo EXCEPT ![h] = <<"take", "schedule">>] /\ webrtc_connected' = FALSE
    BY <1>5 DEF PeerLost
  <2>2. Begins(h, {"take", "schedule"})
    <3>1. /\ <<"take", "schedule">> \in Seq(Steps) /\ InOrder(<<"take", "schedule">>)
          /\ Elems(<<"take", "schedule">>) = {"take", "schedule"}
      BY Begun
    <3>2. Begins(h, Elems(<<"take", "schedule">>))
      BY <1>1, <1>2, <2>1, <3>1, BeginsOf DEF KeptInv
    <3> QED  BY <3>1, <3>2
  <2>3. Lists' /\ Owned' /\ OneRetries' /\ Flagged'
    BY <1>1, <2>1, <2>2, BeginKeeps
  <2>4. ~Fresh
    BY <1>1 DEF Fresh
  <2>5. Asked'
    BY <1>1, <2>2, <2>4, BeginsAsked
  <2> QED  BY <1>3, <2>3, <2>5 DEF KeptInv
<1> QED  BY <1>4, <1>5

\* A caller begins: nothing of the sessions and the retries changes.
LEMMA CallerKept ==
  ASSUME KeptInv, NEW t \in AllCallers, MayBegin(t), NEW l \in Seq(Steps), InOrder(l),
         NEW P, Elems(l) = P, todo' = [todo EXCEPT ![t] = l],
         P \subseteq {"start", "stop", "take", "decide", "mqtt_stop", "reset"},
         "take" \in P => "stop" \in P,
         UNCHANGED <<sessions, retries, held, misused>>, crossed \subseteq crossed',
         wanted' \in BOOLEAN,
         \/ wanted'
         \/ {"stop", "take"} \subseteq P /\ P \cap {"start", "decide"} = {}
              /\ Crosses("stopped", ToStart \ {t})
         \/ P \cap {"start", "decide"} = {} /\ wanted' = wanted /\ sample' = sample
  PROVE  KeptInv'
<1>1. /\ webrtc' = webrtc /\ session' = session /\ held' = held /\ misused' = misused
      /\ janus_retry_running' = janus_retry_running /\ janus_retry_stop' = janus_retry_stop
      /\ webrtc_connected' = webrtc_connected
  BY DEF sessions, retries
<1>2. t \in Tasks \ RetryTasks
  BY SessionAssumption DEF Tasks
<1>3. Begins(t, P)
  BY <1>2, BeginsOf DEF KeptInv
<1>4. P \cap {"close", "null", "open", "connect", "schedule"} = {}
  OBVIOUS
<1>5. Lists' /\ Owned' /\ OneRetries' /\ Flagged'
  BY <1>1, <1>3, <1>4, BeginKeeps
<1>6. SessionTypes'
  BY <1>1 DEF KeptInv, SessionTypes
<1>7. Asked'
  <2>1. CASE wanted'
    BY <2>1 DEF Asked
  <2>2. CASE {"stop", "take"} \subseteq P /\ P \cap {"start", "decide"} = {}
             /\ Crosses("stopped", ToStart \ {t})
    <3>1. P \cap {"start", "open", "decide"} = {}
      BY <1>4, <2>2
    <3> QED  BY <1>2, <1>3, <2>2, <3>1, StopsAsked DEF Begins
  <2>3. CASE P \cap {"start", "decide"} = {} /\ wanted' = wanted /\ sample' = sample
    <3>1. P \cap {"start", "open", "decide"} = {} /\ "schedule" \notin P /\ P \cap {"connect"} = {}
      BY <1>4, <2>3
    <3> QED  BY <1>1, <1>3, <2>3, <3>1, BeginsAsked
  <2> QED  BY <2>1, <2>2, <2>3
<1> QED  BY <1>5, <1>6, <1>7 DEF KeptInv

LEMMA CommandKept ==
  ASSUME KeptInv, Command
  PROVE  KeptInv'
<1>1. "mqtt" \in AllCallers /\ MayBegin("mqtt")
  BY DEF AllCallers, Command, OpenOrHeartbeat, CloseCommand, MqttReady
<1>2. UNCHANGED <<sessions, retries, held, misused>>
  BY DEF Command, OpenOrHeartbeat, CloseCommand, globals, locals
<1>3. CASE OpenOrHeartbeat
  <2> DEFINE l == IF webrtc = NULL THEN start_webrtc ELSE << >>
  <2>1. todo' = [todo EXCEPT !["mqtt"] = l] /\ wanted' = TRUE /\ crossed' = crossed
    BY <1>3 DEF OpenOrHeartbeat
  <2>2. l \in Seq(Steps) /\ InOrder(l) /\ Elems(l) \subseteq {"start"}
    BY Begun, NoStep
  <2> HIDE DEF l
  <2>3. /\ Elems(l) \subseteq {"start", "stop", "take", "decide", "mqtt_stop", "reset"}
        /\ "take" \notin Elems(l)
    BY <2>2
  <2>4. wanted' \in BOOLEAN /\ crossed \subseteq crossed'
    BY <2>1
  <2> QED  BY <1>1, <1>2, <2>1, <2>2, <2>3, <2>4, CallerKept
<1>4. CASE CloseCommand
  <2>1. /\ todo' = [todo EXCEPT !["mqtt"] = stop_webrtc] /\ wanted' = FALSE
        /\ Crosses("stopped", ToStart \ {"mqtt"})
    BY <1>4 DEF CloseCommand
  <2>2. stop_webrtc \in Seq(Steps) /\ InOrder(stop_webrtc) /\ Elems(stop_webrtc) = {"stop", "take"}
    BY Begun
  <2>3. /\ {"stop", "take"} \subseteq {"start", "stop", "take", "decide", "mqtt_stop", "reset"}
        /\ {"stop", "take"} \cap {"start", "decide"} = {}
    OBVIOUS
  <2>4. wanted' \in BOOLEAN /\ crossed \subseteq crossed'
    BY <2>1, Crossing
  <2> QED  BY <1>1, <1>2, <2>1, <2>2, <2>3, <2>4, CallerKept
<1> QED  BY <1>3, <1>4 DEF Command

LEMMA CliKept ==
  ASSUME KeptInv, Cli
  PROVE  KeptInv'
<1>1. {"cli", "cli_stop"} \subseteq AllCallers
  BY DEF AllCallers
<1>2. UNCHANGED <<sessions, retries, held, misused>>
  BY DEF Cli, CliStart, CliStop, globals, locals
<1>3. CASE CliStart
  <2>1. /\ todo' = [todo EXCEPT !["cli"] = start_webrtc] /\ wanted' = TRUE /\ crossed' = crossed
        /\ MayBegin("cli")
    BY <1>3 DEF CliStart
  <2>2. start_webrtc \in Seq(Steps) /\ InOrder(start_webrtc) /\ Elems(start_webrtc) = {"start"}
    BY Begun
  <2>3. /\ {"start"} \subseteq {"start", "stop", "take", "decide", "mqtt_stop", "reset"}
        /\ "take" \notin {"start"}
    OBVIOUS
  <2>4. wanted' \in BOOLEAN /\ crossed \subseteq crossed'
    BY <2>1
  <2> QED  BY <1>1, <1>2, <2>1, <2>2, <2>3, <2>4, CallerKept
<1>4. CASE CliStop
  <2>1. /\ todo' = [todo EXCEPT !["cli_stop"] = stop_webrtc] /\ wanted' = FALSE
        /\ Crosses("stopped", ToStart \ {"cli_stop"}) /\ MayBegin("cli_stop")
    BY <1>4 DEF CliStop
  <2>2. stop_webrtc \in Seq(Steps) /\ InOrder(stop_webrtc) /\ Elems(stop_webrtc) = {"stop", "take"}
    BY Begun
  <2>3. /\ {"stop", "take"} \subseteq {"start", "stop", "take", "decide", "mqtt_stop", "reset"}
        /\ {"stop", "take"} \cap {"start", "decide"} = {}
    OBVIOUS
  <2>4. wanted' \in BOOLEAN /\ crossed \subseteq crossed'
    BY <2>1, Crossing
  <2> QED  BY <1>1, <1>2, <2>1, <2>2, <2>3, <2>4, CallerKept
<1> QED  BY <1>3, <1>4 DEF Cli

LEMMA SysKept ==
  ASSUME KeptInv, Sys
  PROVE  KeptInv'
<1>1. "sys" \in AllCallers /\ "sys" \in Tasks
  BY DEF AllCallers, Tasks
<1>2. /\ UNCHANGED <<webrtc, session, held, misused, janus_retry_running, janus_retry_stop,
                     webrtc_connected, wanted, crossed, sample>>
      /\ UNCHANGED <<sessions, retries>>
  BY DEF Sys, NetworkUp, NetworkDown, MqttBridgeStop, NetworkReset, globals, sessions, retries,
         locals, history
<1>3. wanted' \in BOOLEAN
  BY <1>2 DEF KeptInv, SessionTypes
<1>4. CASE NetworkUp
  <2>1. todo' = todo /\ \A u : Todo(u)' = Todo(u)
    BY <1>4 DEF NetworkUp, Todo
  <2>2. Lists' /\ SessionTypes' /\ webrtc \in Handles \cup {NULL}
    BY <1>2, <2>1 DEF KeptInv, Lists, SessionTypes
  <2>3. Owned'
    BY <1>2, <2>1, <2>2, KeepsOwned DEF KeptInv
  <2>4. OneRetries'
    BY <1>2, <2>1, KeepsRetries DEF KeptInv
  <2>5. Flagged'
    BY <1>2, <2>1, KeepsFlagged DEF KeptInv, MayUnset
  <2>6. Asked'
    <3>1. Fresh => Fresh'
      BY <1>2, <2>1 DEF Fresh
    <3> QED  BY <1>2, <2>1, <3>1, KeepsAsked DEF KeptInv
  <2> QED  BY <2>2, <2>3, <2>4, <2>5, <2>6 DEF KeptInv
<1>5. CASE NetworkDown
  <2> DEFINE l == <<"mqtt_stop">> \o stop_webrtc \o <<"reset">>
  <2>1. MayBegin("sys") /\ todo' = [todo EXCEPT !["sys"] = l]
    BY <1>5 DEF NetworkDown
  <2>2. l \in Seq(Steps) /\ InOrder(l) /\ Elems(l) = {"mqtt_stop", "stop", "take", "reset"}
    BY Begun
  <2> HIDE DEF l
  <2>3. /\ {"mqtt_stop", "stop", "take", "reset"}
             \subseteq {"start", "stop", "take", "decide", "mqtt_stop", "reset"}
        /\ {"mqtt_stop", "stop", "take", "reset"} \cap {"start", "decide"} = {}
    OBVIOUS
  <2> QED  BY <1>1, <1>2, <1>3, <2>1, <2>2, <2>3, CallerKept
<1>6. CASE MqttBridgeStop
  BY <1>1, <1>2, <1>6, Pops, PopKeeps DEF MqttBridgeStop, KeptInv
<1>7. CASE NetworkReset
  BY <1>1, <1>2, <1>7, Pops, PopKeeps DEF NetworkReset, KeptInv
<1> QED  BY <1>4, <1>5, <1>6, <1>7 DEF Sys

-----------------------------------------------------------------------------
(* The main task *)

\* A comparison that ends in a call: the list it leaves stops the session.
LEMMA DecideKept ==
  ASSUME KeptInv, NEW P, Moves("main", "decide", P), {"stop", "take"} \subseteq P,
         P \cap {"null", "close", "open", "connect", "schedule", "begin", "decide", "mqtt_stop"} = {},
         UNCHANGED <<sessions, retries, held, misused>>, crossed \subseteq crossed',
         wanted' \in BOOLEAN, Asked'
  PROVE  KeptInv'
<1>1. "main" \in Tasks \ RetryTasks
  BY SessionAssumption DEF Tasks, AllCallers
<1>2. /\ Lists' /\ Todo("main")' = P \cup (Todo("main") \ {"decide"}) /\ "decide" \in Todo("main")
      /\ Todo("main") \ {"decide"} = {} /\ \A u \in Tasks \ {"main"} : Todo(u)' = Todo(u)
  BY DEF Moves, After
<1>3. Todo("main")' = P /\ Todo("main") = {"decide"}
  BY <1>2
<1>4. /\ webrtc' = webrtc /\ session' = session /\ held' = held /\ misused' = misused
      /\ janus_retry_running' = janus_retry_running /\ janus_retry_stop' = janus_retry_stop
      /\ webrtc_connected' = webrtc_connected
  BY DEF sessions, retries
<1>5. SessionTypes' /\ webrtc \in Handles \cup {NULL}
  BY <1>4 DEF KeptInv, SessionTypes
<1>6. \A u \in Tasks, s \in {"close", "null", "open"} : s \in Todo(u)' <=> s \in Todo(u)
  BY <1>2, <1>3
<1>7. Owned'
  <2>1. \A u \in Tasks : "open" \in Todo(u)' /\ "take" \notin Todo(u)' =>
                           "open" \in Todo(u) /\ "take" \notin Todo(u)
    BY <1>2, <1>3, <1>6
  <2> QED  BY <1>4, <1>5, <1>6, <2>1, KeepsOwned DEF KeptInv
<1>8. OneRetries'
  <2>1. \A r \in RetryTasks : Todo(r)' = Todo(r)
    BY <1>1, <1>2 DEF Tasks
  <2> QED  BY <1>4, <2>1, KeepsRetries DEF KeptInv
<1>9. Flagged'
  <2>1. \A u \in Tasks : MayUnset(u)' => MayUnset(u)
    BY <1>2, <1>3 DEF MayUnset
  <2> QED  BY <1>4, <2>1, KeepsFlagged DEF KeptInv
<1> QED  BY <1>2, <1>5, <1>7, <1>8, <1>9 DEF KeptInv

LEMMA MainKept ==
  ASSUME KeptInv, Main
  PROVE  KeptInv'
<1>0. "main" \in AllCallers /\ "main" \in Tasks /\ "main" \in Tasks \ RetryTasks
  BY SessionAssumption DEF AllCallers, Tasks
<1>1. CASE MainSample
  <2>1. /\ MayBegin("main") /\ todo' = [todo EXCEPT !["main"] = <<"decide">>]
        /\ Crosses("begun", ToTake \ {"main"})
        /\ sample'.running <=> webrtc # NULL
    BY <1>1 DEF MainSample
  <2>2. /\ webrtc' = webrtc /\ session' = session /\ held' = held /\ misused' = misused
        /\ janus_retry_running' = janus_retry_running /\ janus_retry_stop' = janus_retry_stop
        /\ webrtc_connected' = webrtc_connected /\ wanted' = wanted /\ crossed \subseteq crossed'
    BY <1>1, Crossing DEF MainSample, globals, sessions, retries
  <2>3. Begins("main", {"decide"})
    <3>1. <<"decide">> \in Seq(Steps) /\ InOrder(<<"decide">>) /\ Elems(<<"decide">>) = {"decide"}
      BY OneStep DEF Steps
    <3>2. Begins("main", Elems(<<"decide">>))
      BY <1>0, <2>1, <3>1, BeginsOf DEF KeptInv
    <3> QED  BY <3>1, <3>2
  <2>4. Lists' /\ Owned' /\ OneRetries' /\ Flagged'
    BY <2>2, <2>3, BeginKeeps
  <2>5. SessionTypes'
    BY <2>2 DEF KeptInv, SessionTypes
  <2>6. Asked'
    <3> SUFFICES ASSUME crossed' \cap {"stopped", "begun"} = {}, ~wanted  PROVE Unwanted'
      BY <2>2 DEF Asked
    <3>1. Unwanted
      BY <2>2 DEF KeptInv, Asked
    <3>2. /\ Todo("main") \subseteq {"retry"} /\ Todo("main")' = {"decide"}
          /\ \A u \in Tasks \ {"main"} : Todo(u)' = Todo(u)
      BY <2>3 DEF Begins
    <3>3. ToTake \ {"main"} = {}
      BY <2>1, Crossing
    <3>4. \A u \in Tasks : Todo(u) \cap {"take", "null"} = {}
      BY <3>2, <3>3 DEF ToTake
    <3>5. webrtc = NULL
      BY <3>1, <3>4 DEF Unwanted
    <3>6. \A u \in Tasks : Todo(u)' \cap {"start", "open"} = {}
      BY <3>1, <3>2 DEF Unwanted
    <3>7. (\E u \in Tasks : "stop" \in Todo(u)) => \E u \in Tasks : "stop" \in Todo(u)'
      BY <3>2
    <3>8. Fresh => Fresh'
      BY <1>0, <2>2, <3>2 DEF Fresh, Tasks
    <3> QED  BY <2>1, <2>2, <3>1, <3>5, <3>6, <3>7, <3>8 DEF Unwanted
  <2> QED  BY <2>4, <2>5, <2>6 DEF KeptInv
<1>2. CASE MainRecover
  <2>1. /\ At("main", "decide") /\ Stuck /\ GoOn("main", stop_webrtc \o start_webrtc)
        /\ UNCHANGED <<sessions, retries, held, misused>> /\ crossed' = crossed
        /\ wanted' = wanted
    BY <1>2 DEF MainRecover, globals, history
  <2>2. Moves("main", "decide", {"stop", "take", "start"})
    <3>1. /\ stop_webrtc \o start_webrtc \in Seq(Steps) /\ InOrder(stop_webrtc \o start_webrtc)
          /\ Elems(stop_webrtc \o start_webrtc) = {"stop", "take", "start"}
      BY Begun
    <3>2. \A x : After("decide") \subseteq After(x)
      BY DEF After
    <3>3. Moves("main", "decide", Elems(stop_webrtc \o start_webrtc))
      BY <1>0, <2>1, <3>1, <3>2, GoesOn DEF KeptInv
    <3> QED  BY <3>1, <3>3
  <2>3. "decide" \in Todo("main") /\ sample.running
    BY <2>1, <2>2 DEF Moves, Stuck
  <2>4. Asked'
    BY <2>1, <2>3 DEF KeptInv, Asked, Unwanted
  <2>5. wanted' \in BOOLEAN
    BY <2>1 DEF KeptInv, SessionTypes
  <2>6. /\ {"stop", "take", "start"} \cap {"null", "close", "open", "connect", "schedule", "begin",
                                           "decide", "mqtt_stop"} = {}
        /\ {"stop", "take"} \subseteq {"stop", "take", "start"}
    OBVIOUS
  <2> QED  BY <2>1, <2>2, <2>4, <2>5, <2>6, DecideKept
<1>3. CASE MainTimeout
  <2>1. /\ At("main", "decide") /\ GoOn("main", stop_webrtc \o <<"forget">>)
        /\ UNCHANGED <<sessions, retries, held, misused>> /\ wanted' = FALSE
        /\ Crosses("stopped", ToStart \ {"main"})
    BY <1>3 DEF MainTimeout, globals
  <2>2. Moves("main", "decide", {"stop", "take", "forget"})
    <3>1. /\ stop_webrtc \o <<"forget">> \in Seq(Steps) /\ InOrder(stop_webrtc \o <<"forget">>)
          /\ Elems(stop_webrtc \o <<"forget">>) = {"stop", "take", "forget"}
      BY Begun
    <3>2. \A x : After("decide") \subseteq After(x)
      BY DEF After
    <3>3. Moves("main", "decide", Elems(stop_webrtc \o <<"forget">>))
      BY <1>0, <2>1, <3>1, <3>2, GoesOn DEF KeptInv
    <3> QED  BY <3>1, <3>3
  <2>3. /\ Lists' /\ Todo("main")' = {"stop", "take", "forget"}
        /\ \A u \in Tasks \ {"main"} : Todo(u)' = Todo(u)
    BY <2>2 DEF Moves, After
  <2>4. /\ {"stop", "take", "forget"} \cap {"start", "open", "decide"} = {}
        /\ {"stop", "take", "forget"} \cap {"null", "close", "open", "connect", "schedule", "begin",
                                            "decide", "mqtt_stop"} = {}
        /\ {"stop", "take"} \subseteq {"stop", "take", "forget"}
    OBVIOUS
  <2>5. Asked'
    BY <1>0, <2>1, <2>3, <2>4, StopsAsked
  <2>6. crossed \subseteq crossed'
    BY <2>1, Crossing
  <2> QED  BY <2>1, <2>2, <2>4, <2>5, <2>6, DecideKept
<1>4. CASE MainQuiet
  <2>1. /\ UNCHANGED <<webrtc, session, held, misused, janus_retry_running, janus_retry_stop,
                       webrtc_connected, wanted, crossed>>
        /\ Moves("main", "decide", {})
    BY <1>0, <1>4, Pops DEF MainQuiet, KeptInv, globals, sessions, retries, history
  <2> QED  BY <1>0, <2>1, PopKeeps
<1>5. CASE MainForget
  <2>1. /\ UNCHANGED <<webrtc, session, held, misused, janus_retry_running, janus_retry_stop,
                       webrtc_connected, wanted, crossed, sample>>
        /\ Moves("main", "forget", {})
    BY <1>0, <1>5, Pops DEF MainForget, KeptInv, globals, sessions, retries, locals, history
  <2> QED  BY <1>0, <2>1, PopKeeps
<1> QED  BY <1>1, <1>2, <1>3, <1>4, <1>5 DEF Main

\* Time passes, or nothing happens.
LEMMA StillKept ==
  ASSUME KeptInv, UNCHANGED <<sessions, retries, locals, history, todo>>
  PROVE  KeptInv'
<1>1. /\ webrtc' = webrtc /\ session' = session /\ held' = held /\ wanted' = wanted
      /\ misused' = misused /\ sample' = sample /\ janus_retry_running' = janus_retry_running
      /\ webrtc_connected' = webrtc_connected /\ janus_retry_stop' = janus_retry_stop
      /\ crossed' = crossed /\ todo' = todo
  BY DEF sessions, retries, locals, history
<1>2. \A u : Todo(u)' = Todo(u)
  BY <1>1 DEF Todo
<1>3. Lists' /\ SessionTypes' /\ webrtc \in Handles \cup {NULL}
  BY <1>1 DEF KeptInv, Lists, SessionTypes
<1>4. Owned'
  BY <1>1, <1>2, <1>3, KeepsOwned DEF KeptInv
<1>5. OneRetries'
  BY <1>1, <1>2, KeepsRetries DEF KeptInv
<1>6. Flagged'
  BY <1>1, <1>2, KeepsFlagged DEF KeptInv, MayUnset
<1>7. Asked'
  <2>1. Fresh => Fresh'
    BY <1>1, <1>2 DEF Fresh
  <2> QED  BY <1>1, <1>2, <2>1, KeepsAsked DEF KeptInv
<1> QED  BY <1>3, <1>4, <1>5, <1>6, <1>7 DEF KeptInv

LEMMA InitKept == Init => KeptInv
<1> SUFFICES ASSUME Init  PROVE KeptInv
  OBVIOUS
<1>1. todo = [t \in Tasks |-> << >>]
  BY DEF Init
<1>2. todo \in [Tasks -> Seq(Steps)] /\ \A t \in Tasks : todo[t] = << >>
  BY <1>1
<1>3. \A t \in Tasks : InOrder(todo[t]) /\ Todo(t) = {}
  BY <1>2, NoStep DEF Todo, Elems
<1>4. Lists
  BY <1>2, <1>3 DEF Lists
<1>5. /\ webrtc = NULL /\ session = [h \in Handles |-> "free"] /\ webrtc_connected = FALSE
      /\ janus_retry_running = FALSE /\ janus_retry_stop = FALSE /\ held = [t \in Tasks |-> NULL]
      /\ wanted = FALSE /\ misused = FALSE
  BY DEF Init
<1>6. SessionTypes
  BY <1>5 DEF SessionTypes
<1>7. RetryTasks \subseteq Tasks /\ "main" \in Tasks
  BY DEF Tasks, AllCallers
<1>8. Owned
  BY <1>3, <1>5 DEF Owned, OneOwner
<1>9. OneRetries
  BY <1>3, <1>7 DEF OneRetries, OneRetry
<1>10. Flagged
  BY <1>3, <1>5 DEF Flagged, MayUnset
<1>11. Asked
  <2>1. Fresh
    BY <1>3, <1>5, <1>7 DEF Fresh
  <2> QED  BY <1>3, <1>5, <1>7, <2>1 DEF Asked, Unwanted
<1> QED  BY <1>4, <1>6, <1>8, <1>9, <1>10, <1>11 DEF KeptInv

LEMMA NextKept ==
  ASSUME KeptInv, [Next]_vars
  PROVE  KeptInv'
<1>1. ASSUME Tick \/ UNCHANGED vars  PROVE KeptInv'
  BY <1>1, StillKept DEF Tick, vars, globals
<1> QED  BY <1>1, CallKept, RetryKept, PeerKept, CommandKept, MainKept, SysKept, CliKept
         DEF Next

-----------------------------------------------------------------------------
(* What follows *)

LEMMA KeptIsKept == KeptInv => SessionsAreKept
<1> SUFFICES ASSUME KeptInv  PROVE SessionsAreKept
  OBVIOUS
<1>1. ASSUME crossed \cap {"taken", "opened"} = {}
      PROVE  /\ ~misused
             /\ \A h \in Handles : session[h] # "free" =>
                  webrtc = h \/ \E t \in Tasks : "close" \in Todo(t) /\ held[t] = h
  BY <1>1 DEF KeptInv, Owned, OneOwner
<1>2. ASSUME "scheduled" \notin crossed  PROVE AtMostOneRetryTask
  <2> DEFINE R == {r \in RetryTasks : todo[r] # << >>}
  <2>1. \A r \in RetryTasks : todo[r] # << >> => Todo(r) # {}
    BY BusyOf DEF KeptInv, Tasks
  <2>2. \A r, s \in R : r = s
    BY <1>2, <2>1 DEF KeptInv, OneRetries, OneRetry
  <2>3. R = {} \/ \E r \in R : R = {r}
    BY <2>2
  <2> HIDE DEF R
  <2>4. Cardinality(R) = 0 \/ Cardinality(R) = 1
    BY <2>3, FS_EmptySet, FS_Singleton
  <2>5. Cardinality(R) <= 1
    BY <2>4
  <2> QED  BY <2>5 DEF AtMostOneRetryTask, R
<1>3. "reported" \notin crossed /\ webrtc_connected => webrtc # NULL
  BY DEF KeptInv, Flagged
<1> QED  BY <1>1, <1>2, <1>3 DEF SessionsAreKept

\* webrtc is set by esp_webrtc_open alone.
LEMMA OnlyOpenSets ==
  ASSUME [Next]_vars, webrtc' \notin {webrtc, NULL}
  PROVE  \E t \in Tasks : Open(t)
<1>1. ASSUME NEW t \in Tasks, CallStep(t)  PROVE Open(t)
  BY <1>1 DEF CallStep, Stop, Take, ClearWebrtc, Close, Start, OpenFail, ConnectOk, ConnectFail,
              Schedule, globals, sessions
<1>2. ASSUME NEW r \in RetryTasks, Retry(r)  PROVE FALSE
  BY <1>2 DEF Retry, RetryBegin, RetryRound, RetryStopped, RetryEnd, globals, sessions
<1>3. ASSUME NEW h \in Handles, PeerConnected(h) \/ PeerLost(h)  PROVE FALSE
  BY <1>3 DEF PeerConnected, PeerLost
<1>4. ASSUME Command \/ Cli \/ Sys  PROVE FALSE
  BY <1>4 DEF Command, OpenOrHeartbeat, CloseCommand, Cli, CliStart, CliStop, Sys, NetworkUp,
              NetworkDown, MqttBridgeStop, NetworkReset, globals, sessions
<1>5. ASSUME Main \/ Tick \/ UNCHANGED vars  PROVE FALSE
  BY <1>5 DEF Main, MainSample, MainRecover, MainTimeout, MainQuiet, MainForget, Tick, vars,
              globals, sessions
<1> QED  BY <1>1, <1>2, <1>3, <1>4, <1>5 DEF Next

LEMMA OpensAsked ==
  ASSUME KeptInv, [Next]_vars, webrtc' \notin {webrtc, NULL}
  PROVE  wanted \/ crossed \cap {"stopped", "begun"} # {}
<1>1. PICK t \in Tasks : Open(t)
  BY OnlyOpenSets
<1>2. "open" \in Todo(t)
  BY <1>1, HeadOf DEF Open, KeptInv
<1> QED  BY <1>2 DEF KeptInv, Asked, Unwanted

\* No session object is lost or closed twice, one retry task lives at most, and
\* what is reported ready is there, until calls cross in one of the named ways:
\* whoever calls start_webrtc and stop_webrtc, overlapping or not, whether the
\* gateway refuses and the peers come and go, and with any timers.
THEOREM SessionsStayKept == Spec => []SessionsAreKept
<1>1. KeptInv /\ [Next]_vars => KeptInv'
  BY NextKept
<1> QED  BY <1>1, InitKept, KeptIsKept, PTL DEF Spec

\* Nor is a session opened that nobody asked for since the last stop, auto
\* recovery and the Janus retries included, until a stop crosses a start or a
\* start begins across a stop.
THEOREM OnlyCrossingsOpenUnasked == Spec => NoneOpenedUnasked
<1>1. KeptInv /\ [Next]_vars => KeptInv'
  BY NextKept
<1>2. KeptInv /\ [Next]_vars =>
        [webrtc' \notin {webrtc, NULL} => wanted \/ crossed \cap {"stopped", "begun"} # {}]_vars
  BY OpensAsked
<1> QED  BY <1>1, <1>2, InitKept, PTL DEF Spec, NoneOpenedUnasked

=============================================================================
