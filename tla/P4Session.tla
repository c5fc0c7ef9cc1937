------------------------------ MODULE P4Session ------------------------------
(***************************************************************************)
(* The WebRTC session of the ESP32-P4: who opens it, who closes it, and    *)
(* the timers that do so on their own (src/IDF_esp32p4_webrtc/main/main.c  *)
(* and webrtc.c, built with CONFIG_DOORBELL_SIGNALING_JANUS).              *)
(*                                                                         *)
(* Seven kinds of tasks call start_webrtc and stop_webrtc: the MQTT task   *)
(* (commands), the main task (heartbeat timeout and auto recovery), the    *)
(* system event task (network up and down), the console and its            *)
(* asynchronous stop, the Janus retry tasks, and each session's own        *)
(* pc_task (state events).  Nothing locks the globals they share, and the  *)
(* calls block for seconds on HTTP and on other tasks.                     *)
(*                                                                         *)
(* A task is the list of steps it has left, first step first: entering a   *)
(* function replaces the first step by the function's own steps.  A step   *)
(* is the longest stretch of code that touches the shared globals once.    *)
(***************************************************************************)
EXTENDS Integers, Sequences, FiniteSets

CONSTANTS
  Handles,         \* bound: session objects the heap can hold at once
  RetryTasks,      \* bound: retry tasks alive at once
  Callers,         \* the callers taking part, a subset of AllCallers
  NULL,            \* no session
  None,            \* a timestamp of 0
  HbTimeout,       \* WEBRTC_HEARTBEAT_TIMEOUT_MS, in clock ticks
  RecoverTimeout,  \* WEBRTC_CONNECT_RECOVER_TIMEOUT_MS
  RecoverCooldown, \* WEBRTC_CONNECT_RECOVER_COOLDOWN_MS
  JanusMayFail,    \* may the Janus gateway refuse a session?
  PeerMayFail,     \* may a peer connection fail or disconnect?
  CallsOverlap     \* may a call begin while another one is under way?

AllCallers == {"mqtt", "main", "sys", "cli", "cli_stop"}

ASSUME SessionAssumption ==
  /\ Callers \subseteq AllCallers
  /\ Handles \cap RetryTasks = {} /\ (Handles \cup RetryTasks) \cap AllCallers = {}
  /\ NULL \notin Handles
  /\ HbTimeout \in Nat /\ RecoverTimeout \in Nat /\ RecoverCooldown \in Nat
  /\ None \notin Nat
  /\ {JanusMayFail, PeerMayFail, CallsOverlap} \subseteq BOOLEAN

VARIABLES
  network_connected,    \* network.c
  mqtt_started,         \* mqtt_bridge.c s_started
  webrtc,               \* webrtc.c: the current session, or NULL
  session,              \* each session object: free, open or started
  webrtc_connected,
  janus_retry_running,
  janus_retry_stop,
  heartbeat,            \* ticks since s_last_heartbeat_ms, or None
  open_request,         \* ticks since s_last_open_request_ms, or None
  recover,              \* ticks since s_last_recover_ms
  todo,                 \* the steps each task has left
  held,                 \* local variable `handle' of cleanup_webrtc_handle
  sample,               \* locals of mqtt_control_loop
  wanted,               \* history: asked for since the last CLOSE, console stop
                        \*   or heartbeat timeout
  commanded,            \* history: the session was opened by a command
  misused,              \* history: a freed session was closed again
  crossed               \* history: the crossings of calls met so far

network  == <<network_connected, mqtt_started>>
sessions == <<webrtc, session, webrtc_connected>>
retries  == <<janus_retry_running, janus_retry_stop>>
globals  == <<network, sessions, retries>>
timers   == <<heartbeat, open_request, recover>>
locals   == <<held, sample>>
history  == <<wanted, commanded, misused, crossed>>
vars     == <<globals, timers, todo, locals, history>>

Tasks == AllCallers \cup RetryTasks \cup Handles   \* a handle is its pc_task

\* Ages beyond these bounds are all alike to mqtt_control_loop.
HbCap == HbTimeout + 1
RecoverCap == RecoverCooldown + 1
Older(age, cap) == IF age = None THEN None ELSE IF age < cap THEN age + 1 ELSE age

NoSample == [running |-> FALSE, connected |-> FALSE, heartbeat |-> None]

Init ==
  /\ network_connected = FALSE /\ mqtt_started = FALSE
  /\ webrtc = NULL /\ session = [h \in Handles |-> "free"]
  /\ webrtc_connected = FALSE
  /\ janus_retry_running = FALSE /\ janus_retry_stop = FALSE
  /\ heartbeat = None /\ open_request = None /\ recover = 0
  /\ todo = [t \in Tasks |-> << >>]
  /\ held = [t \in Tasks |-> NULL] /\ sample = NoSample
  /\ wanted = FALSE /\ commanded = FALSE /\ misused = FALSE
  /\ crossed = {}

-----------------------------------------------------------------------------
(* Steps *)

At(t, s) == todo[t] # << >> /\ Head(todo[t]) = s

\* The first step of t is done and leaves s to do in its place.
GoOn(t, s) == todo' = [todo EXCEPT ![t] = s \o Tail(@)]

stop_webrtc  == <<"stop", "take">>
start_webrtc == <<"start">>

\* A task sleeping between two rounds is between calls.
Busy(t) == todo[t] \notin {<< >>, <<"retry">>}
MayBegin(t) ==
  /\ t \in Callers \cup RetryTasks \cup Handles
  /\ ~Busy(t)
  /\ CallsOverlap \/ \A u \in Tasks : ~Busy(u)

\* The orders in which calls cross: t does a step that another task, by the
\* steps it has left, does not reckon with.
\*   taken      webrtc is copied while another task that has copied it has yet
\*              to clear it
\*   opened     a session is stored while another task past its own test of
\*              webrtc has yet to clear it or to open one
\*   scheduled  a retry task is made while one made before has yet to say so
\*   reported   CONNECTED is handled while a task past the line that clears
\*              webrtc_connected is closing a session or starting one
\*   stopped    somebody wants no session any more while another task is
\*              starting one or mqtt_control_loop has yet to act on its sample
\*   begun      a retry round or a sample begins while another task is between
\*              wanting no session and having cleared what is read
Todo(t) == {todo[t][i] : i \in DOMAIN todo[t]}
ToClear == {u \in Tasks : "null" \in Todo(u)}
ToOpen  == {u \in Tasks : "open" \in Todo(u) /\ "take" \notin Todo(u)}
ToBegin == {u \in RetryTasks : "begin" \in Todo(u)}
ToStart == {u \in Tasks : Todo(u) \cap {"start", "open", "decide"} # {}}
ToStop  == {u \in Tasks : "stop" \in Todo(u)}
ToTake  == {u \in Tasks : Todo(u) \cap {"take", "null"} # {}}
Unflagged == {u \in Tasks \ ToStop :
                Todo(u) \cap {"take", "null", "open", "connect"} # {}}
Crosses(name, others) ==
  crossed' = IF others = {} THEN crossed ELSE crossed \cup {name}

\* Fault: stop_webrtc leaves the retry task going.
StopKeepsRetry(t) ==
  /\ At(t, "stop")
  /\ webrtc_connected' = FALSE
  /\ GoOn(t, << >>)
  /\ UNCHANGED <<network, webrtc, session, retries, timers, locals, history>>

\* stop_webrtc up to its call of cleanup_webrtc_handle.
Stop(t) ==
  /\ At(t, "stop")
  /\ janus_retry_stop' = TRUE
  /\ webrtc_connected' = FALSE
  /\ GoOn(t, << >>)
  /\ UNCHANGED <<network, webrtc, session, janus_retry_running, timers,
                 locals, history>>

\* Fault: webrtc is not cleared.
TakeOnlyClose(t) ==
  /\ At(t, "take")
  /\ GoOn(t, IF webrtc = NULL THEN << >> ELSE <<"close">>)
  /\ held' = [held EXCEPT ![t] = webrtc]
  /\ Crosses("taken", IF webrtc = NULL THEN {} ELSE ToClear \ {t})
  /\ UNCHANGED <<globals, timers, sample, wanted, commanded, misused>>

\* cleanup_webrtc_handle: the test of webrtc and its copy into handle.
Take(t) ==
  /\ At(t, "take")
  /\ GoOn(t, IF webrtc = NULL THEN << >> ELSE <<"null", "close">>)
  /\ held' = [held EXCEPT ![t] = webrtc]
  /\ Crosses("taken", IF webrtc = NULL THEN {} ELSE ToClear \ {t})
  /\ UNCHANGED <<globals, timers, sample, wanted, commanded, misused>>

ClearWebrtc(t) ==
  /\ At(t, "null")
  /\ webrtc' = NULL /\ commanded' = FALSE
  /\ GoOn(t, << >>)
  /\ UNCHANGED <<network, session, webrtc_connected, retries, timers, locals,
                 wanted, misused, crossed>>

\* esp_webrtc_close waits until the session's pc_task has left its loop,
\* which it cannot do while it is in a state callback of its own.
Close(t) ==
  /\ At(t, "close")
  /\ todo[held[t]] = << >>
  /\ misused' = (misused \/ session[held[t]] = "free")
  /\ session' = [session EXCEPT ![held[t]] = "free"]
  /\ held' = [held EXCEPT ![t] = NULL]
  /\ GoOn(t, << >>)
  /\ UNCHANGED <<network, webrtc, webrtc_connected, retries, timers, sample,
                 wanted, commanded, crossed>>

\* start_webrtc up to esp_webrtc_open, without the cleanup it may call.
Start(t) ==
  /\ At(t, "start")
  /\ IF network_connected
       THEN /\ janus_retry_stop' = FALSE
            /\ webrtc_connected' = (webrtc_connected /\ webrtc = NULL)
            /\ GoOn(t, IF webrtc = NULL THEN <<"open">> ELSE <<"take", "open">>)
       ELSE /\ GoOn(t, << >>)
            /\ UNCHANGED <<janus_retry_stop, webrtc_connected>>
  /\ UNCHANGED <<network, webrtc, session, janus_retry_running, timers,
                 locals, history>>

\* esp_webrtc_open: a new object, stored into webrtc.
Open(t) ==
  /\ At(t, "open")
  /\ \E h \in Handles :
       /\ session[h] = "free" /\ todo[h] = << >>
       /\ session' = [session EXCEPT ![h] = "open"]
       /\ webrtc' = h
  /\ commanded' = (t = "mqtt")
  /\ GoOn(t, <<"connect">>)
  /\ Crosses("opened", (ToClear \cup ToOpen) \ {t})
  /\ UNCHANGED <<network, webrtc_connected, retries, timers, locals, wanted,
                 misused>>

\* It fails for want of memory; webrtc is left as it is.
OpenFail(t) ==
  /\ At(t, "open")
  /\ GoOn(t, <<"take", "schedule">>)
  /\ UNCHANGED <<globals, timers, locals, history>>

\* The rest of start_webrtc: whatever webrtc is by now is started.  A retry
\* task has succeeded then and leaves its loop.
ConnectOk(t) ==
  /\ At(t, "connect")
  /\ webrtc # NULL /\ session[webrtc] = "open"
  /\ session' = [session EXCEPT ![webrtc] = "started"]
  /\ todo' = [todo EXCEPT ![t] = IF t \in RetryTasks THEN <<"end">> ELSE Tail(@)]
  /\ UNCHANGED <<network, webrtc, webrtc_connected, retries, timers, locals,
                 history>>

\* It fails without a session, on one already started, and when the network
\* or the gateway refuses it.
ConnectFail(t) ==
  /\ At(t, "connect")
  /\ webrtc # NULL /\ session[webrtc] = "open" /\ network_connected => JanusMayFail
  /\ GoOn(t, <<"take", "schedule">>)
  /\ UNCHANGED <<globals, timers, locals, history>>

\* schedule_janus_retry; RetryTasks bounds the tasks alive at once.
Schedule(t) ==
  /\ At(t, "schedule")
  /\ IF janus_retry_stop \/ janus_retry_running \/ ~network_connected
          \/ \A r \in RetryTasks : todo[r] # << >>
       THEN GoOn(t, << >>) /\ crossed' = crossed
       ELSE /\ \E r \in RetryTasks :
                 /\ todo[r] = << >>
                 /\ todo' = [todo EXCEPT ![t] = Tail(@), ![r] = <<"begin">>]
            /\ Crosses("scheduled", ToBegin \ {t})
  /\ UNCHANGED <<globals, timers, locals, wanted, commanded, misused>>

CallStep(t) ==
  \/ Stop(t)      \/ Take(t)        \/ ClearWebrtc(t)
  \/ Close(t)     \/ Start(t)       \/ Open(t)     \/ OpenFail(t)
  \/ ConnectOk(t) \/ ConnectFail(t) \/ Schedule(t)

-----------------------------------------------------------------------------
(* The Janus retry task *)

RetryBegin(r) ==
  /\ At(r, "begin")
  /\ janus_retry_running' = TRUE
  /\ GoOn(r, <<"retry">>)
  /\ UNCHANGED <<network, sessions, janus_retry_stop, timers, locals, history>>

\* A round of the loop; a sleeping task is at its head.
RetryRound(r) ==
  /\ todo[r] = <<"retry">>
  /\ MayBegin(r)
  /\ ~janus_retry_stop /\ network_connected /\ webrtc = NULL
  /\ GoOn(r, start_webrtc \o <<"retry">>)
  /\ Crosses("begun", ToStop \ {r})
  /\ UNCHANGED <<globals, timers, locals, wanted, commanded, misused>>

RetryStopped(r) ==
  /\ todo[r] = <<"retry">>
  /\ MayBegin(r)
  /\ janus_retry_stop \/ ~network_connected
  /\ GoOn(r, <<"end">>)
  /\ UNCHANGED <<globals, timers, locals, history>>

RetryEnd(r) ==
  /\ At(r, "end")
  /\ janus_retry_running' = FALSE
  /\ GoOn(r, << >>)
  /\ UNCHANGED <<network, sessions, janus_retry_stop, timers, locals, history>>

Retry(r) ==
  RetryBegin(r) \/ RetryRound(r) \/ RetryStopped(r) \/ RetryEnd(r)

-----------------------------------------------------------------------------
(* pc_task: webrtc_event_handler *)

PeerConnected(h) ==
  /\ session[h] = "started" /\ MayBegin(h)
  /\ webrtc_connected' = TRUE
  /\ Crosses("reported", Unflagged \cup IF webrtc = NULL THEN {h} ELSE {})
  /\ UNCHANGED <<network, webrtc, session, retries, timers, todo, locals,
                 wanted, commanded, misused>>

\* CONNECT_FAILED and DISCONNECTED.
PeerLost(h) ==
  /\ PeerMayFail
  /\ session[h] = "started" /\ MayBegin(h)
  /\ webrtc_connected' = FALSE
  /\ todo' = [todo EXCEPT ![h] = <<"take", "schedule">>]
  /\ UNCHANGED <<network, webrtc, session, retries, timers, locals, history>>

-----------------------------------------------------------------------------
(* MQTT task: mqtt_control_cmd_handler *)

MqttReady == mqtt_started /\ MayBegin("mqtt")

\* OPEN_WEBRTC and HEARTBEAT do the same.
OpenOrHeartbeat ==
  /\ MqttReady
  /\ heartbeat' = 0 /\ open_request' = 0
  /\ wanted' = TRUE
  /\ todo' = [todo EXCEPT !["mqtt"] = IF webrtc = NULL THEN start_webrtc ELSE << >>]
  /\ UNCHANGED <<globals, recover, locals, commanded, misused, crossed>>

\* CLOSE_WEBRTC leaves the heartbeat timestamp alone.
CloseCommand ==
  /\ MqttReady
  /\ open_request' = None
  /\ wanted' = FALSE
  /\ todo' = [todo EXCEPT !["mqtt"] = stop_webrtc]
  /\ Crosses("stopped", ToStart \ {"mqtt"})
  /\ UNCHANGED <<globals, heartbeat, recover, locals, commanded, misused>>

Command == OpenOrHeartbeat \/ CloseCommand

-----------------------------------------------------------------------------
(* Main task: mqtt_control_loop *)

MainSample ==
  /\ MayBegin("main")
  /\ sample' = [running |-> webrtc # NULL, connected |-> webrtc_connected,
                heartbeat |-> heartbeat]
  /\ todo' = [todo EXCEPT !["main"] = <<"decide">>]
  /\ Crosses("begun", ToTake \ {"main"})
  /\ UNCHANGED <<globals, timers, held, wanted, commanded, misused>>

Stuck ==
  /\ sample.running /\ ~sample.connected
  /\ open_request # None
  /\ open_request <= HbTimeout
  /\ open_request > RecoverTimeout
  /\ recover > RecoverCooldown

MainRecover ==
  /\ At("main", "decide")
  /\ sample' = NoSample
  /\ Stuck
  /\ recover' = 0
  /\ GoOn("main", stop_webrtc \o start_webrtc)
  /\ UNCHANGED <<globals, heartbeat, open_request, held, history>>

\* Fault: only a connected session times out.
ExpiredConnected ==
  sample.connected /\ sample.heartbeat # None /\ sample.heartbeat > HbTimeout

Expired ==
  sample.running /\ sample.heartbeat # None /\ sample.heartbeat > HbTimeout

MainTimeout ==
  /\ At("main", "decide")
  /\ sample' = NoSample
  /\ ~Stuck /\ Expired
  /\ wanted' = FALSE
  /\ GoOn("main", stop_webrtc \o <<"forget">>)
  /\ Crosses("stopped", ToStart \ {"main"})
  /\ UNCHANGED <<globals, timers, held, commanded, misused>>

MainQuiet ==
  /\ At("main", "decide")
  /\ sample' = NoSample
  /\ ~Stuck /\ ~Expired
  /\ GoOn("main", << >>)
  /\ UNCHANGED <<globals, timers, held, history>>

\* The end of the timeout branch, after stop_webrtc.
MainForget ==
  /\ At("main", "forget")
  /\ heartbeat' = None /\ open_request' = None
  /\ GoOn("main", << >>)
  /\ UNCHANGED <<globals, recover, locals, history>>

-----------------------------------------------------------------------------
(* System event task: network_set_connected and network_event_handler *)

NetworkUp ==
  /\ MayBegin("sys") /\ ~network_connected
  /\ network_connected' = TRUE
  /\ mqtt_started' = TRUE
  /\ UNCHANGED <<sessions, retries, timers, todo, locals, history>>

\* Fault: the session is stopped before the MQTT bridge.
NetworkDownStopFirst ==
  /\ MayBegin("sys") /\ network_connected
  /\ network_connected' = FALSE
  /\ todo' = [todo EXCEPT !["sys"] = stop_webrtc \o <<"mqtt_stop", "reset">>]
  /\ UNCHANGED <<mqtt_started, sessions, retries, timers, locals, history>>

NetworkDown ==
  /\ MayBegin("sys") /\ network_connected
  /\ network_connected' = FALSE
  /\ todo' = [todo EXCEPT !["sys"] = <<"mqtt_stop">> \o stop_webrtc \o <<"reset">>]
  /\ UNCHANGED <<mqtt_started, sessions, retries, timers, locals, history>>

\* mqtt_bridge_stop: esp_mqtt_client_stop returns once the MQTT task has left
\* its handler.
MqttBridgeStop ==
  /\ At("sys", "mqtt_stop")
  /\ todo["mqtt"] = << >>
  /\ mqtt_started' = FALSE
  /\ GoOn("sys", << >>)
  /\ UNCHANGED <<network_connected, sessions, retries, timers, locals, history>>

\* A zero s_last_recover_ms is as old as the boot, and so no younger than it was.
NetworkReset ==
  /\ At("sys", "reset")
  /\ heartbeat' = None /\ open_request' = None
  /\ recover' \in recover..RecoverCap
  /\ GoOn("sys", << >>)
  /\ UNCHANGED <<globals, locals, history>>

-----------------------------------------------------------------------------
(* Console *)

CliStart ==
  /\ MayBegin("cli")
  /\ wanted' = TRUE
  /\ todo' = [todo EXCEPT !["cli"] = start_webrtc]
  /\ UNCHANGED <<globals, timers, locals, commanded, misused, crossed>>

\* stop_cli hands the stop to a task of its own.
CliStop ==
  /\ MayBegin("cli_stop")
  /\ wanted' = FALSE
  /\ todo' = [todo EXCEPT !["cli_stop"] = stop_webrtc]
  /\ Crosses("stopped", ToStart \ {"cli_stop"})
  /\ UNCHANGED <<globals, timers, locals, commanded, misused>>

-----------------------------------------------------------------------------
\* A clock tick.  mqtt_control_loop, alone in reading the ages, compares
\* timestamps it reads within one tick and runs at least once a tick.
Tick ==
  /\ "main" \in Callers
  /\ ~At("main", "decide")
  /\ heartbeat' = Older(heartbeat, HbCap)
  /\ open_request' = Older(open_request, HbCap)
  /\ recover' = Older(recover, RecoverCap)
  /\ UNCHANGED <<globals, todo, locals, history>>

Main == MainSample \/ MainRecover \/ MainTimeout \/ MainQuiet \/ MainForget
Sys  == NetworkUp \/ NetworkDown \/ MqttBridgeStop \/ NetworkReset
Cli  == CliStart \/ CliStop

Next ==
  \/ \E t \in Tasks : CallStep(t)
  \/ \E r \in RetryTasks : Retry(r)
  \/ \E h \in Handles : PeerConnected(h) \/ PeerLost(h)
  \/ Command \/ Main \/ Sys \/ Cli \/ Tick

\* Every task that has a step to take is run, and time passes.  Strong fairness
\* is for Main and Retry, which without CallsOverlap wait their turn among the
\* other callers, and for Tick, which waits for the main task's comparisons.
\* Commands, events of the peer and the network come as they please.
Fairness ==
  /\ \A t \in Tasks : WF_vars(CallStep(t))
  /\ \A r \in RetryTasks : SF_vars(Retry(r))
  /\ WF_vars(MqttBridgeStop) /\ WF_vars(NetworkReset)
  /\ SF_vars(Main) /\ SF_vars(Tick)

Spec == Init /\ [][Next]_vars /\ Fairness

-----------------------------------------------------------------------------
(* Properties *)

\* A session opened by a command never outlives the handling of a network
\* loss: mqtt_bridge_stop waits for the command under way before stop_webrtc
\* looks for a session to close, however the other callers interleave.
NoCommandSessionOffline ==
  ~network_connected /\ ~Busy("sys") /\ commanded => webrtc = NULL

\* janus_retry_running lets at most one retry task live.
AtMostOneRetryTask == Cardinality({r \in RetryTasks : todo[r] # << >>}) <= 1

\* A session is opened only for a client that asked for one since the last
\* stop, or else a stop still to come will find it and close it
\* (MQTT_WEBRTC_CONTROL_FLOW.md, "Start WebRTC only on explicit client
\* request").
OpenedOnRequest ==
  [][webrtc = NULL /\ webrtc' # NULL =>
       wanted \/ \E t \in Tasks : "take" \in Todo(t)]_vars

\* Whatever overlaps, only the crossings named above break what calls in turn
\* keep.  A session object is webrtc's or in the hands of the one task about to
\* close it, and none is closed twice, but for webrtc taken twice or stored
\* over; one retry task lives; and ready is what is there.
SessionsAreKept ==
  /\ crossed \cap {"taken", "opened"} = {} =>
       /\ ~misused
       /\ \A h \in Handles : session[h] # "free" =>
            \/ webrtc = h
            \/ \E t \in Tasks : "close" \in Todo(t) /\ held[t] = h
  /\ "scheduled" \notin crossed => AtMostOneRetryTask
  /\ "reported" \notin crossed => (webrtc_connected => webrtc # NULL)

\* And no session is opened that nobody asks for, by a retry task or by auto
\* recovery, unless the stop and the start of it crossed.
NoneOpenedUnasked ==
  [][webrtc' \notin {webrtc, NULL} =>
       wanted \/ crossed \cap {"stopped", "begun"} # {}]_vars

\* When the commands cease, nothing is streamed for ever after: the heartbeat
\* timeout of mqtt_control_loop stops the session, whatever recovery, retries
\* and network losses come in between.
SilenceStopsStreaming ==
  []<><<Command>>_vars \/ <>[](\A h \in Handles : session[h] # "started")

=============================================================================
