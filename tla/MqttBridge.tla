------------------------------ MODULE MqttBridge ------------------------------
(***************************************************************************)
(* The network (common/network.c, the WiFi build) and the MQTT bridge that *)
(* is started and stopped with it (main/mqtt_bridge.c).                    *)
(*                                                                         *)
(* The event task handles the WiFi driver's events in their order and runs *)
(* the application's callback, which starts or stops the bridge.  Next to  *)
(* it run the client's own task, a publisher task for every start, the     *)
(* main task, which publishes too, and the console, which may change the   *)
(* credentials.  The WiFi driver and the MQTT client are external.         *)
(***************************************************************************)
EXTENDS Naturals, Sequences

CONSTANTS
  Clients,    \* bound: client objects, numbered, and publisher tasks with them
  MaxEvents   \* bound: changes of the WiFi link

VARIABLES
  network_connected,
  told,         \* what the callback was told last
  wifi,         \* the driver: "off", "joining" or "up"
  events,       \* what the driver posted
  wifi_config,  \* whose credentials: "app", "nvs", "console" or "none"
  nvs,          \* those that are stored
  s_client,     \* 0 for NULL
  s_started, s_connected,
  alive,        \* clients that exist, and those that were started and not stopped
  running,
  todo,         \* steps of the event task's callback to come
  at,           \* where each publisher is: "none", "loop", "use" or "sleep"
  held,         \* the client it has read from s_client
  changes,
  strange       \* history: see Strange

bridge == <<network_connected, told, wifi, events, wifi_config, nvs, s_client, s_started,
            s_connected, alive, running, todo, at, held, changes, strange>>

Main == 0
Publishers == Clients \cup {Main}

\* Orders of events the code does not provide for: a client that connects while it is
\* stopped, a start before the last publisher has ended, a publisher that had read the
\* client when it was destroyed, credentials that change while the network is up.
Strange == {"connected_late", "renewed", "caught", "reconfigured"}

BridgeInit ==
  /\ network_connected = FALSE /\ told = FALSE
  /\ wifi = "off" /\ events = <<"START">>
  /\ nvs \in {"none", "nvs"}
  /\ wifi_config \in {"app", nvs}
  /\ s_client = 0 /\ s_started = FALSE /\ s_connected = FALSE
  /\ alive = {} /\ running = {} /\ todo = <<>>
  /\ at = [p \in Publishers |-> IF p = Main THEN "loop" ELSE "none"]
  /\ held = [p \in Publishers |-> 0]
  /\ changes = 0 /\ strange = {}

network_vars == <<network_connected, told, wifi, events, wifi_config, nvs, changes>>
client_vars == <<s_client, s_started, s_connected, alive, running>>
publishers == <<at, held>>

-----------------------------------------------------------------------------
(* The WiFi driver *)

Post(state, event) ==
  /\ changes < MaxEvents /\ changes' = changes + 1
  /\ wifi' = state /\ events' = Append(events, event)
  /\ UNCHANGED <<network_connected, told, wifi_config, nvs, client_vars, publishers, todo, strange>>

Joined == wifi = "joining" /\ Post("up", "GOT_IP")
LinkLost == wifi # "off" /\ Post("off", "DISCONNECTED")

-----------------------------------------------------------------------------
(* network.c and the callback of main.c *)

Step(step) == todo # <<>> /\ Head(todo) = step

StartSteps == <<"init", "started", "unconnected", "client_start", "task">>
StopSteps == <<"stopped", "unconnected", "client_stop", "destroy", "null">>

\* The flag is compared first: the callback hears of changes only.
network_set_connected(connected) ==
  /\ network_connected' = connected
  /\ IF network_connected = connected THEN UNCHANGED <<told, todo>>
     ELSE /\ told' = connected
          /\ todo' = IF connected /\ ~s_started THEN StartSteps
                     ELSE IF ~connected /\ s_started THEN StopSteps ELSE <<>>

\* What the driver posted is handled when the last callback has returned.  The
\* credentials that are stored are those that are set by now.
event_handler ==
  /\ todo = <<>> /\ events # <<>> /\ events' = Tail(events)
  /\ CASE Head(events) = "START" ->
            /\ wifi' = "joining"
            /\ UNCHANGED <<network_connected, told, nvs, todo>>
       [] Head(events) = "DISCONNECTED" ->
            /\ network_set_connected(FALSE)
            /\ wifi' = "joining" /\ UNCHANGED nvs
       [] Head(events) = "GOT_IP" ->
            /\ network_set_connected(TRUE)
            /\ nvs' = wifi_config /\ UNCHANGED wifi
  /\ UNCHANGED <<wifi_config, client_vars, publishers, changes, strange>>

\* The console.  The flag is cleared and nobody is told.
network_connect_wifi ==
  /\ changes < MaxEvents /\ changes' = changes + 1
  /\ wifi_config' = "console"
  /\ network_connected' = FALSE
  /\ wifi' = "off"
  /\ events' = events \o (IF wifi = "up" THEN <<"DISCONNECTED", "START">> ELSE <<"START">>)
  /\ strange' = strange \cup {"reconfigured"}
  /\ UNCHANGED <<told, nvs, client_vars, publishers, todo>>

-----------------------------------------------------------------------------
(* mqtt_bridge_start and mqtt_bridge_stop, in the event task *)

Goes == todo' = Tail(todo)

\* esp_mqtt_client_init
InitClient ==
  /\ Step("init") /\ UNCHANGED <<s_started, s_connected, running>>
  /\ UNCHANGED <<network_vars, publishers, strange>>
  /\ \/ \E c \in Clients \ alive :
          /\ at[c] = "none"
          /\ s_client' = c /\ alive' = alive \cup {c} /\ Goes
     \/ s_client' = 0 /\ todo' = <<>> /\ UNCHANGED alive

Started == Step("started") /\ s_started' = TRUE
           /\ UNCHANGED <<s_client, s_connected, alive, running, strange, publishers>>
Stopped == Step("stopped") /\ s_started' = FALSE
           /\ UNCHANGED <<s_client, s_connected, alive, running, strange, publishers>>
\* Fault: the flag is left to the client's own event.
LeftConnected == Step("unconnected") /\ s_connected' = (s_connected /\ ~s_started)
                 /\ UNCHANGED <<s_client, s_started, alive, running, strange, publishers>>
Unconnected == Step("unconnected") /\ s_connected' = FALSE
               /\ UNCHANGED <<s_client, s_started, alive, running, strange, publishers>>
ClientStart == Step("client_start") /\ running' = running \cup {s_client}
               /\ UNCHANGED <<s_client, s_started, s_connected, alive, strange, publishers>>
ClientStop == Step("client_stop") /\ running' = running \ {s_client}
              /\ UNCHANGED <<s_client, s_started, s_connected, alive, strange, publishers>>

\* A publisher that a stop found asleep may still be there, and goes on.
PublisherTask ==
  /\ Step("task") /\ at' = [at EXCEPT ![s_client] = "loop"]
  /\ strange' = IF \E p \in Clients : at[p] # "none" THEN strange \cup {"renewed"} ELSE strange
  /\ UNCHANGED <<client_vars, held>>

Destroy ==
  /\ Step("destroy") /\ alive' = alive \ {s_client}
  /\ strange' = IF \E p \in Publishers : at[p] = "use" THEN strange \cup {"caught"} ELSE strange
  /\ UNCHANGED <<s_client, s_started, s_connected, running, publishers>>
NoClient == Step("null") /\ s_client' = 0
            /\ UNCHANGED <<s_started, s_connected, alive, running, strange, publishers>>

BridgeStep ==
  \/ InitClient
  \/ /\ Started \/ Stopped \/ Unconnected \/ ClientStart \/ ClientStop \/ PublisherTask
        \/ Destroy \/ NoClient
     /\ Goes /\ UNCHANGED network_vars

-----------------------------------------------------------------------------
(* The client's task, the publishers *)

\* A client may still connect after the stop has cleared the flag.
mqtt_event_handler(connected) ==
  /\ running # {} /\ s_connected' = connected /\ s_connected # connected
  /\ strange' = IF connected /\ Step("client_stop") THEN strange \cup {"connected_late"} ELSE strange
  /\ UNCHANGED <<s_client, s_started, alive, running, network_vars, publishers, todo>>

\* mqtt_pub_task ends when the bridge is stopped; publish_raw of the main task does
\* not look at that.
Look(p) ==
  /\ at[p] = "loop"
  /\ CASE p # Main /\ ~s_started -> at' = [at EXCEPT ![p] = "none"] /\ UNCHANGED held
       [] (p = Main \/ s_started) /\ s_connected /\ s_client # 0 ->
            at' = [at EXCEPT ![p] = "use"] /\ held' = [held EXCEPT ![p] = s_client]
       [] OTHER -> at' = [at EXCEPT ![p] = "sleep"] /\ UNCHANGED held
  /\ UNCHANGED <<network_vars, client_vars, todo, strange>>

Publish(p) ==
  /\ at[p] = "use" /\ at' = [at EXCEPT ![p] = "sleep"]
  /\ UNCHANGED <<network_vars, client_vars, todo, strange, held>>

Wake(p) ==
  /\ at[p] = "sleep" /\ at' = [at EXCEPT ![p] = "loop"]
  /\ UNCHANGED <<network_vars, client_vars, todo, strange, held>>

BridgeNext ==
  \/ Joined \/ LinkLost \/ event_handler \/ network_connect_wifi \/ BridgeStep
  \/ \E connected \in BOOLEAN : mqtt_event_handler(connected)
  \/ \E p \in Publishers : Look(p) \/ Publish(p) \/ Wake(p)

-----------------------------------------------------------------------------
(* Properties *)

\* Nobody publishes on a client that was destroyed, but one that had read it before
\* or saw the flag of a client that connected while it was stopped; the flag stands
\* for a bridge that is started; one task publishes; and the application knows
\* whether the network is up.
BridgeIsWhole ==
  /\ \A p \in Publishers : at[p] = "use" /\ held[p] \notin alive =>
       strange \cap {"caught", "connected_late"} # {}
  /\ s_connected /\ todo = <<>> /\ "connected_late" \notin strange => s_started
  /\ "renewed" \notin strange =>
       \A p, q \in Clients : at[p] # "none" /\ at[q] # "none" => p = q
  /\ "reconfigured" \notin strange => told = network_connected
=============================================================================
