------------------------------ MODULE EspWebrtc ------------------------------
(***************************************************************************)
(* The WebRTC session object (esp_webrtc.c): it joins a signaling          *)
(* implementation, a peer connection, the capture and the player.          *)
(*                                                                         *)
(* Five tasks run in it and nothing is locked: the owner, whose calls do   *)
(* not overlap here (app; module P4Session has the overlapping ones),      *)
(* pc_task, the tasks pc_send that stream, and the signaling threads       *)
(* worker and aux, which call back as module Signaling allows.  A task is  *)
(* the list of steps it has left.                                          *)
(***************************************************************************)
EXTENDS Signaling, Integers, Sequences

CONSTANTS
  Settings,     \* the configurations and signaling implementations at hand
  MaxSenders,   \* bound: tasks pc_send alive at once
  MaxCalls,     \* bound: the owner's calls after the object is opened
  MaxHeard      \* bound: callbacks of the signaling threads

(***************************************************************************)
(* A setting tells: no_auto_reconnect of the configuration; whether the    *)
(* remote side can hang up (bye), and ask for or refuse the connection     *)
(* (gated, the answer of door_bell_on_cmd); whether on_ice_info or         *)
(* on_connected come again (again); and whether the event handler closes   *)
(* the session on a failure, as webrtc_event_handler does.                 *)
(***************************************************************************)
ASSUME WebrtcAssumption ==
  /\ CallThreads = {"app", "worker", "aux"}
  /\ Settings \subseteq [no_auto_reconnect : BOOLEAN, bye : BOOLEAN, gated : BOOLEAN,
                         again : BOOLEAN, handler_closes : BOOLEAN]
  /\ MaxSenders \in Nat \ {0} /\ MaxCalls \in Nat /\ MaxHeard \in Nat

VARIABLES
  set,       \* the setting
  rtc,       \* the fields of webrtc_t
  bits,      \* the bits set in wait_event
  peer,      \* the peer connection library: where the connection is
  todo,      \* the steps each task has left
  calls,     \* the owner's calls so far
  heard,     \* callbacks of the signaling threads so far
  senders,   \* tasks pc_send alive
  late,      \* history: uses of what was freed
  raced      \* history: the steps of two tasks that crossed

counts == <<set, calls, heard>>
here == <<counts, rtc, bits, peer, todo, senders, late, raced>>
vars == <<signaling, here>>

Tasks == {"app", "pc", "worker", "aux"}

Rtc0 == [life |-> "none", pc |-> FALSE, event |-> FALSE, running |-> FALSE, pause |-> FALSE,
         send_going |-> FALSE, pending |-> FALSE, ice |-> FALSE, connected |-> FALSE,
         signaling |-> FALSE]

RtcInit ==
  /\ Init
  /\ set \in Settings
  /\ rtc = Rtc0 /\ bits = {} /\ peer = "none"
  /\ todo = [t \in Tasks |-> << >>] /\ senders = 0
  /\ calls = 0 /\ heard = 0
  /\ late = {} /\ raced = {}

At(t, s) == todo[t] # << >> /\ Head(todo[t]) = s
Idle(t) == todo[t] = << >>
GoOn(t, s) == todo' = [todo EXCEPT ![t] = s \o Tail(@)]

Quiet == UNCHANGED <<signaling, counts, senders, raced>>

\* The crossings the code leaves open, by name.
Races(what, happens) == raced' = IF happens THEN raced \cup {what} ELSE raced
Has(t, steps) == \E i \in DOMAIN todo[t] : todo[t][i] \in steps
EndsPc(t) ==
  /\ Has(t, {"wait_exit", "peer_close", "no_event", "stop_signaling", "stopped", "free"})
  /\ ~Has(t, {"pc_close"})
EndsStream(t) ==
  /\ EndsPc(t) \/ Has(t, {"wait_send_quit", "pc_close"})
  /\ ~Has(t, {"stop_stream"})
Others(t) == Tasks \ {t}

-----------------------------------------------------------------------------
(* Event bits.  WAIT_FOR_BITS returns at once on a group that is gone, and *)
(* one that is deleted lets its waiters go.  A bit that is set lets all go *)
(* who wait by then.                                                       *)

SetBit(b) == bits' = IF rtc.event THEN bits \cup {b} ELSE bits

\* Fault: WAIT_FOR_BITS does not wait.
PassBit(t, step, b) ==
  /\ At(t, step)
  /\ bits' = bits \ {b}
  /\ GoOn(t, << >>)
  /\ UNCHANGED <<rtc, peer>> /\ Quiet

WaitBit(t, step, b) ==
  /\ At(t, step)
  /\ b \in bits \/ ~rtc.event
  /\ \/ bits' = bits \ {b}
     \/ (\E u \in Tasks \ {t} : At(u, step)) /\ UNCHANGED bits
  /\ GoOn(t, << >>)
  /\ UNCHANGED <<rtc, peer>> /\ Quiet

WaitSteps == {"wait_send_quit", "wait_exit", "wait_paused", "wait_resume"}

Waits(t) ==
  \/ WaitBit(t, "wait_send_quit", "SEND_QUIT") \/ WaitBit(t, "wait_exit", "EXIT")
  \/ WaitBit(t, "wait_paused", "PAUSED") \/ WaitBit(t, "wait_resume", "RESUME")

-----------------------------------------------------------------------------
(* Streaming *)

\* start_stream, on CONNECTED; the capture may not start.
start_stream(t) ==
  /\ At(t, "start_stream")
  /\ \/ /\ senders < MaxSenders
        /\ rtc' = [rtc EXCEPT !.send_going = TRUE]
        /\ senders' = senders + 1
     \/ UNCHANGED <<rtc, senders>>
  /\ Races("streams_late", \E u \in Others(t) : EndsStream(u))
  /\ GoOn(t, << >>)
  /\ UNCHANGED <<signaling, counts, bits, peer>>

\* Fault: the streaming task is not waited for.
stop_stream_at_once(t) ==
  /\ At(t, "stop_stream")
  /\ rtc' = [rtc EXCEPT !.send_going = FALSE]
  /\ GoOn(t, << >>)
  /\ UNCHANGED <<bits, peer>> /\ Quiet

stop_stream(t) ==
  /\ At(t, "stop_stream")
  /\ rtc' = [rtc EXCEPT !.send_going = FALSE]
  /\ GoOn(t, IF rtc.send_going THEN <<"wait_send_quit">> ELSE << >>)
  /\ Races("stops_twice", \E u \in Others(t) : At(u, "wait_send_quit"))
  /\ UNCHANGED <<signaling, counts, bits, peer, senders>>

media_send_task ==
  /\ senders > 0 /\ ~rtc.send_going
  /\ senders' = senders - 1
  /\ SetBit("SEND_QUIT")
  /\ UNCHANGED <<signaling, counts, rtc, peer, todo, raced>>

-----------------------------------------------------------------------------
(* The peer connection *)

\* esp_peer_new_connection: an offer will be made.
NewConnection ==
  /\ peer' = IF rtc.pc THEN "connecting" ELSE peer
  /\ Races("renewed", rtc.pc /\ (rtc.send_going \/ At("pc", "start_stream")))

\* new_connection of a loop that may be paused, which goes on.
Reconnect(t) ==
  /\ peer' = IF rtc.pc THEN "connecting" ELSE peer
  /\ raced' = raced \cup
       (IF rtc.send_going \/ At("pc", "start_stream") THEN {"renewed"} ELSE {}) \cup
       (IF \E u \in Others(t) : At(u, "wait_paused") THEN {"resumes"} ELSE {})
  /\ rtc' = [rtc EXCEPT !.pause = FALSE]
  /\ IF rtc.pause THEN SetBit("RESUME") ELSE UNCHANGED bits

Disconnected == IF rtc.pc THEN "down" ELSE peer

\* pc_start up to the peer that is opened; one there is told of the servers.
pc_start(t) ==
  /\ At(t, "pc_start")
  /\ \/ /\ ~rtc.pc
        /\ rtc' = [rtc EXCEPT !.pc = TRUE]
        /\ peer' = "new"
        /\ GoOn(t, <<"pc_run">>)
     \/ UNCHANGED <<rtc, peer>> /\ GoOn(t, << >>)
  /\ UNCHANGED bits /\ Quiet

\* pc_start goes on: the event group, running, pc_task, the capture's path.
PcRun(t) ==
  /\ At(t, "pc_run")
  /\ rtc' = [rtc EXCEPT !.event = TRUE, !.running = TRUE]
  /\ bits' = {}
  /\ todo' = [todo EXCEPT ![t] = Tail(@), !["pc"] = <<"turn">>]
  /\ Races("starts_late", ~rtc.pc \/ ~Idle("pc") \/ \E u \in Others(t) : EndsPc(u))
  /\ UNCHANGED <<signaling, counts, peer, senders>>

\* What a turn of esp_peer_main_loop may report, and the steps of pc_on_state
\* that follow.
Reports(conn, steps) ==
  /\ peer' = conn
  /\ GoOn("pc", steps \o <<"turn">>)

MainLoop ==
  \/ /\ peer = "connecting"
     /\ \/ Reports("connected", <<"start_stream", "notify_connected">>)
        \/ Reports("down", <<"notify_down">>)
  \/ /\ peer = "connected"
     /\ Reports("down", <<"stop_stream", "notify_down">>)

\* A turn of pc_task.
pc_task ==
  /\ At("pc", "turn")
  /\ \/ /\ ~rtc.running
        /\ GoOn("pc", << >>) /\ SetBit("EXIT") /\ UNCHANGED peer
     \/ /\ rtc.running /\ rtc.pause
        /\ GoOn("pc", <<"wait_resume", "turn">>) /\ SetBit("PAUSED") /\ UNCHANGED peer
     \/ /\ rtc.running /\ ~rtc.pause
        /\ MainLoop /\ UNCHANGED bits
  /\ UNCHANGED rtc /\ Quiet

\* Fault: pc_task is closed while it is paused.
pc_close_paused(t) ==
  /\ At(t, "pc_close")
  /\ GoOn(t, IF ~rtc.pc THEN <<"no_event">>
             ELSE (IF rtc.running THEN <<"wait_exit">> ELSE << >>) \o <<"peer_close", "no_event">>)
  /\ rtc' = IF rtc.pc THEN [rtc EXCEPT !.running = FALSE] ELSE rtc
  /\ peer' = Disconnected
  /\ Races("closes_twice", \E u \in Others(t) : EndsPc(u))
  /\ UNCHANGED <<signaling, counts, bits, senders>>

\* pc_close up to its wait, and what it does then.
pc_close(t) ==
  /\ At(t, "pc_close")
  /\ GoOn(t, IF ~rtc.pc THEN <<"no_event">>
             ELSE (IF rtc.running THEN <<"wait_exit">> ELSE << >>) \o <<"peer_close", "no_event">>)
  /\ rtc' = IF rtc.pc THEN [rtc EXCEPT !.running = FALSE, !.pause = FALSE] ELSE rtc
  /\ IF rtc.pc /\ rtc.pause THEN SetBit("RESUME") ELSE UNCHANGED bits
  /\ peer' = Disconnected
  /\ Races("closes_twice", \E u \in Others(t) : EndsPc(u))
  /\ UNCHANGED <<signaling, counts, senders>>

PcClosed(t) ==
  /\ \/ /\ At(t, "peer_close")
        /\ rtc' = [rtc EXCEPT !.pc = FALSE]
        /\ peer' = "none"
        /\ GoOn(t, << >>)
        /\ UNCHANGED bits
     \/ /\ At(t, "no_event")
        /\ rtc' = [rtc EXCEPT !.event = FALSE]
        /\ bits' = {}
        /\ todo' = [u \in Tasks |->
             IF u = t \/ \E w \in WaitSteps : At(u, w) THEN Tail(todo[u]) ELSE todo[u]]
        /\ UNCHANGED peer
  /\ Quiet

-----------------------------------------------------------------------------
(* The signaling callbacks.  Entering one gives its thread the steps of    *)
(* the handler; leaving it is the last.                                    *)

Callback(t, c, steps) ==
  /\ Idle(t) \/ At(t, "callbacks")
  /\ Enter(t, c)
  /\ t = "app" \/ heard < MaxHeard
  /\ heard' = IF t = "app" THEN heard ELSE heard + 1
  /\ todo' = [todo EXCEPT ![t] = steps \o <<"leave">> \o @]
  /\ UNCHANGED <<set, calls, senders>>

Left(t) ==
  /\ At(t, "leave")
  /\ Leave(t)
  /\ GoOn(t, << >>)
  /\ UNCHANGED <<counts, rtc, bits, peer, senders, raced>>

signal_ice_received(t) ==
  /\ t = "app" \/ (t = "aux" /\ set.again)
  /\ t = "app" => api = "starting" /\ "on_ice_info" \notin told
  /\ Callback(t, "on_ice_info", IF rtc.pending THEN << >> ELSE <<"pc_start">>)
  /\ rtc' = [rtc EXCEPT !.ice = TRUE]
  /\ UNCHANGED <<bits, peer, raced>>

signal_connected(t) ==
  /\ t = "app" => api = "starting" /\ "on_connected" \notin told
  /\ t = "worker" => set.again
  /\ t # "aux"
  /\ Callback(t, "on_connected", << >>)
  /\ rtc' = [rtc EXCEPT !.connected = TRUE]
  /\ IF set.no_auto_reconnect /\ rtc.pending THEN UNCHANGED <<peer, raced>> ELSE NewConnection
  /\ UNCHANGED bits

\* BYE: the loop is paused before the peer is disconnected.
signal_bye ==
  /\ set.bye
  /\ Callback("worker", "on_msg",
       IF ~rtc.running THEN << >>
       ELSE (IF rtc.pause THEN << >> ELSE <<"wait_paused">>) \o
            <<"disconnect", "stop_stream">> \o
            (IF set.no_auto_reconnect THEN << >> ELSE <<"reconnect">>))
  /\ rtc' = IF rtc.running THEN [rtc EXCEPT !.pause = TRUE] ELSE rtc
  /\ UNCHANGED <<bits, peer, raced>>

\* The steps of BYE and of on_close that talk to the peer.
PeerSteps(t) ==
  /\ \/ /\ At(t, "disconnect")
        /\ peer' = Disconnected
        /\ UNCHANGED <<rtc, bits, raced>>
     \/ /\ At(t, "reconnect")
        /\ Reconnect(t)
  /\ GoOn(t, << >>)
  /\ UNCHANGED <<signaling, counts, senders>>

\* The other messages: SDP and candidates are the peer's, a customized one is
\* door_bell_on_cmd's, which may enable or refuse the connection.
signal_new_msg ==
  /\ \E answer \in IF set.gated THEN {<<"enable">>, <<"disable">>, << >>} ELSE {<< >>} :
       Callback("worker", "on_msg", answer)
  /\ UNCHANGED <<rtc, bits, peer, raced>>

signal_closed(t) ==
  /\ t = "app" => api = "stopping" /\ "on_close" \notin told
  /\ t = "worker" => set.again
  /\ t # "aux"
  /\ Callback(t, "on_close", <<"disconnect">>)
  /\ rtc' = [rtc EXCEPT !.connected = FALSE]
  /\ UNCHANGED <<bits, peer, raced>>

-----------------------------------------------------------------------------
(* The owner's calls *)

esp_webrtc_open ==
  /\ Idle("app") /\ rtc.life = "none"
  /\ rtc' = [Rtc0 EXCEPT !.life = "open"]
  /\ UNCHANGED <<bits, peer, todo>> /\ Quiet

Calls(steps) ==
  /\ Idle("app") /\ rtc.life = "open" /\ calls < MaxCalls
  /\ calls' = calls + 1
  /\ todo' = [todo EXCEPT !["app"] = steps]
  /\ UNCHANGED <<set, heard, rtc, bits, peer, senders, raced>>

\* esp_webrtc_enable_peer_connection from the owner
CallEnable ==
  /\ \E s \in {"enable", "disable"} : Calls(<<s>>)
  /\ UNCHANGED signaling

esp_webrtc_enable_peer_connection(t) ==
  /\ \/ /\ At(t, "enable")
        /\ rtc' = [rtc EXCEPT !.pending = FALSE]
        /\ GoOn(t, IF rtc.pc THEN <<"connect">>
                   ELSE IF rtc.ice THEN <<"pc_start", "connect">> ELSE << >>)
        /\ UNCHANGED <<bits, peer, raced>>
     \/ /\ At(t, "connect")
        /\ IF rtc.connected THEN Reconnect(t) ELSE UNCHANGED <<rtc, bits, peer, raced>>
        /\ GoOn(t, << >>)
     \/ /\ At(t, "disable")
        /\ rtc' = [rtc EXCEPT !.pending = TRUE]
        /\ GoOn(t, <<"stop_stream", "pc_close">>)
        /\ UNCHANGED <<bits, peer, raced>>
  /\ UNCHANGED <<signaling, counts, senders>>

\* esp_webrtc_start: the implementation calls back while it starts; its handle
\* is known when it has started.
esp_webrtc_start ==
  /\ ~rtc.signaling /\ Start
  /\ Calls(<<"callbacks", "started">>)

CallbacksDone ==
  /\ At("app", "callbacks")
  /\ GoOn("app", << >>)
  /\ UNCHANGED <<rtc, bits, peer>> /\ Quiet

Started ==
  /\ At("app", "started")
  /\ \/ StartSucceeds /\ rtc' = [rtc EXCEPT !.signaling = TRUE]
     \/ StopReturns /\ UNCHANGED rtc
  /\ GoOn("app", << >>)
  /\ UNCHANGED <<counts, bits, peer, senders, raced>>

\* esp_webrtc_stop and esp_webrtc_close: the stream, the peer, the signaling, the object.
Stopping == <<"stop_stream", "pc_close", "stop_signaling">>
Closing == Stopping \o <<"free">>

CallStopOrClose ==
  /\ Calls(Stopping) \/ Calls(Closing)
  /\ UNCHANGED signaling

StopSignaling(t) ==
  /\ At(t, "stop_signaling")
  /\ IF rtc.signaling THEN Stop /\ GoOn(t, <<"callbacks", "stopped">>)
                      ELSE UNCHANGED signaling /\ GoOn(t, << >>)
  /\ UNCHANGED <<counts, rtc, bits, peer, senders, raced>>

SignalingStopped(t) ==
  /\ At(t, "stopped")
  /\ StopReturns
  /\ rtc' = [rtc EXCEPT !.signaling = FALSE]
  /\ GoOn(t, << >>)
  /\ UNCHANGED <<counts, bits, peer, senders, raced>>

Free(t) ==
  /\ At(t, "free")
  /\ rtc' = [rtc EXCEPT !.life = "freed"]
  /\ GoOn(t, << >>)
  /\ UNCHANGED <<bits, peer>> /\ Quiet

\* pc_notify_app: the handler of webrtc.c closes the session on a failure,
\* in pc_task.
pc_notify_app ==
  /\ \/ At("pc", "notify_connected") /\ GoOn("pc", << >>)
     \/ At("pc", "notify_down") /\ GoOn("pc", IF set.handler_closes THEN Closing ELSE << >>)
  /\ UNCHANGED <<rtc, bits, peer>> /\ Quiet

-----------------------------------------------------------------------------
StepOf(t) ==
  \/ Waits(t) \/ start_stream(t) \/ stop_stream(t)
  \/ pc_start(t) \/ PcRun(t) \/ pc_close(t) \/ PcClosed(t)
  \/ Left(t) \/ PeerSteps(t) \/ esp_webrtc_enable_peer_connection(t)
  \/ StopSignaling(t) \/ SignalingStopped(t) \/ Free(t)

OwnerSteps == StepOf("app") \/ CallbacksDone \/ Started
PcSteps == StepOf("pc") \/ pc_task \/ pc_notify_app

CallsBack(t) ==
  signal_ice_received(t) \/ signal_connected(t) \/ signal_closed(t)

Works ==
  \/ esp_webrtc_open \/ CallEnable \/ esp_webrtc_start \/ CallStopOrClose
  \/ OwnerSteps \/ PcSteps
  \/ StepOf("worker") \/ StepOf("aux")
  \/ \E t \in CallThreads : CallsBack(t)
  \/ signal_bye \/ signal_new_msg
  \/ media_send_task

\* A task that goes on with the object that was freed: what it does then is
\* undefined and the model leaves it.
UseFreed(t) ==
  /\ rtc.life = "freed" /\ ~Idle(t)
  /\ late' = late \cup {t}
  /\ todo' = [todo EXCEPT ![t] = << >>]
  /\ UNCHANGED <<rtc, bits, peer>> /\ Quiet

Alive(A) == rtc.life # "freed" /\ A /\ UNCHANGED late

RtcNext == Alive(Works) \/ \E t \in Tasks : UseFreed(t)

\* The tasks are scheduled.  What the owner, the network and the peer do is
\* up to them.
AppTurn == Alive(OwnerSteps) \/ UseFreed("app")
WorkerTurn == Alive(StepOf("worker")) \/ UseFreed("worker")
AuxTurn == Alive(StepOf("aux"))
PcTurn == Alive(StepOf("pc") \/ pc_notify_app \/ ((~rtc.running \/ rtc.pause) /\ pc_task))
SendTurn == Alive(media_send_task)

Fairness ==
  /\ WF_vars(AppTurn) /\ WF_vars(WorkerTurn) /\ WF_vars(AuxTurn)
  /\ WF_vars(PcTurn) /\ WF_vars(SendTurn)

RtcSpec == RtcInit /\ [][RtcNext]_vars /\ Fairness

-----------------------------------------------------------------------------
(* Properties.  raced names what they except:                              *)
(*   streams_late   start_stream in pc_task after stop_stream in a closer; *)
(*   stops_twice    stop_stream while another waits for SEND_QUIT;         *)
(*   renewed        a new connection while one streams;                    *)
(*   starts_late    pc_start, of a callback, after pc_close in a closer;   *)
(*   closes_twice   two closers in pc_close;                               *)
(*   resumes        enabling while a hang-up waits for the pause.          *)

\* Sessions are left in order: at most one streaming task at a time, and none
\* once its peer connection is closed (stop_stream, pc_close), but for the
\* crossings that nothing in the code rules out.
StreamEndsFirst == senders > 1 \/ (senders > 0 /\ ~rtc.pc) => raced # {}

\* Nobody works on the session object that esp_webrtc_close has freed, but for
\* the same crossings: pc_close waits for pc_task, and stop for the callbacks.
NobodyUsesFreed == late # {} => raced # {}

\* pc_task closes the session from its own handler, and waits for itself.
WaitsForItself == At("pc", "wait_exit")

\* The owner's stop or close comes back, unless the handler of a failure has
\* closed the session from pc_task, two closers cross, or the stream is started
\* anew while they wait for its end; and a hang-up (signal_new_msg, BYE) gets its
\* PAUSED bit or a deleted group.
Closes == Has("app", {"stop_signaling", "stopped"})
CloseReturns ==
  /\ Closes ~> ~Closes \/ WaitsForItself \/ {"closes_twice", "streams_late"} \cap raced # {}
  /\ At("worker", "wait_paused") ~>
       ~At("worker", "wait_paused") \/ WaitsForItself \/ {"resumes", "streams_late"} \cap raced # {}
=============================================================================
