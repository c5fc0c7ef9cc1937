--------------------------- MODULE AppRtcSignaling ---------------------------
(***************************************************************************)
(* Signaling through an AppRTC room (apprtc_signal/signal_default.c): HTTP *)
(* requests, a websocket whose task (worker) calls back, and a task that   *)
(* renews the ICE credentials (aux).                                       *)
(***************************************************************************)
EXTENDS SignalingImpl

VARIABLE wss    \* the fields of wss_sig_t, and whether the websocket task lives

AppRtcInit ==
  wss = [wss_client |-> FALSE, socket |-> FALSE, is_initiator |-> FALSE,
         ice_reloading |-> FALSE, ice_reload_stop |-> FALSE]

\* The two requests for the room and the credentials; wss_signal_stop ends a
\* start that fails.
wss_signal_start ==
  /\ CallStart(<<"join", "ask_ice", "create_wss", "reload", "flag", "offers", "started">>)
  /\ \E first \in BOOLEAN :
       wss' = [wss_client |-> FALSE, socket |-> FALSE, is_initiator |-> first,
               ice_reloading |-> FALSE, ice_reload_stop |-> FALSE]

GetRoom ==
  /\ \/ At("app", "join") /\ GoOn("app", << >>)
     \/ At("app", "ask_ice") /\ GoOn("app", <<"on_ice_info">>)
     \/ /\ At("app", "join") \/ At("app", "ask_ice")
        /\ Instead("app", <<"stop_reload", "wait_reload", "free">>)
  /\ UNCHANGED <<wss, late>> /\ Own

\* create_wss: the websocket's task runs before wss_client is assigned.
create_wss ==
  /\ At("app", "create_wss")
  /\ \/ /\ Idle("worker")
        /\ wss' = [wss EXCEPT !.socket = TRUE]
        /\ GoOn("app", <<"set_wss">>)
     \/ /\ Instead("app", <<"stop_reload", "wait_reload", "free">>)
        /\ UNCHANGED wss
  /\ UNCHANGED late /\ Own

SetWss ==
  /\ At("app", "set_wss")
  /\ wss' = [wss EXCEPT !.wss_client = TRUE]
  /\ GoOn("app", << >>)
  /\ UNCHANGED late /\ Own

\* start_reload_ice_timer: the task is created, then it is noted.
start_reload_ice_timer ==
  /\ \/ /\ At("app", "reload")
        /\ Idle("aux")
        /\ todo' = [todo EXCEPT !["app"] = Tail(@), !["aux"] = <<"turn">>]
        /\ UNCHANGED wss
     \/ /\ At("app", "flag")
        /\ wss' = [wss EXCEPT !.ice_reloading = TRUE]
        /\ GoOn("app", << >>)
  /\ UNCHANGED late /\ Own

\* wss_send_offer_msg: what the room held before we came.
wss_send_offer_msg ==
  /\ At("app", "offers")
  /\ \/ GoOn("app", << >>)
     \/ ~wss.is_initiator /\ GoOn("app", <<"on_msg">>)
  /\ UNCHANGED <<wss, late>> /\ Own

\* websocket_event_handler: connected, closed, a message.
on_connect ==
  /\ wss.socket /\ Idle("worker")
  /\ Instead("worker", <<"on_connected">>)
  /\ Uses("worker", "wss_client", ~wss.wss_client)
  /\ UNCHANGED wss /\ Own

on_close ==
  /\ wss.socket /\ Idle("worker")
  /\ Instead("worker", <<"on_close">>)
  /\ UNCHANGED <<wss, late>> /\ Own

on_text ==
  /\ wss.socket /\ Idle("worker")
  /\ Instead("worker", <<"on_msg", "told">>)
  /\ UNCHANGED <<wss, late>> /\ Own

\* on_text after the callback: once the peer has left, we make the offer.
AfterText ==
  /\ At("worker", "told")
  /\ wss' \in {wss, [wss EXCEPT !.is_initiator = TRUE]}
  /\ Instead("worker", << >>)
  /\ Uses("worker", "sig", freed) /\ Own

\* A turn of reload_ice_task: nothing is due, or the credentials are renewed.
reload_ice_task ==
  /\ At("aux", "turn")
  /\ ~wss.ice_reload_stop
  /\ \/ Instead("aux", <<"heartbeat">>)
     \/ Instead("aux", <<"clear_stop">>)
  /\ Uses("aux", "sig", freed)
  /\ UNCHANGED wss /\ Own

Heartbeat ==
  /\ At("aux", "heartbeat")
  /\ Instead("aux", <<"on_ice_info", "turn">>)
  /\ Uses("aux", "wss_client", ~wss.wss_client)
  /\ UNCHANGED wss /\ Own

ReloadEnds ==
  /\ \/ /\ At("aux", "turn") /\ wss.ice_reload_stop
        /\ Instead("aux", <<"clear_stop">>)
        /\ UNCHANGED wss
     \/ /\ At("aux", "clear_stop")
        /\ wss' = [wss EXCEPT !.ice_reload_stop = FALSE]
        /\ Instead("aux", <<"clear_reloading">>)
     \/ /\ At("aux", "clear_reloading")
        /\ wss' = [wss EXCEPT !.ice_reloading = FALSE]
        /\ Instead("aux", << >>)
  /\ Uses("aux", "sig", freed) /\ Own

\* wss_signal_stop: the leave and the bye are sent, then the websocket's task
\* is stopped, which waits for the handler it is in.
wss_signal_stop ==
  /\ CallStop(<<"stop_wss", "destroy_wss", "stop_reload", "wait_reload", "free">>)
  /\ UNCHANGED wss

destroy_wss ==
  /\ \/ /\ At("app", "stop_wss")
        /\ wss' = [wss EXCEPT !.socket = FALSE]
     \/ /\ At("app", "destroy_wss") /\ Idle("worker")
        /\ wss' = [wss EXCEPT !.wss_client = FALSE]
  /\ GoOn("app", << >>)
  /\ UNCHANGED late /\ Own

\* Fault: the object is freed without waiting for the task.
ReloadNotAwaited ==
  /\ At("app", "stop_reload")
  /\ wss' = [wss EXCEPT !.ice_reload_stop = TRUE]
  /\ Instead("app", <<"free">>)
  /\ UNCHANGED late /\ Own

stop_reload_ice_timer ==
  /\ At("app", "stop_reload")
  /\ wss' = [wss EXCEPT !.ice_reload_stop = TRUE]
  /\ GoOn("app", << >>)
  /\ UNCHANGED late /\ Own

WaitReload ==
  /\ At("app", "wait_reload") /\ ~wss.ice_reloading
  /\ GoOn("app", << >>)
  /\ UNCHANGED <<wss, late>> /\ Own

\* wss_signal_send_msg: HTTP for SDP and candidates, the websocket for data.
wss_signal_send_msg ==
  /\ At("pc", "send")
  /\ GoOn("pc", << >>)
  /\ Uses("pc", "wss_client", ~wss.wss_client)
  /\ UNCHANGED wss /\ Own

AppRtcNext ==
  \/ wss_signal_start \/ GetRoom \/ create_wss \/ SetWss
  \/ start_reload_ice_timer \/ wss_send_offer_msg
  \/ on_connect \/ on_close \/ on_text
  \/ AfterText \/ reload_ice_task \/ Heartbeat \/ ReloadEnds
  \/ wss_signal_stop \/ destroy_wss \/ stop_reload_ice_timer \/ WaitReload
  \/ (CallSend("send") /\ UNCHANGED wss) \/ wss_signal_send_msg
  \/ FrameNext /\ UNCHANGED wss
=============================================================================
