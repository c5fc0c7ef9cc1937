---------------------------- MODULE HttpSignaling ----------------------------
(***************************************************************************)
(* Signaling by the board's own HTTPS server (main/webrtc_http_server.c):  *)
(* a browser posts its messages, handled in the server's task (worker),    *)
(* and listens to an event stream, served by a task of its own (aux) from  *)
(* a queue.  All of it is in static variables, which outlive a session.    *)
(***************************************************************************)
EXTENDS SignalingImpl

CONSTANTS
  MaxSignalingQueue,   \* MAX_SIGNALING_QUEUE_SIZE
  MaxEnding            \* bound: tasks of ended streams that have a line left

ASSUME HttpSignalingAssumption == MaxSignalingQueue \in Nat /\ MaxEnding \in Nat

VARIABLES
  http,       \* the static variables, the server and the queue
  owner       \* the start whose configuration is in sig_cfg, 0 for none

HttpInit ==
  /\ http = [server |-> FALSE, queue |-> FALSE, queued |-> 0, connected |-> FALSE,
             stopping |-> FALSE, req |-> FALSE]
  /\ owner = 0

\* webrtc_http_server_init: the server answers before sig_cfg is copied.
webrtc_http_server_init ==
  /\ CallStart(<<"serve", "copy_cfg", "call_on_connected", "started">>)
  /\ http' = [http EXCEPT !.queue = TRUE, !.queued = 0]
  /\ UNCHANGED owner

init_http_server ==
  /\ At("app", "serve")
  /\ \/ http' = [http EXCEPT !.server = TRUE] /\ GoOn("app", << >>)
     \/ http' = [http EXCEPT !.queue = FALSE] /\ Instead("app", <<"free">>)
  /\ UNCHANGED <<owner, late>> /\ Own

CopyConfiguration ==
  /\ At("app", "copy_cfg")
  /\ owner' = starts
  /\ GoOn("app", <<"on_ice_info">>)
  /\ UNCHANGED <<http, late>> /\ Own

\* webrtc_signal_get_handler: one listener; the copy of the request may fail.
webrtc_signal_get_handler ==
  /\ http.server /\ Idle("worker") /\ ~http.connected
  /\ \/ /\ http' = [http EXCEPT !.connected = TRUE, !.req = TRUE]
        /\ Instead("aux", <<"turn">>)
     \/ /\ http' = [http EXCEPT !.connected = TRUE]
        /\ UNCHANGED todo
  /\ UNCHANGED <<owner, late>> /\ Own

\* webrtc_signal_post_handler: a message, or one for each candidate of an
\* answer before it.
webrtc_signal_post_handler ==
  /\ http.server /\ Idle("worker")
  /\ \E m \in {<<"on_msg">>, <<"on_msg", "call_on_msg">>} : Instead("worker", m)
  /\ Uses("worker", "sig_cfg", owner # starts)
  /\ UNCHANGED <<http, owner>> /\ Own

\* A turn of signaling_msg_send_task: it sends what is queued, or a heartbeat
\* now and then; a listener that is gone makes sending fail.
signaling_msg_send_task ==
  /\ At("aux", "turn")
  /\ ~http.stopping
  /\ \E left \in {0, 1} :
       /\ left <= http.queued
       /\ http' = [http EXCEPT !.queued = @ - left]
  /\ \/ UNCHANGED todo
     \/ Instead("aux", <<"complete">>)
  /\ Uses("aux", "queue", ~http.queue)
  /\ UNCHANGED owner /\ Own

StreamStopped ==
  /\ At("aux", "turn") /\ http.stopping
  /\ Instead("aux", <<"complete">>)
  /\ UNCHANGED <<http, owner, late>> /\ Own

\* The next listener may come before the task of the last one has cleared stopping.
StreamEnds ==
  /\ \/ /\ At("aux", "complete") /\ Len(todo["old"]) < MaxEnding
        /\ http' = [http EXCEPT !.req = FALSE, !.connected = FALSE]
        /\ todo' = [todo EXCEPT !["aux"] = << >>, !["old"] = Append(@, "clear")]
     \/ /\ At("old", "clear")
        /\ http' = [http EXCEPT !.stopping = FALSE]
        /\ GoOn("old", << >>)
  /\ UNCHANGED <<owner, late>> /\ Own

\* webrtc_http_server_send_msg: dropped when the queue stays full; an SDP is
\* followed by its candidates (resend_all_candidate).
webrtc_http_server_send_msg ==
  /\ At("pc", "send")
  /\ \E n \in 0..2 :
       http' = [http EXCEPT !.queued = IF @ + n > MaxSignalingQueue
                                         THEN MaxSignalingQueue ELSE @ + n]
  /\ GoOn("pc", << >>)
  /\ Uses("pc", "queue", ~http.queue)
  /\ UNCHANGED owner /\ Own

webrtc_http_server_deinit ==
  /\ CallStop(<<"check_stream", "ssl_stop", "ssl_wait", "queue_delete", "free">>)
  /\ http' = [http EXCEPT !.queued = 0]
  /\ UNCHANGED owner

CheckStream ==
  /\ At("app", "check_stream")
  /\ GoOn("app", IF http.connected THEN <<"set_stopping", "wait_stream">> ELSE << >>)
  /\ UNCHANGED <<http, owner, late>> /\ Own

StopStream ==
  /\ \/ /\ At("app", "set_stopping")
        /\ http' = [http EXCEPT !.stopping = TRUE]
     \/ /\ At("app", "wait_stream") /\ ~http.connected
        /\ UNCHANGED http
  /\ GoOn("app", << >>)
  /\ UNCHANGED <<owner, late>> /\ Own

\* httpd_ssl_stop waits for the server's task; then the queue is deleted.
StopServer ==
  /\ \/ At("app", "ssl_stop") /\ http' = [http EXCEPT !.server = FALSE]
     \/ At("app", "ssl_wait") /\ Idle("worker") /\ UNCHANGED http
     \/ /\ At("app", "queue_delete")
        /\ http' = [http EXCEPT !.queue = FALSE, !.queued = 0]
  /\ GoOn("app", << >>)
  /\ UNCHANGED <<owner, late>> /\ Own

HttpNext ==
  \/ webrtc_http_server_init \/ init_http_server \/ CopyConfiguration
  \/ webrtc_signal_get_handler \/ webrtc_signal_post_handler
  \/ signaling_msg_send_task \/ StreamStopped \/ StreamEnds
  \/ (CallSend("send") /\ UNCHANGED <<http, owner>>) \/ webrtc_http_server_send_msg
  \/ webrtc_http_server_deinit \/ CheckStream \/ StopStream \/ StopServer
  \/ FrameNext /\ UNCHANGED <<http, owner>>
=============================================================================
