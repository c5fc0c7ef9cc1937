----------------------------- MODULE MCSignaling -----------------------------
(***************************************************************************)
(* The four signaling implementations, one chosen at the start, checked    *)
(* against the contract of module Signaling.                               *)
(***************************************************************************)
EXTENDS JanusSignaling, AppRtcSignaling, WhipSignaling, HttpSignaling

VARIABLE missed    \* history: see Missing

vars == <<frame, janus, gateway, wss, whip, resource, http, owner, missed>>
Impls == {"janus", "apprtc", "whip", "http"}

Init ==
  /\ impl \in Impls
  /\ FrameInit /\ JanusInit /\ AppRtcInit /\ WhipInit /\ HttpInit
  /\ missed = {}

Janus == impl = "janus" /\ JanusNext /\ UNCHANGED <<wss, whip, resource, http, owner>>
AppRtc == impl = "apprtc" /\ AppRtcNext /\ UNCHANGED <<janus, gateway, whip, resource, http, owner>>
Whip == impl = "whip" /\ WhipNext /\ UNCHANGED <<janus, gateway, wss, http, owner>>
Http == impl = "http" /\ HttpNext /\ UNCHANGED <<janus, gateway, wss, whip, resource>>

\* The orders that leave stop without an answer: webrtc_signal_get_handler marks
\* a listener that gets no task; a listener comes while stop waits for the one
\* before it, or the task of that one clears the order that was meant for it;
\* start_reload_ice_timer has not yet marked the task that ends.
Ends(t) == todo[t] # << >> /\ todo'[t] = << >>
ListenerComes == ~http.connected /\ http'.connected
Missing ==
  {m \in {"no_task", "came", "cleared", "unmarked"} :
     \/ m = "no_task" /\ ListenerComes /\ todo'["aux"] = << >>
     \/ m = "came" /\ ListenerComes /\ At("app", "wait_stream")
     \/ m = "cleared" /\ At("app", "wait_stream") /\ http.connected /\ http.stopping /\ ~http'.stopping
     \/ m = "unmarked" /\ Ends("aux") /\ At("app", "flag")}

Next == (Janus \/ AppRtc \/ Whip \/ Http) /\ missed' = missed \cup Missing

\* Each thread that has a step to take is scheduled, and each request ends in
\* an answer or a timeout.  Nobody is obliged to call, to post or to listen, and
\* a listener may stay for ever.
Listens(t) == impl = "http" /\ t = "aux" /\ At("aux", "turn") /\ ~http.stopping
TurnOf(t) == Next /\ todo[t] # << >> /\ todo'[t] # todo[t] /\ ~Listens(t)
Spec == Init /\ [][Next]_vars /\ \A t \in Threads : WF_vars(TurnOf(t))

-----------------------------------------------------------------------------
(* Properties *)

\* Every implementation keeps the contract of Signaling: credentials before
\* the connection, no callback before start or under way when stop returns
\* (janus_signaling_stop, wss_signal_stop, webrtc_http_server_deinit).
Promised == INSTANCE Signaling WITH CallThreads <- Threads, inside <- Inside
Contract == Promised!Spec

\* The windows the code leaves open: the Janus thread unlocks a semaphore that
\* was destroyed, since it clears poll_started first; AppRTC's websocket task
\* and its reload task use wss_client before create_wss has set it, the latter
\* after destroy_wss too; the HTTP server serves before sig_cfg is copied, and
\* a listener that returns while it stops meets a deleted queue; and WHIP stores
\* one ICE server more than there is room for.
Windows ==
  {<<"janus", "worker", "exit_sema">>,
   <<"apprtc", "worker", "wss_client">>, <<"apprtc", "aux", "wss_client">>,
   <<"http", "worker", "sig_cfg">>, <<"http", "aux", "queue">>,
   <<"whip", "pc", "ice_servers">>}

\* Apart from those windows no thread uses what stop has freed, or what start
\* has not made yet.
LateUsesAreKnown == \A u \in late : <<impl>> \o u \in Windows

\* What stop then waits for: a listener without a task, a listener that nobody
\* has told to end, and a task that has ended.
ListenerLost == At("app", "wait_stream") /\ http.connected /\ Idle("aux")
StopWiped == At("app", "wait_stream") /\ http.connected /\ ~http.stopping
ReloadMissed == At("app", "wait_reload") /\ wss.ice_reloading /\ Idle("aux")
Stuck ==
  \/ ListenerLost /\ "no_task" \in missed
  \/ StopWiped /\ missed \cap {"came", "cleared"} # {}
  \/ ReloadMissed /\ "unmarked" \in missed

\* stop returns, for it waits only for threads that it has told to end; after one
\* of those orders it comes back to the same wait again and again.
StopReturns == api = "stopping" ~> (api = "idle" \/ []<>Stuck)
=============================================================================
