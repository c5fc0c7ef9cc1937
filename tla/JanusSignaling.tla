--------------------------- MODULE JanusSignaling ---------------------------
(***************************************************************************)
(* Signaling through a Janus gateway (janus_signaling.c): a session, a     *)
(* handle on the video room and a thread that polls the session's events.  *)
(***************************************************************************)
EXTENDS SignalingImpl

CONSTANT MaxEvents    \* bound: events in the gateway's answer to a poll

ASSUME JanusSignalingAssumption == MaxEvents \in Nat

VARIABLES
  janus,      \* the fields of janus_signaling_t
  gateway     \* the gateway has a session, and was given our offer

JanusInit ==
  /\ janus = [running |-> FALSE, poll_started |-> FALSE, exit_sema |-> "none",
              local_sdp_sent |-> FALSE]
  /\ gateway = [session |-> FALSE, offer |-> FALSE]

\* One POST of janus_get_ids.  A request that fails may have arrived.
\* Each failure leaves the session of an earlier request with the gateway.
Ask(step, next) ==
  /\ At("app", step)
  /\ \/ GoOn("app", <<next>>) /\ gateway' = [gateway EXCEPT !.session = TRUE]
     \/ /\ Instead("app", <<"free">>)
        /\ gateway' \in {gateway, [gateway EXCEPT !.session = TRUE]}
  /\ UNCHANGED <<janus, late>> /\ Own

janus_get_ids ==
  \/ Ask("create", "attach") \/ Ask("attach", "join") \/ Ask("join", "poll")

\* janus_signaling_start from the gateway's answers to the new thread.
StartPolling ==
  /\ At("app", "poll") /\ Idle("worker")
  /\ janus' = [janus EXCEPT !.running = TRUE, !.exit_sema = "locked"]
  /\ todo' = [todo EXCEPT !["worker"] = <<"turn">>,
                          !["app"] = <<"flag", "call_on_ice_info",
                                       "call_on_connected", "started">>]
  /\ UNCHANGED <<gateway, late>> /\ Own

NoThread ==
  /\ At("app", "poll")
  /\ Instead("app", <<"free">>)
  /\ UNCHANGED <<janus, gateway, late>> /\ Own

PollStarted ==
  /\ At("app", "flag")
  /\ janus' = [janus EXCEPT !.poll_started = TRUE]
  /\ GoOn("app", << >>)
  /\ UNCHANGED <<gateway, late>> /\ Own

janus_signaling_start ==
  /\ CallStart(<<"create">>)
  /\ janus' = [janus EXCEPT !.local_sdp_sent = FALSE, !.exit_sema = "none"]
  /\ gateway' = [session |-> FALSE, offer |-> FALSE]

\* janus_poll_thread looks at running, and asks for up to 10 s.
janus_poll_thread ==
  /\ At("worker", "turn") /\ janus.running
  /\ Instead("worker", <<"get">>)
  /\ Uses("worker", "sig", freed)
  /\ UNCHANGED <<janus, gateway>> /\ Own

\* The request ends with nothing, or with answers and candidates, which the
\* gateway has once it was given the offer; running is not looked at again.
PollAnswered ==
  /\ At("worker", "get")
  /\ \E n \in 0..MaxEvents :
       /\ n > 0 => gateway.offer
       /\ Instead("worker", [i \in 1..n |-> "call_on_msg"] \o <<"turn">>)
       /\ Uses("worker", "sig", freed /\ n > 0)
  /\ UNCHANGED <<janus, gateway>> /\ Own

PollEnds ==
  /\ At("worker", "turn") /\ ~janus.running
  /\ janus' = [janus EXCEPT !.poll_started = FALSE]
  /\ Instead("worker", <<"unlock">>)
  /\ Uses("worker", "sig", freed)
  /\ UNCHANGED gateway /\ Own

\* The last two lines of janus_poll_thread.
PollUnlock ==
  /\ At("worker", "unlock")
  /\ janus' = [janus EXCEPT !.exit_sema = IF freed THEN @ ELSE "unlocked"]
  /\ Instead("worker", << >>)
  /\ Uses("worker", "exit_sema", freed)
  /\ UNCHANGED gateway /\ Own

\* The offer is sent once; candidates are passed on; the rest is dropped.
janus_signaling_send_msg ==
  /\ At("pc", "send")
  /\ \/ /\ ~janus.local_sdp_sent
        /\ janus' = [janus EXCEPT !.local_sdp_sent = TRUE]
        /\ gateway' = [gateway EXCEPT !.offer = TRUE]
     \/ UNCHANGED <<janus, gateway>>
  /\ GoOn("pc", << >>)
  /\ UNCHANGED late /\ Own

\* Fault: janus_wait_for_pool_thread does not wait.
PassThread ==
  /\ At("app", "wait")
  /\ GoOn("app", << >>)
  /\ UNCHANGED <<janus, gateway, late>> /\ Own

\* janus_wait_for_pool_thread
janus_wait_for_pool_thread ==
  /\ At("app", "wait")
  /\ janus.poll_started => janus.exit_sema = "unlocked"
  /\ GoOn("app", << >>)
  /\ UNCHANGED <<janus, gateway, late>> /\ Own

\* Fault: stop forgets to tell the thread.
StopUntold ==
  CallStop(<<"wait", "destroy", "call_on_close", "free">>) /\ UNCHANGED <<janus, gateway>>

\* janus_signaling_stop up to the wait; what the gateway has sent or is about
\* to send before the detach request may still be taken by the poll under way.
janus_signaling_stop ==
  /\ CallStop(<<"wait", "destroy", "call_on_close", "free">>)
  /\ janus' = [janus EXCEPT !.running = FALSE]
  /\ UNCHANGED gateway

DestroySession ==
  /\ At("app", "destroy")
  /\ gateway' \in {gateway, [gateway EXCEPT !.session = FALSE]}
  /\ GoOn("app", << >>)
  /\ UNCHANGED <<janus, late>> /\ Own

JanusNext ==
  \/ janus_signaling_start \/ janus_get_ids \/ StartPolling \/ NoThread \/ PollStarted
  \/ janus_poll_thread \/ PollAnswered \/ PollEnds \/ PollUnlock
  \/ (CallSend("send") /\ UNCHANGED <<janus, gateway>>) \/ janus_signaling_send_msg
  \/ janus_signaling_stop \/ janus_wait_for_pool_thread \/ DestroySession
  \/ FrameNext /\ UNCHANGED <<janus, gateway>>
=============================================================================
