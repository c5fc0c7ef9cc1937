--------------------------- MODULE SignalingProofs ---------------------------
(***************************************************************************)
(* Proof that the four signaling implementations keep the contract of      *)
(* module Signaling, for any number of starts and queues of any length,    *)
(* and that no thread but the known ones uses what is freed.               *)
(*                                                                         *)
(* The steps in a thread's list follow each other in the order of the      *)
(* code, a relation here, so what a thread does next is known from the     *)
(* step it is at.  The inductive invariant says for each implementation    *)
(* which steps of its threads go together, and which field of the object   *)
(* tells one thread that another is gone: it is by these that nobody is    *)
(* in a callback when stop returns.                                        *)
(***************************************************************************)

EXTENDS MCSignaling, SequenceTheorems, TLAPS

Steps ==
  Callbacks \cup
  {"call_on_ice_info", "call_on_connected", "call_on_msg", "call_on_close",
   "started", "free", "send",
   "create", "attach", "join", "poll", "flag", "turn", "get", "unlock", "wait", "destroy",
   "ask_ice", "create_wss", "set_wss", "reload", "offers", "told", "heartbeat",
   "clear_stop", "clear_reloading", "stop_wss", "destroy_wss", "stop_reload", "wait_reload",
   "sent", "sdp_done", "delete",
   "serve", "copy_cfg", "check_stream", "set_stopping", "wait_stream", "ssl_stop",
   "ssl_wait", "queue_delete", "complete", "clear"}

\* The step a thread is at.
First(s) == IF s = <<>> THEN "none" ELSE s[1]
Step(t) == First(todo[t])

\* The steps of list s of thread t follow each other as in E.
Path(E, t, s) == s \in Seq(Steps) /\ \A i \in 1..Len(s) - 1 : <<t, s[i], s[i + 1]>> \in E

JanusOrder ==
  {<<"app", "flag", "call_on_ice_info">>, <<"app", "call_on_ice_info", "call_on_connected">>,
   <<"app", "on_ice_info", "call_on_connected">>, <<"app", "call_on_connected", "started">>,
   <<"app", "on_connected", "started">>, <<"app", "wait", "destroy">>,
   <<"app", "destroy", "call_on_close">>, <<"app", "call_on_close", "free">>,
   <<"app", "on_close", "free">>}
  \cup {"worker"} \X {"call_on_msg", "on_msg"} \X {"call_on_msg", "turn"}

AppRtcOrder ==
  {<<"app", "join", "ask_ice">>, <<"app", "ask_ice", "create_wss">>,
   <<"app", "on_ice_info", "create_wss">>, <<"app", "create_wss", "reload">>,
   <<"app", "set_wss", "reload">>, <<"app", "reload", "flag">>, <<"app", "flag", "offers">>,
   <<"app", "offers", "started">>, <<"app", "on_msg", "started">>,
   <<"app", "stop_wss", "destroy_wss">>, <<"app", "destroy_wss", "stop_reload">>,
   <<"app", "stop_reload", "wait_reload">>, <<"app", "wait_reload", "free">>,
   <<"worker", "on_msg", "told">>, <<"aux", "on_ice_info", "turn">>}

WhipOrder ==
  {<<"app", "call_on_ice_info", "call_on_connected">>,
   <<"app", "on_ice_info", "call_on_connected">>, <<"app", "call_on_connected", "started">>,
   <<"app", "on_connected", "started">>, <<"app", "delete", "call_on_close">>,
   <<"app", "call_on_close", "free">>, <<"app", "on_close", "free">>,
   <<"pc", "on_ice_info", "call_on_msg">>, <<"pc", "call_on_msg", "sdp_done">>,
   <<"pc", "on_msg", "sdp_done">>}

Stream == {"turn", "complete", "clear"}
HttpOrder ==
  {<<"app", "serve", "copy_cfg">>, <<"app", "copy_cfg", "call_on_connected">>,
   <<"app", "on_ice_info", "call_on_connected">>, <<"app", "call_on_connected", "started">>,
   <<"app", "on_connected", "started">>, <<"app", "check_stream", "ssl_stop">>,
   <<"app", "set_stopping", "wait_stream">>, <<"app", "wait_stream", "ssl_stop">>,
   <<"app", "ssl_stop", "ssl_wait">>, <<"app", "ssl_wait", "queue_delete">>,
   <<"app", "queue_delete", "free">>, <<"worker", "on_msg", "call_on_msg">>}
  \cup {<<t, a, b>> : t \in {"aux", "old"}, a \in Stream, b \in Stream}

-----------------------------------------------------------------------------
(* The invariant *)

Types ==
  /\ impl \in Impls
  /\ api \in {"idle", "starting", "running", "stopping"}
  /\ told \in SUBSET Callbacks
  /\ todo \in [Threads -> Seq(Steps)]
  /\ freed \in BOOLEAN

\* What is so in all four: the lists are in order, the object lives as long as
\* the calls, and send_msg is called between start and stop.
Framed(E) ==
  /\ \A t \in Threads : Path(E, t, todo[t])
  /\ freed = (api = "idle")
  /\ api \in {"idle", "running"} => Step("app") = "none"
  /\ Step("pc") # "none" => api = "running"

\* Where app is, in a call of start and of stop; credentials come first.
Calls(starting, stopping, connected) ==
  /\ api = "starting" => Step("app") \in starting \cup connected \cup {"none", "free"}
  /\ api = "stopping" => Step("app") \in stopping \cup {"none", "free"}
  /\ Step("app") \in connected => "on_ice_info" \in told

\* The thread lives, and stop is not past the wait for it.
Polling == {"turn", "get", "call_on_msg", "on_msg"}
JanusPolls ==
  Step("worker") \in Polling =>
    /\ janus.exit_sema = "locked" /\ (Step("app") = "flag" \/ janus.poll_started)
    /\ api # "idle"
    /\ Step("app") \notin {"create", "attach", "join", "poll", "free", "destroy",
                           "call_on_close", "on_close"}
JanusShape ==
  /\ janus \in [running : BOOLEAN, poll_started : BOOLEAN, local_sdp_sent : BOOLEAN,
                exit_sema : {"none", "locked", "unlocked"}]
  /\ Step("worker") \in Polling \cup {"none", "unlock"}
  /\ Step("aux") = "none" /\ Step("old") = "none" /\ Step("pc") \in {"none", "send"}
  /\ late \subseteq {<<"worker", "exit_sema">>}
JanusCalls ==
  Calls({"create", "attach", "join", "poll", "flag", "call_on_ice_info", "on_ice_info"},
        {"wait", "destroy", "call_on_close", "on_close"},
        {"call_on_connected", "on_connected", "started"})
JanusInv == Framed(JanusOrder) /\ JanusShape /\ JanusCalls /\ JanusPolls

\* The websocket's task lives while the socket does, and destroy_wss waits for it.
\* (That a call has no step left before it returns is not excluded here.)
AppRtcSocket ==
  /\ wss.socket =>
       /\ "on_ice_info" \in told /\ api # "idle"
       /\ Step("app") \notin {"join", "ask_ice", "on_ice_info", "create_wss", "destroy_wss",
                              "stop_reload", "wait_reload", "free"}
  /\ Step("worker") # "none" =>
       wss.socket \/ Step("app") = "destroy_wss" \/ (api = "stopping" /\ Step("app") = "none")
  /\ api = "running" \/ Step("app") \in {"reload", "flag", "offers", "on_msg", "started"}
       => wss.wss_client
\* The reload task is noted in ice_reloading, but for the moment after its start.
AppRtcReload ==
  Step("aux") # "none" =>
    /\ wss.ice_reloading \/ Step("app") = "flag" \/ (api = "starting" /\ Step("app") = "none")
    /\ api # "idle"
    /\ Step("app") \notin {"join", "ask_ice", "on_ice_info", "create_wss", "set_wss",
                           "reload", "free"}
AppRtcShape ==
  /\ wss \in [wss_client : BOOLEAN, socket : BOOLEAN, is_initiator : BOOLEAN,
              ice_reloading : BOOLEAN, ice_reload_stop : BOOLEAN]
  /\ Step("worker") \in {"none", "on_connected", "on_close", "on_msg", "told"}
  /\ Step("aux") \in {"none", "turn", "heartbeat", "on_ice_info", "clear_stop", "clear_reloading"}
  /\ Step("pc") \in {"none", "send"} /\ Step("old") = "none"
  /\ late \subseteq {<<"worker", "wss_client">>, <<"aux", "wss_client">>}
AppRtcCalls ==
  Calls({"join", "ask_ice", "on_ice_info", "stop_reload", "wait_reload"},
        {"stop_wss", "destroy_wss", "stop_reload", "wait_reload"},
        {"create_wss", "set_wss", "reload", "flag", "offers", "on_msg", "started"})
AppRtcInv ==
  Framed(AppRtcOrder) /\ AppRtcShape /\ AppRtcCalls /\ AppRtcSocket /\ AppRtcReload

WhipShape ==
  /\ Step("worker") = "none" /\ Step("aux") = "none" /\ Step("old") = "none"
  /\ Step("pc") \in {"none", "send", "sent", "on_ice_info", "call_on_msg", "on_msg", "sdp_done"}
  /\ late \subseteq {<<"pc", "ice_servers">>}
WhipCalls ==
  Calls({"call_on_ice_info", "on_ice_info"}, {"delete", "call_on_close", "on_close"},
        {"call_on_connected", "on_connected", "started"})
WhipInv == Framed(WhipOrder) /\ WhipShape /\ WhipCalls

\* The server's task lives while the server does, and httpd_ssl_stop waits for it.
HttpServes ==
  /\ http.server => api # "idle" /\ Step("app") \notin {"serve", "ssl_wait", "queue_delete", "free"}
  /\ Step("worker") # "none" =>
       http.server \/ Step("app") = "ssl_wait" \/ (api = "stopping" /\ Step("app") = "none")
  /\ api = "running" \/ (api = "starting" /\ Step("app") # "free") => http.queue
HttpShape ==
  /\ DOMAIN http = {"server", "queue", "queued", "connected", "stopping", "req"}
  /\ http = [f \in DOMAIN http |-> http[f]]
  /\ Step("worker") \in {"none", "on_msg", "call_on_msg"}
  /\ todo["aux"] \in Seq(Stream) /\ todo["old"] \in Seq(Stream)
  /\ Step("pc") \in {"none", "send"}
  /\ late \subseteq {<<"worker", "sig_cfg">>, <<"aux", "queue">>}
HttpCalls ==
  Calls({"serve", "copy_cfg", "on_ice_info"},
        {"check_stream", "set_stopping", "wait_stream", "ssl_stop", "ssl_wait", "queue_delete"},
        {"call_on_connected", "on_connected", "started"})
HttpInv == Framed(HttpOrder) /\ HttpShape /\ HttpCalls /\ HttpServes

SigInv ==
  /\ Types
  /\ impl = "janus" => JanusInv
  /\ impl = "apprtc" => AppRtcInv
  /\ impl = "whip" => WhipInv
  /\ impl = "http" => HttpInv

-----------------------------------------------------------------------------
(* Lists of steps *)

LEMMA TailPath ==
  ASSUME NEW E, NEW t, NEW s, Path(E, t, s), s # <<>>
  PROVE  /\ Path(E, t, Tail(s))
         /\ Tail(s) # <<>> => <<t, s[1], Tail(s)[1]>> \in E
<1>1. s \in Seq(Steps) /\ Len(s) \in Nat /\ Len(s) > 0
  BY DEF Path
<1>2. Tail(s) \in Seq(Steps) /\ Len(Tail(s)) = Len(s) - 1
  BY <1>1
<1>3. \A i \in 1..Len(s) - 1 : Tail(s)[i] = s[i + 1]
  BY <1>1
<1>4. \A i \in 1..Len(s) - 1 : <<t, s[i], s[i + 1]>> \in E
  BY DEF Path
<1>5. ASSUME NEW i \in 1..Len(Tail(s)) - 1
      PROVE  <<t, Tail(s)[i], Tail(s)[i + 1]>> \in E
  <2>1. i \in 1..Len(s) - 1 /\ i + 1 \in 1..Len(s) - 1
    BY <1>1, <1>2
  <2>2. Tail(s)[i] = s[i + 1] /\ Tail(s)[i + 1] = s[(i + 1) + 1]
    BY <1>3, <2>1
  <2> QED
    BY <2>1, <2>2, <1>4
<1>6. ASSUME Tail(s) # <<>>  PROVE <<t, s[1], Tail(s)[1]>> \in E
  <2>1. Len(Tail(s)) # 0
    BY <1>2, <1>6, EmptySeq
  <2>2. 1 \in 1..Len(s) - 1
    BY <1>1, <1>2, <2>1
  <2>3. Tail(s)[1] = s[2]
    BY <1>3, <2>2
  <2> QED
    BY <1>4, <2>2, <2>3
<1> QED
  BY <1>2, <1>5, <1>6 DEF Path

LEMMA JoinPath ==
  ASSUME NEW E, NEW t, NEW p, NEW r, Path(E, t, p), Path(E, t, r), p # <<>>,
         r # <<>> => <<t, p[Len(p)], r[1]>> \in E
  PROVE  /\ Path(E, t, p \o r) /\ p \o r # <<>> /\ (p \o r)[1] = p[1]
<1>1. p \in Seq(Steps) /\ Len(p) \in Nat /\ Len(p) > 0 /\ r \in Seq(Steps) /\ Len(r) \in Nat
  BY DEF Path
<1> DEFINE s == p \o r
<1>2. s \in Seq(Steps) /\ Len(s) = Len(p) + Len(r)
  BY <1>1
<1>3. /\ \A i \in 1..Len(p) : s[i] = p[i]
      /\ \A i \in 1..Len(r) : s[Len(p) + i] = r[i]
  BY <1>1
<1> HIDE DEF s
<1>4. /\ \A i \in 1..Len(p) - 1 : <<t, p[i], p[i + 1]>> \in E
      /\ \A i \in 1..Len(r) - 1 : <<t, r[i], r[i + 1]>> \in E
  BY DEF Path
<1>5. ASSUME NEW i \in 1..Len(s) - 1  PROVE <<t, s[i], s[i + 1]>> \in E
  <2>1. CASE i < Len(p)
    <3>1. i \in 1..Len(p) - 1 /\ i \in 1..Len(p) /\ i + 1 \in 1..Len(p)
      BY <1>1, <2>1
    <3> QED
      BY <3>1, <1>3, <1>4
  <2>2. CASE i = Len(p)
    <3>1. Len(r) > 0 /\ 1 \in 1..Len(r) /\ i \in 1..Len(p) /\ r # <<>>
      BY <1>1, <1>2, <2>2
    <3>2. s[i] = p[Len(p)] /\ s[i + 1] = r[1]
      BY <3>1, <1>3, <2>2
    <3> QED
      BY <3>1, <3>2
  <2>3. CASE i > Len(p)
    <3> DEFINE j == i - Len(p)
    <3>1. j \in 1..Len(r) - 1 /\ j \in 1..Len(r) /\ j + 1 \in 1..Len(r)
      BY <1>1, <1>2, <2>3
    <3>2. i = Len(p) + j /\ i + 1 = Len(p) + (j + 1)
      BY <1>1
    <3> HIDE DEF j
    <3>3. s[i] = r[j] /\ s[i + 1] = r[j + 1]
      BY <3>1, <3>2, <1>3
    <3> QED
      BY <3>1, <3>3, <1>4
  <2> QED
    BY <1>1, <1>2, <2>1, <2>2, <2>3
<1>6. s # <<>> /\ s[1] = p[1]
  BY <1>1, <1>2, <1>3
<1> QED
  BY <1>2, <1>5, <1>6 DEF Path, s

LEMMA OnePath == ASSUME NEW E, NEW t, NEW a \in Steps  PROVE Path(E, t, <<a>>)
BY DEF Path

-----------------------------------------------------------------------------
(* The steps of threads *)

LEMMA Firsts ==
  ASSUME Types, NEW t \in Threads
  PROVE  /\ Idle(t) <=> Step(t) = "none"
         /\ Step(t) \in Steps \cup {"none"}
         /\ Inside[t] = IF Step(t) \in Callbacks THEN Step(t) ELSE "none"
         /\ \A s \in Steps : At(t, s) => Step(t) = s
<1>1. todo[t] \in Seq(Steps)
  BY DEF Types
<1>2. todo[t] # <<>> => todo[t][1] \in Steps /\ Head(todo[t]) = todo[t][1]
  BY <1>1
<1>3. "none" \notin Steps /\ "none" \notin Callbacks
  BY DEF Steps, Callbacks
<1> QED
  BY <1>1, <1>2, <1>3 DEF Idle, At, Inside, Step, First

\* The lists of the other threads stay.
Alone(t) == todo' \in [Threads -> Seq(Steps)] /\ \A u \in Threads \ {t} : todo'[u] = todo[u]

LEMMA ListGoesOn ==
  ASSUME Types, NEW t \in Threads, GoOn(t, <<>>), Step(t) # "none",
         NEW E, Path(E, t, todo[t])
  PROVE  /\ Alone(t) /\ Path(E, t, todo'[t])
         /\ First(todo'[t]) = "none" \/ <<t, Step(t), First(todo'[t])>> \in E
<1>1. todo[t] # <<>> /\ todo \in [Threads -> Seq(Steps)] /\ Step(t) = todo[t][1]
  BY DEF Step, First, Types
<1>2. Tail(todo[t]) \in Seq(Steps) /\ <<>> \o Tail(todo[t]) = Tail(todo[t])
  BY <1>1
<1>3. todo' = [todo EXCEPT ![t] = Tail(todo[t])]
  BY <1>2 DEF GoOn
<1>4. todo'[t] = Tail(todo[t]) /\ Alone(t)
  BY <1>1, <1>2, <1>3 DEF Alone
<1> QED
  BY <1>1, <1>4, TailPath DEF First

LEMMA ListGoesTo ==
  ASSUME Types, NEW t \in Threads, NEW p, GoOn(t, p), Step(t) # "none",
         NEW E, Path(E, t, todo[t]), Path(E, t, p), p # <<>>,
         \A b : <<t, Step(t), b>> \in E => <<t, p[Len(p)], b>> \in E
  PROVE  Alone(t) /\ Path(E, t, todo'[t]) /\ First(todo'[t]) = p[1]
<1>1. todo[t] # <<>> /\ todo \in [Threads -> Seq(Steps)] /\ Step(t) = todo[t][1]
  BY DEF Step, First, Types
<1>2. Path(E, t, Tail(todo[t]))
      /\ (Tail(todo[t]) # <<>> => <<t, p[Len(p)], Tail(todo[t])[1]>> \in E)
  BY <1>1, TailPath
<1>3. Path(E, t, p \o Tail(todo[t])) /\ First(p \o Tail(todo[t])) = p[1]
  <2> DEFINE r == Tail(todo[t])
  <2>1. Path(E, t, r) /\ (r # <<>> => <<t, p[Len(p)], r[1]>> \in E)
    BY <1>2
  <2> HIDE DEF r
  <2>2. Path(E, t, p \o r) /\ p \o r # <<>> /\ (p \o r)[1] = p[1]
    BY <2>1, JoinPath
  <2> QED
    BY <2>2 DEF First, r
<1>4. todo' = [todo EXCEPT ![t] = p \o Tail(todo[t])]
  BY DEF GoOn
<1>5. p \o Tail(todo[t]) \in Seq(Steps)
  BY <1>3 DEF Path
<1>6. todo'[t] = p \o Tail(todo[t]) /\ Alone(t)
  BY <1>1, <1>4, <1>5 DEF Alone
<1> QED
  BY <1>3, <1>6

LEMMA ListGoesToOne ==
  ASSUME Types, NEW t \in Threads, NEW a \in Steps, GoOn(t, <<a>>), Step(t) # "none",
         NEW E, Path(E, t, todo[t]),
         \A b : <<t, Step(t), b>> \in E => <<t, a, b>> \in E
  PROVE  Alone(t) /\ Path(E, t, todo'[t]) /\ First(todo'[t]) = a
<1> DEFINE p == <<a>>
<1>1. Path(E, t, p) /\ p # <<>> /\ p[Len(p)] = a /\ p[1] = a
  BY OnePath
<1>2. GoOn(t, p)
  OBVIOUS
<1> HIDE DEF p
<1> QED
  BY <1>1, <1>2, ListGoesTo

LEMMA ListJumps ==
  ASSUME Types, NEW t \in Threads, NEW p \in Seq(Steps), Instead(t, p)
  PROVE  Alone(t) /\ todo'[t] = p
BY DEF Types, Instead, Alone

-----------------------------------------------------------------------------
(* Steps of the contract *)

Kept == UNCHANGED <<api, told>>

Being(s) == IF s \in Callbacks THEN s ELSE "none"

LEMMA InsideNow == Types => Inside = [t \in Threads |-> Being(Step(t))]
BY Firsts DEF Inside, Being

LEMMA InsideNext == Types' => Inside' = [t \in Threads |-> Being(First(todo'[t]))]
<1> SUFFICES ASSUME Types'
             PROVE Inside' = [t \in Threads |-> Being(First(todo'[t]))]
  OBVIOUS
<1>1. ASSUME NEW t \in Threads
      PROVE  (todo'[t] # <<>> /\ Head(todo'[t]) \in Callbacks) <=> First(todo'[t]) \in Callbacks
  <2>1. todo'[t] \in Seq(Steps)
    BY DEF Types
  <2>2. "none" \notin Callbacks
    BY DEF Callbacks
  <2> QED
    BY <2>1, <2>2 DEF First
<1>2. ASSUME NEW t \in Threads, todo'[t] # <<>>
      PROVE  Head(todo'[t]) = First(todo'[t])
  BY <1>2 DEF Types, First
<1> QED
  BY <1>1, <1>2 DEF Inside, Being

Simulates == [Promised!Next]_(Promised!signaling)

LEMMA Quietly ==
  ASSUME Types, Types', Kept,
         \A t \in Threads : Being(First(todo'[t])) = Being(Step(t))
  PROVE  Simulates
<1>1. Inside' = Inside
  BY InsideNow, InsideNext
<1> QED
  BY <1>1 DEF Simulates, Promised!signaling, Kept

LEMMA Moves ==
  ASSUME Types, Types', Kept, NEW t \in Threads, Alone(t),
         Step(t) \notin Callbacks,
         First(todo'[t]) \in Callbacks => api # "idle",
         First(todo'[t]) = "on_connected" => "on_ice_info" \in told
  PROVE  Simulates
<1> DEFINE c == First(todo'[t])
<1>1. \A u \in Threads \ {t} : Being(First(todo'[u])) = Being(Step(u))
  BY DEF Alone, Step
<1>2. CASE c \notin Callbacks
  BY <1>1, <1>2, Quietly DEF Being
<1>3. CASE c \in Callbacks
  <2>1. Inside[t] = "none" /\ Inside' = [Inside EXCEPT ![t] = c]
    BY <1>1, <1>3, InsideNow, InsideNext DEF Being
  <2> HIDE DEF c
  <2>2. Promised!Enter(t, c)
    BY <1>3, <2>1 DEF Promised!Enter, Kept, c
  <2>3. c \in Promised!Callbacks
    BY <1>3 DEF Promised!Callbacks, Callbacks
  <2> QED
    BY <2>2, <2>3 DEF Promised!Next, Simulates
<1> QED
  BY <1>2, <1>3

LEMMA Returns ==
  ASSUME Types, Types', NEW t \in Threads, Alone(t), Step(t) \in Callbacks,
         told' = told \cup {Step(t)}, api' = api, First(todo'[t]) \notin Callbacks
  PROVE  Simulates
<1>1. \A u \in Threads \ {t} : Being(First(todo'[u])) = Being(Step(u))
  BY DEF Alone, Step
<1>2. Inside[t] = Step(t) /\ Inside' = [Inside EXCEPT ![t] = "none"]
  BY <1>1, InsideNow, InsideNext DEF Being
<1>3. Step(t) # "none"
  BY DEF Callbacks
<1>4. Promised!Leave(t)
  BY <1>2, <1>3 DEF Promised!Leave
<1> QED
  BY <1>4 DEF Promised!Next, Simulates

Outside == \A t \in Threads : Step(t) \notin Callbacks

\* Nobody is in a callback, and only app moves.
LEMMA Called ==
  ASSUME Types, Types', Outside, Alone("app"), First(todo'["app"]) \notin Callbacks,
         \/ api = "idle" /\ api' = "starting" /\ told' = {}
         \/ api \in {"starting", "stopping"} /\ api' = "idle" /\ told' = told
  PROVE  Simulates
<1>1. "app" \in Threads
  BY DEF Threads
<1>2. \A t \in Threads : Being(Step(t)) = "none" /\ Being(First(todo'[t])) = "none"
  BY <1>1 DEF Alone, Step, Being, Outside
<1>3. Inside' = Inside /\ Promised!NobodyInside
  BY <1>2, InsideNow, InsideNext DEF Promised!NobodyInside
<1> QED
  BY <1>3 DEF Promised!Next, Promised!Start, Promised!StopReturns, Simulates

LEMMA Turned ==
  ASSUME Types, Types', Alone("app"), Step("app") \notin Callbacks,
         First(todo'["app"]) \notin Callbacks, told' = told,
         \/ api = "starting" /\ "on_ice_info" \in told /\ api' = "running"
         \/ api = "running" /\ api' = "stopping"
  PROVE  Simulates
<1>1. \A t \in Threads : Being(First(todo'[t])) = Being(Step(t))
  BY DEF Alone, Step, Being
<1>2. Inside' = Inside
  BY <1>1, InsideNow, InsideNext
<1> QED
  BY <1>2 DEF Promised!Next, Promised!StartSucceeds, Promised!Stop, Simulates


-----------------------------------------------------------------------------
(* The frame *)

\* Thread t takes a step within a call: only a callback that returns is noted.
Advances(t, E) ==
  /\ Types' /\ api' = api /\ freed' = freed /\ Alone(t) /\ Path(E, t, todo'[t])
  /\ told' = IF Step(t) \in Callbacks THEN told \cup {Step(t)} ELSE told

LEMMA Owned ==
  ASSUME Types, Own, NEW t \in Threads, NEW E, Alone(t), Path(E, t, todo'[t]),
         Step(t) \notin Callbacks
  PROVE  Advances(t, E)
BY DEF Types, Own, Alone, Advances

LEMMA GoesOn ==
  ASSUME Types, NEW t \in Threads, NEW a \in Steps \ Callbacks, At(t, a), GoOn(t, <<>>), Own,
         NEW E, Framed(E)
  PROVE  /\ Advances(t, E) /\ Step(t) = a
         /\ First(todo'[t]) = "none" \/ <<t, a, First(todo'[t])>> \in E
<1>1. Step(t) = a /\ Step(t) # "none"
  BY Firsts DEF Steps, Callbacks
<1>2. Path(E, t, todo[t])
  BY DEF Framed
<1>3. /\ Alone(t) /\ Path(E, t, todo'[t])
      /\ First(todo'[t]) = "none" \/ <<t, Step(t), First(todo'[t])>> \in E
  BY <1>1, <1>2, ListGoesOn
<1> QED
  BY <1>1, <1>3, Owned

LEMMA GoesTo ==
  ASSUME Types, NEW t \in Threads, NEW a \in Steps \ Callbacks, NEW b \in Steps, At(t, a),
         GoOn(t, <<b>>), Own, NEW E, Framed(E),
         \A c : <<t, a, c>> \in E => <<t, b, c>> \in E
  PROVE  Advances(t, E) /\ Step(t) = a /\ First(todo'[t]) = b
<1>1. Step(t) = a /\ Step(t) # "none" /\ Path(E, t, todo[t])
  BY Firsts DEF Steps, Callbacks, Framed
<1>2. Alone(t) /\ Path(E, t, todo'[t]) /\ First(todo'[t]) = b
  BY <1>1, ListGoesToOne
<1> QED
  BY <1>1, <1>2, Owned

LEMMA Jumps ==
  ASSUME Types, NEW t \in Threads, NEW p, NEW E, Path(E, t, p), Instead(t, p), Own,
         Step(t) \notin Callbacks
  PROVE  Advances(t, E) /\ First(todo'[t]) = First(p)
<1>1. p \in Seq(Steps)
  BY DEF Path
<1>2. Alone(t) /\ todo'[t] = p
  BY <1>1, ListJumps
<1> QED
  BY <1>2, Owned

LEMMA CallsBack ==
  ASSUME Types, NEW t \in Threads, Call(t), NEW E, Framed(E),
         \A c \in Callbacks : \A b : <<t, CallOf[c], b>> \in E => <<t, c, b>> \in E
  PROVE  /\ Advances(t, E) /\ late' = late
         /\ First(todo'[t]) \in Callbacks /\ Step(t) = CallOf[First(todo'[t])]
<1>1. PICK c \in Callbacks : At(t, CallOf[c]) /\ GoOn(t, <<c>>)
  BY DEF Call
<1>2. CallOf[c] \in Steps \ Callbacks /\ c \in Steps
  BY DEF CallOf, Steps, Callbacks
<1>3. Own /\ late' = late
  BY DEF Call, Own
<1>4. \A b : <<t, CallOf[c], b>> \in E => <<t, c, b>> \in E
  OBVIOUS
<1>5. Advances(t, E) /\ Step(t) = CallOf[c] /\ First(todo'[t]) = c
  BY <1>1, <1>2, <1>3, <1>4, GoesTo
<1> QED
  BY <1>3, <1>5

LEMMA ComesBack ==
  ASSUME Types, NEW t \in Threads, CallbackReturns(t), NEW E, Framed(E)
  PROVE  /\ Advances(t, E) /\ late' = late /\ Step(t) \in Callbacks
         /\ First(todo'[t]) = "none" \/ <<t, Step(t), First(todo'[t])>> \in E
<1>1. todo[t] # <<>> /\ Head(todo[t]) \in Callbacks /\ GoOn(t, <<>>) /\ Path(E, t, todo[t])
  BY DEF CallbackReturns, Framed
<1>2. Step(t) = Head(todo[t]) /\ Step(t) # "none"
  BY <1>1 DEF Step, First, Types, Callbacks
<1>3. /\ Alone(t) /\ Path(E, t, todo'[t])
      /\ First(todo'[t]) = "none" \/ <<t, Step(t), First(todo'[t])>> \in E
  BY <1>1, <1>2, ListGoesOn
<1> QED
  BY <1>1, <1>2, <1>3 DEF CallbackReturns, Advances, Alone, Types

\* A step within a call keeps the contract, if it enters a callback in time.
LEMMA Advanced ==
  ASSUME Types, NEW E, Framed(E), NEW t \in Threads, Advances(t, E),
         t = "app" => Step(t) # "none",
         t = "pc" => Step(t) # "none" \/ api = "running",
         First(todo'[t]) \in Callbacks => Step(t) \notin Callbacks /\ api # "idle",
         First(todo'[t]) = "on_connected" => "on_ice_info" \in told
  PROVE  Framed(E)' /\ Simulates
<1>1. \A u \in Threads : Path(E, u, todo'[u])
  BY DEF Framed, Advances, Alone
<1>2. "app" \in Threads /\ "pc" \in Threads
  BY DEF Threads
<1>3. /\ t # "app" => First(todo'["app"]) = Step("app")
      /\ t # "pc" => First(todo'["pc"]) = Step("pc")
  BY <1>2 DEF Advances, Alone, Step
<1>4. Framed(E)'
  BY <1>1, <1>3 DEF Framed, Advances, Step
<1>5. ASSUME Step(t) \in Callbacks  PROVE Simulates
  BY <1>5, Returns DEF Advances
<1>6. ASSUME Step(t) \notin Callbacks  PROVE Simulates
  BY <1>6, Moves DEF Advances, Kept
<1> QED
  BY <1>4, <1>5, <1>6

LEMMA Starts ==
  ASSUME Types, NEW p, NEW E, Framed(E), Path(E, "app", p), CallStart(p), Outside,
         First(p) \notin Callbacks
  PROVE  /\ Types' /\ Framed(E)' /\ Simulates /\ Alone("app") /\ First(todo'["app"]) = First(p)
         /\ api = "idle" /\ api' = "starting" /\ told' = {} /\ late' = late /\ impl' = impl
<1>1. "app" \in Threads /\ "pc" \in Threads /\ Instead("app", p) /\ p \in Seq(Steps)
  BY DEF Threads, CallStart, Path
<1>2. Alone("app") /\ todo'["app"] = p
  BY <1>1, ListJumps
<1>3. Types' /\ api = "idle" /\ api' = "starting" /\ freed' = FALSE /\ told' = {}
  BY <1>2 DEF Types, Alone, CallStart
<1>4. \A u \in Threads : Path(E, u, todo'[u])
  BY <1>2 DEF Framed, Alone
<1>5. First(todo'["pc"]) = Step("pc")
  BY <1>1, <1>2 DEF Alone, Step
<1>6. Framed(E)'
  BY <1>3, <1>4, <1>5 DEF Framed, Step
<1>7. Simulates
  BY <1>2, <1>3, Called
<1> QED
  BY <1>2, <1>3, <1>6, <1>7 DEF CallStart

LEMMA Stops ==
  ASSUME Types, NEW p, NEW E, Framed(E), Path(E, "app", p), CallStop(p),
         First(p) \notin Callbacks
  PROVE  /\ Types' /\ Framed(E)' /\ Simulates /\ Alone("app") /\ First(todo'["app"]) = First(p)
         /\ Step("app") = "none" /\ Step("pc") = "none"
         /\ api = "running" /\ api' = "stopping" /\ UNCHANGED <<impl, told, late>>
<1>1. "app" \in Threads /\ "pc" \in Threads /\ Instead("app", p) /\ p \in Seq(Steps)
  BY DEF Threads, CallStop, Path
<1>2. Alone("app") /\ todo'["app"] = p /\ Step("app") = "none" /\ Step("pc") = "none"
  BY <1>1, ListJumps, Firsts DEF CallStop
<1>3. Types' /\ api = "running" /\ api' = "stopping" /\ UNCHANGED <<freed, told>>
  BY <1>2 DEF Types, Alone, CallStop
<1>4. \A u \in Threads : Path(E, u, todo'[u])
  BY <1>2 DEF Framed, Alone
<1>5. First(todo'["pc"]) = Step("pc")
  BY <1>1, <1>2 DEF Alone, Step
<1>6. Framed(E)'
  BY <1>2, <1>3, <1>4, <1>5 DEF Framed, Step
<1>7. Simulates
  BY <1>2, <1>3, Turned DEF Callbacks
<1> QED
  BY <1>2, <1>3, <1>6, <1>7 DEF CallStop

LEMMA Sends ==
  ASSUME Types, CallSend("send"), NEW E, Framed(E)
  PROVE  /\ Advances("pc", E) /\ First(todo'["pc"]) = "send" /\ Step("pc") = "none"
         /\ api = "running" /\ late' = late
<1>1. "pc" \in Threads /\ Instead("pc", <<"send">>) /\ Own /\ late' = late /\ api = "running"
  BY DEF Threads, CallSend, Own
<1>2. Path(E, "pc", <<"send">>) /\ First(<<"send">>) = "send" /\ Step("pc") = "none"
  BY <1>1, OnePath, Firsts DEF Steps, First, CallSend
<1> QED
  BY <1>1, <1>2, Jumps DEF Callbacks

LEMMA Frees ==
  ASSUME Types, Free, NEW E, Framed(E), Outside, api \in {"starting", "stopping"},
         \A b : <<"app", "free", b>> \notin E
  PROVE  /\ Types' /\ Framed(E)' /\ Simulates /\ Alone("app") /\ Step("app") = "free"
         /\ First(todo'["app"]) = "none" /\ api' = "idle" /\ UNCHANGED <<impl, told, late>>
<1>1. /\ "app" \in Threads /\ "pc" \in Threads /\ GoOn("app", <<>>) /\ At("app", "free")
      /\ Path(E, "app", todo["app"])
  BY DEF Threads, Free, Framed
<1>2. Step("app") = "free" /\ "free" \notin Callbacks
  BY <1>1, Firsts DEF Steps, Callbacks
<1>3. Alone("app") /\ Path(E, "app", todo'["app"]) /\ First(todo'["app"]) = "none"
  BY <1>1, <1>2, ListGoesOn
<1>4. Types' /\ api' = "idle" /\ freed' = TRUE /\ told' = told
  BY <1>3 DEF Types, Alone, Free
<1>5. \A u \in Threads : Path(E, u, todo'[u])
  BY <1>3 DEF Framed, Alone
<1>6. First(todo'["pc"]) = Step("pc")
  BY <1>1, <1>3 DEF Alone, Step
<1>7. Framed(E)'
  BY <1>3, <1>4, <1>5, <1>6 DEF Framed, Step
<1>8. Simulates
  BY <1>3, <1>4, Called DEF Callbacks
<1> QED
  BY <1>2, <1>3, <1>4, <1>7, <1>8 DEF Free

LEMMA Started ==
  ASSUME Types, StartReturns, NEW E, Framed(E), api = "starting", "on_ice_info" \in told,
         \A b : <<"app", "started", b>> \notin E
  PROVE  /\ Types' /\ Framed(E)' /\ Simulates /\ Alone("app") /\ Step("app") = "started"
         /\ First(todo'["app"]) = "none" /\ api' = "running" /\ UNCHANGED <<impl, told, late>>
<1>1. /\ "app" \in Threads /\ "pc" \in Threads /\ GoOn("app", <<>>) /\ At("app", "started")
      /\ Path(E, "app", todo["app"])
  BY DEF Threads, StartReturns, Framed
<1>2. Step("app") = "started" /\ "started" \notin Callbacks
  BY <1>1, Firsts DEF Steps, Callbacks
<1>3. Alone("app") /\ Path(E, "app", todo'["app"]) /\ First(todo'["app"]) = "none"
  BY <1>1, <1>2, ListGoesOn
<1>4. Types' /\ api' = "running" /\ UNCHANGED <<told, freed>>
  BY <1>3 DEF Types, Alone, StartReturns
<1>5. \A u \in Threads : Path(E, u, todo'[u])
  BY <1>3 DEF Framed, Alone
<1>6. First(todo'["pc"]) = Step("pc")
  BY <1>1, <1>3 DEF Alone, Step
<1>7. Framed(E)'
  BY <1>3, <1>4, <1>5, <1>6 DEF Framed, Step
<1>8. Simulates
  BY <1>2, <1>3, <1>4, Turned DEF Callbacks
<1> QED
  BY <1>2, <1>3, <1>4, <1>7, <1>8 DEF StartReturns

-----------------------------------------------------------------------------
(* Janus *)

\* What a thread may do next within a call.
JanusMoves == (JanusOrder \ {<<"app", "call_on_ice_info", "call_on_connected">>}) \cup
  {<<"app", "create", "attach">>, <<"app", "attach", "join">>, <<"app", "join", "poll">>,
   <<"app", "create", "free">>, <<"app", "attach", "free">>, <<"app", "join", "free">>,
   <<"app", "poll", "free">>, <<"app", "call_on_ice_info", "on_ice_info">>,
   <<"app", "call_on_connected", "on_connected">>, <<"app", "call_on_close", "on_close">>,
   <<"worker", "turn", "get">>, <<"worker", "get", "call_on_msg">>, <<"worker", "get", "turn">>,
   <<"worker", "call_on_msg", "on_msg">>, <<"worker", "turn", "unlock">>, <<"pc", "none", "send">>}

JanusMay == Types' /\ JanusInv' /\ Simulates

\* A step of one thread, but for what it means for the poll thread.
LEMMA JanusGoes ==
  ASSUME Types, JanusInv, NEW t \in Threads, Advances(t, JanusOrder),
         First(todo'[t]) = "none" \/ <<t, Step(t), First(todo'[t])>> \in JanusMoves,
         Step(t) # "none" \/ (t # "app" /\ api = "running"),
         janus' \in [running : BOOLEAN, poll_started : BOOLEAN, local_sdp_sent : BOOLEAN,
                     exit_sema : {"none", "locked", "unlocked"}],
         late' \subseteq late \cup {<<"worker", "exit_sema">>}
  PROVE  Types' /\ Framed(JanusOrder)' /\ JanusShape' /\ JanusCalls' /\ Simulates
<1>1. /\ Framed(JanusOrder) /\ JanusShape /\ JanusCalls /\ JanusPolls
      /\ "app" \in Threads /\ "pc" \in Threads /\ "worker" \in Threads /\ "aux" \in Threads /\ "old" \in Threads
  BY DEF JanusInv, Threads
<1>2. /\ Types' /\ api' = api
      /\ \A u \in Threads \ {t} : First(todo'[u]) = Step(u)
  BY DEF Advances, Alone, Step
<1>3. t \in {"app", "pc", "worker", "aux", "old"} /\ (api \in {"idle", "running"} => Step("app") = "none")
  BY <1>1 DEF Threads, Framed
<1>4. Step("aux") = "none"
  BY <1>1 DEF JanusShape
<1>5. First(todo'[t]) \in Callbacks => Step(t) \notin Callbacks /\ api # "idle"
  BY <1>1, <1>3, <1>4 DEF JanusMoves, JanusOrder, Callbacks, JanusPolls, Polling
<1>6. First(todo'[t]) = "on_connected" => "on_ice_info" \in told
  BY <1>1, <1>3, <1>4 DEF JanusMoves, JanusOrder, JanusCalls, Calls
<1>7. Framed(JanusOrder)' /\ Simulates
  BY <1>1, <1>5, <1>6, Advanced
<1>8. JanusShape'
  BY <1>1, <1>2, <1>3, <1>4 DEF JanusShape, JanusMoves, JanusOrder, Step, Polling
<1>9. JanusCalls'
  <2>1. told \subseteq told' /\ (Step(t) = "on_ice_info" => "on_ice_info" \in told')
    BY DEF Advances, Callbacks
  <2>2. CASE t # "app"
    BY <1>1, <1>2, <2>1, <2>2 DEF JanusCalls, Calls, Step
  <2>3. CASE t = "app"
    <3>1. <<"app", Step("app"), Step("app")'>> \in JanusMoves \/ Step("app")' = "none"
      BY <2>3 DEF Step
    <3> QED
      BY <1>1, <1>2, <2>1, <2>3, <3>1 DEF JanusCalls, Calls, JanusMoves, JanusOrder
  <2> QED
    BY <2>2, <2>3
<1> QED
  BY <1>2, <1>7, <1>8, <1>9

\* A step that does not concern the poll thread's life.
LEMMA JanusPlain ==
  ASSUME Types, JanusInv, NEW t \in Threads, Advances(t, JanusOrder),
         First(todo'[t]) = "none" \/ <<t, Step(t), First(todo'[t])>> \in JanusMoves,
         Step(t) # "none" \/ (t # "app" /\ api = "running"),
         Step(t) \notin {"flag", "wait"},
         janus' \in [running : BOOLEAN, poll_started : BOOLEAN, local_sdp_sent : BOOLEAN,
                     exit_sema : {"none", "locked", "unlocked"}],
         UNCHANGED <<janus.exit_sema, janus.poll_started>>, late' = late
  PROVE  JanusMay
<1>1. Types' /\ Framed(JanusOrder)' /\ JanusShape' /\ JanusCalls' /\ Simulates
  BY JanusGoes
<1>2. /\ Framed(JanusOrder) /\ JanusShape /\ JanusCalls /\ JanusPolls
      /\ "app" \in Threads /\ "worker" \in Threads /\ api' = api
      /\ \A u \in Threads \ {t} : First(todo'[u]) = Step(u)
  BY DEF JanusInv, Threads, Advances, Alone, Step
<1>3. JanusPolls'
  BY <1>2 DEF JanusPolls, JanusShape, JanusMoves, JanusOrder, Step, Polling
<1> QED
  BY <1>1, <1>3 DEF JanusMay, JanusInv

\* What follows a step of app.
LEMMA JanusFollows ==
  /\ \A a \in {"create", "attach", "join", "free", "started"} :
       \A b : <<"app", a, b>> \notin JanusOrder
  /\ \A t \in Threads, c \in Callbacks : \A b :
       <<t, CallOf[c], b>> \in JanusOrder => <<t, c, b>> \in JanusOrder
  /\ \A t, a, b :
       <<t, a, b>> \in JanusOrder /\ a # "call_on_ice_info" => <<t, a, b>> \in JanusMoves
BY DEF JanusOrder, JanusMoves, Threads, Callbacks, CallOf

LEMMA JanusFrame ==
  ASSUME Types, JanusInv, FrameNext, UNCHANGED janus  PROVE JanusMay
<1>0. /\ Framed(JanusOrder) /\ JanusShape /\ JanusCalls /\ JanusPolls
      /\ "app" \in Threads /\ "pc" \in Threads /\ "worker" \in Threads /\ "aux" \in Threads /\ "old" \in Threads
  BY DEF JanusInv, Threads
<1>1. CASE StartReturns
  <2>1. Step("app") = "started"
    BY <1>0, <1>1, Firsts DEF StartReturns, Steps
  <2>2. api = "starting" /\ "on_ice_info" \in told
    BY <1>0, <2>1 DEF JanusCalls, Calls, Framed, Types
  <2>3. /\ Types' /\ Framed(JanusOrder)' /\ Simulates /\ Alone("app")
        /\ First(todo'["app"]) = "none" /\ api' = "running" /\ UNCHANGED <<told, late>>
    BY <1>0, <1>1, <2>2, Started, JanusFollows
  <2>4. JanusShape' /\ JanusCalls' /\ JanusPolls'
    BY <1>0, <2>1, <2>2, <2>3 DEF JanusShape, JanusCalls, JanusPolls, Calls, Alone, Step
  <2> QED
    BY <2>3, <2>4 DEF JanusMay, JanusInv
<1>2. CASE Free
  <2>1. Step("app") = "free"
    BY <1>0, <1>2, Firsts DEF Free, Steps
  <2>2. api \in {"starting", "stopping"} /\ Step("worker") \notin Polling
    BY <1>0, <2>1 DEF JanusPolls, Framed, Types
  <2>3. Outside
    BY <1>0, <2>1, <2>2 DEF Outside, JanusShape, Threads, Callbacks, Polling
  <2>4. /\ Types' /\ Framed(JanusOrder)' /\ Simulates /\ Alone("app")
        /\ First(todo'["app"]) = "none" /\ api' = "idle" /\ UNCHANGED <<told, late>>
    BY <1>0, <1>2, <2>2, <2>3, Frees, JanusFollows
  <2>5. JanusShape' /\ JanusCalls' /\ JanusPolls'
    BY <1>0, <2>1, <2>2, <2>4 DEF JanusShape, JanusCalls, JanusPolls, Calls, Alone, Step
  <2> QED
    BY <2>4, <2>5 DEF JanusMay, JanusInv
<1>3. ASSUME NEW t \in Threads, Call(t)  PROVE JanusMay
  <2>1. /\ Advances(t, JanusOrder) /\ late' = late /\ First(todo'[t]) \in Callbacks
        /\ Step(t) = CallOf[First(todo'[t])]
    BY <1>0, <1>3, CallsBack, JanusFollows
  <2>2. t \in {"app", "worker"}
    BY <1>0, <2>1 DEF JanusShape, Threads, Callbacks, CallOf
  <2>3. /\ Step(t) \notin {"flag", "wait", "none"}
        /\ <<t, Step(t), First(todo'[t])>> \in JanusMoves
    <3>1. CASE t = "app"
      BY <1>0, <2>1, <3>1 DEF Framed, JanusCalls, Calls, Types, Callbacks, CallOf, JanusMoves
    <3>2. CASE t = "worker"
      BY <1>0, <2>1, <3>2 DEF JanusShape, Polling, Callbacks, CallOf, JanusMoves
    <3> QED  BY <2>2, <3>1, <3>2
  <2> QED
    BY <1>0, <2>1, <2>3, JanusPlain DEF JanusShape
<1>4. ASSUME NEW t \in Threads, CallbackReturns(t)  PROVE JanusMay
  <2>1. /\ Advances(t, JanusOrder) /\ late' = late /\ Step(t) \in Callbacks
        /\ First(todo'[t]) = "none" \/ <<t, Step(t), First(todo'[t])>> \in JanusOrder
    BY <1>0, <1>4, ComesBack
  <2>2. Step(t) \notin {"flag", "wait", "none", "call_on_ice_info"}
    BY <2>1 DEF Callbacks
  <2>3. First(todo'[t]) = "none" \/ <<t, Step(t), First(todo'[t])>> \in JanusMoves
    BY <2>1, <2>2, JanusFollows
  <2> QED
    BY <1>0, <2>1, <2>2, <2>3, JanusPlain DEF JanusShape
<1> QED
  BY <1>1, <1>2, <1>3, <1>4 DEF FrameNext

LEMMA JanusSteps ==
  ASSUME Types, JanusInv, JanusNext  PROVE JanusMay
<1>0. /\ Framed(JanusOrder) /\ JanusShape /\ JanusCalls /\ JanusPolls
      /\ "app" \in Threads /\ "pc" \in Threads /\ "worker" \in Threads /\ "aux" \in Threads /\ "old" \in Threads
      /\ janus \in [running : BOOLEAN, poll_started : BOOLEAN, local_sdp_sent : BOOLEAN,
                    exit_sema : {"none", "locked", "unlocked"}]
  BY DEF JanusInv, JanusShape, Threads
<1>1. CASE janus_signaling_start
  <2>1. /\ CallStart(<<"create">>) /\ Path(JanusOrder, "app", <<"create">>)
        /\ First(<<"create">>) = "create"
        /\ janus' = [janus EXCEPT !.local_sdp_sent = FALSE, !.exit_sema = "none"]
    BY <1>1, OnePath DEF janus_signaling_start, Steps, First
  <2>2. api = "idle"
    BY <1>1 DEF janus_signaling_start, CallStart
  <2>3. Outside /\ Step("worker") \notin Polling
    BY <1>0, <2>2 DEF Outside, JanusShape, JanusPolls, Framed, Threads, Callbacks, Polling
  <2>4. /\ Types' /\ Framed(JanusOrder)' /\ Simulates /\ Alone("app")
        /\ First(todo'["app"]) = "create" /\ api' = "starting" /\ told' = {} /\ late' = late
    BY <1>0, <2>1, <2>3, Starts DEF Callbacks
  <2>5. JanusShape' /\ JanusCalls' /\ JanusPolls'
    BY <1>0, <2>1, <2>3, <2>4 DEF JanusShape, JanusCalls, JanusPolls, Calls, Alone, Step
  <2> QED
    BY <2>4, <2>5 DEF JanusMay, JanusInv
<1>2. ASSUME NEW a \in {"create", "attach", "join"}, NEW b \in {"attach", "join", "poll"},
             Ask(a, b), <<"app", a, b>> \in JanusMoves
      PROVE  JanusMay
  <2>1. At("app", a) /\ Own /\ janus' = janus /\ late' = late
    BY <1>2 DEF Ask
  <2>2. a \in Steps \ Callbacks /\ b \in Steps /\ Step("app") = a
    BY <1>0, <2>1, Firsts DEF Steps, Callbacks
  <2>3. CASE GoOn("app", <<b>>)
    <3>1. Advances("app", JanusOrder) /\ First(todo'["app"]) = b
      BY <1>0, <1>2, <2>1, <2>2, <2>3, GoesTo, JanusFollows
    <3> QED
      BY <1>0, <1>2, <2>1, <2>2, <3>1, JanusPlain
  <2>4. CASE Instead("app", <<"free">>)
    <3>1. Path(JanusOrder, "app", <<"free">>) /\ First(<<"free">>) = "free"
      BY OnePath DEF Steps, First
    <3>2. Advances("app", JanusOrder) /\ First(todo'["app"]) = "free"
      BY <1>0, <2>1, <2>2, <2>4, <3>1, Jumps
    <3>3. <<"app", a, "free">> \in JanusMoves
      BY DEF JanusMoves
    <3> QED
      BY <1>0, <2>1, <2>2, <3>2, <3>3, JanusPlain
  <2> QED
    BY <1>2, <2>3, <2>4 DEF Ask
<1>3. CASE StartPolling
  <2>1. /\ Own /\ late' = late /\ Step("app") = "poll" /\ Step("worker") = "none"
        /\ janus' = [janus EXCEPT !.running = TRUE, !.exit_sema = "locked"]
    BY <1>0, <1>3, Firsts DEF StartPolling, Steps
  <2> DEFINE p == <<"flag", "call_on_ice_info", "call_on_connected", "started">>
             r == <<"turn">>
  <2>2. /\ Path(JanusOrder, "app", p) /\ Path(JanusOrder, "worker", r)
        /\ First(p) = "flag" /\ First(r) = "turn"
    BY DEF Path, First, JanusOrder, Steps
  <2>3. todo' = [todo EXCEPT !["worker"] = r, !["app"] = p]
    BY <1>3 DEF StartPolling
  <2> HIDE DEF p, r
  <2>4. /\ todo'["app"] = p /\ todo'["worker"] = r
        /\ \A u \in Threads \ {"app", "worker"} : todo'[u] = todo[u]
        /\ todo' \in [Threads -> Seq(Steps)]
    BY <1>0, <2>2, <2>3 DEF Types, Path
  <2>5. /\ Step("app")' = "flag" /\ Step("worker")' = "turn"
        /\ \A u \in Threads \ {"app", "worker"} : Step(u)' = Step(u)
    BY <2>2, <2>4 DEF Step
  <2>6. Types' /\ Kept /\ freed' = freed
    BY <2>1, <2>4 DEF Types, Own, Kept
  <2>7. Simulates
    <3>1. \A t \in Threads : Being(First(todo'[t])) = Being(Step(t))
      BY <2>1, <2>5 DEF Being, Step, Callbacks
    <3> QED
      BY <2>6, <3>1, Quietly
  <2>8. \A u \in Threads : Path(JanusOrder, u, todo'[u])
    BY <1>0, <2>2, <2>4 DEF Framed
  <2>9. api = "starting"
    BY <1>0, <2>1 DEF Framed, JanusCalls, Calls, Types
  <2>10. Framed(JanusOrder)'
    BY <1>0, <2>5, <2>6, <2>8, <2>9 DEF Framed, Kept, Threads
  <2>11. JanusShape' /\ JanusCalls' /\ JanusPolls'
    BY <1>0, <2>1, <2>5, <2>6, <2>9
       DEF JanusShape, JanusCalls, JanusPolls, Calls, Kept, Threads, Polling
  <2> QED
    BY <2>6, <2>7, <2>10, <2>11 DEF JanusMay, JanusInv
<1>4. CASE NoThread
  <2>1. /\ Instead("app", <<"free">>) /\ Own /\ janus' = janus /\ late' = late
        /\ Step("app") = "poll"
    BY <1>0, <1>4, Firsts DEF NoThread, Steps
  <2>2. Path(JanusOrder, "app", <<"free">>) /\ First(<<"free">>) = "free"
    BY OnePath DEF Steps, First
  <2>3. Advances("app", JanusOrder) /\ First(todo'["app"]) = "free"
    BY <1>0, <2>1, <2>2, Jumps DEF Callbacks
  <2> QED
    BY <1>0, <2>1, <2>3, JanusPlain DEF JanusMoves
<1>5. CASE PollStarted
  <2>1. /\ At("app", "flag") /\ GoOn("app", <<>>) /\ Own
        /\ janus' = [janus EXCEPT !.poll_started = TRUE] /\ late' = late
    BY <1>5 DEF PollStarted
  <2>2. /\ Advances("app", JanusOrder) /\ Step("app") = "flag"
        /\ First(todo'["app"]) = "none" \/ <<"app", "flag", First(todo'["app"])>> \in JanusOrder
    BY <1>0, <2>1, GoesOn DEF Steps, Callbacks
  <2>3. Types' /\ Framed(JanusOrder)' /\ JanusShape' /\ JanusCalls' /\ Simulates
    BY <1>0, <2>1, <2>2, JanusGoes, JanusFollows
  <2>4. JanusPolls'
    <3>1. First(todo'["app"]) \in {"none", "call_on_ice_info"}
      BY <2>2 DEF JanusOrder
    <3> QED
      BY <1>0, <2>1, <2>2, <3>1 DEF JanusPolls, Advances, Alone, Step
  <2> QED
    BY <2>3, <2>4 DEF JanusMay, JanusInv
<1>6. CASE janus_poll_thread
  <2>1. /\ Instead("worker", <<"get">>) /\ Own /\ janus' = janus
        /\ late' = IF freed THEN late \cup {<<"worker", "sig">>} ELSE late
    BY <1>6 DEF janus_poll_thread, Uses
  <2>2. Path(JanusOrder, "worker", <<"get">>) /\ First(<<"get">>) = "get"
    BY OnePath DEF First, Steps
  <2>3. Step("worker") = "turn"
    BY <1>0, <1>6, Firsts DEF janus_poll_thread, Steps
  <2>4. late' = late
    BY <1>0, <2>1, <2>3 DEF JanusPolls, Framed, Polling
  <2>5. Advances("worker", JanusOrder) /\ First(todo'["worker"]) = "get"
    BY <1>0, <2>1, <2>2, <2>3, Jumps DEF Callbacks
  <2> QED
    BY <1>0, <2>1, <2>3, <2>4, <2>5, JanusPlain DEF JanusMoves
<1>16. CASE PollAnswered
  <2>1. /\ Own /\ janus' = janus
        /\ late' \subseteq late \cup {<<"worker", "sig">>} /\ (~freed => late' = late)
    BY <1>16 DEF PollAnswered, Uses
  <2>0. PICK m \in 0..MaxEvents : Instead("worker", [i \in 1..m |-> "call_on_msg"] \o <<"turn">>)
    BY <1>16 DEF PollAnswered
  <2>2. PICK n \in Nat : Instead("worker", [i \in 1..n |-> "call_on_msg"] \o <<"turn">>)
    <3>1. m \in Nat
      BY JanusSignalingAssumption
    <3> QED  BY <2>0, <3>1
  <2> DEFINE p == [i \in 1..n |-> "call_on_msg"] \o <<"turn">>
  <2>3. Path(JanusOrder, "worker", p) /\ First(p) \in {"call_on_msg", "turn"}
    <3> DEFINE c == [i \in 1..n |-> "call_on_msg"]
    <3>1. c \in Seq(Steps) /\ Len(c) = n /\ \A i \in 1..n : c[i] = "call_on_msg"
      BY DEF Steps
    <3> HIDE DEF c
    <3>2. /\ c \o <<"turn">> \in Seq(Steps) /\ Len(c \o <<"turn">>) = n + 1
          /\ \A i \in 1..n : (c \o <<"turn">>)[i] = "call_on_msg"
          /\ (c \o <<"turn">>)[n + 1] = "turn"
      <4>1. <<"turn">> \in Seq(Steps) /\ Len(<<"turn">>) = 1
        BY DEF Steps
      <4> QED  BY <3>1, <4>1
    <3>3. p \in Seq(Steps) /\ Len(p) = n + 1 /\ (\A i \in 1..n : p[i] = "call_on_msg") /\ p[n + 1] = "turn"
      BY <3>2 DEF c
    <3> HIDE DEF p
    <3>4. ASSUME NEW i \in 1..Len(p) - 1
          PROVE  <<"worker", p[i], p[i + 1]>> \in JanusOrder
      <4>1. p[i] = "call_on_msg" /\ p[i + 1] \in {"call_on_msg", "turn"}
        <5>1. i \in 1..n /\ (i + 1 \in 1..n \/ i + 1 = n + 1)
          BY <3>3
        <5> QED  BY <3>3, <5>1
      <4> QED  BY <4>1 DEF JanusOrder
    <3>5. p # <<>> /\ p[1] \in {"call_on_msg", "turn"}
      <4>1. 1 \in 1..n \/ 1 = n + 1
        OBVIOUS
      <4> QED  BY <3>3, <4>1
    <3> QED  BY <3>3, <3>4, <3>5 DEF Path, First
  <2>4. Instead("worker", p)
    BY <2>2
  <2> HIDE DEF p
  <2>5. Step("worker") = "get"
    BY <1>0, <1>16, Firsts DEF PollAnswered, Steps
  <2>6. late' = late
    BY <1>0, <2>1, <2>5 DEF JanusPolls, Framed, Polling
  <2>7. Advances("worker", JanusOrder) /\ First(todo'["worker"]) \in {"call_on_msg", "turn"}
    BY <1>0, <2>1, <2>3, <2>4, <2>5, Jumps DEF Callbacks
  <2> QED
    BY <1>0, <2>1, <2>5, <2>6, <2>7, JanusPlain DEF JanusMoves
<1>7. CASE PollEnds
  <2>1. /\ Instead("worker", <<"unlock">>) /\ Own
        /\ janus' = [janus EXCEPT !.poll_started = FALSE]
        /\ late' = IF freed THEN late \cup {<<"worker", "sig">>} ELSE late
    BY <1>7 DEF PollEnds, Uses
  <2>2. Path(JanusOrder, "worker", <<"unlock">>) /\ First(<<"unlock">>) = "unlock"
    BY OnePath DEF First, Steps
  <2>3. Step("worker") = "turn"
    BY <1>0, <1>7, Firsts DEF PollEnds, Steps
  <2>4. late' = late
    BY <1>0, <2>1, <2>3 DEF JanusPolls, Framed, Polling
  <2>5. Advances("worker", JanusOrder) /\ First(todo'["worker"]) = "unlock"
    BY <1>0, <2>1, <2>2, <2>3, Jumps DEF Callbacks
  <2>6. Types' /\ Framed(JanusOrder)' /\ JanusShape' /\ JanusCalls' /\ Simulates
    BY <1>0, <2>1, <2>3, <2>4, <2>5, JanusGoes DEF JanusMoves
  <2>7. JanusPolls'
    BY <2>5 DEF JanusPolls, Step, Polling
  <2> QED
    BY <2>6, <2>7 DEF JanusMay, JanusInv
<1>8. CASE PollUnlock
  <2>1. /\ Instead("worker", <<>>) /\ Own
        /\ janus' = [janus EXCEPT !.exit_sema = IF freed THEN @ ELSE "unlocked"]
        /\ late' \subseteq late \cup {<<"worker", "exit_sema">>}
    BY <1>8 DEF PollUnlock, Uses
  <2>2. Path(JanusOrder, "worker", <<>>) /\ First(<<>>) = "none"
    BY DEF First, Path
  <2>3. Step("worker") = "unlock"
    BY <1>0, <1>8, Firsts DEF PollUnlock, Steps
  <2>4. Advances("worker", JanusOrder) /\ First(todo'["worker"]) = "none"
    BY <1>0, <2>1, <2>2, <2>3, Jumps DEF Callbacks
  <2>5. Types' /\ Framed(JanusOrder)' /\ JanusShape' /\ JanusCalls' /\ Simulates
    BY <1>0, <2>1, <2>3, <2>4, JanusGoes
  <2>6. JanusPolls'
    BY <2>4 DEF JanusPolls, Step, Polling
  <2> QED
    BY <2>5, <2>6 DEF JanusMay, JanusInv
<1>9. CASE CallSend("send") /\ UNCHANGED <<janus, gateway>>
  <2>1. /\ Advances("pc", JanusOrder) /\ First(todo'["pc"]) = "send" /\ Step("pc") = "none"
        /\ api = "running" /\ late' = late
    BY <1>0, <1>9, Sends
  <2>2. <<"pc", "none", "send">> \in JanusMoves
    BY DEF JanusMoves
  <2> QED
    BY <1>0, <1>9, <2>1, <2>2, JanusPlain
<1>10. CASE janus_signaling_send_msg
  <2>1. /\ At("pc", "send") /\ GoOn("pc", <<>>) /\ Own /\ late' = late
        /\ janus' \in {janus, [janus EXCEPT !.local_sdp_sent = TRUE]}
    BY <1>10 DEF janus_signaling_send_msg
  <2>2. /\ Advances("pc", JanusOrder) /\ Step("pc") = "send"
        /\ First(todo'["pc"]) = "none" \/ <<"pc", "send", First(todo'["pc"])>> \in JanusMoves
    BY <1>0, <2>1, GoesOn, JanusFollows DEF Steps, Callbacks
  <2>3. /\ janus' \in [running : BOOLEAN, poll_started : BOOLEAN, local_sdp_sent : BOOLEAN,
                      exit_sema : {"none", "locked", "unlocked"}]
        /\ UNCHANGED <<janus.exit_sema, janus.poll_started>>
    BY <1>0, <2>1
  <2> QED
    BY <1>0, <2>1, <2>2, <2>3, JanusPlain
<1>11. CASE janus_signaling_stop
  <2> DEFINE p == <<"wait", "destroy", "call_on_close", "free">>
  <2>1. CallStop(p) /\ janus' = [janus EXCEPT !.running = FALSE]
    BY <1>11 DEF janus_signaling_stop
  <2>2. Path(JanusOrder, "app", p) /\ First(p) = "wait"
    BY DEF First, Steps, Path, JanusOrder
  <2> HIDE DEF p
  <2>3. /\ Types' /\ Framed(JanusOrder)' /\ Simulates /\ Alone("app")
        /\ First(todo'["app"]) = "wait" /\ api = "running" /\ api' = "stopping"
        /\ UNCHANGED <<told, late>> /\ Step("app") = "none"
    BY <1>0, <2>1, <2>2, Stops DEF Callbacks
  <2>4. JanusShape' /\ JanusCalls' /\ JanusPolls'
    BY <1>0, <2>1, <2>3 DEF JanusShape, JanusCalls, JanusPolls, Calls, Alone, Step
  <2> QED
    BY <2>3, <2>4 DEF JanusMay, JanusInv
<1>12. CASE janus_wait_for_pool_thread
  <2>1. /\ At("app", "wait") /\ GoOn("app", <<>>) /\ Own /\ janus' = janus /\ late' = late
        /\ janus.poll_started => janus.exit_sema = "unlocked"
    BY <1>12 DEF janus_wait_for_pool_thread
  <2>2. /\ Advances("app", JanusOrder) /\ Step("app") = "wait"
        /\ First(todo'["app"]) = "none" \/ <<"app", "wait", First(todo'["app"])>> \in JanusOrder
    BY <1>0, <2>1, GoesOn DEF Steps, Callbacks
  <2>3. Types' /\ Framed(JanusOrder)' /\ JanusShape' /\ JanusCalls' /\ Simulates
    BY <1>0, <2>1, <2>2, JanusGoes, JanusFollows
  <2>4. JanusPolls'
    BY <1>0, <2>1, <2>2 DEF JanusPolls, Advances, Alone, Step
  <2> QED
    BY <2>3, <2>4 DEF JanusMay, JanusInv
<1>13. CASE DestroySession
  <2>1. /\ At("app", "destroy") /\ GoOn("app", <<>>) /\ Own /\ janus' = janus /\ late' = late
    BY <1>13 DEF DestroySession
  <2>2. /\ Advances("app", JanusOrder) /\ Step("app") = "destroy"
        /\ First(todo'["app"]) = "none" \/ <<"app", "destroy", First(todo'["app"])>> \in JanusOrder
    BY <1>0, <2>1, GoesOn DEF Steps, Callbacks
  <2> QED
    BY <1>0, <2>1, <2>2, JanusPlain, JanusFollows
<1>14. CASE FrameNext /\ UNCHANGED <<janus, gateway>>
  BY <1>14, JanusFrame
<1>15. /\ <<"app", "create", "attach">> \in JanusMoves /\ <<"app", "attach", "join">> \in JanusMoves
       /\ <<"app", "join", "poll">> \in JanusMoves
  BY DEF JanusMoves
<1> QED
  BY <1>1, <1>2, <1>3, <1>4, <1>5, <1>6, <1>7, <1>8, <1>9, <1>10, <1>11, <1>12, <1>13, <1>14,
     <1>15, <1>16 DEF JanusNext, janus_get_ids

-----------------------------------------------------------------------------
(* AppRTC *)

AppRtcMoves ==
  (AppRtcOrder \ {<<"app", "ask_ice", "create_wss">>, <<"app", "create_wss", "reload">>}) \cup
  {<<"app", "ask_ice", "on_ice_info">>, <<"app", "join", "stop_reload">>,
   <<"app", "ask_ice", "stop_reload">>, <<"app", "create_wss", "set_wss">>,
   <<"app", "create_wss", "stop_reload">>, <<"app", "offers", "on_msg">>,
   <<"worker", "none", "on_connected">>, <<"worker", "none", "on_close">>,
   <<"worker", "none", "on_msg">>, <<"aux", "turn", "heartbeat">>,
   <<"aux", "turn", "clear_stop">>, <<"aux", "heartbeat", "on_ice_info">>,
   <<"aux", "clear_stop", "clear_reloading">>, <<"pc", "none", "send">>}

AppRtcMay == Types' /\ AppRtcInv' /\ Simulates

\* A step of one thread, but for what it means for the socket and the reload task.
LEMMA AppRtcGoes ==
  ASSUME Types, AppRtcInv, NEW t \in Threads, Advances(t, AppRtcOrder),
         First(todo'[t]) = "none" \/ <<t, Step(t), First(todo'[t])>> \in AppRtcMoves,
         \/ Step(t) # "none"
         \/ t = "pc" /\ api = "running"
         \/ t = "worker" /\ wss.socket,
         wss' \in [wss_client : BOOLEAN, socket : BOOLEAN, is_initiator : BOOLEAN,
                   ice_reloading : BOOLEAN, ice_reload_stop : BOOLEAN],
         late' \subseteq late \cup {<<"worker", "wss_client">>, <<"aux", "wss_client">>}
  PROVE  Types' /\ Framed(AppRtcOrder)' /\ AppRtcShape' /\ AppRtcCalls' /\ Simulates
<1>1. /\ Framed(AppRtcOrder) /\ AppRtcShape /\ AppRtcCalls /\ AppRtcSocket /\ AppRtcReload
      /\ "app" \in Threads /\ "pc" \in Threads /\ "worker" \in Threads /\ "aux" \in Threads /\ "old" \in Threads
  BY DEF AppRtcInv, Threads
<1>2. /\ Types' /\ api' = api
      /\ \A u \in Threads \ {t} : First(todo'[u]) = Step(u)
  BY DEF Advances, Alone, Step
<1>3. t \in {"app", "pc", "worker", "aux", "old"} /\ (api \in {"idle", "running"} => Step("app") = "none")
  BY <1>1 DEF Threads, Framed
<1>4. t = "worker" => api # "idle"
  BY <1>1, <1>3 DEF AppRtcSocket
<1>5. First(todo'[t]) \in Callbacks => Step(t) \notin Callbacks /\ api # "idle"
  <2>1. CASE t = "worker"
    BY <1>4, <2>1 DEF AppRtcMoves, AppRtcOrder, Callbacks
  <2>2. CASE t = "app"
    BY <1>3, <2>2 DEF AppRtcMoves, AppRtcOrder, Callbacks
  <2>3. CASE t = "aux"
    BY <1>1, <2>3 DEF AppRtcMoves, AppRtcOrder, Callbacks, AppRtcReload
  <2>4. CASE t = "pc"
    BY <2>4 DEF AppRtcMoves, AppRtcOrder, Callbacks
  <2>5. CASE t = "old"
    BY <2>5 DEF AppRtcMoves, AppRtcOrder, Callbacks
  <2> QED
    BY <1>3, <2>1, <2>2, <2>3, <2>4, <2>5
<1>6. First(todo'[t]) = "on_connected" => "on_ice_info" \in told
  <2>1. First(todo'[t]) = "on_connected" => t = "worker" /\ Step(t) = "none"
    BY DEF AppRtcMoves, AppRtcOrder
  <2> QED
    BY <1>1, <2>1 DEF AppRtcSocket
<1>7. Framed(AppRtcOrder)' /\ Simulates
  BY <1>1, <1>3, <1>5, <1>6, Advanced
<1>8. AppRtcShape'
  <2>1. First(todo'[t]) = "none" \/ <<t, Step(t), First(todo'[t])>> \in AppRtcMoves
    OBVIOUS
  <2>2. t = "worker" => Step("worker")' \in {"none", "on_connected", "on_close", "on_msg", "told"}
    BY <2>1 DEF AppRtcMoves, AppRtcOrder, Step
  <2>3. t = "aux" => Step("aux")' \in {"none", "turn", "heartbeat", "on_ice_info", "clear_stop",
                                       "clear_reloading"}
    BY <2>1 DEF AppRtcMoves, AppRtcOrder, Step
  <2>4. t = "pc" => Step("pc")' \in {"none", "send"}
    BY <2>1 DEF AppRtcMoves, AppRtcOrder, Step
  <2> QED
    BY <1>1, <1>2, <2>2, <2>3, <2>4 DEF AppRtcShape, Step
<1>9. AppRtcCalls'
  <2>1. told \subseteq told' /\ (Step(t) = "on_ice_info" => "on_ice_info" \in told')
    BY DEF Advances, Callbacks
  <2>2. CASE t # "app"
    BY <1>1, <1>2, <2>1, <2>2 DEF AppRtcCalls, Calls, Step
  <2>3. CASE t = "app"
    <3>1. <<"app", Step("app"), Step("app")'>> \in AppRtcMoves \/ Step("app")' = "none"
      BY <2>3 DEF Step
    <3> QED
      BY <1>1, <1>2, <2>1, <2>3, <3>1 DEF AppRtcCalls, Calls, AppRtcMoves, AppRtcOrder
  <2> QED
    BY <2>2, <2>3
<1> QED
  BY <1>2, <1>7, <1>8, <1>9

\* A step that does not concern the life of the socket and of the reload task.
LEMMA AppRtcPlain ==
  ASSUME Types, AppRtcInv, NEW t \in Threads, Advances(t, AppRtcOrder),
         First(todo'[t]) = "none" \/ <<t, Step(t), First(todo'[t])>> \in AppRtcMoves,
         \/ Step(t) # "none"
         \/ t = "pc" /\ api = "running"
         \/ t = "worker" /\ wss.socket,
         Step(t) \notin {"set_wss", "stop_wss", "destroy_wss", "flag", "wait_reload"},
         wss' \in [wss_client : BOOLEAN, socket : BOOLEAN, is_initiator : BOOLEAN,
                   ice_reloading : BOOLEAN, ice_reload_stop : BOOLEAN],
         UNCHANGED <<wss.wss_client, wss.socket>>,
         wss.ice_reloading => wss'.ice_reloading \/ First(todo'["aux"]) = "none",
         late' \subseteq late \cup {<<"worker", "wss_client">>, <<"aux", "wss_client">>}
  PROVE  AppRtcMay
<1>1. Types' /\ Framed(AppRtcOrder)' /\ AppRtcShape' /\ AppRtcCalls' /\ Simulates
  BY AppRtcGoes
<1>2. /\ Framed(AppRtcOrder) /\ AppRtcShape /\ AppRtcCalls /\ AppRtcSocket /\ AppRtcReload
      /\ "app" \in Threads /\ "worker" \in Threads /\ "aux" \in Threads /\ api' = api
      /\ \A u \in Threads \ {t} : First(todo'[u]) = Step(u)
      /\ told \subseteq told'
  BY DEF AppRtcInv, Threads, Advances, Alone, Step
<1>3. CASE t = "app"
  <2>1. <<"app", Step("app"), Step("app")'>> \in AppRtcMoves \/ Step("app")' = "none"
    BY <1>3 DEF Step
  <2>2. Step("worker")' = Step("worker") /\ Step("aux")' = Step("aux")
    BY <1>2, <1>3 DEF Step
  <2>3. AppRtcSocket'
    BY <1>2, <1>3, <2>1, <2>2 DEF AppRtcSocket, AppRtcMoves, AppRtcOrder
  <2>4. AppRtcReload'
    BY <1>2, <1>3, <2>1, <2>2 DEF AppRtcReload, AppRtcMoves, AppRtcOrder, Step
  <2> QED
    BY <1>1, <2>3, <2>4 DEF AppRtcMay, AppRtcInv
<1>4. CASE t # "app"
  <2>1. Step("app")' = Step("app")
    BY <1>2, <1>4 DEF Step
  <2>2. Step("worker")' # "none" => Step("worker") # "none" \/ wss.socket
    BY <1>2 DEF Step
  <2>3. Step("aux")' # "none" => Step("aux") # "none"
    BY <1>2 DEF Step
  <2>4. AppRtcSocket'
    BY <1>2, <2>1, <2>2 DEF AppRtcSocket
  <2>5. AppRtcReload'
    BY <1>2, <2>1, <2>3 DEF AppRtcReload, Step
  <2> QED
    BY <1>1, <2>4, <2>5 DEF AppRtcMay, AppRtcInv
<1> QED
  BY <1>3, <1>4

\* What follows a step.
LEMMA AppRtcFollows ==
  /\ \A a \in {"free", "started"} : \A b : <<"app", a, b>> \notin AppRtcOrder
  /\ \A t \in Threads, c \in Callbacks : \A b : <<t, CallOf[c], b>> \notin AppRtcOrder
  /\ \A b : <<"app", "ask_ice", b>> \in AppRtcOrder => <<"app", "on_ice_info", b>> \in AppRtcOrder
  /\ \A b : <<"app", "create_wss", b>> \in AppRtcOrder => <<"app", "set_wss", b>> \in AppRtcOrder
  /\ \A b : <<"app", "offers", b>> \in AppRtcOrder => <<"app", "on_msg", b>> \in AppRtcOrder
  /\ \A t, a, b : <<t, a, b>> \in AppRtcOrder /\ a \notin {"ask_ice", "create_wss"}
                  => <<t, a, b>> \in AppRtcMoves
BY DEF AppRtcOrder, AppRtcMoves, Threads, Callbacks, CallOf

LEMMA AppRtcFrame ==
  ASSUME Types, AppRtcInv, FrameNext, UNCHANGED wss  PROVE AppRtcMay
<1>0. /\ Framed(AppRtcOrder) /\ AppRtcShape /\ AppRtcCalls /\ AppRtcSocket /\ AppRtcReload
      /\ "app" \in Threads /\ "pc" \in Threads /\ "worker" \in Threads /\ "aux" \in Threads /\ "old" \in Threads
      /\ wss \in [wss_client : BOOLEAN, socket : BOOLEAN, is_initiator : BOOLEAN,
                  ice_reloading : BOOLEAN, ice_reload_stop : BOOLEAN]
  BY DEF AppRtcInv, AppRtcShape, Threads
<1>1. CASE StartReturns
  <2>1. Step("app") = "started"
    BY <1>0, <1>1, Firsts DEF StartReturns, Steps
  <2>2. api = "starting" /\ "on_ice_info" \in told
    BY <1>0, <2>1 DEF AppRtcCalls, Calls, Framed, Types
  <2>3. /\ Types' /\ Framed(AppRtcOrder)' /\ Simulates /\ Alone("app")
        /\ First(todo'["app"]) = "none" /\ api' = "running" /\ UNCHANGED <<told, late>>
    BY <1>0, <1>1, <2>2, Started, AppRtcFollows
  <2>4. AppRtcShape' /\ AppRtcCalls' /\ AppRtcSocket' /\ AppRtcReload'
    BY <1>0, <2>1, <2>2, <2>3
       DEF AppRtcShape, AppRtcCalls, AppRtcSocket, AppRtcReload, Calls, Alone, Step
  <2> QED
    BY <2>3, <2>4 DEF AppRtcMay, AppRtcInv
<1>2. CASE Free
  <2>1. Step("app") = "free"
    BY <1>0, <1>2, Firsts DEF Free, Steps
  <2>2. /\ api \in {"starting", "stopping"} /\ Step("worker") = "none" /\ Step("aux") = "none"
        /\ ~wss.socket
    BY <1>0, <2>1 DEF AppRtcSocket, AppRtcReload, Framed, Types
  <2>3. Outside
    BY <1>0, <2>1, <2>2 DEF Outside, AppRtcShape, Threads, Callbacks
  <2>4. /\ Types' /\ Framed(AppRtcOrder)' /\ Simulates /\ Alone("app")
        /\ First(todo'["app"]) = "none" /\ api' = "idle" /\ UNCHANGED <<told, late>>
    BY <1>0, <1>2, <2>2, <2>3, Frees, AppRtcFollows
  <2>5. AppRtcShape' /\ AppRtcCalls' /\ AppRtcSocket' /\ AppRtcReload'
    BY <1>0, <2>1, <2>2, <2>4
       DEF AppRtcShape, AppRtcCalls, AppRtcSocket, AppRtcReload, Calls, Alone, Step
  <2> QED
    BY <2>4, <2>5 DEF AppRtcMay, AppRtcInv
<1>3. ASSUME NEW t \in Threads, Call(t)  PROVE AppRtcMay
  <2>1. /\ First(todo'[t]) \in Callbacks /\ Step(t) = CallOf[First(todo'[t])]
    BY <1>0, <1>3, CallsBack, AppRtcFollows
  <2> QED
    BY <1>0, <2>1
       DEF AppRtcShape, AppRtcCalls, Calls, Framed, Threads, Types, Callbacks, CallOf
<1>4. ASSUME NEW t \in Threads, CallbackReturns(t)  PROVE AppRtcMay
  <2>1. /\ Advances(t, AppRtcOrder) /\ late' = late /\ Step(t) \in Callbacks
        /\ First(todo'[t]) = "none" \/ <<t, Step(t), First(todo'[t])>> \in AppRtcOrder
    BY <1>0, <1>4, ComesBack
  <2>2. Step(t) \notin {"set_wss", "stop_wss", "destroy_wss", "flag", "wait_reload", "none",
                       "ask_ice", "create_wss"}
    BY <2>1 DEF Callbacks
  <2>3. First(todo'[t]) = "none" \/ <<t, Step(t), First(todo'[t])>> \in AppRtcMoves
    BY <2>1, <2>2, AppRtcFollows
  <2> QED
    BY <1>0, <2>1, <2>2, <2>3, AppRtcPlain
<1> QED
  BY <1>1, <1>2, <1>3, <1>4 DEF FrameNext

LEMMA AppRtcSteps ==
  ASSUME Types, AppRtcInv, AppRtcNext  PROVE AppRtcMay
<1>0. /\ Framed(AppRtcOrder) /\ AppRtcShape /\ AppRtcCalls /\ AppRtcSocket /\ AppRtcReload
      /\ "app" \in Threads /\ "pc" \in Threads /\ "worker" \in Threads /\ "aux" \in Threads /\ "old" \in Threads
      /\ wss \in [wss_client : BOOLEAN, socket : BOOLEAN, is_initiator : BOOLEAN,
                  ice_reloading : BOOLEAN, ice_reload_stop : BOOLEAN]
  BY DEF AppRtcInv, AppRtcShape, Threads
<1> DEFINE giveup == <<"stop_reload", "wait_reload", "free">>
<1>00. Path(AppRtcOrder, "app", giveup) /\ First(giveup) = "stop_reload"
  BY DEF Path, First, AppRtcOrder, Steps
<1> HIDE DEF giveup
<1>01. /\ Step("app") \in {"stop_wss", "destroy_wss"} => api = "stopping"
       /\ Step("app") \in {"set_wss", "flag"} => api = "starting"
  BY <1>0 DEF AppRtcCalls, Calls, Framed, Types
<1>1. CASE wss_signal_start
  <2> DEFINE p == <<"join", "ask_ice", "create_wss", "reload", "flag", "offers", "started">>
  <2>1. /\ CallStart(p) /\ api = "idle"
        /\ wss' \in [wss_client : {FALSE}, socket : {FALSE}, is_initiator : BOOLEAN,
                     ice_reloading : {FALSE}, ice_reload_stop : {FALSE}]
    BY <1>1 DEF wss_signal_start, CallStart
  <2>2. Path(AppRtcOrder, "app", p) /\ First(p) = "join"
    BY DEF Path, First, AppRtcOrder, Steps
  <2> HIDE DEF p
  <2>3. Step("app") = "none" /\ Step("worker") = "none" /\ Step("aux") = "none" /\ Step("pc") = "none"
        /\ Step("old") = "none"
    BY <1>0, <2>1 DEF AppRtcShape, AppRtcSocket, AppRtcReload, Framed
  <2>4. Outside
    BY <2>3 DEF Outside, Threads, Callbacks
  <2>5. /\ Types' /\ Framed(AppRtcOrder)' /\ Simulates /\ Alone("app")
        /\ First(todo'["app"]) = "join" /\ api' = "starting" /\ told' = {} /\ late' = late
    BY <1>0, <2>1, <2>2, <2>4, Starts DEF Callbacks
  <2>6. AppRtcShape' /\ AppRtcCalls' /\ AppRtcSocket' /\ AppRtcReload'
    BY <1>0, <2>1, <2>3, <2>5
       DEF AppRtcShape, AppRtcCalls, AppRtcSocket, AppRtcReload, Calls, Alone, Step
  <2> QED
    BY <2>5, <2>6 DEF AppRtcMay, AppRtcInv
<1>2. CASE GetRoom
  <2>1. Own /\ wss' = wss /\ late' = late
    BY <1>2 DEF GetRoom
  <2>2. CASE At("app", "join") /\ GoOn("app", <<>>)
    <3>1. /\ Advances("app", AppRtcOrder) /\ Step("app") = "join"
          /\ First(todo'["app"]) = "none" \/ <<"app", "join", First(todo'["app"])>> \in AppRtcMoves
      BY <1>0, <2>1, <2>2, GoesOn, AppRtcFollows DEF Steps, Callbacks
    <3> QED
      BY <1>0, <2>1, <3>1, AppRtcPlain
  <2>3. CASE At("app", "ask_ice") /\ GoOn("app", <<"on_ice_info">>)
    <3>1. "ask_ice" \in Steps \ Callbacks /\ "on_ice_info" \in Steps
      BY DEF Steps, Callbacks
    <3>2. /\ Advances("app", AppRtcOrder) /\ Step("app") = "ask_ice"
          /\ First(todo'["app"]) = "on_ice_info"
      BY <1>0, <2>1, <2>3, <3>1, GoesTo, AppRtcFollows
    <3>3. <<"app", "ask_ice", "on_ice_info">> \in AppRtcMoves
      BY DEF AppRtcMoves
    <3> QED
      BY <1>0, <2>1, <3>2, <3>3, AppRtcPlain
  <2>4. CASE (At("app", "join") \/ At("app", "ask_ice")) /\ Instead("app", giveup)
    <3>1. Step("app") \in {"join", "ask_ice"}
      BY <1>0, <2>4, Firsts DEF Steps
    <3>2. Advances("app", AppRtcOrder) /\ First(todo'["app"]) = "stop_reload"
      BY <1>0, <1>00, <2>1, <2>4, <3>1, Jumps DEF Callbacks
    <3>3. <<"app", Step("app"), "stop_reload">> \in AppRtcMoves
      BY <3>1 DEF AppRtcMoves
    <3> QED
      BY <1>0, <2>1, <3>1, <3>2, <3>3, AppRtcPlain
  <2> QED
    BY <1>2, <2>2, <2>3, <2>4 DEF GetRoom, giveup
<1>3. CASE create_wss
  <2>1. Own /\ late' = late /\ At("app", "create_wss") /\ Step("app") = "create_wss"
    BY <1>0, <1>3, Firsts DEF create_wss, Steps
  <2>2. CASE wss' = [wss EXCEPT !.socket = TRUE] /\ GoOn("app", <<"set_wss">>)
    <3>1. "create_wss" \in Steps \ Callbacks /\ "set_wss" \in Steps
      BY DEF Steps, Callbacks
    <3>2. Advances("app", AppRtcOrder) /\ First(todo'["app"]) = "set_wss"
      BY <1>0, <2>1, <2>2, <3>1, GoesTo, AppRtcFollows
    <3>3. <<"app", "create_wss", "set_wss">> \in AppRtcMoves
      BY DEF AppRtcMoves
    <3>4. Types' /\ Framed(AppRtcOrder)' /\ AppRtcShape' /\ AppRtcCalls' /\ Simulates
      BY <1>0, <2>1, <2>2, <3>2, <3>3, AppRtcGoes
    <3>5. "on_ice_info" \in told /\ api = "starting"
      BY <1>0, <2>1 DEF AppRtcCalls, Calls, Framed, Types
    <3>6. AppRtcSocket' /\ AppRtcReload'
      BY <1>0, <2>1, <2>2, <3>2, <3>5
         DEF AppRtcSocket, AppRtcReload, Advances, Alone, Step, Callbacks
    <3> QED
      BY <3>4, <3>6 DEF AppRtcMay, AppRtcInv
  <2>3. CASE wss' = wss /\ Instead("app", giveup)
    <3>1. Advances("app", AppRtcOrder) /\ First(todo'["app"]) = "stop_reload"
      BY <1>0, <1>00, <2>1, <2>3, Jumps DEF Callbacks
    <3>2. <<"app", "create_wss", "stop_reload">> \in AppRtcMoves
      BY DEF AppRtcMoves
    <3> QED
      BY <1>0, <2>1, <2>3, <3>1, <3>2, AppRtcPlain
  <2> QED
    BY <1>3, <2>2, <2>3 DEF create_wss, giveup
<1>4. CASE SetWss
  <2>1. /\ At("app", "set_wss") /\ GoOn("app", <<>>) /\ Own /\ late' = late
        /\ wss' = [wss EXCEPT !.wss_client = TRUE]
    BY <1>4 DEF SetWss
  <2>2. /\ Advances("app", AppRtcOrder) /\ Step("app") = "set_wss"
        /\ First(todo'["app"]) = "none" \/ <<"app", "set_wss", First(todo'["app"])>> \in AppRtcMoves
    BY <1>0, <2>1, GoesOn, AppRtcFollows DEF Steps, Callbacks
  <2>3. Types' /\ Framed(AppRtcOrder)' /\ AppRtcShape' /\ AppRtcCalls' /\ Simulates
    BY <1>0, <2>1, <2>2, AppRtcGoes
  <2>4. AppRtcSocket'
    BY <1>0, <1>01, <2>1, <2>2 DEF AppRtcSocket, Advances, Alone, Step, Callbacks, AppRtcMoves, AppRtcOrder
  <2>5. AppRtcReload'
    BY <1>0, <1>01, <2>1, <2>2 DEF AppRtcReload, Advances, Alone, Step, Callbacks, AppRtcMoves, AppRtcOrder
  <2> QED
    BY <2>3, <2>4, <2>5 DEF AppRtcMay, AppRtcInv
<1>5. CASE start_reload_ice_timer /\ At("app", "reload")
  <2>1. /\ Own /\ late' = late /\ wss' = wss /\ Step("app") = "reload" /\ Step("aux") = "none"
    BY <1>0, <1>5, Firsts DEF start_reload_ice_timer, Steps
  <2> DEFINE p == Tail(todo["app"])
             r == <<"turn">>
  <2>2. /\ Path(AppRtcOrder, "aux", r) /\ First(r) = "turn"
    BY OnePath DEF First, Steps
  <2>3. /\ Path(AppRtcOrder, "app", p)
        /\ First(p) = "none" \/ <<"app", "reload", First(p)>> \in AppRtcOrder
    <3>1. todo["app"] # <<>> /\ todo["app"][1] = "reload" /\ Path(AppRtcOrder, "app", todo["app"])
      BY <1>0, <2>1 DEF Step, First, Framed
    <3> QED
      BY <3>1, TailPath DEF First
  <2>4. todo' = [todo EXCEPT !["app"] = p, !["aux"] = r]
    BY <1>5, <2>1 DEF start_reload_ice_timer, At, Step, First
  <2> HIDE DEF p, r
  <2>5. /\ todo'["app"] = p /\ todo'["aux"] = r
        /\ \A u \in Threads \ {"app", "aux"} : todo'[u] = todo[u]
        /\ todo' \in [Threads -> Seq(Steps)]
    BY <1>0, <2>2, <2>3, <2>4 DEF Types, Path
  <2>6. /\ Step("app")' \in {"none", "flag"} /\ Step("aux")' = "turn"
        /\ \A u \in Threads \ {"app", "aux"} : Step(u)' = Step(u)
    BY <2>2, <2>3, <2>5 DEF Step, AppRtcOrder
  <2>7. Types' /\ Kept /\ freed' = freed
    BY <2>1, <2>5 DEF Types, Own, Kept
  <2>8. Simulates
    <3>1. \A t \in Threads : Being(First(todo'[t])) = Being(Step(t))
      BY <2>1, <2>6 DEF Being, Step, Callbacks
    <3> QED
      BY <2>7, <3>1, Quietly
  <2>9. \A u \in Threads : Path(AppRtcOrder, u, todo'[u])
    BY <1>0, <2>2, <2>3, <2>5 DEF Framed
  <2>10. api = "starting"
    BY <1>0, <2>1 DEF Framed, AppRtcCalls, Calls, Types
  <2>11. Framed(AppRtcOrder)'
    BY <1>0, <2>6, <2>7, <2>9, <2>10 DEF Framed, Kept, Threads
  <2>12. AppRtcShape' /\ AppRtcCalls'
    BY <1>0, <2>1, <2>6, <2>7, <2>10 DEF AppRtcShape, AppRtcCalls, Calls, Kept, Threads
  <2>13. AppRtcSocket'
    BY <1>0, <2>1, <2>6, <2>7, <2>10 DEF AppRtcSocket, Kept, Threads
  <2>14. AppRtcReload'
    BY <1>0, <2>1, <2>6, <2>7, <2>10 DEF AppRtcReload, Kept, Threads
  <2> QED
    BY <2>7, <2>8, <2>11, <2>12, <2>13, <2>14 DEF AppRtcMay, AppRtcInv
<1>6. CASE start_reload_ice_timer /\ At("app", "flag")
  <2>1. /\ At("app", "flag") /\ GoOn("app", <<>>) /\ Own /\ late' = late
        /\ wss' = [wss EXCEPT !.ice_reloading = TRUE]
    <3>1. Step("app") # "reload"
      BY <1>0, <1>6, Firsts DEF Steps
    <3>2. ~At("app", "reload")
      BY <1>0, <3>1, Firsts DEF Steps
    <3> QED
      BY <1>6, <3>2 DEF start_reload_ice_timer
  <2>2. /\ Advances("app", AppRtcOrder) /\ Step("app") = "flag"
        /\ First(todo'["app"]) = "none" \/ <<"app", "flag", First(todo'["app"])>> \in AppRtcMoves
    BY <1>0, <2>1, GoesOn, AppRtcFollows DEF Steps, Callbacks
  <2>3. Types' /\ Framed(AppRtcOrder)' /\ AppRtcShape' /\ AppRtcCalls' /\ Simulates
    BY <1>0, <2>1, <2>2, AppRtcGoes
  <2>4. AppRtcSocket'
    BY <1>0, <1>01, <2>1, <2>2 DEF AppRtcSocket, Advances, Alone, Step, Callbacks, AppRtcMoves, AppRtcOrder
  <2>5. AppRtcReload'
    BY <1>0, <1>01, <2>1, <2>2 DEF AppRtcReload, Advances, Alone, Step, Callbacks, AppRtcMoves, AppRtcOrder
  <2> QED
    BY <2>3, <2>4, <2>5 DEF AppRtcMay, AppRtcInv
<1>7. CASE wss_send_offer_msg
  <2>1. Own /\ wss' = wss /\ late' = late /\ At("app", "offers")
    BY <1>7 DEF wss_send_offer_msg
  <2>2. CASE GoOn("app", <<>>)
    <3>1. /\ Advances("app", AppRtcOrder) /\ Step("app") = "offers"
          /\ First(todo'["app"]) = "none" \/ <<"app", "offers", First(todo'["app"])>> \in AppRtcMoves
      BY <1>0, <2>1, <2>2, GoesOn, AppRtcFollows DEF Steps, Callbacks
    <3> QED
      BY <1>0, <2>1, <3>1, AppRtcPlain
  <2>3. CASE GoOn("app", <<"on_msg">>)
    <3>1. "offers" \in Steps \ Callbacks /\ "on_msg" \in Steps
      BY DEF Steps, Callbacks
    <3>2. /\ Advances("app", AppRtcOrder) /\ Step("app") = "offers"
          /\ First(todo'["app"]) = "on_msg"
      BY <1>0, <2>1, <2>3, <3>1, GoesTo, AppRtcFollows
    <3>3. <<"app", "offers", "on_msg">> \in AppRtcMoves
      BY DEF AppRtcMoves
    <3> QED
      BY <1>0, <2>1, <3>2, <3>3, AppRtcPlain
  <2> QED
    BY <1>7, <2>2, <2>3 DEF wss_send_offer_msg
<1>8. CASE on_connect
  <2> DEFINE p == <<"on_connected">>
  <2>1. /\ Instead("worker", p) /\ Own /\ wss' = wss /\ wss.socket
        /\ late' \subseteq late \cup {<<"worker", "wss_client">>}
        /\ Step("worker") = "none"
    BY <1>0, <1>8, Firsts DEF on_connect, Uses, Steps
  <2>2. Path(AppRtcOrder, "worker", p) /\ First(p) = "on_connected"
    BY OnePath DEF First, Steps, Callbacks
  <2> HIDE DEF p
  <2>3. Advances("worker", AppRtcOrder) /\ First(todo'["worker"]) = "on_connected"
    BY <1>0, <2>1, <2>2, Jumps DEF Callbacks
  <2>4. <<"worker", "none", "on_connected">> \in AppRtcMoves
    BY DEF AppRtcMoves
  <2> QED
    BY <1>0, <2>1, <2>3, <2>4, AppRtcPlain
<1>9. CASE on_close
  <2> DEFINE p == <<"on_close">>
  <2>1. /\ Instead("worker", p) /\ Own /\ wss' = wss /\ wss.socket /\ late' = late
        /\ Step("worker") = "none"
    BY <1>0, <1>9, Firsts DEF on_close, Uses, Steps
  <2>2. Path(AppRtcOrder, "worker", p) /\ First(p) = "on_close"
    BY OnePath DEF First, Steps, Callbacks
  <2> HIDE DEF p
  <2>3. Advances("worker", AppRtcOrder) /\ First(todo'["worker"]) = "on_close"
    BY <1>0, <2>1, <2>2, Jumps DEF Callbacks
  <2>4. <<"worker", "none", "on_close">> \in AppRtcMoves
    BY DEF AppRtcMoves
  <2> QED
    BY <1>0, <2>1, <2>3, <2>4, AppRtcPlain
<1>10. CASE on_text
  <2> DEFINE p == <<"on_msg", "told">>
  <2>1. /\ Instead("worker", p) /\ Own /\ wss' = wss /\ wss.socket /\ late' = late
        /\ Step("worker") = "none"
    BY <1>0, <1>10, Firsts DEF on_text, Uses, Steps
  <2>2. Path(AppRtcOrder, "worker", p) /\ First(p) = "on_msg"
    BY DEF Path, First, AppRtcOrder, Steps, Callbacks
  <2> HIDE DEF p
  <2>3. Advances("worker", AppRtcOrder) /\ First(todo'["worker"]) = "on_msg"
    BY <1>0, <2>1, <2>2, Jumps DEF Callbacks
  <2>4. <<"worker", "none", "on_msg">> \in AppRtcMoves
    BY DEF AppRtcMoves
  <2> QED
    BY <1>0, <2>1, <2>3, <2>4, AppRtcPlain
<1>11. CASE AfterText
  <2> DEFINE p == <<>>
  <2>1. /\ Instead("worker", p) /\ Own /\ wss' \in {wss, [wss EXCEPT !.is_initiator = TRUE]}
        /\ late' = IF freed THEN late \cup {<<"worker", "sig">>} ELSE late
        /\ Step("worker") = "told"
    BY <1>0, <1>11, Firsts DEF AfterText, Uses, Steps
  <2>2. Path(AppRtcOrder, "worker", p) /\ First(p) = "none"
    BY DEF First, Path
  <2> HIDE DEF p
  <2>3. Advances("worker", AppRtcOrder) /\ First(todo'["worker"]) = "none"
    BY <1>0, <2>1, <2>2, Jumps DEF Callbacks
  <2>4. late' = late
    BY <1>0, <2>1 DEF AppRtcSocket, Framed
  <2> QED
    BY <1>0, <2>1, <2>3, <2>4, AppRtcPlain
<1>12. CASE reload_ice_task
  <2>1. /\ Own /\ wss' = wss /\ late' = IF freed THEN late \cup {<<"aux", "sig">>} ELSE late
        /\ Step("aux") = "turn"
    BY <1>0, <1>12, Firsts DEF reload_ice_task, Uses, Steps
  <2>2. late' = late
    BY <1>0, <2>1 DEF AppRtcReload, Framed
  <2>3. ASSUME NEW b \in {"heartbeat", "clear_stop"}, Instead("aux", <<b>>)  PROVE AppRtcMay
    <3>1. Path(AppRtcOrder, "aux", <<b>>) /\ First(<<b>>) = b
      BY OnePath DEF First, Steps
    <3>2. Advances("aux", AppRtcOrder) /\ First(todo'["aux"]) = b
      BY <1>0, <2>1, <2>3, <3>1, Jumps DEF Callbacks
    <3>3. <<"aux", "turn", b>> \in AppRtcMoves
      BY DEF AppRtcMoves
    <3> QED
      BY <1>0, <2>1, <2>2, <3>2, <3>3, AppRtcPlain
  <2> QED
    BY <1>12, <2>3 DEF reload_ice_task
<1>13. CASE Heartbeat
  <2> DEFINE p == <<"on_ice_info", "turn">>
  <2>1. /\ Instead("aux", p) /\ Own /\ wss' = wss
        /\ late' \subseteq late \cup {<<"aux", "wss_client">>}
        /\ Step("aux") = "heartbeat"
    BY <1>0, <1>13, Firsts DEF Heartbeat, Uses, Steps
  <2>2. Path(AppRtcOrder, "aux", p) /\ First(p) = "on_ice_info"
    BY DEF Path, First, AppRtcOrder, Steps, Callbacks
  <2> HIDE DEF p
  <2>3. Advances("aux", AppRtcOrder) /\ First(todo'["aux"]) = "on_ice_info"
    BY <1>0, <2>1, <2>2, Jumps DEF Callbacks
  <2>4. <<"aux", "heartbeat", "on_ice_info">> \in AppRtcMoves
    BY DEF AppRtcMoves
  <2> QED
    BY <1>0, <2>1, <2>3, <2>4, AppRtcPlain
<1>14. CASE ReloadEnds /\ At("aux", "turn")
  <2> DEFINE p == <<"clear_stop">>
  <2>1. /\ Instead("aux", p) /\ Own /\ wss' = wss
        /\ late' = IF freed THEN late \cup {<<"aux", "sig">>} ELSE late
        /\ Step("aux") = "turn"
    BY <1>0, <1>14, Firsts DEF ReloadEnds, Uses, Steps
  <2>2. Path(AppRtcOrder, "aux", p) /\ First(p) = "clear_stop"
    BY OnePath DEF First, Steps, Callbacks
  <2> HIDE DEF p
  <2>3. Advances("aux", AppRtcOrder) /\ First(todo'["aux"]) = "clear_stop"
    BY <1>0, <2>1, <2>2, Jumps DEF Callbacks
  <2>4. late' = late
    BY <1>0, <2>1 DEF AppRtcReload, Framed
  <2>5. <<"aux", "turn", "clear_stop">> \in AppRtcMoves
    BY DEF AppRtcMoves
  <2> QED
    BY <1>0, <2>1, <2>3, <2>4, <2>5, AppRtcPlain
<1>15. CASE ReloadEnds /\ At("aux", "clear_stop")
  <2> DEFINE p == <<"clear_reloading">>
  <2>1. /\ Instead("aux", p) /\ Own /\ wss' = [wss EXCEPT !.ice_reload_stop = FALSE]
        /\ late' = IF freed THEN late \cup {<<"aux", "sig">>} ELSE late
        /\ Step("aux") = "clear_stop"
    BY <1>0, <1>15, Firsts DEF ReloadEnds, Uses, Steps
  <2>2. Path(AppRtcOrder, "aux", p) /\ First(p) = "clear_reloading"
    BY OnePath DEF First, Steps, Callbacks
  <2> HIDE DEF p
  <2>3. Advances("aux", AppRtcOrder) /\ First(todo'["aux"]) = "clear_reloading"
    BY <1>0, <2>1, <2>2, Jumps DEF Callbacks
  <2>4. late' = late
    BY <1>0, <2>1 DEF AppRtcReload, Framed
  <2>5. <<"aux", "clear_stop", "clear_reloading">> \in AppRtcMoves
    BY DEF AppRtcMoves
  <2> QED
    BY <1>0, <2>1, <2>3, <2>4, <2>5, AppRtcPlain
<1>16. CASE ReloadEnds /\ At("aux", "clear_reloading")
  <2> DEFINE p == <<>>
  <2>1. /\ Instead("aux", p) /\ Own /\ wss' = [wss EXCEPT !.ice_reloading = FALSE]
        /\ late' = IF freed THEN late \cup {<<"aux", "sig">>} ELSE late
        /\ Step("aux") = "clear_reloading"
    BY <1>0, <1>16, Firsts DEF ReloadEnds, Uses, Steps
  <2>2. Path(AppRtcOrder, "aux", p) /\ First(p) = "none"
    BY DEF First, Path
  <2> HIDE DEF p
  <2>3. Advances("aux", AppRtcOrder) /\ First(todo'["aux"]) = "none"
    BY <1>0, <2>1, <2>2, Jumps DEF Callbacks
  <2>4. late' = late
    BY <1>0, <2>1 DEF AppRtcReload, Framed
  <2> QED
    BY <1>0, <2>1, <2>3, <2>4, AppRtcPlain
<1>17. CASE wss_signal_stop
  <2> DEFINE p == <<"stop_wss", "destroy_wss", "stop_reload", "wait_reload", "free">>
  <2>1. CallStop(p) /\ wss' = wss
    BY <1>17 DEF wss_signal_stop
  <2>2. Path(AppRtcOrder, "app", p) /\ First(p) = "stop_wss"
    BY DEF First, Steps, Path, AppRtcOrder
  <2> HIDE DEF p
  <2>3. /\ Types' /\ Framed(AppRtcOrder)' /\ Simulates /\ Alone("app")
        /\ First(todo'["app"]) = "stop_wss" /\ api = "running" /\ api' = "stopping"
        /\ UNCHANGED <<told, late>> /\ Step("app") = "none"
    BY <1>0, <2>1, <2>2, Stops DEF Callbacks
  <2>4. AppRtcShape' /\ AppRtcCalls' /\ AppRtcSocket' /\ AppRtcReload'
    BY <1>0, <2>1, <2>3
       DEF AppRtcShape, AppRtcCalls, AppRtcSocket, AppRtcReload, Calls, Alone, Step
  <2> QED
    BY <2>3, <2>4 DEF AppRtcMay, AppRtcInv
<1>18. CASE destroy_wss /\ At("app", "stop_wss")
  <2>1. /\ At("app", "stop_wss") /\ GoOn("app", <<>>) /\ Own /\ late' = late
        /\ wss' = [wss EXCEPT !.socket = FALSE]
    <3>1. Step("app") # "destroy_wss"
      BY <1>0, <1>18, Firsts DEF Steps
    <3>2. ~At("app", "destroy_wss")
      BY <1>0, <3>1, Firsts DEF Steps
    <3> QED
      BY <1>18, <3>2 DEF destroy_wss
  <2>2. /\ Advances("app", AppRtcOrder) /\ Step("app") = "stop_wss"
        /\ First(todo'["app"]) = "none" \/ <<"app", "stop_wss", First(todo'["app"])>> \in AppRtcMoves
    BY <1>0, <2>1, GoesOn, AppRtcFollows DEF Steps, Callbacks
  <2>3. Types' /\ Framed(AppRtcOrder)' /\ AppRtcShape' /\ AppRtcCalls' /\ Simulates
    BY <1>0, <2>1, <2>2, AppRtcGoes
  <2>4. AppRtcSocket'
    BY <1>0, <1>01, <2>1, <2>2 DEF AppRtcSocket, Advances, Alone, Step, Callbacks, AppRtcMoves, AppRtcOrder
  <2>5. AppRtcReload'
    BY <1>0, <1>01, <2>1, <2>2 DEF AppRtcReload, Advances, Alone, Step, Callbacks, AppRtcMoves, AppRtcOrder
  <2> QED
    BY <2>3, <2>4, <2>5 DEF AppRtcMay, AppRtcInv
<1>19. CASE destroy_wss /\ At("app", "destroy_wss")
  <2>1. /\ At("app", "destroy_wss") /\ GoOn("app", <<>>) /\ Own /\ late' = late
        /\ wss' = [wss EXCEPT !.wss_client = FALSE] /\ Step("worker") = "none"
    <3>1. Step("app") # "stop_wss"
      BY <1>0, <1>19, Firsts DEF Steps
    <3>2. ~At("app", "stop_wss")
      BY <1>0, <3>1, Firsts DEF Steps
    <3> QED
      BY <1>0, <1>19, <3>2, Firsts DEF destroy_wss
  <2>2. /\ Advances("app", AppRtcOrder) /\ Step("app") = "destroy_wss"
        /\ First(todo'["app"]) = "none" \/ <<"app", "destroy_wss", First(todo'["app"])>> \in AppRtcMoves
    BY <1>0, <2>1, GoesOn, AppRtcFollows DEF Steps, Callbacks
  <2>3. Types' /\ Framed(AppRtcOrder)' /\ AppRtcShape' /\ AppRtcCalls' /\ Simulates
    BY <1>0, <2>1, <2>2, AppRtcGoes
  <2>4. AppRtcSocket'
    BY <1>0, <1>01, <2>1, <2>2 DEF AppRtcSocket, Advances, Alone, Step, Callbacks, AppRtcMoves, AppRtcOrder
  <2>5. AppRtcReload'
    BY <1>0, <1>01, <2>1, <2>2 DEF AppRtcReload, Advances, Alone, Step, Callbacks, AppRtcMoves, AppRtcOrder
  <2> QED
    BY <2>3, <2>4, <2>5 DEF AppRtcMay, AppRtcInv
<1>20. CASE stop_reload_ice_timer
  <2>1. /\ At("app", "stop_reload") /\ GoOn("app", <<>>) /\ Own /\ late' = late
        /\ wss' = [wss EXCEPT !.ice_reload_stop = TRUE]
    BY <1>20 DEF stop_reload_ice_timer
  <2>2. /\ Advances("app", AppRtcOrder) /\ Step("app") = "stop_reload"
        /\ First(todo'["app"]) = "none" \/ <<"app", "stop_reload", First(todo'["app"])>> \in AppRtcMoves
    BY <1>0, <2>1, GoesOn, AppRtcFollows DEF Steps, Callbacks
  <2> QED
    BY <1>0, <2>1, <2>2, AppRtcPlain
<1>21. CASE WaitReload
  <2>1. /\ At("app", "wait_reload") /\ GoOn("app", <<>>) /\ Own /\ late' = late
        /\ wss' = wss /\ ~wss.ice_reloading
    BY <1>21 DEF WaitReload
  <2>2. /\ Advances("app", AppRtcOrder) /\ Step("app") = "wait_reload"
        /\ First(todo'["app"]) = "none" \/ <<"app", "wait_reload", First(todo'["app"])>> \in AppRtcMoves
    BY <1>0, <2>1, GoesOn, AppRtcFollows DEF Steps, Callbacks
  <2>3. Types' /\ Framed(AppRtcOrder)' /\ AppRtcShape' /\ AppRtcCalls' /\ Simulates
    BY <1>0, <2>1, <2>2, AppRtcGoes
  <2>4. AppRtcSocket'
    BY <1>0, <1>01, <2>1, <2>2 DEF AppRtcSocket, Advances, Alone, Step, Callbacks, AppRtcMoves, AppRtcOrder
  <2>5. AppRtcReload'
    BY <1>0, <1>01, <2>1, <2>2 DEF AppRtcReload, Advances, Alone, Step, Callbacks, AppRtcMoves, AppRtcOrder
  <2> QED
    BY <2>3, <2>4, <2>5 DEF AppRtcMay, AppRtcInv
<1>22. CASE CallSend("send") /\ UNCHANGED wss
  <2>1. /\ Advances("pc", AppRtcOrder) /\ First(todo'["pc"]) = "send" /\ Step("pc") = "none"
        /\ api = "running" /\ late' = late
    BY <1>0, <1>22, Sends
  <2>2. <<"pc", "none", "send">> \in AppRtcMoves
    BY DEF AppRtcMoves
  <2> QED
    BY <1>0, <1>22, <2>1, <2>2, AppRtcPlain
<1>23. CASE wss_signal_send_msg
  <2>1. /\ At("pc", "send") /\ GoOn("pc", <<>>) /\ Own /\ wss' = wss
        /\ late' = IF ~wss.wss_client THEN late \cup {<<"pc", "wss_client">>} ELSE late
    BY <1>23 DEF wss_signal_send_msg, Uses
  <2>2. /\ Advances("pc", AppRtcOrder) /\ Step("pc") = "send"
        /\ First(todo'["pc"]) = "none" \/ <<"pc", "send", First(todo'["pc"])>> \in AppRtcMoves
    BY <1>0, <2>1, GoesOn, AppRtcFollows DEF Steps, Callbacks
  <2>3. late' = late
    BY <1>0, <2>1, <2>2 DEF AppRtcSocket, Framed
  <2> QED
    BY <1>0, <2>1, <2>2, <2>3, AppRtcPlain
<1>24. CASE FrameNext /\ UNCHANGED wss
  BY <1>24, AppRtcFrame
<1>25. start_reload_ice_timer => At("app", "reload") \/ At("app", "flag")
  BY DEF start_reload_ice_timer
<1>26. ReloadEnds => At("aux", "turn") \/ At("aux", "clear_stop") \/ At("aux", "clear_reloading")
  BY DEF ReloadEnds
<1>27. destroy_wss => At("app", "stop_wss") \/ At("app", "destroy_wss")
  BY DEF destroy_wss
<1> QED
  BY <1>1, <1>2, <1>3, <1>4, <1>5, <1>6, <1>7, <1>8, <1>9, <1>10, <1>11, <1>12, <1>13, <1>14,
     <1>15, <1>16, <1>17, <1>18, <1>19, <1>20, <1>21, <1>22, <1>23, <1>24, <1>25, <1>26, <1>27
     DEF AppRtcNext

-----------------------------------------------------------------------------
(* WHIP *)

WhipMoves ==
  (WhipOrder \ {<<"app", "call_on_ice_info", "call_on_connected">>}) \cup
  {<<"app", "call_on_ice_info", "on_ice_info">>, <<"app", "call_on_connected", "on_connected">>,
   <<"app", "call_on_close", "on_close">>, <<"pc", "none", "send">>, <<"pc", "send", "sent">>,
   <<"pc", "sent", "on_ice_info">>, <<"pc", "sent", "call_on_msg">>,
   <<"pc", "call_on_msg", "on_msg">>}

WhipMay == Types' /\ WhipInv' /\ Simulates

\* There is no thread but the callers', so nothing can be left behind.
LEMMA WhipGoes ==
  ASSUME Types, WhipInv, NEW t \in Threads, Advances(t, WhipOrder),
         late' \subseteq late \cup {<<"pc", "ice_servers">>},
         First(todo'[t]) = "none" \/ <<t, Step(t), First(todo'[t])>> \in WhipMoves,
         Step(t) # "none" \/ (t = "pc" /\ api = "running")
  PROVE  WhipMay
<1>1. /\ Framed(WhipOrder) /\ WhipShape /\ WhipCalls
      /\ "app" \in Threads /\ "pc" \in Threads /\ "worker" \in Threads /\ "aux" \in Threads /\ "old" \in Threads
  BY DEF WhipInv, Threads
<1>2. /\ Types' /\ api' = api
      /\ \A u \in Threads \ {t} : First(todo'[u]) = Step(u)
  BY DEF Advances, Alone, Step
<1>3. t \in {"app", "pc"} /\ (api \in {"idle", "running"} => Step("app") = "none")
  BY <1>1 DEF Threads, Framed, WhipShape
<1>4. First(todo'[t]) \in Callbacks => Step(t) \notin Callbacks /\ api # "idle"
  BY <1>1, <1>3 DEF WhipMoves, WhipOrder, Callbacks, Framed
<1>5. First(todo'[t]) = "on_connected" => "on_ice_info" \in told
  BY <1>1, <1>3 DEF WhipMoves, WhipOrder, WhipCalls, Calls
<1>6. Framed(WhipOrder)' /\ Simulates
  BY <1>1, <1>3, <1>4, <1>5, Advanced
<1>7. WhipShape'
  BY <1>1, <1>2, <1>3 DEF WhipShape, WhipMoves, WhipOrder, Step
<1>8. WhipCalls'
  <2>1. told \subseteq told' /\ (Step(t) = "on_ice_info" => "on_ice_info" \in told')
    BY DEF Advances, Callbacks
  <2>2. CASE t = "pc"
    BY <1>1, <1>2, <2>1, <2>2 DEF WhipCalls, Calls, Step
  <2>3. CASE t = "app"
    <3>1. <<"app", Step("app"), Step("app")'>> \in WhipMoves \/ Step("app")' = "none"
      BY <2>3 DEF Step
    <3> QED
      BY <1>1, <1>2, <2>1, <2>3, <3>1 DEF WhipCalls, Calls, WhipMoves, WhipOrder
  <2> QED
    BY <1>3, <2>2, <2>3
<1> QED
  BY <1>2, <1>6, <1>7, <1>8 DEF WhipMay, WhipInv

\* What follows a step.
LEMMA WhipFollows ==
  /\ \A a \in {"free", "started"} : \A b : <<"app", a, b>> \notin WhipOrder
  /\ \A t \in Threads, c \in Callbacks : \A b :
       <<t, CallOf[c], b>> \in WhipOrder => <<t, c, b>> \in WhipOrder
  /\ \A b : <<"pc", "send", b>> \notin WhipOrder
  /\ \A t, a, b : <<t, a, b>> \in WhipOrder /\ <<t, a>> # <<"app", "call_on_ice_info">>
                  => <<t, a, b>> \in WhipMoves
BY DEF WhipOrder, WhipMoves, Threads, Callbacks, CallOf

LEMMA WhipFrame ==
  ASSUME Types, WhipInv, FrameNext  PROVE WhipMay
<1>0. /\ Framed(WhipOrder) /\ WhipShape /\ WhipCalls
      /\ "app" \in Threads /\ "pc" \in Threads /\ "worker" \in Threads /\ "aux" \in Threads /\ "old" \in Threads
  BY DEF WhipInv, Threads
<1>1. CASE StartReturns
  <2>1. Step("app") = "started"
    BY <1>0, <1>1, Firsts DEF StartReturns, Steps
  <2>2. api = "starting" /\ "on_ice_info" \in told
    BY <1>0, <2>1 DEF WhipCalls, Calls, Framed, Types
  <2>3. /\ Types' /\ Framed(WhipOrder)' /\ Simulates /\ Alone("app")
        /\ First(todo'["app"]) = "none" /\ api' = "running" /\ UNCHANGED <<told, late>>
    BY <1>0, <1>1, <2>2, Started, WhipFollows
  <2>4. WhipShape' /\ WhipCalls'
    BY <1>0, <2>1, <2>2, <2>3 DEF WhipShape, WhipCalls, Calls, Alone, Step
  <2> QED
    BY <2>3, <2>4 DEF WhipMay, WhipInv
<1>2. CASE Free
  <2>1. Step("app") = "free"
    BY <1>0, <1>2, Firsts DEF Free, Steps
  <2>2. api \in {"starting", "stopping"} /\ Step("pc") = "none"
    BY <1>0, <2>1 DEF Framed, Types
  <2>3. Outside
    BY <1>0, <2>1, <2>2 DEF Outside, WhipShape, Threads, Callbacks
  <2>4. /\ Types' /\ Framed(WhipOrder)' /\ Simulates /\ Alone("app")
        /\ First(todo'["app"]) = "none" /\ api' = "idle" /\ UNCHANGED <<told, late>>
    BY <1>0, <1>2, <2>2, <2>3, Frees, WhipFollows
  <2>5. WhipShape' /\ WhipCalls'
    BY <1>0, <2>1, <2>2, <2>4 DEF WhipShape, WhipCalls, Calls, Alone, Step
  <2> QED
    BY <2>4, <2>5 DEF WhipMay, WhipInv
<1>3. ASSUME NEW t \in Threads, Call(t)  PROVE WhipMay
  <2>1. /\ Advances(t, WhipOrder) /\ late' = late /\ First(todo'[t]) \in Callbacks
        /\ Step(t) = CallOf[First(todo'[t])]
    BY <1>0, <1>3, CallsBack, WhipFollows
  <2>2. Step(t) # "none"
    BY <2>1 DEF Callbacks, CallOf
  <2>3. <<t, Step(t), First(todo'[t])>> \in WhipMoves
    BY <1>0, <2>1
       DEF Threads, WhipShape, Framed, WhipCalls, Calls, Types, Callbacks, CallOf, WhipMoves
  <2> QED
    BY <1>0, <2>1, <2>2, <2>3, WhipGoes
<1>4. ASSUME NEW t \in Threads, CallbackReturns(t)  PROVE WhipMay
  <2>1. /\ Advances(t, WhipOrder) /\ late' = late /\ Step(t) \in Callbacks
        /\ First(todo'[t]) = "none" \/ <<t, Step(t), First(todo'[t])>> \in WhipOrder
    BY <1>0, <1>4, ComesBack
  <2>2. Step(t) \notin {"none", "call_on_ice_info"}
    BY <2>1 DEF Callbacks
  <2>3. First(todo'[t]) = "none" \/ <<t, Step(t), First(todo'[t])>> \in WhipMoves
    BY <2>1, <2>2, WhipFollows
  <2> QED
    BY <1>0, <2>1, <2>2, <2>3, WhipGoes
<1> QED
  BY <1>1, <1>2, <1>3, <1>4 DEF FrameNext

LEMMA WhipSteps ==
  ASSUME Types, WhipInv, WhipNext  PROVE WhipMay
<1>0. /\ Framed(WhipOrder) /\ WhipShape /\ WhipCalls
      /\ "app" \in Threads /\ "pc" \in Threads /\ "worker" \in Threads /\ "aux" \in Threads /\ "old" \in Threads
  BY DEF WhipInv, Threads
<1>1. CASE whip_signaling_start
  <2> DEFINE p == <<"call_on_ice_info", "call_on_connected", "started">>
  <2>1. CallStart(p) /\ api = "idle"
    BY <1>1 DEF whip_signaling_start, CallStart
  <2>2. Path(WhipOrder, "app", p) /\ First(p) = "call_on_ice_info"
    BY DEF Path, First, WhipOrder, Steps
  <2> HIDE DEF p
  <2>3. Outside
    BY <1>0, <2>1 DEF Outside, WhipShape, Framed, Threads, Callbacks
  <2>4. /\ Types' /\ Framed(WhipOrder)' /\ Simulates /\ Alone("app")
        /\ First(todo'["app"]) = "call_on_ice_info" /\ api' = "starting" /\ told' = {}
        /\ late' = late
    BY <1>0, <2>1, <2>2, <2>3, Starts DEF Callbacks
  <2>5. WhipShape' /\ WhipCalls'
    BY <1>0, <2>4 DEF WhipShape, WhipCalls, Calls, Alone, Step
  <2> QED
    BY <2>4, <2>5 DEF WhipMay, WhipInv
<1>2. CASE PostOffer
  <2>1. /\ At("pc", "send") /\ Own /\ (GoOn("pc", <<>>) \/ GoOn("pc", <<"sent">>))
        /\ late' \subseteq late \cup {<<"pc", "ice_servers">>}
    BY <1>2 DEF PostOffer, Uses
  <2>2. CASE GoOn("pc", <<>>)
    <3>1. /\ Advances("pc", WhipOrder) /\ Step("pc") = "send"
          /\ First(todo'["pc"]) = "none" \/ <<"pc", "send", First(todo'["pc"])>> \in WhipMoves
      BY <1>0, <2>1, <2>2, GoesOn, WhipFollows DEF Steps, Callbacks
    <3> QED
      BY <1>0, <2>1, <3>1, WhipGoes
  <2>3. CASE GoOn("pc", <<"sent">>)
    <3>1. "send" \in Steps \ Callbacks /\ "sent" \in Steps
      BY DEF Steps, Callbacks
    <3>2. Advances("pc", WhipOrder) /\ Step("pc") = "send" /\ First(todo'["pc"]) = "sent"
      BY <1>0, <2>1, <2>3, <3>1, GoesTo, WhipFollows
    <3>3. <<"pc", "send", "sent">> \in WhipMoves
      BY DEF WhipMoves
    <3> QED
      BY <1>0, <2>1, <3>2, <3>3, WhipGoes
  <2> QED
    BY <2>1, <2>2, <2>3
<1>3. CASE TakeAnswer
  <2> DEFINE p == <<"on_ice_info", "call_on_msg", "sdp_done">>
             r == <<"call_on_msg", "sdp_done">>
  <2>1. /\ Own /\ late' = late /\ Step("pc") = "sent"
        /\ GoOn("pc", p) \/ GoOn("pc", r)
    BY <1>0, <1>3, Firsts DEF TakeAnswer, Steps
  <2>2. /\ Path(WhipOrder, "pc", p) /\ First(p) = "on_ice_info" /\ p # <<>>
        /\ p[Len(p)] = "sdp_done" /\ p[1] = "on_ice_info"
    BY DEF Path, First, WhipOrder, Steps, Callbacks
  <2>3. /\ Path(WhipOrder, "pc", r) /\ First(r) = "call_on_msg" /\ r # <<>>
        /\ r[Len(r)] = "sdp_done" /\ r[1] = "call_on_msg"
    BY DEF Path, First, WhipOrder, Steps
  <2> HIDE DEF p, r
  <2>4. ASSUME NEW q \in {p, r}, GoOn("pc", q)  PROVE WhipMay
    <3>1. /\ Path(WhipOrder, "pc", q) /\ q # <<>> /\ q[Len(q)] = "sdp_done"
          /\ q[1] \in {"on_ice_info", "call_on_msg"}
      BY <2>2, <2>3
    <3>2. \A b : <<"pc", "sent", b>> \notin WhipOrder
      BY DEF WhipOrder
    <3>3. Path(WhipOrder, "pc", todo["pc"])
      BY <1>0 DEF Framed
    <3>4. Alone("pc") /\ Path(WhipOrder, "pc", todo'["pc"]) /\ First(todo'["pc"]) = q[1]
      BY <1>0, <2>1, <2>4, <3>1, <3>2, <3>3, ListGoesTo
    <3>5. Advances("pc", WhipOrder)
      BY <1>0, <2>1, <3>4, Owned DEF Callbacks
    <3>6. <<"pc", "sent", q[1]>> \in WhipMoves
      BY <3>1 DEF WhipMoves
    <3> QED
      BY <1>0, <2>1, <3>4, <3>5, <3>6, WhipGoes
  <2> QED
    BY <2>1, <2>4
<1>4. CASE SdpDone
  <2>1. At("pc", "sdp_done") /\ GoOn("pc", <<>>) /\ Own /\ late' = late
    BY <1>4 DEF SdpDone
  <2>2. /\ Advances("pc", WhipOrder) /\ Step("pc") = "sdp_done"
        /\ First(todo'["pc"]) = "none" \/ <<"pc", "sdp_done", First(todo'["pc"])>> \in WhipMoves
    BY <1>0, <2>1, GoesOn, WhipFollows DEF Steps, Callbacks
  <2> QED
    BY <1>0, <2>1, <2>2, WhipGoes
<1>5. CASE PatchOffer
  <2>1. At("pc", "send") /\ GoOn("pc", <<>>) /\ Own /\ late' = late
    BY <1>5 DEF PatchOffer
  <2>2. /\ Advances("pc", WhipOrder) /\ Step("pc") = "send"
        /\ First(todo'["pc"]) = "none" \/ <<"pc", "send", First(todo'["pc"])>> \in WhipMoves
    BY <1>0, <2>1, GoesOn, WhipFollows DEF Steps, Callbacks
  <2> QED
    BY <1>0, <2>1, <2>2, WhipGoes
<1>6. CASE whip_signaling_stop
  <2> DEFINE p == <<"delete", "call_on_close", "free">>
  <2>1. CallStop(p)
    BY <1>6 DEF whip_signaling_stop
  <2>2. Path(WhipOrder, "app", p) /\ First(p) = "delete"
    BY DEF First, Steps, Path, WhipOrder
  <2> HIDE DEF p
  <2>3. /\ Types' /\ Framed(WhipOrder)' /\ Simulates /\ Alone("app")
        /\ First(todo'["app"]) = "delete" /\ api = "running" /\ api' = "stopping"
        /\ UNCHANGED <<told, late>> /\ Step("app") = "none"
    BY <1>0, <2>1, <2>2, Stops DEF Callbacks
  <2>4. WhipShape' /\ WhipCalls'
    BY <1>0, <2>3 DEF WhipShape, WhipCalls, Calls, Alone, Step
  <2> QED
    BY <2>3, <2>4 DEF WhipMay, WhipInv
<1>7. CASE DeleteResource
  <2>1. At("app", "delete") /\ GoOn("app", <<>>) /\ Own /\ late' = late
    BY <1>7 DEF DeleteResource
  <2>2. /\ Advances("app", WhipOrder) /\ Step("app") = "delete"
        /\ First(todo'["app"]) = "none" \/ <<"app", "delete", First(todo'["app"])>> \in WhipMoves
    BY <1>0, <2>1, GoesOn, WhipFollows DEF Steps, Callbacks
  <2> QED
    BY <1>0, <2>1, <2>2, WhipGoes
<1>8. CASE CallSend("send")
  <2>1. /\ Advances("pc", WhipOrder) /\ First(todo'["pc"]) = "send" /\ Step("pc") = "none"
        /\ api = "running" /\ late' = late
    BY <1>0, <1>8, Sends
  <2>2. <<"pc", "none", "send">> \in WhipMoves
    BY DEF WhipMoves
  <2> QED
    BY <1>0, <2>1, <2>2, WhipGoes
<1>9. CASE FrameNext
  BY <1>9, WhipFrame
<1> QED
  BY <1>1, <1>2, <1>3, <1>4, <1>5, <1>6, <1>7, <1>8, <1>9 DEF WhipNext

-----------------------------------------------------------------------------
(* HTTP *)

HttpMoves == (HttpOrder \ {<<"app", "copy_cfg", "call_on_connected">>}) \cup
  {<<"app", "serve", "free">>, <<"app", "copy_cfg", "on_ice_info">>,
   <<"app", "call_on_connected", "on_connected">>, <<"app", "check_stream", "set_stopping">>,
   <<"worker", "none", "on_msg">>, <<"worker", "call_on_msg", "on_msg">>, <<"pc", "none", "send">>}

HttpMay == Types' /\ HttpInv' /\ Simulates

HttpFields ==
  /\ DOMAIN http = {"server", "queue", "queued", "connected", "stopping", "req"}
  /\ http = [f \in DOMAIN http |-> http[f]]

\* The task of the event stream runs on from session to session.
LEMMA StreamPath ==
  ASSUME NEW s \in Seq(Stream)
  PROVE  /\ Path(HttpOrder, "aux", s) /\ Path(HttpOrder, "old", s)
         /\ First(s) \in Stream \cup {"none"}
<1>1. s \in Seq(Steps)
  BY DEF Stream, Steps
<1>2. \A i \in 1..Len(s) - 1 : s[i] \in Stream /\ s[i + 1] \in Stream
  OBVIOUS
<1>3. \A a, b \in Stream : <<"aux", a, b>> \in HttpOrder /\ <<"old", a, b>> \in HttpOrder
  BY DEF HttpOrder
<1>4. First(s) \in Stream \cup {"none"}
  BY DEF First
<1> QED
  BY <1>1, <1>2, <1>3, <1>4 DEF Path

LEMMA HttpStreams ==
  ASSUME Types, HttpInv, Own, todo' \in [Threads -> Seq(Steps)],
         \A u \in Threads \ {"aux", "old"} : todo'[u] = todo[u],
         todo'["aux"] \in Seq(Stream), todo'["old"] \in Seq(Stream),
         HttpFields', UNCHANGED <<http.server, http.queue>>,
         late' \subseteq late \cup {<<"aux", "queue">>}
  PROVE  HttpMay
<1>1. /\ Framed(HttpOrder) /\ HttpShape /\ HttpCalls /\ HttpServes
      /\ "app" \in Threads /\ "pc" \in Threads /\ "worker" \in Threads
      /\ "aux" \in Threads /\ "old" \in Threads
  BY DEF HttpInv, Threads
<1>2. Types' /\ Kept /\ freed' = freed
  BY DEF Types, Own, Kept
<1>3. \A u \in Threads \ {"aux", "old"} : Step(u)' = Step(u)
  BY DEF Step
<1>4. \A u \in {"aux", "old"} :
        Step(u) \in Stream \cup {"none"} /\ First(todo'[u]) \in Stream \cup {"none"}
  BY <1>1, StreamPath DEF HttpShape, Step
<1>5. Simulates
  <2>1. \A u \in Threads : Being(First(todo'[u])) = Being(Step(u))
    BY <1>3, <1>4 DEF Being, Step, Stream, Callbacks
  <2> QED  BY <1>2, <2>1, Quietly
<1>6. Framed(HttpOrder)'
  <2>1. \A u \in Threads : Path(HttpOrder, u, todo'[u])
    BY <1>1, StreamPath DEF Framed
  <2> QED  BY <1>1, <1>2, <1>3, <2>1 DEF Framed, Kept
<1>7. HttpShape'
  BY <1>1, <1>3 DEF HttpShape, HttpFields
<1>8. HttpCalls' /\ HttpServes'
  BY <1>1, <1>2, <1>3 DEF HttpCalls, Calls, HttpServes, Kept
<1> QED
  BY <1>2, <1>5, <1>6, <1>7, <1>8 DEF HttpMay, HttpInv

\* A step of another thread, but for what it means for the server's task.
LEMMA HttpGoes ==
  ASSUME Types, HttpInv, NEW t \in Threads \ {"aux", "old"}, Advances(t, HttpOrder),
         First(todo'[t]) = "none" \/ <<t, Step(t), First(todo'[t])>> \in HttpMoves,
         \/ Step(t) # "none"
         \/ t = "pc" /\ api = "running"
         \/ t = "worker" /\ http.server,
         HttpFields', late' \subseteq late \cup {<<"worker", "sig_cfg">>}
  PROVE  Types' /\ Framed(HttpOrder)' /\ HttpShape' /\ HttpCalls' /\ Simulates
<1>1. /\ Framed(HttpOrder) /\ HttpShape /\ HttpCalls /\ HttpServes
      /\ "app" \in Threads /\ "pc" \in Threads /\ "worker" \in Threads /\ "aux" \in Threads /\ "old" \in Threads
  BY DEF HttpInv, Threads
<1>2. /\ Types' /\ api' = api /\ todo'["aux"] = todo["aux"] /\ todo'["old"] = todo["old"]
      /\ \A u \in Threads \ {t} : First(todo'[u]) = Step(u)
  BY <1>1 DEF Advances, Alone, Step
<1>3. t \in {"app", "pc", "worker"} /\ (api \in {"idle", "running"} => Step("app") = "none")
  BY <1>1 DEF Threads, Framed
<1>4. t = "worker" => api # "idle"
  BY <1>1, <1>3 DEF HttpServes
<1>5. First(todo'[t]) \in Callbacks => Step(t) \notin Callbacks /\ api # "idle"
  BY <1>3, <1>4 DEF HttpMoves, HttpOrder, Callbacks
<1>6. First(todo'[t]) = "on_connected" => "on_ice_info" \in told
  BY <1>1, <1>3 DEF HttpMoves, HttpOrder, HttpCalls, Calls
<1>7. Framed(HttpOrder)' /\ Simulates
  BY <1>1, <1>3, <1>5, <1>6, Advanced
<1>8. HttpShape'
  <2>1. First(todo'[t]) = "none" \/ <<t, Step(t), First(todo'[t])>> \in HttpMoves
    OBVIOUS
  <2>2. t = "worker" => Step("worker")' \in {"none", "on_msg", "call_on_msg"}
    BY <2>1 DEF HttpMoves, HttpOrder, Step
  <2>3. t = "pc" => Step("pc")' \in {"none", "send"}
    BY <2>1 DEF HttpMoves, HttpOrder, Step
  <2> QED
    BY <1>1, <1>2, <2>2, <2>3 DEF HttpShape, HttpFields, Step
<1>9. HttpCalls'
  <2>1. told \subseteq told' /\ (Step(t) = "on_ice_info" => "on_ice_info" \in told')
    BY DEF Advances, Callbacks
  <2>2. CASE t # "app"
    BY <1>1, <1>2, <2>1, <2>2 DEF HttpCalls, Calls, Step
  <2>3. CASE t = "app"
    <3>1. <<"app", Step("app"), Step("app")'>> \in HttpMoves \/ Step("app")' = "none"
      BY <2>3 DEF Step
    <3> QED
      BY <1>1, <1>2, <2>1, <2>3, <3>1 DEF HttpCalls, Calls, HttpMoves, HttpOrder
  <2> QED
    BY <2>2, <2>3
<1> QED
  BY <1>2, <1>7, <1>8, <1>9

\* A step that does not concern the server's life and the queue's.
LEMMA HttpPlain ==
  ASSUME Types, HttpInv, NEW t \in Threads \ {"aux", "old"}, Advances(t, HttpOrder),
         First(todo'[t]) = "none" \/ <<t, Step(t), First(todo'[t])>> \in HttpMoves,
         \/ Step(t) # "none"
         \/ t = "pc" /\ api = "running"
         \/ t = "worker" /\ http.server,
         Step(t) \notin {"serve", "ssl_stop", "ssl_wait", "queue_delete", "free"},
         HttpFields', UNCHANGED <<http.server, http.queue>>,
         late' \subseteq late \cup {<<"worker", "sig_cfg">>}
  PROVE  HttpMay
<1>1. Types' /\ Framed(HttpOrder)' /\ HttpShape' /\ HttpCalls' /\ Simulates
  BY HttpGoes
<1>2. /\ HttpServes /\ "app" \in Threads /\ "worker" \in Threads /\ api' = api
      /\ \A u \in Threads \ {t} : First(todo'[u]) = Step(u)
  BY DEF HttpInv, Threads, Advances, Alone, Step
<1>3. CASE t = "app"
  <2>1. <<"app", Step("app"), Step("app")'>> \in HttpMoves \/ Step("app")' = "none"
    BY <1>3 DEF Step
  <2>2. Step("worker")' = Step("worker")
    BY <1>2, <1>3 DEF Step
  <2>3. api # "idle" /\ api # "running"
    BY <1>3 DEF HttpInv, Framed
  <2>4. HttpServes'
    BY <1>2, <1>3, <2>1, <2>2, <2>3 DEF HttpServes, HttpMoves, HttpOrder
  <2> QED
    BY <1>1, <2>4 DEF HttpMay, HttpInv
<1>4. CASE t # "app"
  <2>1. Step("app")' = Step("app")
    BY <1>2, <1>4 DEF Step
  <2>2. Step("worker")' # "none" => Step("worker") # "none" \/ http.server
    BY <1>2 DEF Step
  <2>3. HttpServes'
    BY <1>2, <2>1, <2>2 DEF HttpServes
  <2> QED
    BY <1>1, <2>3 DEF HttpMay, HttpInv
<1> QED
  BY <1>3, <1>4

\* What follows a step.
LEMMA HttpFollows ==
  /\ \A a \in {"free", "started"} : \A b : <<"app", a, b>> \notin HttpOrder
  /\ \A t \in Threads \ {"aux", "old"}, c \in Callbacks : \A b :
       <<t, CallOf[c], b>> \in HttpOrder => <<t, c, b>> \in HttpOrder
  /\ \A b : <<"app", "copy_cfg", b>> \in HttpOrder => <<"app", "on_ice_info", b>> \in HttpOrder
  /\ \A b : <<"app", "check_stream", b>> \in HttpOrder => <<"app", "wait_stream", b>> \in HttpOrder
  /\ \A t, a, b : <<t, a, b>> \in HttpOrder /\ a # "copy_cfg" => <<t, a, b>> \in HttpMoves
BY DEF HttpOrder, HttpMoves, Threads, Callbacks, CallOf, Stream

LEMMA HttpFrame ==
  ASSUME Types, HttpInv, FrameNext, UNCHANGED http  PROVE HttpMay
<1>0. /\ Framed(HttpOrder) /\ HttpShape /\ HttpCalls /\ HttpServes /\ HttpFields'
      /\ "app" \in Threads /\ "pc" \in Threads /\ "worker" \in Threads /\ "aux" \in Threads /\ "old" \in Threads
      /\ Step("aux") \in Stream \cup {"none"} /\ Step("old") \in Stream \cup {"none"}
  BY StreamPath DEF HttpInv, HttpShape, HttpFields, Threads, Step
<1>1. CASE StartReturns
  <2>1. Step("app") = "started"
    BY <1>0, <1>1, Firsts DEF StartReturns, Steps
  <2>2. api = "starting" /\ "on_ice_info" \in told
    BY <1>0, <2>1 DEF HttpCalls, Calls, Framed, Types
  <2>3. /\ Types' /\ Framed(HttpOrder)' /\ Simulates /\ Alone("app")
        /\ First(todo'["app"]) = "none" /\ api' = "running" /\ UNCHANGED <<told, late>>
    BY <1>0, <1>1, <2>2, Started, HttpFollows
  <2>4. HttpShape' /\ HttpCalls' /\ HttpServes'
    BY <1>0, <2>1, <2>2, <2>3 DEF HttpShape, HttpCalls, HttpServes, Calls, Alone, Step
  <2> QED
    BY <2>3, <2>4 DEF HttpMay, HttpInv
<1>2. CASE Free
  <2>1. Step("app") = "free"
    BY <1>0, <1>2, Firsts DEF Free, Steps
  <2>2. api \in {"starting", "stopping"} /\ Step("worker") = "none" /\ ~http.server
    BY <1>0, <2>1 DEF HttpServes, Framed, Types
  <2>3. Outside
    BY <1>0, <2>1, <2>2 DEF Outside, HttpShape, Threads, Callbacks, Stream
  <2>4. /\ Types' /\ Framed(HttpOrder)' /\ Simulates /\ Alone("app")
        /\ First(todo'["app"]) = "none" /\ api' = "idle" /\ UNCHANGED <<told, late>>
    BY <1>0, <1>2, <2>2, <2>3, Frees, HttpFollows
  <2>5. HttpShape' /\ HttpCalls' /\ HttpServes'
    BY <1>0, <2>1, <2>2, <2>4 DEF HttpShape, HttpCalls, HttpServes, Calls, Alone, Step
  <2> QED
    BY <2>4, <2>5 DEF HttpMay, HttpInv
<1>3. ASSUME NEW t \in Threads, Call(t)  PROVE HttpMay
  <2>1. t \notin {"aux", "old"}
    <3>1. PICK c \in Callbacks : At(t, CallOf[c])
      BY <1>3 DEF Call
    <3>2. CallOf[c] \in Steps /\ CallOf[c] \notin Stream \cup {"none"}
      BY DEF CallOf, Steps, Callbacks, Stream
    <3> QED
      BY <1>0, <3>1, <3>2, Firsts
  <2>2. /\ Advances(t, HttpOrder) /\ late' = late /\ First(todo'[t]) \in Callbacks
        /\ Step(t) = CallOf[First(todo'[t])]
    <3>1. \A c \in Callbacks : \A b :
            <<t, CallOf[c], b>> \in HttpOrder => <<t, c, b>> \in HttpOrder
      BY <2>1, HttpFollows
    <3> QED
      BY <1>0, <1>3, <3>1, CallsBack
  <2>3. Step(t) \notin {"serve", "ssl_stop", "ssl_wait", "queue_delete", "free", "none"}
    BY <2>2 DEF Callbacks, CallOf
  <2>4. <<t, Step(t), First(todo'[t])>> \in HttpMoves
    BY <1>0, <2>1, <2>2
       DEF Threads, HttpShape, Framed, HttpCalls, Calls, Types, Callbacks, CallOf, HttpMoves
  <2> QED
    BY <1>0, <2>1, <2>2, <2>3, <2>4, HttpPlain
<1>4. ASSUME NEW t \in Threads, CallbackReturns(t)  PROVE HttpMay
  <2>1. /\ Advances(t, HttpOrder) /\ late' = late /\ Step(t) \in Callbacks
        /\ First(todo'[t]) = "none" \/ <<t, Step(t), First(todo'[t])>> \in HttpOrder
    BY <1>0, <1>4, ComesBack
  <2>2. Step(t) \notin {"serve", "ssl_stop", "ssl_wait", "queue_delete", "free", "none", "copy_cfg"}
    BY <2>1 DEF Callbacks
  <2>3. t \notin {"aux", "old"}
    BY <1>0, <2>1 DEF Callbacks, Stream
  <2>4. First(todo'[t]) = "none" \/ <<t, Step(t), First(todo'[t])>> \in HttpMoves
    BY <2>1, <2>2, HttpFollows
  <2> QED
    BY <1>0, <2>1, <2>2, <2>3, <2>4, HttpPlain
<1> QED
  BY <1>1, <1>2, <1>3, <1>4 DEF FrameNext

LEMMA HttpSteps ==
  ASSUME Types, HttpInv, HttpNext  PROVE HttpMay
<1>0. /\ Framed(HttpOrder) /\ HttpShape /\ HttpCalls /\ HttpServes /\ HttpFields
      /\ "app" \in Threads /\ "pc" \in Threads /\ "worker" \in Threads /\ "aux" \in Threads /\ "old" \in Threads
      /\ Step("aux") \in Stream \cup {"none"} /\ todo["aux"] \in Seq(Stream)
      /\ Step("old") \in Stream \cup {"none"} /\ todo["old"] \in Seq(Stream)
      /\ todo \in [Threads -> Seq(Steps)]
  BY StreamPath DEF HttpInv, HttpShape, HttpFields, Threads, Step, Types
<1>1. CASE webrtc_http_server_init
  <2> DEFINE p == <<"serve", "copy_cfg", "call_on_connected", "started">>
  <2>1. CallStart(p) /\ api = "idle" /\ http' = [http EXCEPT !.queue = TRUE, !.queued = 0]
    BY <1>1 DEF webrtc_http_server_init, CallStart
  <2>2. Path(HttpOrder, "app", p) /\ First(p) = "serve"
    BY DEF Path, First, HttpOrder, Steps
  <2> HIDE DEF p
  <2>3. /\ Step("app") = "none" /\ Step("worker") = "none" /\ Step("pc") = "none"
        /\ http.server = FALSE
    BY <1>0, <2>1 DEF HttpServes, Framed
  <2>4. Outside
    BY <1>0, <2>3 DEF Outside, Threads, Callbacks, Stream
  <2>5. /\ Types' /\ Framed(HttpOrder)' /\ Simulates /\ Alone("app")
        /\ First(todo'["app"]) = "serve" /\ api' = "starting" /\ told' = {} /\ late' = late
    BY <1>0, <2>1, <2>2, <2>4, Starts DEF Callbacks
  <2>6. HttpFields' /\ ~http'.server /\ http'.queue
    BY <1>0, <2>1, <2>3 DEF HttpFields
  <2>7. HttpShape'
    BY <1>0, <2>3, <2>5, <2>6 DEF HttpShape, HttpFields, Alone, Step
  <2>8. HttpCalls' /\ HttpServes'
    BY <1>0, <2>3, <2>5, <2>6 DEF HttpCalls, HttpServes, Calls, Alone, Step
  <2> QED
    BY <2>5, <2>7, <2>8 DEF HttpMay, HttpInv
<1>2. CASE init_http_server
  <2>1. Own /\ late' = late /\ At("app", "serve") /\ Step("app") = "serve"
    BY <1>0, <1>2, Firsts DEF init_http_server, Steps
  <2>2. api = "starting"
    BY <1>0, <2>1 DEF HttpCalls, Calls, Framed, Types
  <2>3. CASE http' = [http EXCEPT !.server = TRUE] /\ GoOn("app", <<>>)
    <3>1. /\ Advances("app", HttpOrder)
          /\ First(todo'["app"]) = "none" \/ <<"app", "serve", First(todo'["app"])>> \in HttpOrder
      BY <1>0, <2>1, <2>3, GoesOn DEF Steps, Callbacks
    <3>2. HttpFields' /\ UNCHANGED http.queue
      BY <1>0, <2>3 DEF HttpFields
    <3>3. Types' /\ Framed(HttpOrder)' /\ HttpShape' /\ HttpCalls' /\ Simulates
      BY <1>0, <2>1, <3>1, <3>2, HttpGoes, HttpFollows
    <3>4. First(todo'["app"]) \in {"none", "copy_cfg"}
      BY <3>1 DEF HttpOrder
    <3>5. HttpServes'
      BY <1>0, <2>1, <2>2, <2>3, <3>1, <3>2, <3>4 DEF HttpServes, HttpFields, Advances, Alone, Step
    <3> QED
      BY <3>3, <3>5 DEF HttpMay, HttpInv
  <2>4. CASE http' = [http EXCEPT !.queue = FALSE] /\ Instead("app", <<"free">>)
    <3>1. Path(HttpOrder, "app", <<"free">>) /\ First(<<"free">>) = "free"
      BY OnePath DEF Steps, First
    <3>2. Advances("app", HttpOrder) /\ First(todo'["app"]) = "free"
      BY <1>0, <2>1, <2>4, <3>1, Jumps DEF Callbacks
    <3>3. <<"app", "serve", "free">> \in HttpMoves
      BY DEF HttpMoves
    <3>4. HttpFields' /\ UNCHANGED http.server
      BY <1>0, <2>4 DEF HttpFields
    <3>5. Types' /\ Framed(HttpOrder)' /\ HttpShape' /\ HttpCalls' /\ Simulates
      BY <1>0, <2>1, <3>2, <3>3, <3>4, HttpGoes
    <3>6. HttpServes'
      BY <1>0, <2>1, <2>2, <3>2, <3>4 DEF HttpServes, Advances, Alone, Step
    <3> QED
      BY <3>5, <3>6 DEF HttpMay, HttpInv
  <2> QED
    BY <1>2, <2>3, <2>4 DEF init_http_server
<1>3. CASE CopyConfiguration
  <2>1. Own /\ late' = late /\ http' = http /\ At("app", "copy_cfg") /\ GoOn("app", <<"on_ice_info">>)
    BY <1>3 DEF CopyConfiguration
  <2>2. "copy_cfg" \in Steps \ Callbacks /\ "on_ice_info" \in Steps
    BY DEF Steps, Callbacks
  <2>3. /\ Advances("app", HttpOrder) /\ Step("app") = "copy_cfg"
        /\ First(todo'["app"]) = "on_ice_info"
    BY <1>0, <2>1, <2>2, GoesTo, HttpFollows
  <2>4. <<"app", "copy_cfg", "on_ice_info">> \in HttpMoves
    BY DEF HttpMoves
  <2>5. HttpFields'
    BY <1>0, <2>1 DEF HttpFields
  <2> QED
    BY <1>0, <2>1, <2>3, <2>4, <2>5, HttpPlain
<1>17. /\ <<"turn">> \in Seq(Stream) /\ <<"turn">> \in Seq(Steps)
       /\ <<"complete">> \in Seq(Stream) /\ <<"complete">> \in Seq(Steps)
  BY DEF Stream, Steps
<1>4. CASE webrtc_signal_get_handler
  <2>1. /\ Own /\ late' = late
        /\ \/ http' = [http EXCEPT !.connected = TRUE, !.req = TRUE]
           \/ http' = [http EXCEPT !.connected = TRUE]
        /\ todo' = todo \/ Instead("aux", <<"turn">>)
    BY <1>4 DEF webrtc_signal_get_handler
  <2>2. HttpFields' /\ UNCHANGED <<http.server, http.queue>>
    BY <1>0, <2>1 DEF HttpFields
  <2> QED
    BY <1>0, <1>17, <2>1, <2>2, HttpStreams DEF Instead
<1>5. CASE webrtc_signal_post_handler
  <2>1. /\ Own /\ http' = http /\ http.server /\ Step("worker") = "none"
        /\ late' \subseteq late \cup {<<"worker", "sig_cfg">>}
    BY <1>0, <1>5, Firsts DEF webrtc_signal_post_handler, Uses
  <2>2. PICK m \in {<<"on_msg">>, <<"on_msg", "call_on_msg">>} : Instead("worker", m)
    BY <1>5 DEF webrtc_signal_post_handler
  <2>3. Path(HttpOrder, "worker", m) /\ First(m) = "on_msg"
    <3>1. Path(HttpOrder, "worker", <<"on_msg">>) /\ First(<<"on_msg">>) = "on_msg"
      BY OnePath DEF First, Steps, Callbacks
    <3>2. /\ Path(HttpOrder, "worker", <<"on_msg", "call_on_msg">>)
          /\ First(<<"on_msg", "call_on_msg">>) = "on_msg"
      BY DEF Path, First, HttpOrder, Steps, Callbacks
    <3> QED
      BY <3>1, <3>2
  <2>4. Advances("worker", HttpOrder) /\ First(todo'["worker"]) = "on_msg"
    BY <1>0, <2>1, <2>2, <2>3, Jumps DEF Callbacks
  <2>5. <<"worker", "none", "on_msg">> \in HttpMoves
    BY DEF HttpMoves
  <2>6. HttpFields'
    BY <1>0, <2>1 DEF HttpFields
  <2> QED
    BY <1>0, <2>1, <2>4, <2>5, <2>6, HttpPlain
<1>6. CASE signaling_msg_send_task
  <2>1. /\ Own /\ late' \subseteq late \cup {<<"aux", "queue">>}
        /\ \E left \in {0, 1} : http' = [http EXCEPT !.queued = @ - left]
        /\ todo' = todo \/ Instead("aux", <<"complete">>)
    BY <1>6 DEF signaling_msg_send_task, Uses
  <2>2. HttpFields' /\ UNCHANGED <<http.server, http.queue>>
    BY <1>0, <2>1 DEF HttpFields
  <2> QED
    BY <1>0, <1>17, <2>1, <2>2, HttpStreams DEF Instead
<1>7. CASE StreamStopped
  <2>1. Own /\ late' = late /\ http' = http /\ Instead("aux", <<"complete">>)
    BY <1>7 DEF StreamStopped
  <2>2. HttpFields'
    BY <1>0, <2>1 DEF HttpFields
  <2> QED
    BY <1>0, <1>17, <2>1, <2>2, HttpStreams DEF Instead
<1>8. CASE StreamEnds
  <2>1. /\ Own /\ late' = late
        /\ \/ http' = [http EXCEPT !.req = FALSE, !.connected = FALSE]
           \/ http' = [http EXCEPT !.stopping = FALSE]
        /\ \/ todo' = [todo EXCEPT !["aux"] = <<>>, !["old"] = Append(todo["old"], "clear")]
           \/ todo["old"] # <<>> /\ todo' = [todo EXCEPT !["old"] = <<>> \o Tail(todo["old"])]
    BY <1>8 DEF StreamEnds, At, GoOn
  <2>2. HttpFields' /\ UNCHANGED <<http.server, http.queue>>
    BY <1>0, <2>1 DEF HttpFields
  <2>3. /\ Append(todo["old"], "clear") \in Seq(Stream) /\ <<>> \in Seq(Stream)
        /\ todo["old"] # <<>> => <<>> \o Tail(todo["old"]) \in Seq(Stream)
    <3>1. "clear" \in Stream
      BY DEF Stream
    <3>2. todo["old"] # <<>> => <<>> \o Tail(todo["old"]) = Tail(todo["old"]) /\ Tail(todo["old"]) \in Seq(Stream)
      BY <1>0
    <3> QED  BY <1>0, <3>1, <3>2
  <2> DEFINE p == Append(todo["old"], "clear")
             q == <<>> \o Tail(todo["old"])
  <2>4. /\ p \in Seq(Stream) /\ (todo["old"] # <<>> => q \in Seq(Stream))
        /\ \/ todo' = [todo EXCEPT !["aux"] = <<>>, !["old"] = p]
           \/ todo["old"] # <<>> /\ todo' = [todo EXCEPT !["old"] = q]
    BY <2>1, <2>3
  <2> HIDE DEF p, q
  <2>5. \A x \in Seq(Stream) : x \in Seq(Steps)
    BY StreamPath DEF Path
  <2> QED
    BY <1>0, <2>1, <2>2, <2>3, <2>4, <2>5, HttpStreams
<1>9. CASE CallSend("send") /\ UNCHANGED <<http, owner>>
  <2>1. /\ Advances("pc", HttpOrder) /\ First(todo'["pc"]) = "send" /\ Step("pc") = "none"
        /\ api = "running" /\ late' = late
    BY <1>0, <1>9, Sends
  <2>2. <<"pc", "none", "send">> \in HttpMoves
    BY DEF HttpMoves
  <2>3. HttpFields'
    BY <1>0, <1>9 DEF HttpFields
  <2> QED
    BY <1>0, <1>9, <2>1, <2>2, <2>3, HttpPlain
<1>10. CASE webrtc_http_server_send_msg
  <2>1. /\ At("pc", "send") /\ GoOn("pc", <<>>) /\ Own
        /\ late' = IF ~http.queue THEN late \cup {<<"pc", "queue">>} ELSE late
        /\ \E n : http' = [http EXCEPT !.queued = n]
    BY <1>10 DEF webrtc_http_server_send_msg, Uses
  <2>2. /\ Advances("pc", HttpOrder) /\ Step("pc") = "send"
        /\ First(todo'["pc"]) = "none" \/ <<"pc", "send", First(todo'["pc"])>> \in HttpMoves
    BY <1>0, <2>1, GoesOn, HttpFollows DEF Steps, Callbacks
  <2>3. HttpFields' /\ UNCHANGED <<http.server, http.queue>>
    BY <1>0, <2>1 DEF HttpFields
  <2>4. late' = late
    BY <1>0, <2>1, <2>2 DEF HttpServes, Framed
  <2> QED
    BY <1>0, <2>2, <2>3, <2>4, HttpPlain
<1>11. CASE webrtc_http_server_deinit
  <2> DEFINE p == <<"check_stream", "ssl_stop", "ssl_wait", "queue_delete", "free">>
  <2>1. CallStop(p) /\ http' = [http EXCEPT !.queued = 0]
    BY <1>11 DEF webrtc_http_server_deinit
  <2>2. Path(HttpOrder, "app", p) /\ First(p) = "check_stream"
    BY DEF First, Steps, Path, HttpOrder
  <2> HIDE DEF p
  <2>3. /\ Types' /\ Framed(HttpOrder)' /\ Simulates /\ Alone("app")
        /\ First(todo'["app"]) = "check_stream" /\ api = "running" /\ api' = "stopping"
        /\ UNCHANGED <<told, late>> /\ Step("app") = "none"
    BY <1>0, <2>1, <2>2, Stops DEF Callbacks
  <2>4. HttpFields' /\ UNCHANGED <<http.server, http.queue>>
    BY <1>0, <2>1 DEF HttpFields
  <2>5. HttpShape'
    BY <1>0, <2>3, <2>4 DEF HttpShape, HttpFields, Alone, Step
  <2>6. HttpCalls' /\ HttpServes'
    BY <1>0, <2>3, <2>4 DEF HttpCalls, HttpServes, Calls, Alone, Step
  <2> QED
    BY <2>3, <2>5, <2>6 DEF HttpMay, HttpInv
<1>12. CASE CheckStream
  <2> DEFINE q == <<"set_stopping", "wait_stream">>
  <2>1. /\ Own /\ http' = http /\ late' = late /\ At("app", "check_stream")
        /\ Step("app") = "check_stream"
        /\ GoOn("app", q) \/ GoOn("app", <<>>)
    BY <1>0, <1>12, Firsts DEF CheckStream, Steps
  <2>2. HttpFields'
    BY <1>0, <2>1 DEF HttpFields
  <2>3. CASE GoOn("app", q)
    <3>1. /\ Path(HttpOrder, "app", q) /\ q # <<>> /\ q[Len(q)] = "wait_stream"
          /\ q[1] = "set_stopping"
      BY DEF Path, HttpOrder, Steps
    <3>2. Path(HttpOrder, "app", todo["app"])
      BY <1>0 DEF Framed
    <3> HIDE DEF q
    <3>3. Alone("app") /\ Path(HttpOrder, "app", todo'["app"]) /\ First(todo'["app"]) = "set_stopping"
      BY <1>0, <2>1, <2>3, <3>1, <3>2, ListGoesTo, HttpFollows
    <3>4. Advances("app", HttpOrder)
      BY <1>0, <2>1, <3>3, Owned DEF Callbacks
    <3>5. <<"app", "check_stream", "set_stopping">> \in HttpMoves
      BY DEF HttpMoves
    <3> QED
      BY <1>0, <2>1, <2>2, <3>3, <3>4, <3>5, HttpPlain
  <2>4. CASE GoOn("app", <<>>)
    <3>1. /\ Advances("app", HttpOrder)
          /\ First(todo'["app"]) = "none"
             \/ <<"app", "check_stream", First(todo'["app"])>> \in HttpMoves
      BY <1>0, <2>1, <2>4, GoesOn, HttpFollows DEF Steps, Callbacks
    <3> QED
      BY <1>0, <2>1, <2>2, <3>1, HttpPlain
  <2> QED
    BY <2>1, <2>3, <2>4
<1>13. CASE StopStream
  <2>1. /\ Own /\ late' = late /\ GoOn("app", <<>>)
        /\ http' = http \/ http' = [http EXCEPT !.stopping = TRUE]
        /\ At("app", "set_stopping") \/ At("app", "wait_stream")
    BY <1>13 DEF StopStream
  <2>2. HttpFields' /\ UNCHANGED <<http.server, http.queue>>
    BY <1>0, <2>1 DEF HttpFields
  <2>3. ASSUME NEW a \in {"set_stopping", "wait_stream"}, At("app", a)  PROVE HttpMay
    <3>1. a \in Steps \ Callbacks
      BY DEF Steps, Callbacks
    <3>2. /\ Advances("app", HttpOrder) /\ Step("app") = a
          /\ First(todo'["app"]) = "none" \/ <<"app", a, First(todo'["app"])>> \in HttpOrder
      BY <1>0, <2>1, <2>3, <3>1, GoesOn
    <3> QED
      BY <1>0, <2>1, <2>2, <3>2, HttpPlain, HttpFollows
  <2> QED
    BY <2>1, <2>3
<1>14. CASE StopServer
  <2>1. /\ Own /\ late' = late /\ GoOn("app", <<>>)
        /\ \/ At("app", "ssl_stop") /\ http' = [http EXCEPT !.server = FALSE]
           \/ At("app", "ssl_wait") /\ Step("worker") = "none" /\ UNCHANGED http
           \/ At("app", "queue_delete") /\ http' = [http EXCEPT !.queue = FALSE, !.queued = 0]
    BY <1>0, <1>14, Firsts DEF StopServer
  <2>2. HttpFields'
    BY <1>0, <2>1 DEF HttpFields
  <2>3. ASSUME NEW a \in {"ssl_stop", "ssl_wait", "queue_delete"}, At("app", a)  PROVE HttpMay
    <3>1. a \in Steps \ Callbacks
      BY DEF Steps, Callbacks
    <3>2. /\ Advances("app", HttpOrder) /\ Step("app") = a
          /\ First(todo'["app"]) = "none" \/ <<"app", a, First(todo'["app"])>> \in HttpOrder
      BY <1>0, <2>1, <2>3, <3>1, GoesOn
    <3>3. Types' /\ Framed(HttpOrder)' /\ HttpShape' /\ HttpCalls' /\ Simulates
      BY <1>0, <2>1, <2>2, <3>2, HttpGoes, HttpFollows
    <3>4. api = "stopping" /\ (At("app", "ssl_stop") => a = "ssl_stop")
          /\ (At("app", "ssl_wait") => a = "ssl_wait")
          /\ (At("app", "queue_delete") => a = "queue_delete")
      BY <1>0, <3>2, Firsts DEF HttpCalls, Calls, Framed, Types, Steps
    <3>5. HttpServes'
      <4>1. CASE a = "ssl_stop"
        <5>1. First(todo'["app"]) \in {"none", "ssl_wait"} /\ http' = [http EXCEPT !.server = FALSE]
          BY <2>1, <3>2, <3>4, <4>1 DEF HttpOrder
        <5> QED
          BY <1>0, <3>2, <3>4, <5>1 DEF HttpServes, HttpFields, Advances, Alone, Step
      <4>2. CASE a = "ssl_wait"
        <5>1. First(todo'["app"]) \in {"none", "queue_delete"} /\ http' = http /\ Step("worker") = "none"
          BY <2>1, <3>2, <3>4, <4>2 DEF HttpOrder
        <5> QED
          BY <1>0, <3>2, <3>4, <4>2, <5>1 DEF HttpServes, Advances, Alone, Step
      <4>3. CASE a = "queue_delete"
        <5>1. First(todo'["app"]) \in {"none", "free"} /\ http' = [http EXCEPT !.queue = FALSE, !.queued = 0]
          BY <2>1, <3>2, <3>4, <4>3 DEF HttpOrder
        <5> QED
          BY <1>0, <3>2, <3>4, <4>3, <5>1 DEF HttpServes, HttpFields, Advances, Alone, Step
      <4> QED
        BY <4>1, <4>2, <4>3
    <3> QED
      BY <3>3, <3>5 DEF HttpMay, HttpInv
  <2> QED
    BY <2>1, <2>3
<1>15. CASE FrameNext /\ UNCHANGED <<http, owner>>
  BY <1>15, HttpFrame
<1> QED
  BY <1>1, <1>2, <1>3, <1>4, <1>5, <1>6, <1>7, <1>8, <1>9, <1>10, <1>11, <1>12, <1>13, <1>14,
     <1>15 DEF HttpNext

-----------------------------------------------------------------------------
(* Every implementation *)

LEMMA SigInit ==
  ASSUME Init  PROVE SigInv /\ Promised!Init
<1>1. Types /\ \A t \in Threads : todo[t] = <<>> /\ Step(t) = "none"
  BY DEF Init, FrameInit, Types, Step, First
<1>2. Inside = [t \in Threads |-> "none"]
  BY <1>1 DEF Inside
<1>3. Promised!Init
  BY <1>2 DEF Init, FrameInit, Promised!Init
<1>4. \A E, t : Path(E, t, <<>>)
  BY DEF Path
<1>5. "app" \in Threads /\ "pc" \in Threads /\ "worker" \in Threads /\ "aux" \in Threads /\ "old" \in Threads
  BY DEF Threads
<1>6. \A E : Framed(E)
  BY <1>1, <1>4, <1>5 DEF Framed, Init, FrameInit
<1>7. JanusInv
  BY <1>1, <1>5, <1>6
     DEF Init, FrameInit, JanusInit, JanusInv, JanusShape, JanusCalls, JanusPolls, Polling, Calls
<1>8. AppRtcInv
  BY <1>1, <1>5, <1>6
     DEF Init, FrameInit, AppRtcInit, AppRtcInv, AppRtcShape, AppRtcCalls, AppRtcSocket,
         AppRtcReload, Calls
<1>9. WhipInv
  BY <1>1, <1>5, <1>6 DEF Init, FrameInit, WhipInv, WhipShape, WhipCalls, Calls
<1>10. HttpInv
  BY <1>1, <1>5, <1>6
     DEF Init, FrameInit, HttpInit, HttpInv, HttpShape, HttpCalls, HttpServes, Calls
<1> QED
  BY <1>1, <1>3, <1>7, <1>8, <1>9, <1>10 DEF SigInv

LEMMA SigNext ==
  ASSUME SigInv, [Next]_vars  PROVE SigInv' /\ Simulates
<1>1. CASE Janus
  <2>1. impl = "janus" /\ impl' = impl
    <3>1. Types /\ JanusInv /\ JanusNext /\ impl = "janus"
      BY <1>1 DEF SigInv, Janus
    <3> QED
      BY <3>1
         DEF JanusNext, janus_signaling_start, janus_get_ids, Ask, StartPolling, NoThread,
             PollStarted, janus_poll_thread, PollAnswered, PollEnds, PollUnlock, CallSend,
             janus_signaling_send_msg, janus_signaling_stop, janus_wait_for_pool_thread,
             DestroySession, FrameNext, StartReturns, Free, Call, CallbackReturns, CallStart,
             CallStop, Own
  <2>2. JanusMay
    BY <1>1, JanusSteps DEF SigInv, Janus
  <2> QED
    BY <2>1, <2>2 DEF SigInv, JanusMay
<1>2. CASE AppRtc
  <2>1. impl = "apprtc" /\ impl' = impl
    BY <1>2
       DEF AppRtc, AppRtcNext, wss_signal_start, GetRoom, create_wss, SetWss,
           start_reload_ice_timer, wss_send_offer_msg, on_connect, on_close, on_text, AfterText,
           reload_ice_task, Heartbeat, ReloadEnds, wss_signal_stop, destroy_wss,
           stop_reload_ice_timer, WaitReload, wss_signal_send_msg, CallSend, FrameNext,
           StartReturns, Free, Call, CallbackReturns, CallStart, CallStop, Own
  <2>2. AppRtcMay
    BY <1>2, AppRtcSteps DEF SigInv, AppRtc
  <2> QED
    BY <2>1, <2>2 DEF SigInv, AppRtcMay
<1>3. CASE Whip
  <2>1. impl = "whip" /\ impl' = impl
    BY <1>3
       DEF Whip, WhipNext, whip_signaling_start, PostOffer, TakeAnswer, SdpDone, PatchOffer,
           whip_signaling_stop, DeleteResource, CallSend, FrameNext,
           StartReturns, Free, Call, CallbackReturns, CallStart, CallStop, Own
  <2>2. WhipMay
    BY <1>3, WhipSteps DEF SigInv, Whip
  <2> QED
    BY <2>1, <2>2 DEF SigInv, WhipMay
<1>4. CASE Http
  <2>1. impl = "http" /\ impl' = impl
    BY <1>4
       DEF Http, HttpNext, webrtc_http_server_init, init_http_server, CopyConfiguration,
           webrtc_signal_get_handler, webrtc_signal_post_handler, signaling_msg_send_task,
           StreamStopped, StreamEnds, webrtc_http_server_send_msg, webrtc_http_server_deinit,
           CheckStream, StopStream, StopServer, CallSend, FrameNext,
           StartReturns, Free, Call, CallbackReturns, CallStart, CallStop, Own
  <2>2. HttpMay
    BY <1>4, HttpSteps DEF SigInv, Http
  <2> QED
    BY <2>1, <2>2 DEF SigInv, HttpMay
<1>5. CASE UNCHANGED vars
  <2>1. Inside' = Inside /\ UNCHANGED <<api, told>>
    BY <1>5 DEF vars, frame, Inside
  <2>2. Simulates
    BY <2>1 DEF Simulates, Promised!signaling
  <2>3. \A t : Step(t)' = Step(t)
    BY <1>5 DEF vars, frame, Step
  <2>4. UNCHANGED <<impl, api, told, todo, freed, late, janus, wss, http>>
    BY <1>5 DEF vars, frame
  <2>5. Types' /\ \A E : Framed(E) => Framed(E)'
    BY <2>3, <2>4 DEF SigInv, Types, Framed
  <2>6. SigInv'
    BY <2>3, <2>4, <2>5
       DEF SigInv, JanusInv, JanusShape, JanusCalls, JanusPolls, AppRtcInv, AppRtcShape,
           AppRtcCalls, AppRtcSocket, AppRtcReload, WhipInv, WhipShape, WhipCalls,
           HttpInv, HttpShape, HttpCalls, HttpServes, Calls
  <2> QED
    BY <2>2, <2>6
<1> QED
  BY <1>1, <1>2, <1>3, <1>4, <1>5 DEF Next

-----------------------------------------------------------------------------
(* Theorems *)

LEMMA Joined ==
  ASSUME NEW a, NEW b, NEW c  PROVE <<a>> \o <<b, c>> = <<a, b, c>>
<1> DEFINE S == {a, b, c}
<1>1. <<a>> \in Seq(S) /\ <<b, c>> \in Seq(S) /\ <<a, b, c>> \in Seq(S)
  OBVIOUS
<1>2. \A p, r \in Seq(S) :
        /\ p \o r \in Seq(S) /\ Len(p \o r) = Len(p) + Len(r)
        /\ \A i \in 1..Len(p) + Len(r) : (p \o r)[i] = IF i <= Len(p) THEN p[i] ELSE r[i - Len(p)]
  BY ConcatProperties
<1> DEFINE s == <<a>> \o <<b, c>>
<1>3. /\ s \in Seq(S) /\ Len(s) = Len(<<a>>) + Len(<<b, c>>)
      /\ \A i \in 1..Len(<<a>>) + Len(<<b, c>>) :
           s[i] = IF i <= Len(<<a>>) THEN <<a>>[i] ELSE <<b, c>>[i - Len(<<a>>)]
  BY <1>1, <1>2
<1> HIDE DEF s
<1>4. /\ s \in Seq(S) /\ Len(s) = 3
      /\ \A i \in 1..3 : s[i] = IF i <= 1 THEN <<a>>[i] ELSE <<b, c>>[i - 1]
  BY <1>3
<1>5. s[1] = a /\ s[2] = b /\ s[3] = c
  BY <1>4
<1>6. s = <<a, b, c>>
  <2> DEFINE q == <<a, b, c>>
  <2>1. q \in Seq(S) /\ Len(q) = 3 /\ q[1] = a /\ q[2] = b /\ q[3] = c
    OBVIOUS
  <2> HIDE DEF q
  <2>2. Len(s) = Len(q) /\ \A i \in 1..Len(s) : s[i] = q[i]
    BY <1>4, <1>5, <2>1
  <2>3. s = q
    BY <1>4, <2>1, <2>2, SeqEqual
  <2> QED
    BY <2>3 DEF q
<1> QED
  BY <1>6 DEF s

\* Whichever the implementation, esp_webrtc.c sees what it relies on: the
\* credentials come before the connection, and no callback runs before start
\* or is under way when stop returns.
THEOREM ImplementationsKeepTheContract == Spec => Contract
<1>1. Init => SigInv /\ Promised!Init
  BY SigInit
<1>2. SigInv /\ [Next]_vars => SigInv' /\ [Promised!Next]_(Promised!signaling)
  BY SigNext DEF Simulates
<1> QED
  BY <1>1, <1>2, PTL DEF Spec, Contract, Promised!Spec

\* No thread uses what stop has freed or what start has not made yet, but for
\* the windows named in Windows.
THEOREM OnlyKnownLateUses == Spec => []LateUsesAreKnown
<1>1. Init => SigInv
  BY SigInit
<1>2. SigInv /\ [Next]_vars => SigInv'
  BY SigNext
<1>3. SigInv => LateUsesAreKnown
  <2> SUFFICES ASSUME SigInv, NEW u \in late  PROVE <<impl>> \o u \in Windows
    BY DEF LateUsesAreKnown
  <2>1. \A a, b, c : <<a>> \o <<b, c>> = <<a, b, c>>
    BY Joined
  <2>2. impl \in Impls
    BY DEF SigInv, Types
  <2>3. CASE impl = "janus"
    <3>1. u = <<"worker", "exit_sema">>
      BY <2>3 DEF SigInv, JanusInv, JanusShape
    <3> QED
      BY <2>1, <2>3, <3>1 DEF Windows
  <2>4. CASE impl = "apprtc"
    <3>1. u \in {<<"worker", "wss_client">>, <<"aux", "wss_client">>}
      BY <2>4 DEF SigInv, AppRtcInv, AppRtcShape
    <3>2. CASE u = <<"worker", "wss_client">>
      BY <2>1, <2>4, <3>2 DEF Windows
    <3>3. CASE u = <<"aux", "wss_client">>
      BY <2>1, <2>4, <3>3 DEF Windows
    <3> QED
      BY <3>1, <3>2, <3>3
  <2>5. CASE impl = "whip"
    <3>1. u = <<"pc", "ice_servers">>
      BY <2>5 DEF SigInv, WhipInv, WhipShape
    <3> QED
      BY <2>1, <2>5, <3>1 DEF Windows
  <2>6. CASE impl = "http"
    <3>1. u \in {<<"worker", "sig_cfg">>, <<"aux", "queue">>}
      BY <2>6 DEF SigInv, HttpInv, HttpShape
    <3>2. CASE u = <<"worker", "sig_cfg">>
      BY <2>1, <2>6, <3>2 DEF Windows
    <3>3. CASE u = <<"aux", "queue">>
      BY <2>1, <2>6, <3>3 DEF Windows
    <3> QED
      BY <3>1, <3>2, <3>3
  <2> QED
    BY <2>2, <2>3, <2>4, <2>5, <2>6 DEF Impls
<1> QED
  BY <1>1, <1>2, <1>3, PTL DEF Spec

=============================================================================
