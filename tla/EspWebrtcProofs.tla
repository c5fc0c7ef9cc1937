---------------------------- MODULE EspWebrtcProofs ----------------------------
(***************************************************************************)
(* Proofs about the WebRTC session object (module EspWebrtc).              *)
(*                                                                         *)
(* The object has no lock: what keeps its tasks apart is the order of the  *)
(* steps in each call (stop_stream, then pc_close, then the signaling,     *)
(* then the memory) and what each step waits for.  So the invariant tells  *)
(* which steps may still follow a step in a task's list (After), who takes *)
(* which (Work), and, while no two tasks have crossed (raced), that        *)
(*   - one task at a time closes, and once it has passed wait_exit pc_task *)
(*     is gone;                                                            *)
(*   - pc_task lives with its peer, its event group and running, or        *)
(*     somebody waits for its EXIT;                                        *)
(*   - the one streaming task lives with running and send_going, or        *)
(*     somebody waits for its SEND_QUIT;                                   *)
(*   - the memory goes once the signaling is idle, which is when no        *)
(*     callback is left (module Signaling).                                *)
(***************************************************************************)
EXTENDS EspWebrtc, TLAPS

-----------------------------------------------------------------------------
(* The steps a task has left *)

Steps ==
  {"enable", "disable", "wait_paused", "wait_resume", "disconnect", "start_stream",
   "stop_stream", "wait_send_quit", "notify_connected", "notify_down", "reconnect",
   "pc_start", "pc_run", "connect", "pc_close", "wait_exit", "peer_close", "no_event",
   "stop_signaling", "leave", "callbacks", "started", "stopped", "free", "turn"}

\* What may come after a step in a list.
AfterPeer == {"stop_signaling", "free", "turn", "leave"}
AfterStream == AfterPeer \cup {"pc_close", "reconnect", "notify_down"}
AfterCallbacks == {"started", "stopped", "free", "turn"}
After(s) ==
  CASE s \in {"turn", "started"} -> {}
    [] s \in {"free", "notify_connected", "notify_down", "wait_resume"} -> {"turn"}
    [] s = "start_stream" -> {"notify_connected", "turn"}
    [] s \in {"stopped", "stop_signaling"} -> {"free", "turn"}
    [] s = "callbacks" -> AfterCallbacks
    [] s = "leave" -> AfterCallbacks \cup {"callbacks"}
    [] s \in {"no_event", "pc_close"} -> AfterPeer
    [] s = "peer_close" -> AfterPeer \cup {"no_event"}
    [] s = "wait_exit" -> AfterPeer \cup {"no_event", "peer_close"}
    [] s \in {"wait_send_quit", "stop_stream"} -> AfterStream
    [] s = "disconnect" -> AfterCallbacks \cup {"stop_stream", "reconnect", "leave", "callbacks"}
    [] s = "wait_paused" -> {"disconnect", "stop_stream", "reconnect", "leave"}
    [] s \in {"reconnect", "connect", "enable", "disable"} -> {"leave"}
    [] s \in {"pc_start", "pc_run"} -> {"connect", "leave", "callbacks", "started"}
    [] OTHER -> {}

InOrder(l) == \A i, j \in DOMAIN l : i < j => l[j] \in After(l[i])
Elems(l) == {l[i] : i \in DOMAIN l}
Todo(t) == Elems(todo[t])

\* Who takes which steps.
PeerWork == {"stop_stream", "wait_send_quit", "pc_close", "wait_exit", "peer_close", "no_event"}
CallWork == PeerWork \cup {"enable", "disable", "connect", "pc_start", "pc_run", "disconnect", "leave"}
Work(t) ==
  CASE t = "app" -> CallWork \cup {"stop_signaling", "callbacks", "started", "stopped", "free"}
    [] t = "pc" -> PeerWork \cup {"start_stream", "notify_connected", "notify_down", "turn",
                                 "wait_resume", "stop_signaling", "free"}
    [] t = "worker" -> CallWork \cup {"wait_paused", "reconnect"}
    [] t = "aux" -> {"pc_start", "pc_run", "leave"}
    [] OTHER -> {}

Lists ==
  /\ todo \in [Tasks -> Seq(Steps)]
  /\ \A t \in Tasks : InOrder(todo[t]) /\ Todo(t) \subseteq Work(t)

-----------------------------------------------------------------------------
(* The invariant.  It says what holds while no two tasks have crossed. *)

EndSteps == {"wait_exit", "peer_close", "no_event", "stop_signaling", "stopped", "free"}
Ending(t) == Todo(t) \cap EndSteps # {} /\ "pc_close" \notin Todo(t)
Leaving(t) ==
  /\ Ending(t) \/ "wait_send_quit" \in Todo(t) \/ "pc_close" \in Todo(t)
  /\ "stop_stream" \notin Todo(t)

RtcTypes ==
  /\ DOMAIN rtc = DOMAIN Rtc0
  /\ \A f \in DOMAIN Rtc0 \ {"life"} : rtc[f] \in BOOLEAN
  /\ DOMAIN inside = {"app", "worker", "aux"}

\* One task at a time closes the peer connection, and pc_task has ended before it goes on.
\* pc_task that closes it waits for itself.
OneCloses ==
  /\ \A t \in Tasks : "stop_stream" \in Todo(t) => ~Ending(t)
  /\ \A t, u \in Tasks : Ending(t) /\ Ending(u) => t = u
  /\ Ending("pc") => "wait_exit" \in Todo("pc")
  /\ \A t \in Tasks : Ending(t) /\ "wait_exit" \notin Todo(t) => Todo("pc") = {}

PcAlive ==
  /\ Todo("pc") # {} =>
       /\ "turn" \in Todo("pc")
       /\ rtc.pc /\ rtc.event /\ "EXIT" \notin bits
       /\ rtc.running \/ \E t \in Tasks : "wait_exit" \in Todo(t)
  /\ rtc.running => Todo("pc") # {} /\ \A t \in Tasks : ~Ending(t)

\* One task streams, while pc_task runs, and who stops it waits for it.
Streams ==
  /\ senders \in {0, 1}
  /\ rtc.send_going => senders = 1 /\ \A t \in Tasks : ~Leaving(t)
  /\ senders = 1 =>
       /\ rtc.running
       /\ rtc.send_going \/ \E t \in Tasks : "wait_send_quit" \in Todo(t)
       /\ \A t \in Tasks : Leaving(t) => "wait_send_quit" \in Todo(t)
  /\ \A t, u \in Tasks : "wait_send_quit" \in Todo(t) \cap Todo(u) => t = u
  /\ "SEND_QUIT" \in bits => senders = 0 /\ \E t \in Tasks : "wait_send_quit" \in Todo(t)
  /\ peer = "connecting" => ~rtc.send_going /\ "start_stream" \notin Todo("pc")
  /\ "start_stream" \in Todo("pc") => ~rtc.send_going

\* The signaling calls back between start and stop.
Signals ==
  /\ api = "starting" => "started" \in Todo("app")
  /\ api = "running" => rtc.signaling
  /\ api = "stopping" => "stopped" \in Todo("app")
  /\ api \in {"idle", "starting", "running", "stopping"}
  /\ api = "idle" => NobodyInside
  /\ "free" \in Todo("app") /\ Todo("app") \cap {"stop_signaling", "stopped"} = {} => api = "idle"
  /\ \A t \in {"worker", "aux"} : inside[t] = "none" => Todo(t) = {}

Life ==
  /\ rtc.life \in {"none", "open", "freed"}
  /\ rtc.life # "open" => \A t \in Tasks : Todo(t) = {}
  /\ rtc.life = "none" => rtc = Rtc0 /\ senders = 0 /\ api = "idle"
  /\ late = {}

Orderly == Lists /\ RtcTypes /\ OneCloses /\ PcAlive /\ Streams /\ Signals /\ Life
RtcInv == raced = {} => Orderly

-----------------------------------------------------------------------------
(* Lists in order *)

LEMMA Tails ==
  ASSUME NEW l \in Seq(Steps), InOrder(l), l # << >>
  PROVE  /\ Tail(l) \in Seq(Steps) /\ InOrder(Tail(l))
         /\ Head(l) \in Elems(l) /\ Head(l) \in Steps
         /\ Elems(l) = {Head(l)} \cup Elems(Tail(l))
         /\ Elems(Tail(l)) \subseteq After(Head(l))
<1>1. /\ Len(l) \in Nat \ {0} /\ DOMAIN l = 1..Len(l) /\ Head(l) = l[1]
      /\ Tail(l) \in Seq(Steps) /\ Len(Tail(l)) = Len(l) - 1
      /\ DOMAIN Tail(l) = 1..Len(l) - 1
      /\ \A i \in 1..Len(l) - 1 : Tail(l)[i] = l[i + 1]
  OBVIOUS
<1>2. InOrder(Tail(l))
  BY <1>1 DEF InOrder
<1>3. Elems(l) = {Head(l)} \cup Elems(Tail(l))
  <2>1. ASSUME NEW i \in DOMAIN l  PROVE l[i] = l[1] \/ \E j \in DOMAIN Tail(l) : l[i] = Tail(l)[j]
    <3>1. CASE i = 1
      BY <3>1
    <3>2. CASE i # 1
      <4>1. i - 1 \in DOMAIN Tail(l) /\ Tail(l)[i - 1] = l[i]
        BY <1>1, <3>2
      <4> QED  BY <4>1
    <3> QED  BY <3>1, <3>2
  <2>2. \A j \in DOMAIN Tail(l) : j + 1 \in DOMAIN l /\ Tail(l)[j] = l[j + 1]
    BY <1>1
  <2>3. 1 \in DOMAIN l
    BY <1>1
  <2> QED  BY <1>1, <2>1, <2>2, <2>3 DEF Elems
<1>4. Elems(Tail(l)) \subseteq After(Head(l))
  BY <1>1 DEF Elems, InOrder
<1> QED  BY <1>1, <1>2, <1>3, <1>4 DEF Elems

LEMMA Joined ==
  ASSUME NEW s \in Seq(Steps), NEW l \in Seq(Steps), InOrder(s), InOrder(l),
         \A x \in Elems(s) : Elems(l) \subseteq After(x)
  PROVE  /\ s \o l \in Seq(Steps) /\ InOrder(s \o l)
         /\ Elems(s \o l) = Elems(s) \cup Elems(l)
<1> DEFINE n == Len(s)
           m == Len(l)
           c == s \o l
<1>1. /\ n \in Nat /\ m \in Nat /\ DOMAIN s = 1..n /\ DOMAIN l = 1..m
      /\ c \in Seq(Steps) /\ Len(c) = n + m /\ DOMAIN c = 1..n + m
      /\ \A i \in 1..n : c[i] = s[i]
      /\ \A i \in 1..m : c[n + i] = l[i]
      /\ \A i \in n + 1..n + m : c[i] = l[i - n]
  OBVIOUS
<1> HIDE DEF c, n, m
<1>2. InOrder(c)
  <2> SUFFICES ASSUME NEW i \in 1..n + m, NEW j \in 1..n + m, i < j
               PROVE  c[j] \in After(c[i])
    BY <1>1 DEF InOrder
  <2>1. CASE j <= n
    <3>1. i \in DOMAIN s /\ j \in DOMAIN s /\ c[i] = s[i] /\ c[j] = s[j]
      BY <1>1, <2>1
    <3> QED  BY <3>1 DEF InOrder
  <2>2. CASE i > n
    <3>1. i - n \in DOMAIN l /\ j - n \in DOMAIN l /\ i - n < j - n
          /\ c[i] = l[i - n] /\ c[j] = l[j - n]
      BY <1>1, <2>2
    <3> QED  BY <3>1 DEF InOrder
  <2>3. CASE i <= n /\ j > n
    <3>1. i \in DOMAIN s /\ j - n \in DOMAIN l /\ c[i] = s[i] /\ c[j] = l[j - n]
      BY <1>1, <2>3
    <3> QED  BY <3>1 DEF Elems
  <2> QED  BY <1>1, <2>1, <2>2, <2>3
<1>3. Elems(c) = Elems(s) \cup Elems(l)
  <2>1. ASSUME NEW i \in DOMAIN c  PROVE c[i] \in Elems(s) \cup Elems(l)
    <3>1. CASE i <= n
      BY <1>1, <3>1 DEF Elems
    <3>2. CASE i > n
      <4>1. i - n \in DOMAIN l /\ c[i] = l[i - n]
        BY <1>1, <3>2
      <4> QED  BY <4>1 DEF Elems
    <3> QED  BY <1>1, <3>1, <3>2
  <2>2. \A i \in DOMAIN s : i \in DOMAIN c /\ c[i] = s[i]
    BY <1>1
  <2>3. \A i \in DOMAIN l : n + i \in DOMAIN c /\ c[n + i] = l[i]
    BY <1>1
  <2> QED  BY <2>1, <2>2, <2>3 DEF Elems
<1> QED  BY <1>1, <1>2, <1>3 DEF c

LEMMA None == << >> \in Seq(Steps) /\ InOrder(<< >>) /\ Elems(<< >>) = {}
BY DEF InOrder, Elems

LEMMA One ==
  ASSUME NEW a \in Steps
  PROVE  <<a>> \in Seq(Steps) /\ InOrder(<<a>>) /\ Elems(<<a>>) = {a} /\ <<a>> # << >>
BY DEF InOrder, Elems

LEMMA Two ==
  ASSUME NEW a \in Steps, NEW b \in Steps, b \in After(a)
  PROVE  <<a, b>> \in Seq(Steps) /\ InOrder(<<a, b>>) /\ Elems(<<a, b>>) = {a, b}
BY DEF InOrder, Elems

LEMMA Three ==
  ASSUME NEW a \in Steps, NEW b \in Steps, NEW c \in Steps,
         b \in After(a), c \in After(a), c \in After(b)
  PROVE  /\ <<a, b, c>> \in Seq(Steps) /\ InOrder(<<a, b, c>>)
         /\ Elems(<<a, b, c>>) = {a, b, c}
<1>1. DOMAIN <<a, b, c>> = {1, 2, 3}
  OBVIOUS
<1>2. <<a, b, c>>[1] = a /\ <<a, b, c>>[2] = b /\ <<a, b, c>>[3] = c
  OBVIOUS
<1> QED  BY <1>1, <1>2 DEF InOrder, Elems

\* No step comes twice.
LEMMA Once == \A s \in Steps : s \notin After(s)
BY DEF Steps, After, AfterCallbacks, AfterPeer, AfterStream

\* What is waited for, or started, is at the head.
LEMMA First ==
  \A s : After(s) \cap {"wait_send_quit", "wait_exit", "start_stream", "wait_paused",
                        "wait_resume", "pc_run", "pc_start"} = {}
BY DEF After, AfterCallbacks, AfterPeer, AfterStream

-----------------------------------------------------------------------------
(* How a task goes on *)

\* A task does h and has P to do before the rest.
Moves(t, h, P) ==
  /\ Lists'
  /\ h \in Todo(t) /\ h \in Steps /\ Todo(t) \ {h} \subseteq After(h)
  /\ Todo(t)' = P \cup (Todo(t) \ {h})
  /\ \A u \in Tasks \ {t} : Todo(u)' = Todo(u)

LEMMA HeadOf ==
  ASSUME Lists, NEW t \in Tasks, NEW h, At(t, h)
  PROVE  /\ todo[t] \in Seq(Steps) /\ InOrder(todo[t]) /\ todo[t] # << >>
         /\ h = Head(todo[t]) /\ h \in Steps /\ h \in Todo(t)
         /\ Tail(todo[t]) \in Seq(Steps) /\ InOrder(Tail(todo[t]))
         /\ Elems(Tail(todo[t])) = Todo(t) \ {h} /\ Todo(t) \ {h} \subseteq After(h)
         /\ Todo(t) \subseteq Work(t)
<1>1. /\ todo[t] \in Seq(Steps) /\ InOrder(todo[t]) /\ todo[t] # << >> /\ h = Head(todo[t])
      /\ Todo(t) \subseteq Work(t)
  BY DEF Lists, At
<1>2. /\ Tail(todo[t]) \in Seq(Steps) /\ InOrder(Tail(todo[t])) /\ h \in Todo(t) /\ h \in Steps
      /\ Todo(t) = {h} \cup Elems(Tail(todo[t])) /\ Elems(Tail(todo[t])) \subseteq After(h)
  BY <1>1, Tails DEF Todo
<1>3. h \notin Elems(Tail(todo[t]))
  BY <1>2, Once
<1> QED  BY <1>1, <1>2, <1>3

LEMMA ListsOf ==
  ASSUME Lists, NEW t \in Tasks, NEW l \in Seq(Steps), InOrder(l), Elems(l) \subseteq Work(t),
         todo' = [todo EXCEPT ![t] = l]
  PROVE  Lists' /\ Todo(t)' = Elems(l) /\ \A u \in Tasks \ {t} : Todo(u)' = Todo(u)
<1>1. /\ todo' \in [Tasks -> Seq(Steps)] /\ todo'[t] = l
      /\ \A u \in Tasks \ {t} : todo'[u] = todo[u]
  BY DEF Lists
<1>2. Todo(t)' = Elems(l) /\ \A u \in Tasks \ {t} : Todo(u)' = Todo(u)
  BY <1>1 DEF Todo
<1>3. \A u \in Tasks : InOrder(todo'[u]) /\ Todo(u)' \subseteq Work(u)
  BY <1>1, <1>2 DEF Lists
<1> QED  BY <1>1, <1>2, <1>3 DEF Lists

LEMMA GoesOn ==
  ASSUME Lists, NEW t \in Tasks, NEW h, At(t, h), NEW s \in Seq(Steps), InOrder(s),
         Elems(s) \subseteq Work(t), \A x \in Elems(s) : After(h) \subseteq After(x), GoOn(t, s)
  PROVE  Moves(t, h, Elems(s))
<1> DEFINE l == Tail(todo[t])
<1>1. /\ todo[t] \in Seq(Steps) /\ l \in Seq(Steps) /\ InOrder(l) /\ h \in Steps /\ h \in Todo(t)
      /\ Elems(l) = Todo(t) \ {h} /\ Todo(t) \ {h} \subseteq After(h) /\ Todo(t) \subseteq Work(t)
  BY HeadOf
<1>2. todo' = [todo EXCEPT ![t] = s \o l]
  BY DEF GoOn
<1> HIDE DEF l
<1>3. s \o l \in Seq(Steps) /\ InOrder(s \o l) /\ Elems(s \o l) = Elems(s) \cup Elems(l)
  BY <1>1, Joined
<1>4. Elems(s \o l) \subseteq Work(t)
  BY <1>1, <1>3
<1> QED  BY <1>1, <1>2, <1>3, <1>4, ListsOf DEF Moves

LEMMA Pops ==
  ASSUME Lists, NEW t \in Tasks, NEW h, At(t, h), GoOn(t, << >>)
  PROVE  Moves(t, h, {})
BY None, GoesOn

LEMMA IdleOf ==
  ASSUME Lists, NEW t \in Tasks
  PROVE  Idle(t) <=> Todo(t) = {}
<1>1. todo[t] \in Seq(Steps) /\ DOMAIN todo[t] = 1..Len(todo[t]) /\ Len(todo[t]) \in Nat
  BY DEF Lists
<1>2. todo[t] = << >> <=> Len(todo[t]) = 0
  BY <1>1
<1>3. ASSUME Len(todo[t]) # 0  PROVE Todo(t) # {}
  <2>1. 1 \in DOMAIN todo[t]
    BY <1>1, <1>3
  <2>2. todo[t][1] \in Todo(t)
    BY <2>1 DEF Todo, Elems
  <2> QED  BY <2>2
<1>4. ASSUME Len(todo[t]) = 0  PROVE Todo(t) = {}
  <2>1. DOMAIN todo[t] = {}
    BY <1>1, <1>4
  <2> QED  BY <2>1 DEF Todo, Elems
<1> QED  BY <1>2, <1>3, <1>4 DEF Idle

LEMMA HasOf ==
  ASSUME NEW t, NEW S
  PROVE  Has(t, S) <=> Todo(t) \cap S # {}
BY DEF Has, Todo, Elems

LEMMA AtOf ==
  ASSUME Lists, NEW t \in Tasks,
         NEW h \in {"wait_send_quit", "wait_exit", "start_stream", "wait_paused", "wait_resume"}
  PROVE  At(t, h) <=> h \in Todo(t)
<1>1. At(t, h) => h \in Todo(t)
  BY HeadOf
<1>2. ASSUME h \in Todo(t)  PROVE At(t, h)
  <2>1. todo[t] \in Seq(Steps) /\ InOrder(todo[t]) /\ todo[t] # << >>
    BY <1>2, IdleOf DEF Lists, Idle
  <2>2. Todo(t) = {Head(todo[t])} \cup Elems(Tail(todo[t]))
        /\ Elems(Tail(todo[t])) \subseteq After(Head(todo[t]))
    BY <2>1, Tails DEF Todo
  <2>3. h \notin After(Head(todo[t]))
    BY First
  <2> QED  BY <1>2, <2>1, <2>2, <2>3 DEF At
<1> QED  BY <1>1, <1>2

LEMMA EndsOf ==
  ASSUME NEW t
  PROVE  (EndsPc(t) <=> Ending(t)) /\ (EndsStream(t) <=> Leaving(t))
BY HasOf DEF EndsPc, EndsStream, Ending, Leaving, EndSteps

-----------------------------------------------------------------------------
(* Steps the invariant does not speak of *)

Marks ==
  EndSteps \cup {"stop_stream", "wait_send_quit", "pc_close", "start_stream", "started", "turn"}
Marked(t) == Todo(t) \cap Marks
Fields == <<rtc.life, rtc.event, rtc.running, rtc.send_going, rtc.signaling>>

LEMMA MovesQuiet ==
  ASSUME NEW t \in Tasks, NEW h, NEW P, Moves(t, h, P), P \cap Marks = {h} \cap Marks
  PROVE  /\ \A u \in Tasks : Marked(u)' = Marked(u)
         /\ PcAlive /\ Todo("pc")' # {} => "turn" \in Todo("pc")'
<1>1. Todo(t)' = P \cup (Todo(t) \ {h}) /\ h \in Todo(t)
  BY DEF Moves
<1>2. Marked(t)' = Marked(t)
  <2>1. (P \cup (Todo(t) \ {h})) \cap Marks = Todo(t) \cap Marks
    BY <1>1
  <2> QED  BY <1>1, <2>1 DEF Marked, Marks, EndSteps
<1>3. \A u \in Tasks \ {t} : Marked(u)' = Marked(u)
  BY DEF Moves, Marked, Marks, EndSteps
<1>4. ASSUME PcAlive, Todo("pc")' # {}  PROVE "turn" \in Todo("pc")'
  <2>1. CASE t = "pc"
    <3>1. "turn" \in Marked("pc")
      BY <1>1, <1>4, <2>1 DEF PcAlive, Marked, Marks
    <3> QED  BY <1>2, <2>1, <3>1 DEF Marked
  <2>2. CASE t # "pc"
    BY <1>4, <2>2 DEF Moves, PcAlive, Tasks
  <2> QED  BY <2>1, <2>2
<1> QED  BY <1>2, <1>3, <1>4

LEMMA SameMarks ==
  ASSUME NEW t, Marked(t)' = Marked(t)
  PROVE  /\ \A m \in Marks : m \in Todo(t)' <=> m \in Todo(t)
         /\ Ending(t)' <=> Ending(t)
         /\ Leaving(t)' <=> Leaving(t)
<1>1. \A m \in Marks : m \in Todo(t)' <=> m \in Todo(t)
  BY DEF Marked, Marks, EndSteps
<1>2. EndSteps \subseteq Marks /\ {"pc_close", "wait_send_quit", "stop_stream"} \subseteq Marks
  BY DEF Marks
<1>3. Ending(t)' <=> Ending(t)
  BY <1>1, <1>2 DEF Ending, EndSteps
<1> QED  BY <1>1, <1>2, <1>3 DEF Leaving

LEMMA EndingMarks ==
  /\ EndSteps \subseteq Marks
  /\ {"stop_stream", "wait_send_quit", "pc_close", "start_stream", "started", "turn", "wait_exit",
      "stop_signaling", "stopped", "free"} \subseteq Marks
BY DEF Marks, EndSteps

LEMMA QuietInv ==
  ASSUME Orderly, rtc.life = "open", Lists', RtcTypes', Fields' = Fields, rtc.pc => rtc'.pc,
         \A t \in Tasks : Marked(t)' = Marked(t),
         Todo("pc")' # {} => "turn" \in Todo("pc")',
         \A b \in {"SEND_QUIT", "EXIT"} : b \in bits' => b \in bits,
         peer' = "connecting" =>
           peer = "connecting" \/ (~rtc.send_going /\ "start_stream" \notin Todo("pc")),
         UNCHANGED <<senders, api, late>>,
         api = "idle" => NobodyInside',
         \A t \in {"worker", "aux"} : inside'[t] = "none" => Todo(t)' = {}
  PROVE  Orderly'
<1>1. /\ rtc'.life = rtc.life /\ (rtc.pc => rtc'.pc) /\ rtc'.event = rtc.event
      /\ rtc'.running = rtc.running /\ rtc'.send_going = rtc.send_going
      /\ rtc'.signaling = rtc.signaling
  BY DEF Fields
<1>2. \A t \in Tasks : /\ \A m \in Marks : m \in Todo(t)' <=> m \in Todo(t)
                       /\ Ending(t)' <=> Ending(t)
                       /\ Leaving(t)' <=> Leaving(t)
  BY SameMarks
<1>3. "app" \in Tasks /\ "pc" \in Tasks
  BY DEF Tasks
<1>4. Todo("pc")' = {} <=> Todo("pc") = {}
  BY <1>2, <1>3, EndingMarks DEF Orderly, PcAlive
<1>5. \A m \in {"stop_stream", "wait_send_quit", "pc_close", "start_stream", "started", "turn",
                 "wait_exit", "stop_signaling", "stopped", "free"} :
        \A t \in Tasks : m \in Todo(t)' <=> m \in Todo(t)
  BY <1>2, EndingMarks
<1>6. OneCloses'
  BY <1>2, <1>3, <1>4, <1>5 DEF Orderly, OneCloses
<1>7. PcAlive'
  BY <1>1, <1>2, <1>3, <1>4, <1>5 DEF Orderly, PcAlive
<1>8. Streams'
  BY <1>1, <1>2, <1>3, <1>5 DEF Orderly, Streams
<1>9. Signals'
  <2>1. Todo("app") \cap {"stop_signaling", "stopped"} = {}
          <=> "stop_signaling" \notin Todo("app") /\ "stopped" \notin Todo("app")
    OBVIOUS
  <2>2. Todo("app")' \cap {"stop_signaling", "stopped"} = {}
          <=> "stop_signaling" \notin Todo("app")' /\ "stopped" \notin Todo("app")'
    OBVIOUS
  <2> QED  BY <1>1, <1>3, <1>5, <2>1, <2>2 DEF Orderly, Signals
<1>10. Life'
  BY <1>1 DEF Orderly, Life
<1> QED  BY <1>6, <1>7, <1>8, <1>9, <1>10 DEF Orderly

LEMMA QuietStep ==
  ASSUME Orderly, NEW t \in Tasks, NEW h, NEW P, Moves(t, h, P), P \cap Marks = {h} \cap Marks,
         RtcTypes', Fields' = Fields, rtc.pc => rtc'.pc,
         \A b \in {"SEND_QUIT", "EXIT"} : b \in bits' => b \in bits,
         peer' = "connecting" =>
           peer = "connecting" \/ (~rtc.send_going /\ "start_stream" \notin Todo("pc")),
         UNCHANGED <<signaling, senders, late>>
  PROVE  Orderly'
<1>1. Lists' /\ h \in Todo(t) /\ \A u \in Tasks \ {t} : Todo(u)' = Todo(u)
  BY DEF Moves
<1>2. rtc.life = "open"
  BY <1>1 DEF Orderly, Life
<1>3. /\ \A u \in Tasks : Marked(u)' = Marked(u)
      /\ Todo("pc")' # {} => "turn" \in Todo("pc")'
  BY MovesQuiet DEF Orderly
<1>4. UNCHANGED <<api, inside>> /\ (api = "idle" => NobodyInside')
  BY DEF signaling, Orderly, Signals, NobodyInside
<1>5. \A u \in {"worker", "aux"} : inside'[u] = "none" => Todo(u)' = {}
  <2>1. \A u \in {"worker", "aux"} : inside[u] = "none" => Todo(u) = {}
    BY DEF Orderly, Signals
  <2> QED  BY <1>1, <1>4, <2>1 DEF Tasks
<1> HIDE DEF Orderly
<1> QED  BY <1>1, <1>2, <1>3, <1>4, <1>5, QuietInv

LEMMA TypedAs ==
  ASSUME RtcTypes, UNCHANGED inside,
         \/ UNCHANGED rtc
         \/ \E f \in DOMAIN Rtc0 \ {"life"} : \E v \in BOOLEAN : rtc' = [rtc EXCEPT ![f] = v]
  PROVE  RtcTypes'
BY DEF RtcTypes, Rtc0

\* wait_paused and wait_resume are over.
LEMMA Resumes ==
  ASSUME Orderly, NEW t \in Tasks, UNCHANGED late,
         WaitBit(t, "wait_paused", "PAUSED") \/ WaitBit(t, "wait_resume", "RESUME")
  PROVE  Orderly'
<1>1. PICK h \in {"wait_paused", "wait_resume"}, b \in {"PAUSED", "RESUME"} :
        At(t, h) /\ GoOn(t, << >>) /\ bits' \in {bits \ {b}, bits}
  BY DEF WaitBit
<1>2. UNCHANGED <<signaling, senders, late, rtc, peer>>
  BY DEF WaitBit, Quiet
<1>3. Moves(t, h, {})
  BY <1>1, Pops DEF Orderly
<1>4. RtcTypes'
  BY <1>2, TypedAs DEF Orderly, signaling
<1>5. {h} \cap Marks = {}
  BY DEF Marks, EndSteps
<1> QED  BY <1>1, <1>2, <1>3, <1>4, <1>5, QuietStep DEF Fields

LEMMA ReconnectClean ==
  ASSUME Orderly, NEW t \in Tasks, Reconnect(t), raced' = {}, UNCHANGED inside
  PROVE  /\ RtcTypes' /\ Fields' = Fields /\ (rtc.pc => rtc'.pc)
         /\ \A b \in {"SEND_QUIT", "EXIT"} : b \in bits' => b \in bits
         /\ ~rtc.send_going /\ "start_stream" \notin Todo("pc")
<1>1. rtc' = [rtc EXCEPT !.pause = FALSE]
  BY DEF Reconnect
<1>2. RtcTypes'
  BY <1>1, TypedAs DEF Orderly, RtcTypes, Rtc0
<1>3. Fields' = Fields /\ (rtc.pc => rtc'.pc)
  BY <1>1 DEF Fields, Orderly, RtcTypes, Rtc0
<1>4. \A b \in {"SEND_QUIT", "EXIT"} : b \in bits' => b \in bits
  BY DEF Reconnect, SetBit
<1>5. ~rtc.send_going /\ ~At("pc", "start_stream")
  BY DEF Reconnect
<1>6. "start_stream" \notin Todo("pc")
  BY <1>5, AtOf DEF Orderly, Tasks
<1> QED  BY <1>2, <1>3, <1>4, <1>5, <1>6

LEMMA Connects ==
  ASSUME Orderly, NEW t \in Tasks, UNCHANGED late, pc_start(t)
  PROVE  Orderly'
<1>1. At(t, "pc_start") /\ UNCHANGED <<signaling, senders, late, bits>>
  BY DEF pc_start, Quiet
<1>2. {"pc_start"} \cap Marks = {} /\ {"pc_run"} \cap Marks = {} /\ {} \cap Marks = {}
  BY DEF Marks, EndSteps
<1>3. CASE ~rtc.pc /\ rtc' = [rtc EXCEPT !.pc = TRUE] /\ peer' = "new" /\ GoOn(t, <<"pc_run">>)
  <2>1. "pc_run" \in Steps /\ After("pc_start") \subseteq After("pc_run")
    BY DEF Steps, After
  <2>2. "pc_run" \in Work(t)
    <3>1. Todo(t) \subseteq Work(t) /\ "pc_start" \in Todo(t)
      BY <1>1, HeadOf DEF Orderly
    <3> QED  BY <3>1 DEF Work, Tasks, CallWork, PeerWork
  <2>3. Moves(t, "pc_start", {"pc_run"})
    <3>1. <<"pc_run">> \in Seq(Steps) /\ InOrder(<<"pc_run">>) /\ Elems(<<"pc_run">>) = {"pc_run"}
      BY <2>1, One
    <3> QED  BY <1>1, <1>3, <2>1, <2>2, <3>1, GoesOn DEF Orderly
  <2>4. RtcTypes'
    BY <1>1, <1>3, TypedAs DEF Orderly, signaling, Rtc0
  <2>5. Fields' = Fields /\ (rtc.pc => rtc'.pc)
    BY <1>3 DEF Fields, Orderly, RtcTypes, Rtc0
  <2> QED  BY <1>1, <1>2, <1>3, <2>3, <2>4, <2>5, QuietStep
<1>4. CASE UNCHANGED <<rtc, peer>> /\ GoOn(t, << >>)
  <2>1. Moves(t, "pc_start", {})
    BY <1>1, <1>4, Pops DEF Orderly
  <2>2. RtcTypes'
    BY <1>1, <1>4, TypedAs DEF Orderly, signaling
  <2>3. Fields' = Fields /\ (rtc.pc => rtc'.pc)
    BY <1>4 DEF Fields
  <2> QED  BY <1>1, <1>2, <1>4, <2>1, <2>2, <2>3, QuietStep
<1> QED  BY <1>3, <1>4 DEF pc_start

LEMMA TalksToPeer ==
  ASSUME Orderly, NEW t \in Tasks, UNCHANGED late, raced' = {}, PeerSteps(t)
  PROVE  Orderly'
<1>1. GoOn(t, << >>) /\ UNCHANGED <<signaling, senders, late>> /\ UNCHANGED inside
  BY DEF PeerSteps, signaling
<1>2. {"disconnect"} \cap Marks = {} /\ {"reconnect"} \cap Marks = {} /\ {} \cap Marks = {}
  BY DEF Marks, EndSteps
<1>3. CASE At(t, "disconnect") /\ peer' = Disconnected /\ UNCHANGED <<rtc, bits, raced>>
  <2>1. Moves(t, "disconnect", {})
    BY <1>1, <1>3, Pops DEF Orderly
  <2>2. RtcTypes'
    BY <1>1, <1>3, TypedAs DEF Orderly
  <2>3. Fields' = Fields /\ (rtc.pc => rtc'.pc)
    BY <1>3 DEF Fields
  <2>4. peer' = "connecting" => peer = "connecting"
    BY <1>3 DEF Disconnected
  <2> QED  BY <1>1, <1>2, <1>3, <2>1, <2>2, <2>3, <2>4, QuietStep
<1>4. CASE At(t, "reconnect") /\ Reconnect(t)
  <2>1. Moves(t, "reconnect", {})
    BY <1>1, <1>4, Pops DEF Orderly
  <2>2. /\ RtcTypes' /\ Fields' = Fields /\ (rtc.pc => rtc'.pc)
        /\ \A b \in {"SEND_QUIT", "EXIT"} : b \in bits' => b \in bits
        /\ ~rtc.send_going /\ "start_stream" \notin Todo("pc")
    BY <1>1, <1>4, ReconnectClean
  <2> QED  BY <1>1, <1>2, <2>1, <2>2, QuietStep
<1> QED  BY <1>3, <1>4 DEF PeerSteps

\* esp_webrtc_enable_peer_connection that enables.
LEMMA Enables ==
  ASSUME Orderly, NEW t \in Tasks, UNCHANGED <<late, signaling, senders>>, raced' = {},
         \/ /\ At(t, "enable")
            /\ rtc' = [rtc EXCEPT !.pending = FALSE]
            /\ GoOn(t, IF rtc.pc THEN <<"connect">>
                       ELSE IF rtc.ice THEN <<"pc_start", "connect">> ELSE << >>)
            /\ UNCHANGED <<bits, peer, raced>>
         \/ /\ At(t, "connect")
            /\ IF rtc.connected THEN Reconnect(t) ELSE UNCHANGED <<rtc, bits, peer, raced>>
            /\ GoOn(t, << >>)
  PROVE  Orderly'
<1>1. UNCHANGED inside
  BY DEF signaling
<1>2. /\ {"enable"} \cap Marks = {} /\ {"connect"} \cap Marks = {} /\ {} \cap Marks = {}
      /\ {"pc_start", "connect"} \cap Marks = {}
  BY DEF Marks, EndSteps
<1>3. CASE /\ At(t, "enable")
           /\ rtc' = [rtc EXCEPT !.pending = FALSE]
           /\ GoOn(t, IF rtc.pc THEN <<"connect">>
                      ELSE IF rtc.ice THEN <<"pc_start", "connect">> ELSE << >>)
           /\ UNCHANGED <<bits, peer, raced>>
  <2>1. RtcTypes'
    BY <1>1, <1>3, TypedAs DEF Orderly, Rtc0
  <2>2. Fields' = Fields /\ (rtc.pc => rtc'.pc)
    BY <1>3 DEF Fields, Orderly, RtcTypes, Rtc0
  <2>3. /\ {"connect", "pc_start"} \subseteq Steps /\ After("enable") = {"leave"}
        /\ After("connect") = {"leave"} /\ "connect" \in After("pc_start")
        /\ "leave" \in After("pc_start")
    BY DEF Steps, After
  <2>4. {"connect", "pc_start"} \subseteq Work(t)
    <3>1. Todo(t) \subseteq Work(t) /\ "enable" \in Todo(t)
      BY <1>3, HeadOf DEF Orderly
    <3> QED  BY <3>1 DEF Work, Tasks, CallWork, PeerWork
  <2>5. Lists /\ At(t, "enable")
    BY <1>3 DEF Orderly
  <2>6. \E P \in SUBSET {"pc_start", "connect"} : Moves(t, "enable", P)
    <3>1. /\ <<"connect">> \in Seq(Steps) /\ InOrder(<<"connect">>)
          /\ Elems(<<"connect">>) = {"connect"}
      BY <2>3, One
    <3>2. /\ <<"pc_start", "connect">> \in Seq(Steps) /\ InOrder(<<"pc_start", "connect">>)
          /\ Elems(<<"pc_start", "connect">>) = {"pc_start", "connect"}
      BY <2>3, Two
    <3>3. CASE GoOn(t, <<"connect">>)
      <4>1. \A x \in Elems(<<"connect">>) : After("enable") \subseteq After(x)
        BY <2>3, <3>1
      <4>2. Elems(<<"connect">>) \subseteq Work(t)
        BY <2>4, <3>1
      <4>3. Moves(t, "enable", Elems(<<"connect">>))
        BY <2>5, <3>1, <3>3, <4>1, <4>2, GoesOn
      <4> QED  BY <3>1, <4>3
    <3>4. CASE GoOn(t, <<"pc_start", "connect">>)
      <4>1. \A x \in Elems(<<"pc_start", "connect">>) : After("enable") \subseteq After(x)
        BY <2>3, <3>2
      <4>2. Elems(<<"pc_start", "connect">>) \subseteq Work(t)
        BY <2>4, <3>2
      <4>3. Moves(t, "enable", Elems(<<"pc_start", "connect">>))
        BY <2>5, <3>2, <3>4, <4>1, <4>2, GoesOn
      <4> QED  BY <3>2, <4>3
    <3>5. CASE GoOn(t, << >>)
      <4>1. Moves(t, "enable", {})
        BY <1>3, <3>5, Pops DEF Orderly
      <4> QED  BY <4>1
    <3> QED  BY <1>3, <3>3, <3>4, <3>5
  <2>7. PICK P \in SUBSET {"pc_start", "connect"} : Moves(t, "enable", P)
    BY <2>6
  <2>8. P \cap Marks = {"enable"} \cap Marks
    BY <1>2
  <2> QED  BY <1>3, <2>1, <2>2, <2>7, <2>8, QuietStep
<1>4. CASE /\ At(t, "connect")
           /\ IF rtc.connected THEN Reconnect(t) ELSE UNCHANGED <<rtc, bits, peer, raced>>
           /\ GoOn(t, << >>)
  <2>1. Moves(t, "connect", {})
    BY <1>4, Pops DEF Orderly
  <2>2. CASE Reconnect(t)
    <3>1. /\ RtcTypes' /\ Fields' = Fields /\ (rtc.pc => rtc'.pc)
          /\ \A b \in {"SEND_QUIT", "EXIT"} : b \in bits' => b \in bits
          /\ ~rtc.send_going /\ "start_stream" \notin Todo("pc")
      BY <1>1, <2>2, ReconnectClean
    <3> QED  BY <1>2, <2>1, <3>1, QuietStep
  <2>3. CASE UNCHANGED <<rtc, bits, peer, raced>>
    <3>1. RtcTypes'
      BY <1>1, <2>3, TypedAs DEF Orderly
    <3>2. Fields' = Fields /\ (rtc.pc => rtc'.pc)
      BY <2>3 DEF Fields
    <3> QED  BY <1>2, <2>1, <2>3, <3>1, <3>2, QuietStep
  <2> QED  BY <1>4, <2>2, <2>3
<1> QED  BY <1>3, <1>4

LEMMA GoesOnOnly ==
  ASSUME Orderly, NEW t \in Tasks, NEW h, NEW P, Moves(t, h, P), P \cap Marks = {h} \cap Marks,
         UNCHANGED <<signaling, senders, late, rtc, peer>>,
         \A b \in {"SEND_QUIT", "EXIT"} : b \in bits' => b \in bits
  PROVE  Orderly'
<1>1. RtcTypes'
  BY TypedAs DEF Orderly, signaling
<1>2. Fields' = Fields /\ (rtc.pc => rtc'.pc)
  BY DEF Fields
<1> QED  BY <1>1, <1>2, QuietStep

LEMMA CallbacksOver ==
  ASSUME Orderly, UNCHANGED late, CallbacksDone
  PROVE  Orderly'
<1>1. At("app", "callbacks") /\ GoOn("app", << >>) /\ "app" \in Tasks
  BY DEF CallbacksDone, Tasks
<1>2. UNCHANGED <<signaling, senders, late, rtc, peer, bits>>
  BY DEF CallbacksDone, Quiet
<1>3. Moves("app", "callbacks", {})
  BY <1>1, Pops DEF Orderly
<1>4. {"callbacks"} \cap Marks = {}
  BY DEF Marks, EndSteps
<1> QED  BY <1>1, <1>2, <1>3, <1>4, GoesOnOnly

\* pc_task stops at the pause.
LEMMA Pauses ==
  ASSUME Orderly, UNCHANGED late, At("pc", "turn"), GoOn("pc", <<"wait_resume", "turn">>),
         SetBit("PAUSED"), UNCHANGED <<peer, rtc>>, Quiet
  PROVE  Orderly'
<1>1. "pc" \in Tasks /\ UNCHANGED <<signaling, senders, late, rtc, peer>>
  BY DEF Quiet, Tasks
<1>2. /\ {"wait_resume", "turn"} \subseteq Steps /\ After("turn") = {}
      /\ "turn" \in After("wait_resume") /\ {"wait_resume", "turn"} \subseteq Work("pc")
  BY DEF Steps, After, Work, PeerWork
<1>3. /\ <<"wait_resume", "turn">> \in Seq(Steps) /\ InOrder(<<"wait_resume", "turn">>)
      /\ Elems(<<"wait_resume", "turn">>) = {"wait_resume", "turn"}
  BY <1>2, Two
<1>4. Moves("pc", "turn", {"wait_resume", "turn"})
  BY <1>1, <1>2, <1>3, GoesOn DEF Orderly
<1>5. {"wait_resume", "turn"} \cap Marks = {"turn"} \cap Marks
  BY DEF Marks, EndSteps
<1>6. \A b \in {"SEND_QUIT", "EXIT"} : b \in bits' => b \in bits
  BY DEF SetBit
<1> QED  BY <1>1, <1>4, <1>5, <1>6, GoesOnOnly

-----------------------------------------------------------------------------
(* The callbacks *)

\* A thread that enters a callback is in none, or the owner in start or stop.
LEMMA Between ==
  ASSUME Lists, NEW t \in {"app", "worker", "aux"}, Idle(t) \/ At(t, "callbacks")
  PROVE  /\ Todo(t) \subseteq AfterCallbacks \cup {"callbacks"}
         /\ t # "app" => Todo(t) = {}
<1>1. t \in Tasks
  BY DEF Tasks
<1>2. CASE Idle(t)
  BY <1>1, <1>2, IdleOf
<1>3. CASE At(t, "callbacks")
  <2>1. /\ "callbacks" \in Todo(t) /\ Todo(t) \ {"callbacks"} \subseteq After("callbacks")
        /\ Todo(t) \subseteq Work(t)
    BY <1>1, <1>3, HeadOf
  <2>2. After("callbacks") = AfterCallbacks
    BY DEF After
  <2>3. t # "app" => "callbacks" \notin Work(t)
    BY DEF Work, CallWork, PeerWork
  <2> QED  BY <2>1, <2>2, <2>3
<1> QED  BY <1>2, <1>3

LEMMA Entered ==
  ASSUME Orderly, NEW t \in {"app", "worker", "aux"}, NEW c \in Callbacks,
         NEW s \in Seq(Steps), InOrder(s),
         Callback(t, c, s), Elems(s) \subseteq Work(t), UNCHANGED late, rtc.life # "freed",
         \A x \in Elems(s) : "leave" \in After(x) /\ Todo(t) \subseteq After(x)
  PROVE  /\ Lists' /\ Todo(t)' = Elems(s) \cup {"leave"} \cup Todo(t)
         /\ \A u \in Tasks \ {t} : Todo(u)' = Todo(u)
         /\ rtc.life = "open" /\ api # "idle" /\ UNCHANGED <<api, senders, late>>
         /\ DOMAIN inside' = {"app", "worker", "aux"}
         /\ \A u \in {"worker", "aux"} : inside'[u] = "none" => Todo(u)' = {}
<1>1. /\ Idle(t) \/ At(t, "callbacks")
      /\ todo' = [todo EXCEPT ![t] = s \o <<"leave">> \o todo[t]]
      /\ UNCHANGED <<api, senders, late>> /\ api # "idle"
      /\ inside' = [inside EXCEPT ![t] = c]
  BY DEF Callback, Enter
<1>2. t \in Tasks /\ todo[t] \in Seq(Steps) /\ InOrder(todo[t]) /\ Todo(t) \subseteq Work(t)
  BY DEF Tasks, Orderly, Lists
<1>3. "leave" \in Steps /\ "leave" \in Work(t)
      /\ AfterCallbacks \cup {"callbacks"} = After("leave")
  BY DEF Steps, Work, CallWork, After
<1>4. <<"leave">> \in Seq(Steps) /\ InOrder(<<"leave">>) /\ Elems(<<"leave">>) = {"leave"}
  BY <1>3, One
<1> DEFINE a == s \o <<"leave">>
<1>5. a \in Seq(Steps) /\ InOrder(a) /\ Elems(a) = Elems(s) \cup {"leave"}
  BY <1>4, Joined
<1>6. Todo(t) \subseteq After("leave")
  BY <1>1, <1>3, Between DEF Orderly
<1> DEFINE l == a \o todo[t]
<1>7. l \in Seq(Steps) /\ InOrder(l) /\ Elems(l) = Elems(a) \cup Todo(t)
  <2>1. \A x \in Elems(a) : Elems(todo[t]) \subseteq After(x)
    BY <1>5, <1>6 DEF Todo
  <2> HIDE DEF a
  <2> QED  BY <1>2, <1>5, <2>1, Joined DEF Todo
<1>8. todo' = [todo EXCEPT ![t] = l]
  BY <1>1
<1> HIDE DEF l, a
<1>9. Elems(l) \subseteq Work(t)
  BY <1>2, <1>3, <1>5, <1>7
<1>10. /\ Lists' /\ Todo(t)' = Elems(s) \cup {"leave"} \cup Todo(t)
       /\ \A u \in Tasks \ {t} : Todo(u)' = Todo(u)
  BY <1>2, <1>5, <1>7, <1>8, <1>9, ListsOf DEF Orderly
<1>11. rtc.life = "open"
  BY <1>1 DEF Orderly, Life
<1>12. DOMAIN inside = {"app", "worker", "aux"}
       /\ \A u \in {"worker", "aux"} : inside[u] = "none" => Todo(u) = {}
  BY DEF Orderly, RtcTypes, Signals
<1>13. inside'[t] # "none"
  BY <1>1, <1>12 DEF Callbacks
<1>14. \A u \in {"worker", "aux"} : inside'[u] = "none" => Todo(u)' = {}
  BY <1>1, <1>10, <1>12, <1>13 DEF Tasks
<1> QED  BY <1>1, <1>10, <1>11, <1>12, <1>14

\* A callback that gives its thread no step the invariant speaks of.
LEMMA EnteredQuietly ==
  ASSUME Orderly, NEW t \in {"app", "worker", "aux"}, NEW c \in Callbacks,
         NEW s \in Seq(Steps), InOrder(s),
         Callback(t, c, s), Elems(s) \subseteq Work(t), UNCHANGED <<late, bits>>,
         rtc.life # "freed", Elems(s) \cap Marks = {},
         \A x \in Elems(s) : "leave" \in After(x) /\ Todo(t) \subseteq After(x),
         \/ UNCHANGED rtc
         \/ \E f \in {"ice", "connected"} : \E v \in BOOLEAN : rtc' = [rtc EXCEPT ![f] = v],
         peer' = "connecting" =>
           peer = "connecting" \/ (~rtc.send_going /\ "start_stream" \notin Todo("pc"))
  PROVE  Orderly'
<1>1. /\ Lists' /\ Todo(t)' = Elems(s) \cup {"leave"} \cup Todo(t)
      /\ \A u \in Tasks \ {t} : Todo(u)' = Todo(u)
      /\ rtc.life = "open" /\ api # "idle" /\ UNCHANGED <<api, senders, late>>
      /\ DOMAIN inside' = {"app", "worker", "aux"}
      /\ \A u \in {"worker", "aux"} : inside'[u] = "none" => Todo(u)' = {}
  BY Entered
<1>2. \A u \in Tasks : Marked(u)' = Marked(u)
  <2>1. {"leave"} \cap Marks = {}
    BY DEF Marks, EndSteps
  <2>2. Marked(t)' = Marked(t)
    BY <1>1, <2>1 DEF Marked, Marks, EndSteps
  <2>3. \A u \in Tasks \ {t} : Marked(u)' = Marked(u)
    BY <1>1 DEF Marked, Marks, EndSteps
  <2> QED  BY <2>2, <2>3
<1>3. Todo("pc")' = Todo("pc")
  BY <1>1 DEF Tasks
<1>4. Todo("pc")' # {} => "turn" \in Todo("pc")'
  BY <1>3 DEF Orderly, PcAlive
<1>5. RtcTypes' /\ Fields' = Fields /\ (rtc.pc => rtc'.pc)
  <2>1. DOMAIN rtc = DOMAIN Rtc0 /\ \A f \in DOMAIN Rtc0 \ {"life"} : rtc[f] \in BOOLEAN
    BY DEF Orderly, RtcTypes
  <2>2. DOMAIN rtc' = DOMAIN Rtc0 /\ \A f \in DOMAIN Rtc0 \ {"life"} : rtc'[f] \in BOOLEAN
    BY <2>1 DEF Rtc0
  <2>3. Fields' = Fields /\ (rtc.pc => rtc'.pc)
    BY <2>1 DEF Rtc0, Fields
  <2> QED  BY <1>1, <2>2, <2>3 DEF RtcTypes
<1>6. \A b \in {"SEND_QUIT", "EXIT"} : b \in bits' => b \in bits
  OBVIOUS
<1> QED  BY <1>1, <1>2, <1>4, <1>5, <1>6, QuietInv

\* While start calls back, nothing of stop or close is left.
LEMMA Starting ==
  ASSUME Lists, NEW t \in Tasks, "started" \in Todo(t)
  PROVE  Todo(t) \cap {"stopped", "free", "turn"} = {}
<1>1. todo[t] \in Seq(Steps) /\ InOrder(todo[t])
  BY DEF Lists
<1>2. PICK i \in DOMAIN todo[t] : todo[t][i] = "started"
  BY DEF Todo, Elems
<1>3. SUFFICES ASSUME NEW j \in DOMAIN todo[t], todo[t][j] \in {"stopped", "free", "turn"}
               PROVE  FALSE
  BY DEF Todo, Elems
<1>4. i < j \/ j < i
  BY <1>1, <1>2, <1>3
<1>5. "started" \notin After(todo[t][j]) /\ After("started") = {}
  BY <1>3 DEF After
<1> QED  BY <1>1, <1>2, <1>4, <1>5 DEF InOrder

LEMMA ToldIce ==
  ASSUME Orderly, NEW t \in {"app", "worker", "aux"}, UNCHANGED late, rtc.life # "freed",
         signal_ice_received(t)
  PROVE  Orderly'
<1> DEFINE s == IF rtc.pending THEN << >> ELSE <<"pc_start">>
<1>1. /\ Callback(t, "on_ice_info", s) /\ UNCHANGED <<bits, peer>> /\ t # "worker"
      /\ t = "app" => api = "starting"
      /\ rtc' = [rtc EXCEPT !.ice = TRUE] /\ "on_ice_info" \in Callbacks
  BY DEF signal_ice_received, Callbacks
<1>2. "pc_start" \in Steps /\ "pc_start" \notin Marks /\ (t # "worker" => "pc_start" \in Work(t))
      /\ {"started", "leave", "callbacks"} \subseteq After("pc_start")
  BY DEF Steps, Marks, EndSteps, Work, CallWork, After
<1>3. Todo(t) \subseteq {"started", "callbacks"}
  <2>1. Todo(t) \subseteq AfterCallbacks \cup {"callbacks"} /\ (t # "app" => Todo(t) = {})
    BY <1>1, Between DEF Callback, Orderly
  <2>2. CASE t = "app"
    <3>1. "started" \in Todo("app") /\ "app" \in Tasks
      BY <1>1, <2>2 DEF Orderly, Signals, Tasks
    <3>2. Todo("app") \cap {"stopped", "free", "turn"} = {}
      BY <3>1, Starting DEF Orderly
    <3> QED  BY <2>1, <2>2, <3>2 DEF AfterCallbacks
  <2> QED  BY <2>1, <2>2
<1>4. s \in Seq(Steps) /\ InOrder(s) /\ Elems(s) \subseteq {"pc_start"}
  <2>1. /\ <<"pc_start">> \in Seq(Steps) /\ InOrder(<<"pc_start">>)
        /\ Elems(<<"pc_start">>) = {"pc_start"}
    BY <1>2, One
  <2> QED  BY <2>1, None
<1> HIDE DEF s
<1>5. Elems(s) \subseteq Work(t) /\ Elems(s) \cap Marks = {}
  BY <1>1, <1>2, <1>4
<1>6. \A x \in Elems(s) : "leave" \in After(x) /\ Todo(t) \subseteq After(x)
  BY <1>2, <1>3, <1>4
<1> QED  BY <1>1, <1>4, <1>5, <1>6, EnteredQuietly

LEMMA ToldConnected ==
  ASSUME Orderly, NEW t \in {"app", "worker", "aux"}, UNCHANGED late, rtc.life # "freed",
         signal_connected(t), raced' = {}
  PROVE  Orderly'
<1>1. /\ Callback(t, "on_connected", << >>) /\ UNCHANGED bits
      /\ rtc' = [rtc EXCEPT !.connected = TRUE] /\ "on_connected" \in Callbacks
  BY DEF signal_connected, Callbacks
<1>2. \/ UNCHANGED peer
      \/ peer' = "connecting" /\ ~rtc.send_going /\ "start_stream" \notin Todo("pc")
  <2>1. UNCHANGED peer \/ NewConnection
    BY DEF signal_connected
  <2>2. ASSUME NewConnection, rtc.pc
        PROVE  peer' = "connecting" /\ ~rtc.send_going /\ ~At("pc", "start_stream")
    BY <2>2 DEF NewConnection, Races
  <2>3. ASSUME NewConnection, ~rtc.pc  PROVE UNCHANGED peer
    BY <2>3 DEF NewConnection
  <2> QED  BY <2>1, <2>2, <2>3, AtOf DEF Orderly, Tasks
<1> QED  BY <1>1, <1>2, None, EnteredQuietly

LEMMA ToldClosed ==
  ASSUME Orderly, NEW t \in {"app", "worker", "aux"}, UNCHANGED late, rtc.life # "freed",
         signal_closed(t)
  PROVE  Orderly'
<1>1. /\ Callback(t, "on_close", <<"disconnect">>) /\ UNCHANGED <<bits, peer>> /\ t # "aux"
      /\ rtc' = [rtc EXCEPT !.connected = FALSE] /\ "on_close" \in Callbacks
  BY DEF signal_closed, Callbacks
<1>2. "disconnect" \in Steps /\ "disconnect" \notin Marks
      /\ (t # "aux" => "disconnect" \in Work(t))
      /\ AfterCallbacks \cup {"leave", "callbacks"} \subseteq After("disconnect")
  BY DEF Steps, Marks, EndSteps, Work, CallWork, After
<1>3. Todo(t) \subseteq AfterCallbacks \cup {"callbacks"}
  BY <1>1, Between DEF Callback, Orderly
<1>4. /\ <<"disconnect">> \in Seq(Steps) /\ InOrder(<<"disconnect">>)
      /\ Elems(<<"disconnect">>) = {"disconnect"}
  BY <1>2, One
<1>5. Elems(<<"disconnect">>) \subseteq Work(t) /\ Elems(<<"disconnect">>) \cap Marks = {}
  BY <1>1, <1>2, <1>4
<1>6. \A x \in Elems(<<"disconnect">>) : "leave" \in After(x) /\ Todo(t) \subseteq After(x)
  BY <1>2, <1>3, <1>4
<1> QED  BY <1>1, <1>4, <1>5, <1>6, EnteredQuietly

LEMMA ToldMessage ==
  ASSUME Orderly, UNCHANGED late, rtc.life # "freed", signal_new_msg
  PROVE  Orderly'
<1>1. PICK s \in {<<"enable">>, <<"disable">>, << >>} : Callback("worker", "on_msg", s)
  BY DEF signal_new_msg
<1>2. UNCHANGED <<bits, peer, rtc>> /\ "on_msg" \in Callbacks
  BY DEF signal_new_msg, Callbacks
<1>3. /\ {"enable", "disable"} \subseteq Steps /\ {"enable", "disable"} \subseteq Work("worker")
      /\ {"enable", "disable"} \cap Marks = {}
      /\ "leave" \in After("enable") /\ "leave" \in After("disable")
  BY DEF Steps, Marks, EndSteps, Work, CallWork, After
<1>4. Todo("worker") = {}
  BY <1>1, Between DEF Callback, Orderly
<1>5. s \in Seq(Steps) /\ InOrder(s) /\ Elems(s) \subseteq {"enable", "disable"}
  <2>1. <<"enable">> \in Seq(Steps) /\ InOrder(<<"enable">>) /\ Elems(<<"enable">>) = {"enable"}
    BY <1>3, One
  <2>2. /\ <<"disable">> \in Seq(Steps) /\ InOrder(<<"disable">>)
        /\ Elems(<<"disable">>) = {"disable"}
    BY <1>3, One
  <2> QED  BY <2>1, <2>2, None
<1>6. Elems(s) \subseteq Work("worker") /\ Elems(s) \cap Marks = {}
  BY <1>3, <1>5
<1>7. \A x \in Elems(s) : "leave" \in After(x) /\ Todo("worker") \subseteq After(x)
  BY <1>3, <1>4, <1>5
<1> QED  BY <1>1, <1>2, <1>5, <1>6, <1>7, EnteredQuietly

-----------------------------------------------------------------------------
(* Steps of one task that change what the invariant says of it *)

LEMMA Waiting ==
  ASSUME Lists, NEW t \in Tasks
  PROVE  /\ "wait_exit" \in Todo(t) => Ending(t) /\ Leaving(t)
         /\ "wait_send_quit" \in Todo(t) => Leaving(t)
<1>1. ASSUME NEW h \in {"wait_exit", "wait_send_quit"}, h \in Todo(t)
      PROVE  Todo(t) \ {h} \subseteq After(h)
  BY <1>1, AtOf, HeadOf
<1>2. "pc_close" \notin After("wait_exit") /\ "stop_stream" \notin After("wait_exit")
      /\ "stop_stream" \notin After("wait_send_quit")
  BY DEF After, AfterPeer, AfterStream
<1> QED  BY <1>1, <1>2 DEF Ending, Leaving, EndSteps

LEMMA WaitingLater ==
  ASSUME NEW t \in Tasks
  PROVE  (Lists => /\ "wait_exit" \in Todo(t) => Ending(t) /\ Leaving(t)
                   /\ "wait_send_quit" \in Todo(t) => Leaving(t))'
<1>1. Lists => /\ "wait_exit" \in Todo(t) => Ending(t) /\ Leaving(t)
               /\ "wait_send_quit" \in Todo(t) => Leaving(t)
  BY Waiting
<1> QED  BY <1>1, PTL

LEMMA Unmoved ==
  ASSUME NEW u, Todo(u)' = Todo(u)
  PROVE  (Ending(u)' <=> Ending(u)) /\ (Leaving(u)' <=> Leaving(u))
BY DEF Ending, Leaving

\* A task takes steps that neither close nor leave the stream yet.
LEMMA Takes ==
  ASSUME Orderly, rtc.life = "open", NEW t \in Tasks,
         Lists', RtcTypes', Signals', \A u \in Tasks \ {t} : Todo(u)' = Todo(u),
         ~Ending(t), ~Leaving(t), ~Ending(t)', ~Leaving(t)',
         t = "pc" => Todo("pc") # {} /\ "turn" \in Todo("pc")',
         "start_stream" \in Todo("pc")' => ~rtc.send_going,
         rtc'.life = rtc.life, rtc.pc => rtc'.pc, rtc'.event = rtc.event,
         rtc'.running = rtc.running, rtc'.send_going = rtc.send_going,
         \A b \in {"SEND_QUIT", "EXIT"} : b \in bits' => b \in bits,
         peer' = "connecting" => peer = "connecting" /\ "start_stream" \notin Todo("pc")',
         UNCHANGED <<senders, late>>
  PROVE  Orderly'
<1>1. "app" \in Tasks /\ "pc" \in Tasks
  BY DEF Tasks
<1>2. \A u \in Tasks : (Ending(u)' <=> Ending(u)) /\ (Leaving(u)' <=> Leaving(u))
  BY Unmoved
<1>3. ~("wait_exit" \in Todo(t)) /\ ~("wait_send_quit" \in Todo(t))
  BY Waiting DEF Orderly
<1>4. ~("wait_exit" \in Todo(t)') /\ ~("wait_send_quit" \in Todo(t)')
  BY WaitingLater
<1>5. \A u \in Tasks : ("wait_exit" \in Todo(u)' <=> "wait_exit" \in Todo(u))
                       /\ ("wait_send_quit" \in Todo(u)' <=> "wait_send_quit" \in Todo(u))
  BY <1>3, <1>4
<1>6. Todo("pc")' = {} <=> Todo("pc") = {}
  BY <1>1
<1>7. OneCloses'
  <2>1. \A u \in Tasks : "stop_stream" \in Todo(u)' => ~Ending(u)'
    BY <1>2 DEF Orderly, OneCloses
  <2> QED  BY <1>1, <1>2, <1>5, <1>6, <2>1 DEF Orderly, OneCloses
<1>8. PcAlive'
  <2>1. Todo("pc")' # {} => "turn" \in Todo("pc")'
    BY <1>1 DEF Orderly, PcAlive
  <2> QED  BY <1>1, <1>2, <1>5, <1>6, <2>1 DEF Orderly, PcAlive
<1>9. Streams'
  BY <1>1, <1>2, <1>5 DEF Orderly, Streams
<1>10. Life'
  BY DEF Orderly, Life
<1> QED  BY <1>7, <1>8, <1>9, <1>10 DEF Orderly

LEMMA SignalsKept ==
  ASSUME Signals, UNCHANGED <<api, inside>>, rtc.signaling => rtc'.signaling,
         \A m \in {"started", "stopped", "stop_signaling", "free"} :
           m \in Todo("app")' <=> m \in Todo("app"),
         \A u \in {"worker", "aux"} : inside[u] = "none" => Todo(u)' = {}
  PROVE  Signals'
<1>1. NobodyInside' <=> NobodyInside
  BY DEF NobodyInside
<1>2. Todo("app") \cap {"stop_signaling", "stopped"} = {}
        <=> "stop_signaling" \notin Todo("app") /\ "stopped" \notin Todo("app")
  OBVIOUS
<1>3. Todo("app")' \cap {"stop_signaling", "stopped"} = {}
        <=> "stop_signaling" \notin Todo("app")' /\ "stopped" \notin Todo("app")'
  OBVIOUS
<1> QED  BY <1>1, <1>2, <1>3 DEF Signals

\* The fields the invariant speaks of.
LEMMA OfFields ==
  ASSUME RtcTypes, NEW f \in DOMAIN Rtc0 \ {"life"}, NEW v \in BOOLEAN, UNCHANGED inside,
         rtc' = [rtc EXCEPT ![f] = v]
  PROVE  /\ RtcTypes' /\ rtc'.life = rtc.life
         /\ rtc'[f] = v /\ \A g \in DOMAIN Rtc0 \ {f} : rtc'[g] = rtc[g]
<1>1. RtcTypes'
  BY TypedAs
<1> QED  BY <1>1 DEF RtcTypes, Rtc0

LEMMA ClosingLists ==
  /\ Stopping \in Seq(Steps) /\ InOrder(Stopping)
  /\ Elems(Stopping) = {"stop_stream", "pc_close", "stop_signaling"}
  /\ Closing \in Seq(Steps) /\ InOrder(Closing)
  /\ Elems(Closing) = {"stop_stream", "pc_close", "stop_signaling", "free"}
<1>1. /\ {"stop_stream", "pc_close", "stop_signaling", "free"} \subseteq Steps
      /\ {"pc_close", "stop_signaling", "free"} \subseteq After("stop_stream")
      /\ {"stop_signaling", "free"} \subseteq After("pc_close")
      /\ "free" \in After("stop_signaling")
  BY DEF Steps, After, AfterStream, AfterPeer
<1>2. /\ Stopping \in Seq(Steps) /\ InOrder(Stopping)
      /\ Elems(Stopping) = {"stop_stream", "pc_close", "stop_signaling"}
  BY <1>1, Three DEF Stopping
<1>3. <<"free">> \in Seq(Steps) /\ InOrder(<<"free">>) /\ Elems(<<"free">>) = {"free"}
  BY <1>1, One
<1> HIDE DEF Stopping
<1>4. \A x \in Elems(Stopping) : Elems(<<"free">>) \subseteq After(x)
  BY <1>1, <1>2, <1>3
<1>5. /\ Closing \in Seq(Steps) /\ InOrder(Closing)
      /\ Elems(Closing) = Elems(Stopping) \cup Elems(<<"free">>)
  BY <1>2, <1>3, <1>4, Joined DEF Closing
<1> QED  BY <1>2, <1>3, <1>5

\* The owner's calls find the owner with nothing to do.
LEMMA Asks ==
  ASSUME Orderly, UNCHANGED late, NEW s \in Seq(Steps), InOrder(s), Calls(s), UNCHANGED inside,
         Elems(s) \subseteq Work("app"), Signals',
         Elems(s) \cap EndSteps = {} \/ {"stop_stream", "pc_close"} \subseteq Elems(s),
         Elems(s) \cap {"wait_send_quit", "pc_close"} = {} \/ "stop_stream" \in Elems(s)
  PROVE  Orderly'
<1>1. /\ Idle("app") /\ rtc.life = "open" /\ todo' = [todo EXCEPT !["app"] = s]
      /\ UNCHANGED <<rtc, bits, peer, senders, late>>
  BY DEF Calls
<1>2. "app" \in Tasks /\ Todo("app") = {}
  BY <1>1, IdleOf DEF Orderly, Tasks
<1>3. Lists' /\ Todo("app")' = Elems(s) /\ \A u \in Tasks \ {"app"} : Todo(u)' = Todo(u)
  BY <1>1, <1>2, ListsOf DEF Orderly
<1>4. ~Ending("app") /\ ~Leaving("app")
  BY <1>2 DEF Ending, Leaving
<1>5. ~Ending("app")' /\ ~Leaving("app")'
  BY <1>3 DEF Ending, Leaving
<1>6. Todo("pc")' = Todo("pc")
  BY <1>3 DEF Tasks
<1>7. RtcTypes'
  BY <1>1, TypedAs DEF Orderly
<1>8. "start_stream" \in Todo("pc")' => ~rtc.send_going /\ peer # "connecting"
  BY <1>6 DEF Orderly, Streams
<1> QED  BY <1>1, <1>2, <1>3, <1>4, <1>5, <1>7, <1>8, Takes

LEMMA AsksEnable ==
  ASSUME Orderly, UNCHANGED late, CallEnable
  PROVE  Orderly'
<1>1. PICK h \in {"enable", "disable"} : Calls(<<h>>) /\ UNCHANGED <<signaling, rtc>>
  BY DEF CallEnable, Calls
<1>2. h \in Steps /\ h \in Work("app")
      /\ {h} \cap (EndSteps \cup {"wait_send_quit", "pc_close", "started"}) = {}
  BY DEF Steps, Work, CallWork, EndSteps
<1>3. <<h>> \in Seq(Steps) /\ InOrder(<<h>>) /\ Elems(<<h>>) = {h}
  BY <1>2, One
<1>4. "app" \in Tasks /\ Todo("app") = {} /\ todo' = [todo EXCEPT !["app"] = <<h>>]
  BY <1>1, IdleOf DEF Calls, Orderly, Tasks
<1>5. Todo("app")' = {h} /\ \A u \in Tasks \ {"app"} : Todo(u)' = Todo(u)
  BY <1>2, <1>3, <1>4, ListsOf DEF Orderly
<1>6. Signals'
  <2>1. \A m \in {"started", "stopped", "stop_signaling", "free"} :
          m \in Todo("app")' <=> m \in Todo("app")
    BY <1>2, <1>4, <1>5 DEF EndSteps
  <2>2. \A u \in {"worker", "aux"} : inside[u] = "none" => Todo(u)' = {}
    BY <1>5 DEF Orderly, Signals, Tasks
  <2> QED  BY <1>1, <2>1, <2>2, SignalsKept DEF Orderly, signaling
<1> QED  BY <1>1, <1>2, <1>3, <1>6, Asks DEF signaling

LEMMA AsksStart ==
  ASSUME Orderly, UNCHANGED late, esp_webrtc_start
  PROVE  Orderly'
<1> DEFINE s == <<"callbacks", "started">>
<1>1. /\ Calls(s) /\ UNCHANGED <<inside, rtc>> /\ api' = "starting"
  BY DEF esp_webrtc_start, Start, Calls
<1>2. {"callbacks", "started"} \subseteq Steps /\ {"callbacks", "started"} \subseteq Work("app")
      /\ {"callbacks", "started"} \cap (EndSteps \cup {"wait_send_quit", "pc_close"}) = {}
      /\ "started" \in After("callbacks")
  BY DEF Steps, Work, CallWork, EndSteps, After, AfterCallbacks
<1>3. s \in Seq(Steps) /\ InOrder(s) /\ Elems(s) = {"callbacks", "started"}
  BY <1>2, Two
<1>4. "app" \in Tasks /\ todo' = [todo EXCEPT !["app"] = s]
  BY <1>1 DEF Calls, Tasks
<1> HIDE DEF s
<1>5. Todo("app")' = {"callbacks", "started"} /\ \A u \in Tasks \ {"app"} : Todo(u)' = Todo(u)
  BY <1>2, <1>3, <1>4, ListsOf DEF Orderly
<1>6. Signals'
  <2>1. "free" \notin Todo("app")' /\ "started" \in Todo("app")'
    BY <1>5
  <2>2. \A u \in {"worker", "aux"} : inside'[u] = "none" => Todo(u)' = {}
    BY <1>1, <1>5 DEF Orderly, Signals, Tasks
  <2> QED  BY <1>1, <2>1, <2>2 DEF Signals
<1> QED  BY <1>1, <1>2, <1>3, <1>6, Asks

LEMMA AsksStopOrClose ==
  ASSUME Orderly, UNCHANGED late, CallStopOrClose
  PROVE  Orderly'
<1>1. PICK s \in {Stopping, Closing} : Calls(s) /\ UNCHANGED <<signaling, rtc>>
  BY DEF CallStopOrClose, Calls
<1>2. {"stop_stream", "pc_close", "stop_signaling", "free"} \subseteq Work("app")
  BY DEF Work, CallWork, PeerWork
<1>3. /\ s \in Seq(Steps) /\ InOrder(s)
      /\ Elems(s) \subseteq {"stop_stream", "pc_close", "stop_signaling", "free"}
      /\ {"stop_stream", "pc_close", "stop_signaling"} \subseteq Elems(s)
  BY ClosingLists
<1>4. "app" \in Tasks /\ Todo("app") = {} /\ todo' = [todo EXCEPT !["app"] = s]
  BY <1>1, IdleOf DEF Calls, Orderly, Tasks
<1>5. Todo("app")' = Elems(s) /\ \A u \in Tasks \ {"app"} : Todo(u)' = Todo(u)
  BY <1>2, <1>3, <1>4, ListsOf DEF Orderly
<1>6. Signals'
  <2>1. api \notin {"starting", "stopping"} /\ "stop_signaling" \in Todo("app")'
    BY <1>3, <1>4, <1>5 DEF Orderly, Signals
  <2>2. \A u \in {"worker", "aux"} : inside[u] = "none" => Todo(u)' = {}
    BY <1>5 DEF Orderly, Signals, Tasks
  <2>3. NobodyInside' <=> NobodyInside
    BY <1>1 DEF NobodyInside, signaling
  <2> QED  BY <1>1, <2>1, <2>2, <2>3 DEF Orderly, Signals, signaling
<1>7. Elems(s) \subseteq Work("app")
  BY <1>2, <1>3
<1>8. UNCHANGED inside
  BY <1>1 DEF signaling
<1> QED  BY <1>1, <1>3, <1>6, <1>7, <1>8, Asks

\* BYE pauses the loop and has the stream to stop.
LEMMA Hangs ==
  ASSUME Orderly, UNCHANGED late, rtc.life # "freed", signal_bye
  PROVE  Orderly'
<1> DEFINE w == IF rtc.pause THEN << >> ELSE <<"wait_paused">>
           r == IF set.no_auto_reconnect THEN << >> ELSE <<"reconnect">>
           s == w \o <<"disconnect", "stop_stream">> \o r
           all == {"wait_paused", "disconnect", "stop_stream", "reconnect"}
<1>1. UNCHANGED <<bits, peer>> /\ "on_msg" \in Callbacks
  BY DEF signal_bye, Callbacks
<1>2. CASE ~rtc.running /\ Callback("worker", "on_msg", << >>) /\ UNCHANGED rtc
  BY <1>1, <1>2, None, EnteredQuietly
<1>3. CASE rtc.running /\ Callback("worker", "on_msg", s) /\ rtc' = [rtc EXCEPT !.pause = TRUE]
  <2>1. /\ all \subseteq Steps /\ all \subseteq Work("worker")
        /\ {"disconnect", "stop_stream", "reconnect", "leave"} \subseteq After("wait_paused")
        /\ {"stop_stream", "reconnect", "leave"} \subseteq After("disconnect")
        /\ {"reconnect", "leave"} \subseteq After("stop_stream") \cup {"leave"}
        /\ "leave" \in After("stop_stream") /\ "leave" \in After("reconnect")
    BY DEF Steps, Work, CallWork, PeerWork, After, AfterStream, AfterPeer
  <2>2. w \in Seq(Steps) /\ InOrder(w) /\ Elems(w) \subseteq {"wait_paused"}
    BY <2>1, One, None
  <2>3. r \in Seq(Steps) /\ InOrder(r) /\ Elems(r) \subseteq {"reconnect"}
    BY <2>1, One, None
  <2> DEFINE m == <<"disconnect", "stop_stream">>
  <2>4. m \in Seq(Steps) /\ InOrder(m) /\ Elems(m) = {"disconnect", "stop_stream"}
    BY <2>1, Two
  <2> DEFINE a == w \o m
  <2>5. s = a \o r
    OBVIOUS
  <2> HIDE DEF w, r, m, s
  <2>6. a \in Seq(Steps) /\ InOrder(a) /\ Elems(a) = Elems(w) \cup Elems(m)
    <3>1. \A x \in Elems(w) : Elems(m) \subseteq After(x)
      BY <2>1, <2>2, <2>4
    <3> QED  BY <2>2, <2>4, <3>1, Joined
  <2> HIDE DEF a
  <2>7. s \in Seq(Steps) /\ InOrder(s) /\ Elems(s) = Elems(a) \cup Elems(r)
    <3>1. "reconnect" \in After("stop_stream")
      BY <2>1
    <3>2. \A x \in Elems(a) : Elems(r) \subseteq After(x)
      BY <2>1, <2>2, <2>3, <2>4, <2>6, <3>1
    <3>3. a \o r \in Seq(Steps) /\ InOrder(a \o r) /\ Elems(a \o r) = Elems(a) \cup Elems(r)
      BY <2>3, <2>6, <3>2, Joined
    <3> QED  BY <2>5, <3>3
  <2>8. Elems(s) \subseteq all /\ "stop_stream" \in Elems(s)
    BY <2>2, <2>3, <2>4, <2>6, <2>7
  <2>9. Todo("worker") = {} /\ "worker" \in Tasks
    BY <1>3, Between DEF Callback, Orderly, Tasks
  <2>10. /\ Lists' /\ Todo("worker")' = Elems(s) \cup {"leave"} \cup Todo("worker")
         /\ \A u \in Tasks \ {"worker"} : Todo(u)' = Todo(u)
         /\ rtc.life = "open" /\ api # "idle" /\ UNCHANGED <<api, senders, late>>
         /\ DOMAIN inside' = {"app", "worker", "aux"}
         /\ \A u \in {"worker", "aux"} : inside'[u] = "none" => Todo(u)' = {}
    <3>1. Elems(s) \subseteq Work("worker")
      BY <2>1, <2>8
    <3>2. \A x \in Elems(s) : "leave" \in After(x) /\ Todo("worker") \subseteq After(x)
      BY <2>1, <2>8, <2>9
    <3> QED  BY <1>1, <1>3, <2>7, <3>1, <3>2, Entered
  <2>11. ~Ending("worker") /\ ~Leaving("worker")
    BY <2>9 DEF Ending, Leaving
  <2>12. ~Ending("worker")' /\ ~Leaving("worker")'
    BY <2>8, <2>9, <2>10 DEF Ending, Leaving, EndSteps
  <2>13. /\ rtc'.life = rtc.life /\ (rtc.pc => rtc'.pc) /\ rtc'.event = rtc.event
         /\ rtc'.running = rtc.running /\ rtc'.send_going = rtc.send_going
         /\ rtc'.signaling = rtc.signaling
    BY <1>3 DEF Orderly, RtcTypes, Rtc0
  <2>14. RtcTypes'
    <3>1. DOMAIN rtc' = DOMAIN Rtc0 /\ \A f \in DOMAIN Rtc0 \ {"life"} : rtc'[f] \in BOOLEAN
      BY <1>3 DEF Orderly, RtcTypes, Rtc0
    <3> QED  BY <2>10, <3>1 DEF RtcTypes
  <2>15. Todo("pc")' = Todo("pc") /\ Todo("app")' = Todo("app")
    BY <2>10 DEF Tasks
  <2>16. Signals'
    <3>1. /\ api' # "idle" /\ UNCHANGED api
          /\ rtc'.signaling = rtc.signaling /\ Todo("app")' = Todo("app")
      BY <2>10, <2>13, <2>15
    <3> QED  BY <2>10, <3>1 DEF Orderly, Signals
  <2>17. "start_stream" \in Todo("pc")' => ~rtc.send_going /\ peer # "connecting"
    BY <2>15 DEF Orderly, Streams
  <2> QED  BY <1>1, <2>9, <2>10, <2>11, <2>12, <2>13, <2>14, <2>16, <2>17, Takes
<1> QED  BY <1>2, <1>3 DEF signal_bye

\* A step that gives way to steps that neither close nor leave the stream yet.
LEMMA GivesWay ==
  ASSUME Orderly, NEW t \in Tasks, NEW h, NEW P, Moves(t, h, P),
         h \notin {"started", "stopped", "stop_signaling", "free"},
         P \cap {"started", "stopped", "stop_signaling", "free"} = {} \/ t = "pc",
         ~Ending(t), ~Leaving(t), ~Ending(t)', ~Leaving(t)',
         "start_stream" \in Todo("pc")' => ~rtc.send_going,
         RtcTypes', Fields' = Fields, rtc.pc => rtc'.pc,
         \A b \in {"SEND_QUIT", "EXIT"} : b \in bits' => b \in bits,
         peer' = "connecting" => peer = "connecting" /\ "start_stream" \notin Todo("pc")',
         t = "pc" => "turn" \in Todo("pc")',
         UNCHANGED <<signaling, senders, late>>
  PROVE  Orderly'
<1>1. /\ Lists' /\ h \in Todo(t) /\ Todo(t)' = P \cup (Todo(t) \ {h})
      /\ \A u \in Tasks \ {t} : Todo(u)' = Todo(u)
  BY DEF Moves
<1>2. rtc.life = "open"
  BY <1>1 DEF Orderly, Life
<1>3. UNCHANGED <<api, inside>>
  BY DEF signaling
<1>4. \A m \in {"started", "stopped", "stop_signaling", "free"} :
        m \in Todo("app")' <=> m \in Todo("app")
  BY <1>1 DEF Tasks
<1>5. \A u \in {"worker", "aux"} : inside[u] = "none" => Todo(u)' = {}
  BY <1>1 DEF Orderly, Signals, Tasks
<1>6. /\ rtc'.life = rtc.life /\ rtc'.event = rtc.event
      /\ rtc'.running = rtc.running /\ rtc'.send_going = rtc.send_going
      /\ rtc'.signaling = rtc.signaling
  BY DEF Fields
<1>7. Signals'
  BY <1>3, <1>4, <1>5, <1>6, SignalsKept DEF Orderly
<1> QED  BY <1>1, <1>2, <1>6, <1>7, Takes

\* The event handler may close the session from pc_task.
LEMMA Notifies ==
  ASSUME Orderly, UNCHANGED late, pc_notify_app
  PROVE  Orderly'
<1>1. UNCHANGED <<signaling, senders, late, rtc, peer, bits>> /\ "pc" \in Tasks
  BY DEF pc_notify_app, Quiet, Tasks
<1>2. CASE \E h \in {"notify_connected", "notify_down"} : At("pc", h) /\ GoOn("pc", << >>)
  <2>1. PICK h \in {"notify_connected", "notify_down"} : At("pc", h) /\ GoOn("pc", << >>)
    BY <1>2
  <2>2. Moves("pc", h, {})
    BY <1>1, <2>1, Pops DEF Orderly
  <2>3. {} \cap Marks = {h} \cap Marks
    BY DEF Marks, EndSteps
  <2> QED  BY <1>1, <2>2, <2>3, GoesOnOnly
<1>3. CASE At("pc", "notify_down") /\ GoOn("pc", Closing)
  <2> DEFINE P == {"stop_stream", "pc_close", "stop_signaling", "free"}
  <2>1. Closing \in Seq(Steps) /\ InOrder(Closing) /\ Elems(Closing) = P
    BY ClosingLists
  <2>2. \A x \in P : After("notify_down") \subseteq After(x)
    BY DEF After, AfterStream, AfterPeer
  <2>3. P \subseteq Work("pc")
    BY DEF Work, PeerWork
  <2>4. Moves("pc", "notify_down", P)
    <3> HIDE DEF P
    <3>1. \A x \in Elems(Closing) : After("notify_down") \subseteq After(x)
      BY <2>1, <2>2
    <3>2. Elems(Closing) \subseteq Work("pc")
      BY <2>1, <2>3
    <3>3. Moves("pc", "notify_down", Elems(Closing))
      BY <1>1, <1>3, <2>1, <3>1, <3>2, GoesOn DEF Orderly
    <3> QED  BY <2>1, <3>3
  <2>5. /\ "notify_down" \in Todo("pc") /\ Todo("pc")' = P \cup (Todo("pc") \ {"notify_down"})
        /\ Todo("pc") \ {"notify_down"} \subseteq {"turn"} /\ "turn" \in Todo("pc")
    BY <2>4 DEF Moves, After, Orderly, PcAlive
  <2>6. ~Ending("pc") /\ ~Leaving("pc") /\ ~Ending("pc")' /\ ~Leaving("pc")'
    BY <2>5 DEF Ending, Leaving, EndSteps
  <2>7. RtcTypes' /\ Fields' = Fields
    BY <1>1, TypedAs DEF Orderly, Fields, signaling
  <2>8. "start_stream" \notin Todo("pc")'
    BY <2>5
  <2>9. "turn" \in Todo("pc")'
    BY <2>5
  <2> HIDE DEF P
  <2> QED  BY <1>1, <2>4, <2>6, <2>7, <2>8, <2>9, GivesWay
<1> QED  BY <1>2, <1>3 DEF pc_notify_app

\* esp_webrtc_enable_peer_connection that refuses.
LEMMA Refuses ==
  ASSUME Orderly, NEW t \in Tasks, UNCHANGED <<late, signaling, senders>>,
         At(t, "disable"), rtc' = [rtc EXCEPT !.pending = TRUE],
         GoOn(t, <<"stop_stream", "pc_close">>), UNCHANGED <<bits, peer>>
  PROVE  Orderly'
<1> DEFINE P == {"stop_stream", "pc_close"}
<1>1. P \subseteq Steps /\ "pc_close" \in After("stop_stream") /\ After("disable") = {"leave"}
      /\ "leave" \in After("stop_stream") /\ "leave" \in After("pc_close")
  BY DEF Steps, After, AfterStream, AfterPeer
<1>2. "disable" \in Todo(t) /\ Todo(t) \subseteq Work(t)
  BY HeadOf DEF Orderly
<1>3. P \subseteq Work(t) /\ t # "pc"
  BY <1>2 DEF Work, CallWork, PeerWork, Tasks
<1>4. Moves(t, "disable", P)
  <2> DEFINE s == <<"stop_stream", "pc_close">>
  <2>1. s \in Seq(Steps) /\ InOrder(s) /\ Elems(s) = P
    BY <1>1, Two
  <2> HIDE DEF s, P
  <2>2. \A x \in Elems(s) : After("disable") \subseteq After(x)
    BY <1>1, <2>1 DEF P
  <2>3. Elems(s) \subseteq Work(t)
    BY <1>3, <2>1
  <2>4. GoOn(t, s)
    BY DEF s
  <2>5. Moves(t, "disable", Elems(s))
    BY <2>1, <2>2, <2>3, <2>4, GoesOn DEF Orderly
  <2> QED  BY <2>1, <2>5
<1>5. Todo(t) \subseteq {"disable", "leave"} /\ Todo(t)' = P \cup (Todo(t) \ {"disable"})
  BY <1>1, <1>4 DEF Moves
<1>6. ~Ending(t) /\ ~Leaving(t) /\ ~Ending(t)' /\ ~Leaving(t)'
  BY <1>5 DEF Ending, Leaving, EndSteps
<1>7. UNCHANGED inside
  BY DEF signaling
<1>8. RtcTypes' /\ Fields' = Fields /\ (rtc.pc => rtc'.pc)
  <2>1. RtcTypes'
    BY <1>7, TypedAs DEF Orderly, Rtc0
  <2>2. Fields' = Fields /\ (rtc.pc => rtc'.pc)
    BY DEF Fields, Orderly, RtcTypes, Rtc0
  <2> QED  BY <2>1, <2>2
<1>9. Todo("pc")' = Todo("pc")
  BY <1>3, <1>4 DEF Moves, Tasks
<1>10. "start_stream" \in Todo("pc")' => ~rtc.send_going /\ peer # "connecting"
  BY <1>9 DEF Orderly, Streams
<1>11. P \cap {"started", "stopped", "stop_signaling", "free"} = {}
  OBVIOUS
<1> HIDE DEF P
<1> QED  BY <1>3, <1>4, <1>6, <1>8, <1>10, <1>11, GivesWay

-----------------------------------------------------------------------------
(* pc_task and the stream *)

\* A turn leaves pc_task with nothing but what it reports.
LEMMA Turns ==
  ASSUME Orderly, NEW s \in Seq(Steps), InOrder(s), At("pc", "turn"),
         GoOn("pc", s), Elems(s) \subseteq Work("pc")
  PROVE  /\ Lists' /\ Todo("pc")' = Elems(s) /\ Todo("pc") = {"turn"} /\ "pc" \in Tasks
         /\ \A u \in Tasks \ {"pc"} : Todo(u)' = Todo(u)
         /\ rtc.life = "open"
<1>1. "pc" \in Tasks /\ After("turn") = {}
  BY DEF Tasks, After
<1>2. Moves("pc", "turn", Elems(s))
  BY <1>1, GoesOn DEF Orderly
<1>3. Todo("pc") = {"turn"}
  BY <1>1, <1>2 DEF Moves
<1>4. rtc.life = "open"
  BY <1>1, <1>3 DEF Orderly, Life
<1> QED  BY <1>1, <1>2, <1>3, <1>4 DEF Moves

LEMMA Ends ==
  ASSUME Orderly, UNCHANGED <<late, rtc, peer>>, At("pc", "turn"), ~rtc.running,
         GoOn("pc", << >>), SetBit("EXIT"), Quiet
  PROVE  Orderly'
<1>1. /\ Lists' /\ Todo("pc")' = {} /\ Todo("pc") = {"turn"} /\ "pc" \in Tasks
      /\ \A u \in Tasks \ {"pc"} : Todo(u)' = Todo(u)
      /\ rtc.life = "open"
  BY None, Turns
<1>2. UNCHANGED <<api, inside, senders, late, rtc, peer>>
  BY DEF Quiet, signaling
<1>3. \A u \in Tasks \ {"pc"} : (Ending(u)' <=> Ending(u)) /\ (Leaving(u)' <=> Leaving(u))
  BY <1>1, Unmoved
<1>4. ~Ending("pc")' /\ ~Leaving("pc")'
  BY <1>1 DEF Ending, Leaving
<1>5. senders = 0 /\ ~rtc.send_going
  BY DEF Orderly, Streams
<1>6. RtcTypes'
  BY <1>2, TypedAs DEF Orderly
<1>7. OneCloses'
  BY <1>1, <1>3, <1>4 DEF Orderly, OneCloses
<1>8. PcAlive'
  BY <1>1, <1>2 DEF Orderly, PcAlive
<1>9. Streams'
  <2>1. "SEND_QUIT" \in bits' => "SEND_QUIT" \in bits
    BY DEF SetBit
  <2>2. "wait_send_quit" \notin Todo("pc") /\ "start_stream" \notin Todo("pc")'
    BY <1>1
  <2> QED  BY <1>1, <1>2, <1>5, <2>1, <2>2 DEF Orderly, Streams
<1>10. Signals'
  <2>1. Todo("app")' = Todo("app")
    BY <1>1 DEF Tasks
  <2>2. \A u \in {"worker", "aux"} : inside[u] = "none" => Todo(u)' = {}
    BY <1>1 DEF Orderly, Signals, Tasks
  <2> QED  BY <1>2, <2>1, <2>2, SignalsKept DEF Orderly
<1>11. Life'
  BY <1>1, <1>2 DEF Orderly, Life
<1> QED  BY <1>1, <1>6, <1>7, <1>8, <1>9, <1>10, <1>11 DEF Orderly

LEMMA Reported ==
  ASSUME Orderly, UNCHANGED <<late, rtc, bits>>, At("pc", "turn"), MainLoop, Quiet
  PROVE  Orderly'
<1> DEFINE up == <<"start_stream", "notify_connected">> \o <<"turn">>
           down == <<"notify_down">> \o <<"turn">>
           lost == <<"stop_stream", "notify_down">> \o <<"turn">>
<1>1. /\ {"start_stream", "notify_connected", "notify_down", "stop_stream", "turn"} \subseteq Steps
      /\ {"start_stream", "notify_connected", "notify_down", "stop_stream", "turn"}
           \subseteq Work("pc")
      /\ {"notify_connected", "turn"} \subseteq After("start_stream")
      /\ {"notify_down", "turn"} \subseteq After("stop_stream")
      /\ "turn" \in After("notify_connected") /\ "turn" \in After("notify_down")
  BY DEF Steps, Work, PeerWork, After, AfterStream, AfterPeer
<1>2. <<"turn">> \in Seq(Steps) /\ InOrder(<<"turn">>) /\ Elems(<<"turn">>) = {"turn"}
  BY <1>1, One
<1>3. /\ up \in Seq(Steps) /\ InOrder(up)
      /\ Elems(up) = {"start_stream", "notify_connected", "turn"}
  <2> DEFINE a == <<"start_stream", "notify_connected">>
  <2>1. a \in Seq(Steps) /\ InOrder(a) /\ Elems(a) = {"start_stream", "notify_connected"}
    BY <1>1, Two
  <2> HIDE DEF a
  <2>2. a \o <<"turn">> \in Seq(Steps) /\ InOrder(a \o <<"turn">>)
        /\ Elems(a \o <<"turn">>) = Elems(a) \cup Elems(<<"turn">>)
    BY <1>1, <1>2, <2>1, Joined
  <2> QED  BY <1>2, <2>1, <2>2 DEF a
<1>4. down \in Seq(Steps) /\ InOrder(down) /\ Elems(down) = {"notify_down", "turn"}
  <2> DEFINE a == <<"notify_down">>
  <2>1. a \in Seq(Steps) /\ InOrder(a) /\ Elems(a) = {"notify_down"}
    BY <1>1, One
  <2> HIDE DEF a
  <2>2. a \o <<"turn">> \in Seq(Steps) /\ InOrder(a \o <<"turn">>)
        /\ Elems(a \o <<"turn">>) = Elems(a) \cup Elems(<<"turn">>)
    BY <1>1, <1>2, <2>1, Joined
  <2> QED  BY <1>2, <2>1, <2>2 DEF a
<1>5. lost \in Seq(Steps) /\ InOrder(lost) /\ Elems(lost) = {"stop_stream", "notify_down", "turn"}
  <2> DEFINE a == <<"stop_stream", "notify_down">>
  <2>1. a \in Seq(Steps) /\ InOrder(a) /\ Elems(a) = {"stop_stream", "notify_down"}
    BY <1>1, Two
  <2> HIDE DEF a
  <2>2. a \o <<"turn">> \in Seq(Steps) /\ InOrder(a \o <<"turn">>)
        /\ Elems(a \o <<"turn">>) = Elems(a) \cup Elems(<<"turn">>)
    BY <1>1, <1>2, <2>1, Joined
  <2> QED  BY <1>2, <2>1, <2>2 DEF a
<1>6. PICK s \in {up, down, lost} :
        /\ GoOn("pc", s) /\ peer' # "connecting"
        /\ s = up => peer = "connecting"
  BY DEF MainLoop, Reports
<1> HIDE DEF up, down, lost
<1>7. /\ Lists' /\ Todo("pc")' = Elems(s) /\ Todo("pc") = {"turn"} /\ "pc" \in Tasks
      /\ \A u \in Tasks \ {"pc"} : Todo(u)' = Todo(u)
      /\ rtc.life = "open"
  <2>1. s \in Seq(Steps) /\ InOrder(s) /\ Elems(s) \subseteq Work("pc")
    BY <1>1, <1>3, <1>4, <1>5
  <2> QED  BY <1>6, <2>1, Turns
<1>8. ~Ending("pc") /\ ~Leaving("pc") /\ ~Ending("pc")' /\ ~Leaving("pc")'
  BY <1>3, <1>4, <1>5, <1>7 DEF Ending, Leaving, EndSteps
<1>9. "turn" \in Todo("pc")'
  BY <1>3, <1>4, <1>5, <1>7
<1>10. "start_stream" \in Todo("pc")' => ~rtc.send_going
  <2>1. "start_stream" \in Todo("pc")' => s = up
    BY <1>3, <1>4, <1>5, <1>7
  <2> QED  BY <1>6, <2>1 DEF Orderly, Streams
<1>11. UNCHANGED <<api, inside, senders>>
  BY DEF Quiet, signaling
<1>12. RtcTypes'
  BY <1>11, TypedAs DEF Orderly
<1>13. Signals'
  <2>1. Todo("app")' = Todo("app")
    BY <1>7 DEF Tasks
  <2>2. \A u \in {"worker", "aux"} : inside[u] = "none" => Todo(u)' = {}
    BY <1>7 DEF Orderly, Signals, Tasks
  <2> QED  BY <1>11, <2>1, <2>2, SignalsKept DEF Orderly
<1>14. \A b \in {"SEND_QUIT", "EXIT"} : b \in bits' => b \in bits
  OBVIOUS
<1> QED  BY <1>6, <1>7, <1>8, <1>9, <1>10, <1>11, <1>12, <1>13, <1>14, Takes

LEMMA TaskTurns ==
  ASSUME Orderly, UNCHANGED late, pc_task
  PROVE  Orderly'
<1>1. At("pc", "turn") /\ UNCHANGED rtc /\ Quiet
  BY DEF pc_task
<1>2. CASE ~rtc.running /\ GoOn("pc", << >>) /\ SetBit("EXIT") /\ UNCHANGED peer
  BY <1>1, <1>2, Ends
<1>3. CASE GoOn("pc", <<"wait_resume", "turn">>) /\ SetBit("PAUSED") /\ UNCHANGED peer
  BY <1>1, <1>3, Pauses
<1>4. CASE MainLoop /\ UNCHANGED bits
  BY <1>1, <1>4, Reported
<1> QED  BY <1>2, <1>3, <1>4 DEF pc_task

LEMMA StreamStarts ==
  ASSUME Orderly, NEW t \in Tasks, UNCHANGED late, raced' = {}, start_stream(t)
  PROVE  Orderly'
<1>1. /\ At(t, "start_stream") /\ GoOn(t, << >>)
      /\ UNCHANGED <<signaling, bits, peer, late>>
      /\ \A u \in Tasks \ {t} : ~EndsStream(u)
      /\ \/ rtc' = [rtc EXCEPT !.send_going = TRUE] /\ senders' = senders + 1
         \/ UNCHANGED <<rtc, senders>>
  BY DEF start_stream, Races, Others
<1>2. /\ "start_stream" \in Todo(t) /\ Todo(t) \subseteq Work(t)
      /\ Todo(t) \ {"start_stream"} \subseteq {"notify_connected", "turn"}
  BY <1>1, HeadOf DEF Orderly, After
<1>3. t = "pc"
  BY <1>2 DEF Work, CallWork, PeerWork, Tasks
<1>4. /\ Lists' /\ Todo(t)' = Todo(t) \ {"start_stream"}
      /\ \A u \in Tasks \ {t} : Todo(u)' = Todo(u)
  BY <1>1, Pops DEF Orderly, Moves
<1>5. \A u \in Tasks : ~Leaving(u) /\ ~Leaving(u)'
  <2>1. ~Leaving(t) /\ ~Leaving(t)'
    BY <1>2, <1>4 DEF Leaving, Ending, EndSteps
  <2>2. \A u \in Tasks \ {t} : ~Leaving(u) /\ ~Leaving(u)'
    BY <1>1, <1>4, EndsOf, Unmoved
  <2> QED  BY <2>1, <2>2
<1>6. \A u \in Tasks : Ending(u)' <=> Ending(u)
  <2>1. ~Ending(t) /\ ~Ending(t)'
    BY <1>2, <1>4 DEF Ending, EndSteps
  <2> QED  BY <1>4, <2>1, Unmoved
<1>7. \A u \in Tasks : "wait_exit" \notin Todo(u) /\ "wait_send_quit" \notin Todo(u)
                       /\ "wait_exit" \notin Todo(u)' /\ "wait_send_quit" \notin Todo(u)'
  BY <1>2, <1>4, <1>5, Waiting DEF Orderly
<1>8. rtc.life = "open" /\ "pc" \in Tasks /\ "app" \in Tasks
  BY <1>2 DEF Orderly, Life, Tasks
<1>9. senders = 0 /\ rtc.running /\ ~rtc.send_going /\ peer # "connecting" /\ "SEND_QUIT" \notin bits
  BY <1>2, <1>3, <1>7 DEF Orderly, PcAlive, Streams
<1>10. /\ RtcTypes' /\ rtc'.life = rtc.life /\ rtc'.pc = rtc.pc /\ rtc'.event = rtc.event
       /\ rtc'.running = rtc.running /\ rtc'.signaling = rtc.signaling
       /\ (rtc'.send_going => senders' = 1) /\ senders' \in {0, 1}
       /\ (senders' = 1 => rtc'.send_going)
  <2>1. UNCHANGED inside
    BY <1>1 DEF signaling
  <2>2. CASE rtc' = [rtc EXCEPT !.send_going = TRUE] /\ senders' = senders + 1
    <3>1. /\ "send_going" \in DOMAIN Rtc0 \ {"life"}
          /\ {"life", "pc", "event", "running", "signaling"} \subseteq DOMAIN Rtc0 \ {"send_going"}
      BY DEF Rtc0
    <3>2. /\ RtcTypes' /\ rtc'.life = rtc.life /\ rtc'.send_going
          /\ \A g \in DOMAIN Rtc0 \ {"send_going"} : rtc'[g] = rtc[g]
      BY <2>1, <2>2, <3>1, OfFields DEF Orderly
    <3>3. senders' = 1 /\ senders' \in {0, 1}
      BY <1>9, <2>2
    <3>4. /\ rtc'["life"] = rtc["life"] /\ rtc'["pc"] = rtc["pc"] /\ rtc'["event"] = rtc["event"]
          /\ rtc'["running"] = rtc["running"] /\ rtc'["signaling"] = rtc["signaling"]
      BY <3>1, <3>2, Zenon
    <3> QED  BY <3>2, <3>3, <3>4, Zenon
  <2>3. CASE UNCHANGED <<rtc, senders>>
    <3>1. RtcTypes'
      BY <2>1, <2>3, TypedAs DEF Orderly
    <3>2. senders' = 0 /\ senders' \in {0, 1} /\ senders' # 1
      BY <1>9, <2>3
    <3>3. ~rtc'.send_going /\ rtc' = rtc
      BY <1>9, <2>3, Zenon
    <3> QED  BY <3>1, <3>2, <3>3, Zenon
  <2> QED  BY <1>1, <2>2, <2>3
<1>11. "turn" \in Todo("pc") /\ "turn" \in Todo("pc")' /\ "start_stream" \notin Todo("pc")'
  BY <1>2, <1>3, <1>4 DEF Orderly, PcAlive
<1>12. OneCloses'
  <2>1. \A u \in Tasks : "stop_stream" \in Todo(u)' => "stop_stream" \in Todo(u)
    BY <1>4
  <2> QED  BY <1>3, <1>4, <1>6, <1>7, <1>8, <1>11, <2>1 DEF Orderly, OneCloses
<1>13. PcAlive'
  BY <1>1, <1>6, <1>9, <1>10, <1>11 DEF Orderly, PcAlive
<1>14. Streams'
  BY <1>1, <1>5, <1>7, <1>9, <1>10, <1>11 DEF Streams
<1>15. Signals'
  <2>1. Todo("app")' = Todo("app")
    BY <1>3, <1>4 DEF Tasks
  <2>2. \A u \in {"worker", "aux"} : inside[u] = "none" => Todo(u)' = {}
    BY <1>3, <1>4 DEF Orderly, Signals, Tasks
  <2> QED  BY <1>1, <1>10, <2>1, <2>2, SignalsKept DEF Orderly, signaling
<1>16. Life'
  BY <1>1, <1>8, <1>10 DEF Orderly, Life
<1> QED  BY <1>4, <1>10, <1>12, <1>13, <1>14, <1>15, <1>16 DEF Orderly

\* What is left to show of a step in which no field changes but send_going.
LEMMA StreamOnly ==
  ASSUME Orderly, rtc.life = "open", Lists', RtcTypes', Streams', NEW t \in Tasks,
         \A u \in Tasks \ {t} : Todo(u)' = Todo(u),
         \A m \in EndSteps \cup {"pc_close", "turn", "started"} : m \in Todo(t)' <=> m \in Todo(t),
         "stop_stream" \in Todo(t)' => "stop_stream" \in Todo(t),
         \A u \in {"worker", "aux"} : Todo(u) = {} => Todo(u)' = {},
         t = "pc" => Todo("pc") # {},
         rtc'.life = rtc.life, rtc'.pc = rtc.pc, rtc'.event = rtc.event,
         rtc'.running = rtc.running, rtc'.signaling = rtc.signaling,
         "EXIT" \in bits' => "EXIT" \in bits, UNCHANGED <<signaling, late>>
  PROVE  Orderly'
<1>1. "app" \in Tasks /\ "pc" \in Tasks
  BY DEF Tasks
<1>2. \A u \in Tasks : Ending(u)' <=> Ending(u)
  <2>1. Ending(t)' <=> Ending(t)
    BY DEF Ending, EndSteps
  <2> QED  BY <2>1, Unmoved
<1>3. \A u \in Tasks : \A m \in {"wait_exit", "started", "stopped", "stop_signaling", "free"} :
        m \in Todo(u)' <=> m \in Todo(u)
  BY DEF EndSteps
<1>4. Todo("pc")' = {} <=> Todo("pc") = {}
  <2>1. CASE t = "pc"
    <3>1. "turn" \in Todo("pc")
      BY <2>1 DEF Orderly, PcAlive
    <3>2. "turn" \in Todo("pc")'
      BY <2>1, <3>1
    <3> QED  BY <3>1, <3>2
  <2>2. CASE t # "pc"
    BY <1>1, <2>2
  <2> QED  BY <2>1, <2>2
<1>5. OneCloses'
  <2>1. \A u \in Tasks : "stop_stream" \in Todo(u)' => ~Ending(u)'
    BY <1>2 DEF Orderly, OneCloses
  <2> QED  BY <1>1, <1>2, <1>3, <1>4, <2>1 DEF Orderly, OneCloses
<1>6. PcAlive'
  <2>1. "turn" \in Todo("pc") => "turn" \in Todo("pc")'
    BY <1>1
  <2> QED  BY <1>1, <1>2, <1>3, <1>4, <2>1 DEF Orderly, PcAlive
<1>7. Signals'
  <2>1. \A m \in {"started", "stopped", "stop_signaling", "free"} :
          m \in Todo("app")' <=> m \in Todo("app")
    BY <1>1, <1>3
  <2>2. \A u \in {"worker", "aux"} : inside[u] = "none" => Todo(u)' = {}
    BY DEF Orderly, Signals
  <2> QED  BY <2>1, <2>2, SignalsKept DEF Orderly, signaling
<1>8. Life'
  BY DEF Orderly, Life
<1> QED  BY <1>5, <1>6, <1>7, <1>8 DEF Orderly

LEMMA StreamStops ==
  ASSUME Orderly, NEW t \in Tasks, UNCHANGED late, raced' = {}, stop_stream(t)
  PROVE  Orderly'
<1>1. /\ At(t, "stop_stream") /\ rtc' = [rtc EXCEPT !.send_going = FALSE]
      /\ GoOn(t, IF rtc.send_going THEN <<"wait_send_quit">> ELSE << >>)
      /\ UNCHANGED <<signaling, bits, peer, senders, late>>
      /\ \A u \in Tasks \ {t} : ~At(u, "wait_send_quit")
  BY DEF stop_stream, Races, Others
<1>2. /\ "stop_stream" \in Todo(t) /\ Todo(t) \subseteq Work(t)
      /\ Todo(t) \ {"stop_stream"} \subseteq After("stop_stream")
      /\ "wait_send_quit" \notin Todo(t) /\ "start_stream" \notin Todo(t)
  BY <1>1, HeadOf DEF Orderly, After, AfterStream, AfterPeer
<1>3. \A u \in Tasks : "wait_send_quit" \notin Todo(u)
  BY <1>1, <1>2, AtOf DEF Orderly
<1>4. \E P \in SUBSET {"wait_send_quit"} :
        Moves(t, "stop_stream", P) /\ (P # {} <=> rtc.send_going)
  <2>1. CASE rtc.send_going
    <3>1. /\ "wait_send_quit" \in Steps /\ "wait_send_quit" \in Work(t)
          /\ After("stop_stream") \subseteq After("wait_send_quit")
      BY <1>2 DEF Steps, Work, CallWork, PeerWork, After, Tasks
    <3> DEFINE s == <<"wait_send_quit">>
    <3>2. s \in Seq(Steps) /\ InOrder(s) /\ Elems(s) = {"wait_send_quit"} /\ GoOn(t, s)
      BY <1>1, <2>1, <3>1, One
    <3> HIDE DEF s
    <3>3. \A x \in Elems(s) : After("stop_stream") \subseteq After(x)
      BY <3>1, <3>2
    <3>4. Elems(s) \subseteq Work(t)
      BY <3>1, <3>2
    <3>5. Moves(t, "stop_stream", Elems(s))
      BY <1>1, <3>2, <3>3, <3>4, GoesOn DEF Orderly
    <3> QED  BY <2>1, <3>2, <3>5
  <2>2. CASE ~rtc.send_going
    <3>1. Moves(t, "stop_stream", {})
      BY <1>1, <2>2, Pops DEF Orderly
    <3> QED  BY <2>2, <3>1
  <2> QED  BY <2>1, <2>2
<1>5. PICK P \in SUBSET {"wait_send_quit"} :
        Moves(t, "stop_stream", P) /\ (P # {} <=> rtc.send_going)
  BY <1>4
<1>6. /\ Lists' /\ Todo(t)' = P \cup (Todo(t) \ {"stop_stream"})
      /\ \A u \in Tasks \ {t} : Todo(u)' = Todo(u)
  BY <1>5 DEF Moves
<1>7. /\ RtcTypes' /\ rtc'.life = rtc.life /\ rtc'.pc = rtc.pc /\ rtc'.event = rtc.event
      /\ rtc'.running = rtc.running /\ rtc'.signaling = rtc.signaling /\ ~rtc'.send_going
  <2>1. UNCHANGED inside
    BY <1>1 DEF signaling
  <2>2. /\ "send_going" \in DOMAIN Rtc0 \ {"life"}
        /\ {"life", "pc", "event", "running", "signaling"} \subseteq DOMAIN Rtc0 \ {"send_going"}
    BY DEF Rtc0
  <2>3. /\ RtcTypes' /\ rtc'.life = rtc.life /\ ~rtc'.send_going
        /\ \A g \in DOMAIN Rtc0 \ {"send_going"} : rtc'[g] = rtc[g]
    BY <1>1, <2>1, <2>2, OfFields DEF Orderly
  <2> QED  BY <2>2, <2>3, Zenon
<1>8. rtc.life = "open"
  BY <1>2 DEF Orderly, Life
<1>9. senders = 1 <=> rtc.send_going
  BY <1>3 DEF Orderly, Streams
<1>10. "SEND_QUIT" \notin bits
  BY <1>3 DEF Orderly, Streams
<1>11. "start_stream" \in Todo("pc")' <=> "start_stream" \in Todo("pc")
  BY <1>2, <1>5, <1>6 DEF Tasks
<1>12. ASSUME rtc.send_going
       PROVE  /\ "wait_send_quit" \in Todo(t)' /\ senders = 1 /\ rtc.running
              /\ \A u \in Tasks \ {t} : ~Leaving(u)'
  <2>1. "wait_send_quit" \in Todo(t)'
    BY <1>5, <1>6, <1>12
  <2>2. senders = 1 /\ rtc.running
    BY <1>9, <1>12 DEF Orderly, Streams
  <2>3. \A u \in Tasks \ {t} : ~Leaving(u)'
    BY <1>6, <1>12, Unmoved DEF Orderly, Streams
  <2> QED  BY <2>1, <2>2, <2>3
<1>13. \A u \in Tasks : "wait_send_quit" \in Todo(u)' => u = t
  BY <1>3, <1>6
<1>14. Streams'
  <2>1. senders' \in {0, 1} /\ ~rtc'.send_going /\ "SEND_QUIT" \notin bits'
    BY <1>1, <1>7, <1>10 DEF Orderly, Streams
  <2>2. senders' = 1 => rtc'.running /\ "wait_send_quit" \in Todo(t)'
                        /\ \A u \in Tasks \ {t} : ~Leaving(u)'
    BY <1>1, <1>7, <1>9, <1>12
  <2>3. peer' = "connecting" => "start_stream" \notin Todo("pc")'
    BY <1>1, <1>11 DEF Orderly, Streams
  <2>4. \A u, v \in Tasks : "wait_send_quit" \in Todo(u)' \cap Todo(v)' => u = v
    BY <1>13
  <2> QED  BY <2>1, <2>2, <2>3, <2>4 DEF Streams
<1>15. \A m \in EndSteps \cup {"pc_close", "turn", "started"} : m \in Todo(t)' <=> m \in Todo(t)
  BY <1>5, <1>6 DEF EndSteps
<1>16. "stop_stream" \in Todo(t)' => "stop_stream" \in Todo(t)
  BY <1>2
<1>17. \A u \in {"worker", "aux"} : Todo(u) = {} => Todo(u)' = {}
  BY <1>2, <1>6 DEF Tasks
<1>18. t = "pc" => Todo("pc") # {}
  BY <1>2
<1> QED  BY <1>1, <1>6, <1>7, <1>8, <1>14, <1>15, <1>16, <1>17, <1>18, StreamOnly

LEMMA SenderEnds ==
  ASSUME Orderly, UNCHANGED late, rtc.life # "freed", media_send_task
  PROVE  Orderly'
<1>1. /\ senders > 0 /\ ~rtc.send_going /\ senders' = senders - 1
      /\ UNCHANGED <<signaling, rtc, peer, todo, late>>
      /\ bits' \subseteq bits \cup {"SEND_QUIT"}
  BY DEF media_send_task, SetBit
<1>2. senders = 1 /\ senders' = 0
  BY <1>1 DEF Orderly, Streams
<1>3. \A u \in Tasks : Todo(u)' = Todo(u)
  BY <1>1 DEF Todo
<1>4. PICK u \in Tasks : "wait_send_quit" \in Todo(u)
  BY <1>1, <1>2 DEF Orderly, Streams
<1>5. rtc.life = "open" /\ "app" \in Tasks /\ "pc" \in Tasks
  BY <1>4 DEF Orderly, Life, Tasks
<1>6. Lists' /\ RtcTypes'
  <2>1. Lists'
    BY <1>1, <1>3 DEF Orderly, Lists
  <2> QED  BY <1>1, <2>1, TypedAs DEF Orderly, signaling
<1>7. Streams'
  <2>1. \A v, w \in Tasks : "wait_send_quit" \in Todo(v)' \cap Todo(w)' => v = w
    BY <1>3 DEF Orderly, Streams
  <2>2. "start_stream" \in Todo("pc")' <=> "start_stream" \in Todo("pc")
    BY <1>3, <1>5
  <2>3. senders' = 0 /\ senders' \in {0, 1} /\ senders' # 1
    BY <1>2
  <2>4. rtc' = rtc /\ peer' = peer /\ ~rtc.send_going
    BY <1>1
  <2>5. peer = "connecting" => "start_stream" \notin Todo("pc")
    BY DEF Orderly, Streams
  <2>6. "wait_send_quit" \in Todo(u)'
    BY <1>3, <1>4
  <2> QED  BY <2>1, <2>2, <2>3, <2>4, <2>5, <2>6 DEF Streams
<1>8. \A m \in EndSteps \cup {"pc_close", "turn", "started"} : m \in Todo("pc")' <=> m \in Todo("pc")
  BY <1>3, <1>5
<1>9. OneCloses' /\ PcAlive'
  <2>1. \A v \in Tasks : Ending(v)' <=> Ending(v)
    BY <1>3, Unmoved
  <2>2. OneCloses'
    BY <1>3, <1>5, <2>1 DEF Orderly, OneCloses
  <2>3. PcAlive'
    BY <1>1, <1>3, <1>5, <2>1 DEF Orderly, PcAlive
  <2> QED  BY <2>2, <2>3
<1>10. Signals'
  <2>1. \A v \in {"worker", "aux"} : inside[v] = "none" => Todo(v)' = {}
    BY <1>3 DEF Orderly, Signals, Tasks
  <2> QED  BY <1>1, <1>3, <1>5, <2>1, SignalsKept DEF Orderly, signaling
<1>11. Life'
  BY <1>1, <1>5 DEF Orderly, Life
<1> QED  BY <1>6, <1>7, <1>9, <1>10, <1>11 DEF Orderly

\* Who waits for the end of the streaming task finds it gone.
LEMMA StreamEnded ==
  ASSUME Orderly, NEW t \in Tasks, UNCHANGED late, WaitBit(t, "wait_send_quit", "SEND_QUIT")
  PROVE  Orderly'
<1>1. /\ At(t, "wait_send_quit") /\ ("SEND_QUIT" \in bits \/ ~rtc.event) /\ GoOn(t, << >>)
      /\ UNCHANGED <<rtc, peer, signaling, senders, late>> /\ bits' \subseteq bits
      /\ "SEND_QUIT" \notin bits' \/ \E u \in Tasks \ {t} : At(u, "wait_send_quit")
  BY DEF WaitBit, Quiet
<1>2. /\ Lists' /\ Todo(t)' = Todo(t) \ {"wait_send_quit"} /\ "wait_send_quit" \in Todo(t)
      /\ Todo(t) \ {"wait_send_quit"} \subseteq After("wait_send_quit") /\ Todo(t) \subseteq Work(t)
      /\ \A u \in Tasks \ {t} : Todo(u)' = Todo(u)
  BY <1>1, Pops, HeadOf DEF Orderly, Moves
<1>3. \A u \in Tasks \ {t} : "wait_send_quit" \notin Todo(u)
  BY <1>2 DEF Orderly, Streams
<1>4. "SEND_QUIT" \notin bits'
  <2>1. \A u \in Tasks \ {t} : ~At(u, "wait_send_quit")
    BY <1>3, AtOf DEF Orderly
  <2> QED  BY <1>1, <2>1
<1>5. senders = 0 /\ ~rtc.send_going
  <2>1. "SEND_QUIT" \in bits => senders = 0
    BY DEF Orderly, Streams
  <2>2. ~rtc.event => ~rtc.running
    BY DEF Orderly, PcAlive
  <2>3. ~rtc.running => senders = 0
    BY DEF Orderly, Streams
  <2> QED  BY <1>1, <2>1, <2>2, <2>3 DEF Orderly, Streams
<1>6. "start_stream" \in Todo("pc")' <=> "start_stream" \in Todo("pc")
  BY <1>2 DEF Tasks
<1>7. Streams'
  <2>1. senders' = 0 /\ senders' \in {0, 1} /\ senders' # 1
    BY <1>1, <1>5
  <2>2. rtc' = rtc /\ peer' = peer /\ ~rtc.send_going
    BY <1>1, <1>5
  <2>3. peer = "connecting" => "start_stream" \notin Todo("pc")
    BY DEF Orderly, Streams
  <2>4. \A u \in Tasks : "wait_send_quit" \notin Todo(u)'
    BY <1>2, <1>3
  <2> QED  BY <1>4, <1>6, <2>1, <2>2, <2>3, <2>4 DEF Streams
<1>8. RtcTypes'
  BY <1>1, TypedAs DEF Orderly, signaling
<1>9. \A m \in EndSteps \cup {"pc_close", "turn", "started"} : m \in Todo(t)' <=> m \in Todo(t)
  BY <1>2 DEF EndSteps
<1>10. \A u \in {"worker", "aux"} : Todo(u) = {} => Todo(u)' = {}
  BY <1>2 DEF Tasks
<1>11. rtc.life = "open" /\ (t = "pc" => Todo("pc") # {})
  BY <1>2 DEF Orderly, Life
<1> QED  BY <1>1, <1>2, <1>7, <1>8, <1>9, <1>10, <1>11, StreamOnly

\* pc_task has ended when who closes its peer connection goes on.
LEMMA TaskEnded ==
  ASSUME Orderly, NEW t \in Tasks, UNCHANGED late, WaitBit(t, "wait_exit", "EXIT")
  PROVE  Orderly'
<1>1. /\ At(t, "wait_exit") /\ ("EXIT" \in bits \/ ~rtc.event) /\ GoOn(t, << >>)
      /\ UNCHANGED <<rtc, peer, signaling, senders, late>> /\ bits' \subseteq bits
  BY DEF WaitBit, Quiet
<1>2. /\ Lists' /\ Todo(t)' = Todo(t) \ {"wait_exit"} /\ "wait_exit" \in Todo(t)
      /\ \A u \in Tasks \ {t} : Todo(u)' = Todo(u)
  BY <1>1, Pops, HeadOf DEF Orderly, Moves
<1>3. Todo("pc") = {} /\ "pc" \in Tasks /\ "app" \in Tasks
  BY <1>1 DEF Orderly, PcAlive, Tasks
<1>4. t # "pc"
  BY <1>2, <1>3
<1>5. Todo("pc")' = {} /\ ~rtc.running
  BY <1>2, <1>3, <1>4 DEF Orderly, PcAlive
<1>6. senders = 0 /\ ~rtc.send_going
  BY <1>5 DEF Orderly, Streams
<1>7. \A u \in Tasks : Ending(u)' => Ending(u)
  BY <1>2 DEF Ending
<1>8. OneCloses'
  <2>1. \A u \in Tasks : "stop_stream" \in Todo(u)' => "stop_stream" \in Todo(u)
    BY <1>2
  <2>2. ~Ending("pc")'
    BY <1>5 DEF Ending
  <2> QED  BY <1>5, <1>7, <2>1, <2>2 DEF Orderly, OneCloses
<1>9. PcAlive'
  BY <1>1, <1>5 DEF PcAlive
<1>10. Streams'
  <2>1. senders' = 0 /\ senders' \in {0, 1} /\ senders' # 1
    BY <1>1, <1>6
  <2>2. rtc' = rtc /\ ~rtc.send_going /\ "start_stream" \notin Todo("pc")'
    BY <1>1, <1>5, <1>6
  <2>3. \A u \in Tasks : "wait_send_quit" \in Todo(u)' <=> "wait_send_quit" \in Todo(u)
    BY <1>2
  <2>4. \A u, v \in Tasks : "wait_send_quit" \in Todo(u)' \cap Todo(v)' => u = v
    BY <2>3 DEF Orderly, Streams
  <2>5. "SEND_QUIT" \in bits' => \E u \in Tasks : "wait_send_quit" \in Todo(u)'
    BY <1>1, <2>3 DEF Orderly, Streams
  <2> QED  BY <2>1, <2>2, <2>4, <2>5 DEF Streams
<1>11. RtcTypes'
  BY <1>1, TypedAs DEF Orderly, signaling
<1>12. Signals'
  <2>1. \A m \in {"started", "stopped", "stop_signaling", "free"} :
          m \in Todo("app")' <=> m \in Todo("app")
    BY <1>2, <1>3
  <2>2. \A u \in {"worker", "aux"} : inside[u] = "none" => Todo(u)' = {}
    BY <1>2 DEF Orderly, Signals, Tasks
  <2> QED  BY <1>1, <2>1, <2>2, SignalsKept DEF Orderly, signaling
<1>13. Life'
  BY <1>1, <1>2 DEF Orderly, Life
<1> QED  BY <1>2, <1>8, <1>9, <1>10, <1>11, <1>12, <1>13 DEF Orderly

-----------------------------------------------------------------------------
(* Opening and closing the peer connection *)

\* pc_start goes on and pc_task begins.
LEMMA Runs ==
  ASSUME Orderly, NEW t \in Tasks, UNCHANGED late, raced' = {}, PcRun(t)
  PROVE  Orderly'
<1>1. /\ At(t, "pc_run") /\ rtc' = [rtc EXCEPT !.event = TRUE, !.running = TRUE] /\ bits' = {}
      /\ todo' = [todo EXCEPT ![t] = Tail(todo[t]), !["pc"] = <<"turn">>]
      /\ UNCHANGED <<signaling, peer, senders, late>>
      /\ rtc.pc /\ Idle("pc") /\ \A u \in Tasks \ {t} : ~EndsPc(u)
  BY DEF PcRun, Races, Others
<1>2. "pc" \in Tasks /\ "app" \in Tasks /\ Todo("pc") = {}
  BY <1>1, IdleOf DEF Orderly, Tasks
<1>3. /\ "pc_run" \in Todo(t) /\ Todo(t) \subseteq Work(t) /\ todo \in [Tasks -> Seq(Steps)]
      /\ Todo(t) \ {"pc_run"} \subseteq {"connect", "leave", "callbacks", "started"}
      /\ Tail(todo[t]) \in Seq(Steps) /\ InOrder(Tail(todo[t]))
      /\ Elems(Tail(todo[t])) = Todo(t) \ {"pc_run"}
  BY <1>1, HeadOf DEF Orderly, After, Lists
<1>4. t # "pc"
  BY <1>2, <1>3
<1>5. /\ todo' \in [Tasks -> Seq(Steps)] /\ todo'[t] = Tail(todo[t]) /\ todo'["pc"] = <<"turn">>
      /\ \A u \in Tasks \ {t, "pc"} : todo'[u] = todo[u]
  <2>1. <<"turn">> \in Seq(Steps)
    BY DEF Steps
  <2> QED  BY <1>1, <1>2, <1>3, <1>4, <2>1
<1>6. /\ Todo(t)' = Todo(t) \ {"pc_run"} /\ Todo("pc")' = {"turn"} /\ InOrder(<<"turn">>)
      /\ \A u \in Tasks \ {t, "pc"} : Todo(u)' = Todo(u)
  <2>1. InOrder(<<"turn">>) /\ Elems(<<"turn">>) = {"turn"}
    BY One DEF Steps
  <2> QED  BY <1>3, <1>5, <2>1 DEF Todo
<1>7. Lists'
  <2>1. "turn" \in Work("pc")
    BY DEF Work
  <2>2. \A u \in Tasks : InOrder(todo'[u])
    BY <1>3, <1>5, <1>6 DEF Orderly, Lists
  <2>3. \A u \in Tasks : Todo(u)' \subseteq Work(u)
    BY <1>3, <1>6, <2>1 DEF Orderly, Lists
  <2> QED  BY <1>5, <2>2, <2>3 DEF Lists
<1>8. \A u \in Tasks : ~Ending(u)'
  <2>1. ~Ending(t)'
    BY <1>3, <1>6 DEF Ending, EndSteps
  <2>2. ~Ending("pc")'
    BY <1>6 DEF Ending, EndSteps
  <2>3. \A u \in Tasks \ {t, "pc"} : ~Ending(u)'
    BY <1>1, <1>6, EndsOf, Unmoved
  <2> QED  BY <2>1, <2>2, <2>3
<1>9. rtc.life = "open" /\ ~rtc.running
  BY <1>2, <1>3 DEF Orderly, Life, PcAlive
<1>10. senders = 0 /\ ~rtc.send_going
  BY <1>9 DEF Orderly, Streams
<1>11. /\ RtcTypes' /\ rtc'.life = rtc.life /\ rtc'.pc /\ rtc'.event /\ rtc'.running
       /\ ~rtc'.send_going /\ (rtc.signaling => rtc'.signaling)
  <2>1. DOMAIN rtc = DOMAIN Rtc0 /\ (\A f \in DOMAIN Rtc0 \ {"life"} : rtc[f] \in BOOLEAN)
        /\ DOMAIN inside = {"app", "worker", "aux"} /\ UNCHANGED inside
    BY <1>1 DEF Orderly, RtcTypes, signaling
  <2>2. DOMAIN rtc' = DOMAIN Rtc0 /\ \A f \in DOMAIN Rtc0 \ {"life"} : rtc'[f] \in BOOLEAN
    BY <1>1, <2>1 DEF Rtc0
  <2>3. RtcTypes'
    BY <2>1, <2>2 DEF RtcTypes
  <2>4. rtc'.life = rtc.life /\ rtc'.pc /\ rtc'.event /\ rtc'.running
    BY <1>1, <2>1 DEF Rtc0
  <2>5. ~rtc'.send_going /\ (rtc.signaling => rtc'.signaling)
    BY <1>1, <1>10, <2>1 DEF Rtc0
  <2> QED  BY <2>3, <2>4, <2>5
<1>12. OneCloses'
  BY <1>2, <1>8 DEF OneCloses
<1>13. PcAlive'
  BY <1>1, <1>6, <1>8, <1>11 DEF PcAlive
<1>14. Streams'
  <2>1. senders' = 0 /\ senders' \in {0, 1} /\ senders' # 1
    BY <1>1, <1>10
  <2>2. \A u, v \in Tasks : "wait_send_quit" \in Todo(u)' \cap Todo(v)' => u = v
    <3>1. \A u \in Tasks : "wait_send_quit" \in Todo(u)' => "wait_send_quit" \in Todo(u)
      BY <1>6
    <3> QED  BY <3>1 DEF Orderly, Streams
  <2> QED  BY <1>1, <1>6, <1>11, <2>1, <2>2 DEF Streams
<1>15. Signals'
  <2>1. \A m \in {"started", "stopped", "stop_signaling", "free"} :
          m \in Todo("app")' <=> m \in Todo("app")
    BY <1>2, <1>6
  <2>2. \A u \in {"worker", "aux"} : inside[u] = "none" => Todo(u)' = {}
    BY <1>3, <1>6 DEF Orderly, Signals, Tasks
  <2> QED  BY <1>1, <1>11, <2>1, <2>2, SignalsKept DEF Orderly, signaling
<1>16. Life'
  BY <1>1, <1>9, <1>11 DEF Orderly, Life
<1> QED  BY <1>7, <1>11, <1>12, <1>13, <1>14, <1>15, <1>16 DEF Orderly

\* The only one who closes it, and pc_task is told to end.
LEMMA PcCloses ==
  ASSUME Orderly, NEW t \in Tasks, UNCHANGED late, raced' = {}, pc_close(t)
  PROVE  Orderly'
<1> DEFINE rest == <<"peer_close", "no_event">>
           s == IF ~rtc.pc THEN <<"no_event">>
                ELSE (IF rtc.running THEN <<"wait_exit">> ELSE << >>) \o rest
<1>1. /\ At(t, "pc_close") /\ GoOn(t, s)
      /\ rtc' = IF rtc.pc THEN [rtc EXCEPT !.running = FALSE, !.pause = FALSE] ELSE rtc
      /\ UNCHANGED <<signaling, senders, late>>
      /\ \A b \in {"SEND_QUIT", "EXIT"} : b \in bits' => b \in bits
      /\ peer' = Disconnected
      /\ \A u \in Tasks \ {t} : ~EndsPc(u)
  BY DEF pc_close, Races, Others, SetBit
<1>2. /\ "pc_close" \in Todo(t) /\ Todo(t) \subseteq Work(t)
      /\ Todo(t) \ {"pc_close"} \subseteq AfterPeer /\ After("pc_close") = AfterPeer
  BY <1>1, HeadOf DEF Orderly, After
<1>3. \A u \in Tasks : "wait_exit" \notin Todo(u)
  <2>1. \A u \in Tasks \ {t} : "wait_exit" \notin Todo(u)
    BY <1>1, EndsOf, Waiting DEF Orderly
  <2> QED  BY <1>2, <2>1 DEF AfterPeer
<1>4. \A u \in Tasks : ~Ending(u)
  <2>1. ~Ending(t)
    BY <1>2 DEF Ending
  <2> QED  BY <1>1, <2>1, EndsOf
<1>5. (Todo("pc") # {} <=> rtc.running) /\ (rtc.running => rtc.pc)
  BY <1>3 DEF Orderly, PcAlive
<1>6. /\ {"wait_exit", "peer_close", "no_event"} \subseteq Steps
      /\ {"wait_exit", "peer_close", "no_event"} \subseteq Work(t)
      /\ {"peer_close", "no_event"} \subseteq After("wait_exit")
      /\ "no_event" \in After("peer_close")
      /\ \A x \in {"wait_exit", "peer_close", "no_event"} : AfterPeer \subseteq After(x)
  BY <1>2 DEF Steps, Work, CallWork, PeerWork, After, Tasks
<1>7. /\ s \in Seq(Steps) /\ InOrder(s) /\ Elems(s) \subseteq {"wait_exit", "peer_close", "no_event"}
      /\ "no_event" \in Elems(s) /\ ("wait_exit" \in Elems(s) <=> rtc.running)
  <2>1. <<"no_event">> \in Seq(Steps) /\ InOrder(<<"no_event">>) /\ Elems(<<"no_event">>) = {"no_event"}
    BY <1>6, One
  <2>2. rest \in Seq(Steps) /\ InOrder(rest) /\ Elems(rest) = {"peer_close", "no_event"}
    BY <1>6, Two
  <2>3. <<"wait_exit">> \in Seq(Steps) /\ InOrder(<<"wait_exit">>) /\ Elems(<<"wait_exit">>) = {"wait_exit"}
    BY <1>6, One
  <2> HIDE DEF rest
  <2>4. /\ <<"wait_exit">> \o rest \in Seq(Steps) /\ InOrder(<<"wait_exit">> \o rest)
        /\ Elems(<<"wait_exit">> \o rest) = Elems(<<"wait_exit">>) \cup Elems(rest)
    BY <1>6, <2>2, <2>3, Joined
  <2>5. << >> \o rest = rest
    BY <2>2
  <2>6. CASE rtc.running
    <3>1. s = <<"wait_exit">> \o rest
      BY <1>5, <2>6
    <3> QED  BY <2>2, <2>3, <2>4, <2>6, <3>1
  <2>7. CASE ~rtc.running
    <3>1. s = <<"no_event">> \/ s = rest
      BY <2>5, <2>7
    <3> QED  BY <2>1, <2>2, <2>7, <3>1
  <2> QED  BY <2>6, <2>7
<1> HIDE DEF s
<1>8. /\ Lists' /\ Todo(t)' = Elems(s) \cup (Todo(t) \ {"pc_close"})
      /\ \A u \in Tasks \ {t} : Todo(u)' = Todo(u)
  <2>1. \A x \in Elems(s) : After("pc_close") \subseteq After(x)
    BY <1>2, <1>6, <1>7
  <2>2. Elems(s) \subseteq Work(t)
    BY <1>6, <1>7
  <2>3. Moves(t, "pc_close", Elems(s))
    BY <1>1, <1>7, <2>1, <2>2, GoesOn DEF Orderly
  <2> QED  BY <2>3 DEF Moves
<1>9. senders = 0 /\ ~rtc.send_going /\ "wait_send_quit" \notin Todo(t)
  <2>1. Leaving(t) /\ "wait_send_quit" \notin Todo(t)
    BY <1>2 DEF Leaving, AfterPeer
  <2> QED  BY <2>1 DEF Orderly, Streams
<1>10. /\ "wait_exit" \in Todo(t)' <=> rtc.running
       /\ "stop_stream" \notin Todo(t)' /\ "wait_send_quit" \notin Todo(t)'
  BY <1>2, <1>7, <1>8 DEF AfterPeer
<1>11. \A u \in Tasks : u # t => ~Ending(u)'
  BY <1>4, <1>8, Unmoved
<1>12. rtc.life = "open" /\ "pc" \in Tasks /\ "app" \in Tasks
  BY <1>2 DEF Orderly, Life, Tasks
<1>13. /\ RtcTypes' /\ rtc'.life = rtc.life /\ (rtc.pc => rtc'.pc) /\ (rtc.event => rtc'.event)
       /\ ~rtc'.running /\ ~rtc'.send_going /\ (rtc.signaling => rtc'.signaling)
  <2>1. DOMAIN rtc = DOMAIN Rtc0 /\ (\A f \in DOMAIN Rtc0 \ {"life"} : rtc[f] \in BOOLEAN)
        /\ DOMAIN inside = {"app", "worker", "aux"} /\ UNCHANGED inside
    BY <1>1 DEF Orderly, RtcTypes, signaling
  <2>2. DOMAIN rtc' = DOMAIN Rtc0 /\ \A f \in DOMAIN Rtc0 \ {"life"} : rtc'[f] \in BOOLEAN
    BY <1>1, <2>1 DEF Rtc0
  <2>3. RtcTypes'
    BY <2>1, <2>2 DEF RtcTypes
  <2>4. rtc'.life = rtc.life /\ (rtc.pc => rtc'.pc) /\ (rtc.event => rtc'.event) /\ ~rtc'.running
    BY <1>1, <1>5, <2>1 DEF Rtc0
  <2>5. ~rtc'.send_going /\ (rtc.signaling => rtc'.signaling)
    BY <1>1, <1>9, <2>1 DEF Rtc0
  <2> QED  BY <2>3, <2>4, <2>5
<1>14. (Todo("pc")' # {} => Todo("pc") # {}) /\ ("turn" \in Todo("pc") => "turn" \in Todo("pc")')
  BY <1>2, <1>8, <1>12
<1>15. OneCloses'
  <2>1. \A u \in Tasks : "stop_stream" \in Todo(u)' => ~Ending(u)'
    BY <1>10, <1>11
  <2>2. \A u, v \in Tasks : Ending(u)' /\ Ending(v)' => u = v
    BY <1>11
  <2>3. Ending("pc")' => "wait_exit" \in Todo("pc")'
    <3>1. CASE t = "pc"
      BY <1>2, <1>5, <1>10, <3>1
    <3>2. CASE t # "pc"
      BY <1>11, <1>12, <3>2
    <3> QED  BY <3>1, <3>2
  <2>4. \A u \in Tasks : Ending(u)' /\ "wait_exit" \notin Todo(u)' => Todo("pc")' = {}
    BY <1>5, <1>10, <1>11, <1>14
  <2> QED  BY <2>1, <2>2, <2>3, <2>4 DEF OneCloses
<1>16. PcAlive'
  <2>1. ASSUME Todo("pc")' # {}
        PROVE  /\ "turn" \in Todo("pc")' /\ rtc'.pc /\ rtc'.event /\ "EXIT" \notin bits'
               /\ "wait_exit" \in Todo(t)'
    BY <1>1, <1>5, <1>10, <1>13, <1>14, <2>1 DEF Orderly, PcAlive
  <2> QED  BY <1>13, <2>1 DEF PcAlive
<1>17. Streams'
  <2>1. senders' = 0 /\ senders' \in {0, 1} /\ senders' # 1
    BY <1>1, <1>9
  <2>2. \A u \in Tasks : "wait_send_quit" \in Todo(u)' <=> "wait_send_quit" \in Todo(u)
    BY <1>8, <1>9, <1>10
  <2>3. \A u, v \in Tasks : "wait_send_quit" \in Todo(u)' \cap Todo(v)' => u = v
    BY <2>2 DEF Orderly, Streams
  <2>4. "SEND_QUIT" \in bits' => \E u \in Tasks : "wait_send_quit" \in Todo(u)'
    BY <1>1, <2>2 DEF Orderly, Streams
  <2>5. "start_stream" \in Todo("pc")' => "start_stream" \in Todo("pc")
    BY <1>2, <1>7, <1>8, <1>12
  <2>6. peer' = "connecting" => peer = "connecting"
    BY <1>1 DEF Disconnected
  <2>7. peer' = "connecting" => "start_stream" \notin Todo("pc")'
    BY <2>5, <2>6 DEF Orderly, Streams
  <2> QED  BY <1>13, <2>1, <2>3, <2>4, <2>7 DEF Streams
<1>18. Signals'
  <2>1. \A m \in {"started", "stopped", "stop_signaling", "free"} :
          m \in Todo("app")' <=> m \in Todo("app")
    BY <1>7, <1>8, <1>12
  <2>2. \A u \in {"worker", "aux"} : inside[u] = "none" => Todo(u)' = {}
    BY <1>2, <1>8 DEF Orderly, Signals, Tasks
  <2> QED  BY <1>1, <1>13, <2>1, <2>2, SignalsKept DEF Orderly, signaling
<1>19. Life'
  BY <1>1, <1>12, <1>13 DEF Orderly, Life
<1> QED  BY <1>8, <1>13, <1>15, <1>16, <1>17, <1>18, <1>19 DEF Orderly

\* What is left of closing it finds pc_task gone, and nobody else who closes it.
LEMMA ClosesOn ==
  ASSUME Orderly, NEW t \in Tasks, NEW h \in {"peer_close", "no_event", "stop_signaling", "stopped", "free"},
         At(t, h)
  PROVE  /\ Todo("pc") = {} /\ ~rtc.running /\ senders = 0 /\ ~rtc.send_going
         /\ \A u \in Tasks : "wait_exit" \notin Todo(u)
         /\ \A u \in Tasks \ {t} : ~Ending(u)
         /\ t \notin {"pc", "aux"} /\ rtc.life = "open"
         /\ h \in Todo(t) /\ Todo(t) \ {h} \subseteq After(h)
         /\ After(h) \subseteq AfterPeer \cup {"no_event"}
<1>1. h \in Todo(t) /\ Todo(t) \ {h} \subseteq After(h) /\ Todo(t) \subseteq Work(t)
  BY HeadOf DEF Orderly
<1>2. After(h) \subseteq AfterPeer \cup {"no_event"}
  BY DEF After, AfterPeer
<1>3. "wait_exit" \notin Todo(t) /\ Ending(t)
  BY <1>1, <1>2 DEF Ending, EndSteps, AfterPeer
<1>4. \A u \in Tasks \ {t} : ~Ending(u)
  BY <1>3 DEF Orderly, OneCloses
<1>5. Todo("pc") = {}
  BY <1>3 DEF Orderly, OneCloses
<1>6. \A u \in Tasks : "wait_exit" \notin Todo(u)
  BY <1>3, <1>4, Waiting DEF Orderly
<1>7. ~rtc.running
  BY <1>5 DEF Orderly, PcAlive
<1>8. senders = 0 /\ ~rtc.send_going
  BY <1>7 DEF Orderly, Streams
<1>9. t # "pc" /\ rtc.life = "open"
  BY <1>1, <1>5 DEF Orderly, Life
<1>10. t # "aux"
  BY <1>1 DEF Work
<1> QED  BY <1>1, <1>2, <1>4, <1>5, <1>6, <1>7, <1>8, <1>9, <1>10

\* And then the rest of it goes by itself.
LEMMA WindsUp ==
  ASSUME Orderly, NEW t \in Tasks, t # "pc", Todo("pc") = {}, ~rtc.running, senders = 0,
         \A u \in Tasks \ {t} : ~Ending(u),
         \A u \in Tasks : "wait_exit" \notin Todo(u),
         \A u \in Tasks \ {t} :
           /\ Todo(u)' \subseteq Todo(u)
           /\ Todo(u) \ Todo(u)' \subseteq {"wait_send_quit", "wait_paused", "wait_resume"},
         \A m \in {"wait_exit", "stop_stream", "wait_send_quit"} : m \notin Todo(t)',
         rtc'.running = rtc.running, ~rtc'.send_going, UNCHANGED senders,
         "SEND_QUIT" \in bits' => \E u \in Tasks : "wait_send_quit" \in Todo(u)'
  PROVE  OneCloses' /\ PcAlive' /\ Streams'
<1>1. "pc" \in Tasks /\ Todo("pc")' = {}
  BY DEF Tasks
<1>2. \A u \in Tasks \ {t} : ~Ending(u)'
  <2>1. ASSUME NEW u \in Tasks \ {t}, Ending(u)'  PROVE Ending(u)
    BY <2>1 DEF Ending
  <2> QED  BY <2>1
<1>3. OneCloses'
  BY <1>1, <1>2 DEF OneCloses
<1>4. PcAlive'
  BY <1>1 DEF PcAlive
<1>5. Streams'
  <2>1. senders' \in {0, 1} /\ senders' # 1
    OBVIOUS
  <2>2. \A u \in Tasks : "wait_send_quit" \in Todo(u)' => "wait_send_quit" \in Todo(u)
    OBVIOUS
  <2>3. \A u, v \in Tasks : "wait_send_quit" \in Todo(u)' \cap Todo(v)' => u = v
    BY <2>2 DEF Orderly, Streams
  <2>4. "start_stream" \notin Todo("pc")'
    BY <1>1
  <2> QED  BY <1>1, <2>1, <2>3, <2>4 DEF Streams
<1> QED  BY <1>3, <1>4, <1>5

LEMMA PeerCloses ==
  ASSUME Orderly, NEW t \in Tasks, UNCHANGED late, At(t, "peer_close"),
         rtc' = [rtc EXCEPT !.pc = FALSE], GoOn(t, << >>), UNCHANGED bits, Quiet
  PROVE  Orderly'
<1>1. /\ Todo("pc") = {} /\ ~rtc.running /\ senders = 0 /\ ~rtc.send_going
      /\ (\A u \in Tasks : "wait_exit" \notin Todo(u)) /\ (\A u \in Tasks \ {t} : ~Ending(u))
      /\ t \notin {"pc", "aux"} /\ rtc.life = "open" /\ "peer_close" \in Todo(t)
      /\ Todo(t) \ {"peer_close"} \subseteq AfterPeer \cup {"no_event"}
  BY ClosesOn
<1>2. /\ Lists' /\ Todo(t)' = Todo(t) \ {"peer_close"}
      /\ \A u \in Tasks \ {t} : Todo(u)' = Todo(u)
  BY Pops DEF Orderly, Moves
<1>3. UNCHANGED <<signaling, senders, late, api, inside>> /\ "app" \in Tasks
  BY DEF Quiet, signaling, Tasks
<1>4. /\ RtcTypes' /\ rtc'.life = rtc.life /\ ~rtc'.running /\ ~rtc'.send_going
      /\ rtc'.running = rtc.running /\ (rtc.signaling => rtc'.signaling)
  <2>1. /\ "pc" \in DOMAIN Rtc0 \ {"life"}
        /\ {"life", "event", "running", "send_going", "signaling"} \subseteq DOMAIN Rtc0 \ {"pc"}
    BY DEF Rtc0
  <2>2. RtcTypes' /\ rtc'.life = rtc.life /\ \A g \in DOMAIN Rtc0 \ {"pc"} : rtc'[g] = rtc[g]
    BY <1>3, <2>1, OfFields DEF Orderly
  <2> QED  BY <1>1, <2>1, <2>2, Zenon
<1>5. "SEND_QUIT" \in bits' => \E u \in Tasks : "wait_send_quit" \in Todo(u)'
  <2>1. \A u \in Tasks : "wait_send_quit" \in Todo(u) => "wait_send_quit" \in Todo(u)'
    BY <1>2
  <2> QED  BY <2>1 DEF Orderly, Streams
<1>6. OneCloses' /\ PcAlive' /\ Streams'
  <2>1. \A m \in {"wait_exit", "stop_stream", "wait_send_quit"} : m \notin Todo(t)'
    BY <1>1, <1>2 DEF AfterPeer
  <2> QED  BY <1>1, <1>2, <1>3, <1>4, <1>5, <2>1, WindsUp
<1>7. Signals'
  <2>1. \A m \in {"started", "stopped", "stop_signaling", "free"} :
          m \in Todo("app")' <=> m \in Todo("app")
    BY <1>2, <1>3
  <2>2. \A u \in {"worker", "aux"} : inside[u] = "none" => Todo(u)' = {}
    BY <1>2 DEF Orderly, Signals, Tasks
  <2> QED  BY <1>3, <1>4, <2>1, <2>2, SignalsKept DEF Orderly
<1>8. Life'
  BY <1>1, <1>3, <1>4 DEF Orderly, Life
<1> QED  BY <1>2, <1>4, <1>6, <1>7, <1>8 DEF Orderly

\* The event group is deleted, and lets go of all who wait.
LEMMA EventDeleted ==
  ASSUME Orderly, NEW t \in Tasks, UNCHANGED late, At(t, "no_event"),
         rtc' = [rtc EXCEPT !.event = FALSE], bits' = {},
         todo' = [u \in Tasks |->
           IF u = t \/ \E w \in WaitSteps : At(u, w) THEN Tail(todo[u]) ELSE todo[u]],
         Quiet
  PROVE  Orderly'
<1>1. /\ Todo("pc") = {} /\ ~rtc.running /\ senders = 0 /\ ~rtc.send_going
      /\ (\A u \in Tasks : "wait_exit" \notin Todo(u)) /\ (\A u \in Tasks \ {t} : ~Ending(u))
      /\ t \notin {"pc", "aux"} /\ rtc.life = "open" /\ "no_event" \in Todo(t)
      /\ Todo(t) \ {"no_event"} \subseteq AfterPeer
  BY ClosesOn DEF After
<1>2. \A u \in Tasks : \/ Todo(u)' = Todo(u) /\ todo'[u] = todo[u] /\ u # t
                       \/ \E h \in WaitSteps \cup {"no_event"} :
                            /\ At(u, h) /\ todo'[u] = Tail(todo[u]) /\ Todo(u)' = Todo(u) \ {h}
                            /\ u = t => h = "no_event"
                            /\ u # t => h \in WaitSteps
  <2> TAKE u \in Tasks
  <2>1. CASE u = t
    <3>1. Elems(Tail(todo[u])) = Todo(u) \ {"no_event"}
      BY <2>1, HeadOf DEF Orderly
    <3> QED  BY <2>1, <3>1 DEF Todo
  <2>2. CASE u # t /\ \E w \in WaitSteps : At(u, w)
    <3>1. PICK w \in WaitSteps : At(u, w)
      BY <2>2
    <3>2. Elems(Tail(todo[u])) = Todo(u) \ {w}
      BY <3>1, HeadOf DEF Orderly
    <3> QED  BY <2>2, <3>1, <3>2 DEF Todo
  <2>3. CASE u # t /\ ~\E w \in WaitSteps : At(u, w)
    BY <2>3 DEF Todo
  <2> QED  BY <2>1, <2>2, <2>3
<1>3. Lists'
  <2>1. \A u \in Tasks : /\ todo'[u] \in Seq(Steps) /\ InOrder(todo'[u])
                         /\ Todo(u)' \subseteq Work(u)
    <3> TAKE u \in Tasks
    <3>1. CASE Todo(u)' = Todo(u) /\ todo'[u] = todo[u]
      BY <3>1 DEF Orderly, Lists
    <3>2. CASE \E h \in WaitSteps \cup {"no_event"} :
                 At(u, h) /\ todo'[u] = Tail(todo[u]) /\ Todo(u)' = Todo(u) \ {h}
      <4>1. PICK h : At(u, h) /\ todo'[u] = Tail(todo[u]) /\ Todo(u)' = Todo(u) \ {h}
        BY <3>2
      <4>2. Tail(todo[u]) \in Seq(Steps) /\ InOrder(Tail(todo[u])) /\ Todo(u) \subseteq Work(u)
        BY <4>1, HeadOf DEF Orderly
      <4> QED  BY <4>1, <4>2
    <3> QED  BY <1>2, <3>1, <3>2
  <2>2. todo' \in [Tasks -> Seq(Steps)]
    BY <2>1
  <2> QED  BY <2>1, <2>2 DEF Lists
<1>4. /\ \A u \in Tasks \ {t} : Todo(u)' \subseteq Todo(u) /\ Todo(u) \ Todo(u)' \subseteq WaitSteps
      /\ Todo(t)' = Todo(t) \ {"no_event"}
  BY <1>2 DEF WaitSteps
<1>5. UNCHANGED <<signaling, senders, late, api, inside>> /\ "app" \in Tasks
  BY DEF Quiet, signaling, Tasks
<1>6. /\ RtcTypes' /\ rtc'.life = rtc.life /\ ~rtc'.running /\ ~rtc'.send_going
      /\ rtc'.running = rtc.running /\ (rtc.signaling => rtc'.signaling)
  <2>1. /\ "event" \in DOMAIN Rtc0 \ {"life"}
        /\ {"life", "running", "send_going", "signaling"} \subseteq DOMAIN Rtc0 \ {"event"}
    BY DEF Rtc0
  <2>2. RtcTypes' /\ rtc'.life = rtc.life /\ \A g \in DOMAIN Rtc0 \ {"event"} : rtc'[g] = rtc[g]
    BY <1>5, <2>1, OfFields DEF Orderly
  <2> QED  BY <1>1, <2>1, <2>2, Zenon
<1>7. OneCloses' /\ PcAlive' /\ Streams'
  <2>1. \A m \in {"wait_exit", "stop_stream", "wait_send_quit"} : m \notin Todo(t)'
    BY <1>1, <1>4 DEF AfterPeer
  <2>2. \A u \in Tasks \ {t} : /\ Todo(u)' \subseteq Todo(u)
          /\ Todo(u) \ Todo(u)' \subseteq {"wait_send_quit", "wait_paused", "wait_resume"}
    BY <1>1, <1>4 DEF WaitSteps
  <2>3. "SEND_QUIT" \in bits' => \E u \in Tasks : "wait_send_quit" \in Todo(u)'
    OBVIOUS
  <2> QED  BY <1>1, <1>5, <1>6, <2>1, <2>2, <2>3, WindsUp
<1>8. Signals'
  <2>1. \A m \in {"started", "stopped", "stop_signaling", "free"} :
          m \in Todo("app")' <=> m \in Todo("app")
    <3>1. CASE t = "app"
      BY <1>4, <3>1
    <3>2. CASE t # "app"
      BY <1>4, <1>5, <3>2 DEF WaitSteps
    <3> QED  BY <3>1, <3>2
  <2>2. \A u \in {"worker", "aux"} : inside[u] = "none" => Todo(u)' = {}
    <3>1. \A u \in Tasks : Todo(u)' \subseteq Todo(u)
      BY <1>4
    <3> QED  BY <3>1 DEF Orderly, Signals, Tasks
  <2> QED  BY <1>5, <1>6, <2>1, <2>2, SignalsKept DEF Orderly
<1>9. Life'
  BY <1>1, <1>5, <1>6 DEF Orderly, Life
<1> QED  BY <1>3, <1>6, <1>7, <1>8, <1>9 DEF Orderly

-----------------------------------------------------------------------------
(* The signaling and the object *)

LEMMA CallbackLeft ==
  ASSUME Orderly, NEW t \in Tasks, UNCHANGED late, Left(t)
  PROVE  Orderly'
<1>1. /\ At(t, "leave") /\ Leave(t) /\ GoOn(t, << >>)
      /\ UNCHANGED <<rtc, bits, peer, senders, late, api>>
  BY DEF Left, Leave
<1>2. /\ "leave" \in Todo(t) /\ Todo(t) \subseteq Work(t) /\ Todo(t) \ {"leave"} \subseteq After("leave")
  BY <1>1, HeadOf DEF Orderly
<1>3. t \in {"app", "worker", "aux"}
  BY <1>2 DEF Work, PeerWork, Tasks
<1>4. Moves(t, "leave", {})
  BY <1>1, Pops DEF Orderly
<1>5. /\ Lists' /\ Todo(t)' = Todo(t) \ {"leave"} /\ \A u \in Tasks \ {t} : Todo(u)' = Todo(u)
  BY <1>4 DEF Moves
<1>6. {} \cap Marks = {"leave"} \cap Marks
  BY DEF Marks, EndSteps
<1>7. /\ \A u \in Tasks : Marked(u)' = Marked(u)
      /\ Todo("pc")' # {} => "turn" \in Todo("pc")'
  BY <1>4, <1>6, MovesQuiet DEF Orderly
<1>8. /\ inside[t] # "none" /\ inside' = [inside EXCEPT ![t] = "none"]
      /\ DOMAIN inside = {"app", "worker", "aux"}
  BY <1>1 DEF Leave, Orderly, RtcTypes
<1>9. RtcTypes'
  BY <1>1, <1>8 DEF Orderly, RtcTypes
<1>10. api = "idle" => NobodyInside'
  <2>1. api # "idle"
    BY <1>3, <1>8, WebrtcAssumption DEF Orderly, Signals, NobodyInside
  <2> QED  BY <2>1
<1>11. \A u \in {"worker", "aux"} : inside'[u] = "none" => Todo(u)' = {}
  <2>1. t \in {"worker", "aux"} => Todo(t)' = {}
    BY <1>2, <1>5 DEF Work, CallWork, PeerWork, After, AfterCallbacks
  <2>2. \A u \in {"worker", "aux"} : u # t => inside'[u] = inside[u] /\ Todo(u)' = Todo(u)
    BY <1>5, <1>8 DEF Tasks
  <2> QED  BY <2>1, <2>2 DEF Orderly, Signals
<1>12. rtc.life = "open"
  BY <1>2 DEF Orderly, Life
<1>13. Fields' = Fields /\ (rtc.pc => rtc'.pc) /\ peer' = peer
  BY <1>1 DEF Fields
<1>14. \A b \in {"SEND_QUIT", "EXIT"} : b \in bits' => b \in bits
  BY <1>1
<1> QED  BY <1>1, <1>5, <1>7, <1>9, <1>10, <1>11, <1>12, <1>13, <1>14, QuietInv

LEMMA StartOver ==
  ASSUME Orderly, UNCHANGED late, Started
  PROVE  Orderly'
<1>1. /\ At("app", "started") /\ GoOn("app", << >>) /\ UNCHANGED <<bits, peer, senders, late>>
      /\ \/ StartSucceeds /\ rtc' = [rtc EXCEPT !.signaling = TRUE]
         \/ StopReturns /\ UNCHANGED rtc
  BY DEF Started
<1>2. "app" \in Tasks /\ "pc" \in Tasks /\ After("started") = {}
  BY DEF Tasks, After
<1>3. Moves("app", "started", {})
  BY <1>1, <1>2, Pops DEF Orderly
<1>4. /\ Lists' /\ Todo("app") = {"started"} /\ Todo("app")' = {}
      /\ \A u \in Tasks \ {"app"} : Todo(u)' = Todo(u)
  BY <1>2, <1>3 DEF Moves
<1>5. ~Ending("app") /\ ~Leaving("app") /\ ~Ending("app")' /\ ~Leaving("app")'
  BY <1>4 DEF Ending, Leaving, EndSteps
<1>6. UNCHANGED inside
  BY <1>1 DEF StartSucceeds, StopReturns
<1>7. /\ RtcTypes' /\ rtc'.life = rtc.life /\ (rtc.pc => rtc'.pc) /\ rtc'.event = rtc.event
      /\ rtc'.running = rtc.running /\ rtc'.send_going = rtc.send_going
  <2>1. CASE rtc' = [rtc EXCEPT !.signaling = TRUE]
    <3>1. /\ "signaling" \in DOMAIN Rtc0 \ {"life"}
          /\ {"life", "pc", "event", "running", "send_going"} \subseteq DOMAIN Rtc0 \ {"signaling"}
      BY DEF Rtc0
    <3>2. RtcTypes' /\ \A g \in DOMAIN Rtc0 \ {"signaling"} : rtc'[g] = rtc[g]
      BY <1>6, <2>1, <3>1, OfFields DEF Orderly
    <3> QED  BY <3>1, <3>2, Zenon
  <2>2. CASE UNCHANGED rtc
    <3>1. RtcTypes'
      BY <1>6, <2>2, TypedAs DEF Orderly
    <3> QED  BY <2>2, <3>1, Zenon
  <2> QED  BY <1>1, <2>1, <2>2
<1>8. rtc.life = "open"
  BY <1>2, <1>4 DEF Orderly, Life
<1>9. \A u \in {"worker", "aux"} : inside'[u] = "none" => Todo(u)' = {}
  BY <1>4, <1>6 DEF Orderly, Signals, Tasks
<1>10. Signals'
  <2>1. CASE StartSucceeds /\ rtc' = [rtc EXCEPT !.signaling = TRUE]
    <3>1. api' = "running"
      BY <2>1 DEF StartSucceeds
    <3>2. rtc'.signaling
      BY <2>1 DEF Orderly, RtcTypes, Rtc0
    <3> QED  BY <1>4, <1>9, <3>1, <3>2 DEF Signals
  <2>2. CASE StopReturns
    <3>1. api' = "idle" /\ NobodyInside'
      BY <2>2 DEF StopReturns, NobodyInside
    <3> QED  BY <1>4, <1>9, <3>1 DEF Signals
  <2> QED  BY <1>1, <2>1, <2>2
<1>11. "start_stream" \in Todo("pc")' => ~rtc.send_going /\ peer # "connecting"
  BY <1>2, <1>4 DEF Orderly, Streams
<1>12. \A b \in {"SEND_QUIT", "EXIT"} : b \in bits' => b \in bits
  BY <1>1
<1> QED  BY <1>1, <1>2, <1>4, <1>5, <1>7, <1>8, <1>10, <1>11, <1>12, Takes

\* stop and close come to the signaling.
LEMMA SignalingStops ==
  ASSUME Orderly, NEW t \in Tasks, UNCHANGED late, StopSignaling(t) \/ SignalingStopped(t)
  PROVE  Orderly'
<1>1. PICK h \in {"stop_signaling", "stopped"} :
        /\ At(t, h) /\ UNCHANGED <<bits, senders, late, inside>>
        /\ \/ h = "stop_signaling" /\ StopSignaling(t) /\ UNCHANGED rtc
           \/ h = "stopped" /\ SignalingStopped(t) /\ rtc' = [rtc EXCEPT !.signaling = FALSE]
  BY DEF StopSignaling, SignalingStopped, Stop, StopReturns, signaling
<1>2. /\ Todo("pc") = {} /\ ~rtc.running /\ senders = 0 /\ ~rtc.send_going
      /\ (\A u \in Tasks : "wait_exit" \notin Todo(u)) /\ (\A u \in Tasks \ {t} : ~Ending(u))
      /\ t \notin {"pc", "aux"} /\ rtc.life = "open" /\ h \in Todo(t)
  BY <1>1, ClosesOn
<1>3. /\ Todo(t) \subseteq Work(t) /\ Todo(t) \ {h} \subseteq {"free", "turn"}
      /\ {"free", "turn"} = After(h)
  BY <1>1, HeadOf DEF Orderly, After
<1>4. t = "app"
  BY <1>2, <1>3 DEF Work, CallWork, PeerWork, Tasks
<1>5. \E P \in SUBSET {"callbacks", "stopped"} :
        /\ Moves(t, h, P)
        /\ P = {} \/ P = {"callbacks", "stopped"}
        /\ P # {} <=> h = "stop_signaling" /\ rtc.signaling
  <2>1. CASE GoOn(t, << >>) /\ ~(h = "stop_signaling" /\ rtc.signaling)
    <3>1. Moves(t, h, {})
      BY <1>1, <2>1, Pops DEF Orderly
    <3> QED  BY <2>1, <3>1
  <2>2. CASE GoOn(t, <<"callbacks", "stopped">>) /\ h = "stop_signaling" /\ rtc.signaling
    <3> DEFINE s == <<"callbacks", "stopped">>
    <3>1. /\ {"callbacks", "stopped"} \subseteq Steps /\ {"callbacks", "stopped"} \subseteq Work(t)
          /\ "stopped" \in After("callbacks")
          /\ \A x \in {"callbacks", "stopped"} : {"free", "turn"} \subseteq After(x)
      BY <1>4 DEF Steps, Work, After, AfterCallbacks
    <3>2. s \in Seq(Steps) /\ InOrder(s) /\ Elems(s) = {"callbacks", "stopped"} /\ GoOn(t, s)
      BY <2>2, <3>1, Two
    <3> HIDE DEF s
    <3>3. \A x \in Elems(s) : After(h) \subseteq After(x)
      BY <1>3, <3>1, <3>2
    <3>4. Elems(s) \subseteq Work(t)
      BY <3>1, <3>2
    <3>5. Moves(t, h, Elems(s))
      BY <1>1, <3>2, <3>3, <3>4, GoesOn DEF Orderly
    <3> QED  BY <2>2, <3>2, <3>5
  <2> QED  BY <1>1, <2>1, <2>2 DEF StopSignaling, SignalingStopped
<1>6. PICK P \in SUBSET {"callbacks", "stopped"} :
        /\ Moves(t, h, P)
        /\ P = {} \/ P = {"callbacks", "stopped"}
        /\ P # {} <=> h = "stop_signaling" /\ rtc.signaling
  BY <1>5
<1>7. /\ Lists' /\ Todo(t)' = P \cup (Todo(t) \ {h}) /\ \A u \in Tasks \ {t} : Todo(u)' = Todo(u)
  BY <1>6 DEF Moves
<1>8. /\ RtcTypes' /\ rtc'.life = rtc.life /\ rtc'.running = rtc.running /\ ~rtc'.send_going
  <2>1. CASE UNCHANGED rtc
    <3>1. RtcTypes'
      BY <1>1, <2>1, TypedAs DEF Orderly
    <3> QED  BY <1>2, <2>1, <3>1, Zenon
  <2>2. CASE rtc' = [rtc EXCEPT !.signaling = FALSE]
    <3>1. /\ "signaling" \in DOMAIN Rtc0 \ {"life"}
          /\ {"life", "running", "send_going"} \subseteq DOMAIN Rtc0 \ {"signaling"}
      BY DEF Rtc0
    <3>2. RtcTypes' /\ \A g \in DOMAIN Rtc0 \ {"signaling"} : rtc'[g] = rtc[g]
      BY <1>1, <2>2, <3>1, OfFields DEF Orderly
    <3> QED  BY <1>2, <3>1, <3>2, Zenon
  <2> QED  BY <1>1, <2>1, <2>2
<1>9. OneCloses' /\ PcAlive' /\ Streams'
  <2>1. \A m \in {"wait_exit", "stop_stream", "wait_send_quit"} : m \notin Todo(t)'
    BY <1>3, <1>6, <1>7
  <2>2. \A u \in Tasks : "wait_send_quit" \in Todo(u) => "wait_send_quit" \in Todo(u)'
    BY <1>7
  <2>3. "SEND_QUIT" \in bits' => \E u \in Tasks : "wait_send_quit" \in Todo(u)'
    BY <1>1, <2>2 DEF Orderly, Streams
  <2> QED  BY <1>1, <1>2, <1>7, <1>8, <2>1, <2>3, WindsUp
<1>10. Signals'
  <2>1. \A u \in {"worker", "aux"} : inside'[u] = "none" => Todo(u)' = {}
    BY <1>1, <1>4, <1>7 DEF Orderly, Signals, Tasks
  <2>2. "started" \notin Todo("app") /\ "stop_signaling" \notin Todo("app")'
    BY <1>2, <1>3, <1>4, <1>6, <1>7
  <2>3. CASE h = "stop_signaling" /\ rtc.signaling
    <3>1. api' = "stopping"
      BY <1>1, <2>3 DEF StopSignaling, Stop
    <3>2. "stopped" \in Todo("app")'
      BY <1>4, <1>6, <1>7, <2>3
    <3> QED  BY <2>1, <3>1, <3>2 DEF Signals
  <2>4. CASE h = "stop_signaling" /\ ~rtc.signaling
    <3>1. UNCHANGED api
      BY <1>1, <2>4 DEF StopSignaling, signaling
    <3>2. "stopped" \notin Todo("app")
      BY <1>3, <1>4, <2>4
    <3>3. api = "idle" /\ NobodyInside
      BY <2>2, <2>4, <3>2 DEF Orderly, Signals
    <3>4. api' = "idle" /\ NobodyInside'
      BY <1>1, <3>1, <3>3 DEF NobodyInside
    <3> QED  BY <2>1, <3>4 DEF Signals
  <2>5. CASE h = "stopped"
    <3>1. api' = "idle" /\ NobodyInside'
      BY <1>1, <2>5 DEF SignalingStopped, StopReturns, NobodyInside
    <3> QED  BY <2>1, <3>1 DEF Signals
  <2> QED  BY <2>3, <2>4, <2>5
<1>11. Life'
  BY <1>1, <1>2, <1>8 DEF Orderly, Life
<1> QED  BY <1>7, <1>8, <1>9, <1>10, <1>11 DEF Orderly

\* Nobody is left in the object when it is freed.
LEMMA Freed ==
  ASSUME Orderly, NEW t \in Tasks, UNCHANGED late, Free(t)
  PROVE  Orderly'
<1>1. /\ At(t, "free") /\ rtc' = [rtc EXCEPT !.life = "freed"] /\ GoOn(t, << >>)
      /\ UNCHANGED <<api, inside, senders, bits, late>>
  BY DEF Free, Quiet, signaling
<1>2. /\ Todo("pc") = {} /\ ~rtc.running /\ senders = 0 /\ ~rtc.send_going
      /\ t \notin {"pc", "aux"} /\ rtc.life = "open" /\ "free" \in Todo(t)
  BY <1>1, ClosesOn
<1>3. Todo(t) \subseteq Work(t) /\ Todo(t) \ {"free"} \subseteq {"turn"}
  BY <1>1, HeadOf DEF Orderly, After
<1>4. t = "app"
  BY <1>2, <1>3 DEF Work, CallWork, PeerWork, Tasks
<1>5. Todo("app") = {"free"}
  BY <1>2, <1>3, <1>4 DEF Work, CallWork, PeerWork
<1>6. Lists' /\ Todo(t)' = Todo(t) \ {"free"} /\ \A u \in Tasks \ {t} : Todo(u)' = Todo(u)
  BY <1>1, Pops DEF Orderly, Moves
<1>7. api = "idle" /\ NobodyInside
  BY <1>5 DEF Orderly, Signals
<1>8. Todo("worker") = {} /\ Todo("aux") = {}
  BY <1>7, WebrtcAssumption DEF Orderly, Signals, NobodyInside
<1>9. \A u \in Tasks : Todo(u)' = {}
  BY <1>2, <1>4, <1>5, <1>6, <1>8 DEF Tasks
<1>10. /\ RtcTypes' /\ rtc'.life = "freed" /\ ~rtc'.running /\ ~rtc'.send_going
  <2>1. DOMAIN rtc = DOMAIN Rtc0 /\ (\A f \in DOMAIN Rtc0 \ {"life"} : rtc[f] \in BOOLEAN)
        /\ DOMAIN inside = {"app", "worker", "aux"}
    BY DEF Orderly, RtcTypes
  <2>2. DOMAIN rtc' = DOMAIN Rtc0 /\ \A f \in DOMAIN Rtc0 \ {"life"} : rtc'[f] \in BOOLEAN
    BY <1>1, <2>1 DEF Rtc0
  <2>3. RtcTypes'
    BY <1>1, <2>1, <2>2 DEF RtcTypes
  <2>4. rtc'.life = "freed" /\ ~rtc'.running /\ ~rtc'.send_going
    BY <1>1, <1>2, <2>1 DEF Rtc0
  <2> QED  BY <2>3, <2>4
<1>11. "pc" \in Tasks /\ "app" \in Tasks /\ \A u \in Tasks : ~Ending(u)'
  BY <1>9 DEF Ending, Tasks
<1>12. OneCloses' /\ PcAlive'
  BY <1>9, <1>10, <1>11 DEF OneCloses, PcAlive
<1>13. Streams'
  <2>1. senders' = 0 /\ senders' \in {0, 1} /\ senders' # 1
    BY <1>1, <1>2
  <2>2. "SEND_QUIT" \notin bits'
    <3>1. \A u \in Tasks : "wait_send_quit" \notin Todo(u)
      BY <1>2, <1>5, <1>8 DEF Tasks
    <3> QED  BY <1>1, <3>1 DEF Orderly, Streams
  <2> QED  BY <1>9, <1>10, <1>11, <2>1, <2>2 DEF Streams
<1>14. Signals'
  <2>1. api' = "idle" /\ NobodyInside'
    BY <1>1, <1>7 DEF NobodyInside
  <2> QED  BY <1>9, <2>1 DEF Signals, Tasks
<1>15. Life'
  BY <1>1, <1>9, <1>10 DEF Orderly, Life
<1> QED  BY <1>6, <1>10, <1>12, <1>13, <1>14, <1>15 DEF Orderly

LEMMA Opened ==
  ASSUME Orderly, UNCHANGED late, esp_webrtc_open
  PROVE  Orderly'
<1>1. /\ rtc.life = "none" /\ rtc' = [Rtc0 EXCEPT !.life = "open"]
      /\ UNCHANGED <<bits, peer, todo, api, inside, senders, late>>
  BY DEF esp_webrtc_open, Quiet, signaling
<1>2. \A u \in Tasks : Todo(u) = {} /\ Todo(u)' = {}
  <2>1. \A u \in Tasks : Todo(u) = {}
    BY <1>1 DEF Orderly, Life
  <2> QED  BY <1>1, <2>1 DEF Todo
<1>3. senders = 0 /\ api = "idle" /\ NobodyInside
  BY <1>1 DEF Orderly, Life, Signals
<1>4. Lists'
  BY <1>1 DEF Orderly, Lists, Todo
<1>5. RtcTypes' /\ rtc'.life = "open" /\ ~rtc'.running /\ ~rtc'.send_going
  <2>1. DOMAIN rtc' = DOMAIN Rtc0
    BY <1>1 DEF Rtc0
  <2>2. \A f \in DOMAIN Rtc0 \ {"life"} : rtc'[f] = FALSE
    BY <1>1 DEF Rtc0
  <2>3. RtcTypes'
    BY <1>1, <2>1, <2>2 DEF Orderly, RtcTypes
  <2>4. rtc'.life = "open" /\ {"running", "send_going"} \subseteq DOMAIN Rtc0 \ {"life"}
    BY <1>1 DEF Rtc0
  <2>5. rtc'["running"] = FALSE /\ rtc'["send_going"] = FALSE
    BY <2>2, <2>4
  <2> QED  BY <2>3, <2>4, <2>5, Zenon
<1>6. "pc" \in Tasks /\ "app" \in Tasks /\ \A u \in Tasks : ~Ending(u)'
  BY <1>2 DEF Ending, Tasks
<1>7. OneCloses' /\ PcAlive'
  BY <1>2, <1>5, <1>6 DEF OneCloses, PcAlive
<1>8. Streams'
  <2>1. senders' = 0 /\ senders' \in {0, 1} /\ senders' # 1
    BY <1>1, <1>3
  <2>2. "SEND_QUIT" \notin bits'
    BY <1>1, <1>2 DEF Orderly, Streams
  <2> QED  BY <1>2, <1>5, <1>6, <2>1, <2>2 DEF Streams
<1>9. Signals'
  <2>1. api' = "idle" /\ NobodyInside'
    BY <1>1, <1>3 DEF NobodyInside
  <2> QED  BY <1>2, <2>1 DEF Signals, Tasks
<1>10. Life'
  BY <1>1, <1>5 DEF Orderly, Life
<1> QED  BY <1>4, <1>5, <1>7, <1>8, <1>9, <1>10 DEF Orderly

-----------------------------------------------------------------------------
(* The theorems *)

LEMMA Begins == RtcInit => RtcInv
<1> SUFFICES ASSUME RtcInit  PROVE Orderly
  BY DEF RtcInv
<1>1. /\ rtc = Rtc0 /\ bits = {} /\ peer = "none" /\ todo = [t \in Tasks |-> << >>]
      /\ senders = 0 /\ late = {} /\ api = "idle" /\ inside = [t \in CallThreads |-> "none"]
  BY DEF RtcInit, Init
<1>2. \A u \in Tasks : todo[u] = << >> /\ Todo(u) = {}
  BY <1>1, None DEF Todo
<1>3. "pc" \in Tasks /\ "app" \in Tasks /\ \A u \in Tasks : ~Ending(u)
  BY <1>2 DEF Ending, Tasks
<1>4. Lists
  <2>1. todo \in [Tasks -> Seq(Steps)]
    BY <1>1, None
  <2> QED  BY <1>2, <2>1, None DEF Lists
<1>5. RtcTypes /\ rtc.life = "none" /\ ~rtc.running /\ ~rtc.send_going
  <2>1. \A f \in DOMAIN Rtc0 \ {"life"} : rtc[f] = FALSE
    BY <1>1 DEF Rtc0
  <2>2. RtcTypes
    BY <1>1, <2>1, WebrtcAssumption DEF RtcTypes
  <2>3. rtc.life = "none" /\ {"running", "send_going"} \subseteq DOMAIN Rtc0 \ {"life"}
    BY <1>1 DEF Rtc0
  <2>4. rtc["running"] = FALSE /\ rtc["send_going"] = FALSE
    BY <2>1, <2>3
  <2> QED  BY <2>2, <2>3, <2>4, Zenon
<1>6. OneCloses /\ PcAlive
  BY <1>2, <1>3, <1>5 DEF OneCloses, PcAlive
<1>7. Streams
  BY <1>1, <1>2, <1>3, <1>5 DEF Streams
<1>8. Signals
  <2>1. NobodyInside
    BY <1>1 DEF NobodyInside
  <2> QED  BY <1>1, <1>2, <2>1 DEF Signals, Tasks
<1>9. Life
  BY <1>1, <1>2, <1>5 DEF Life
<1> QED  BY <1>4, <1>5, <1>6, <1>7, <1>8, <1>9 DEF Orderly

LEMMA EachStep ==
  ASSUME Orderly, NEW t \in Tasks, UNCHANGED late, raced' = {}, StepOf(t)
  PROVE  Orderly'
<1>1. CASE Waits(t)
  BY <1>1, Resumes, StreamEnded, TaskEnded DEF Waits
<1>2. CASE start_stream(t)
  BY <1>2, StreamStarts
<1>3. CASE stop_stream(t)
  BY <1>3, StreamStops
<1>4. CASE pc_start(t)
  BY <1>4, Connects
<1>5. CASE PcRun(t)
  BY <1>5, Runs
<1>6. CASE pc_close(t)
  BY <1>6, PcCloses
<1>7. CASE PcClosed(t)
  BY <1>7, PeerCloses, EventDeleted DEF PcClosed
<1>8. CASE Left(t)
  BY <1>8, CallbackLeft
<1>9. CASE PeerSteps(t)
  BY <1>9, TalksToPeer
<1>10. CASE esp_webrtc_enable_peer_connection(t)
  <2>1. UNCHANGED <<late, signaling, senders>>
    BY <1>10 DEF esp_webrtc_enable_peer_connection
  <2>2. CASE /\ At(t, "disable") /\ rtc' = [rtc EXCEPT !.pending = TRUE]
             /\ GoOn(t, <<"stop_stream", "pc_close">>) /\ UNCHANGED <<bits, peer, raced>>
    BY <2>1, <2>2, Refuses
  <2> QED  BY <1>10, <2>1, <2>2, Enables DEF esp_webrtc_enable_peer_connection
<1>11. CASE StopSignaling(t) \/ SignalingStopped(t)
  BY <1>11, SignalingStops
<1>12. CASE Free(t)
  BY <1>12, Freed
<1> QED  BY <1>1, <1>2, <1>3, <1>4, <1>5, <1>6, <1>7, <1>8, <1>9, <1>10, <1>11, <1>12 DEF StepOf

LEMMA RacesStay == RtcNext => (raced' = {} => raced = {})
<1> SUFFICES ASSUME RtcNext  PROVE raced \subseteq raced'
  OBVIOUS
<1>1. ASSUME NEW t, StepOf(t)  PROVE raced \subseteq raced'
  BY <1>1 DEF StepOf, Waits, WaitBit, start_stream, stop_stream, pc_start, PcRun, pc_close,
     PcClosed, Left, PeerSteps, esp_webrtc_enable_peer_connection, StopSignaling,
     SignalingStopped, Free, Reconnect, Races, Quiet
<1>2. ASSUME pc_task \/ pc_notify_app \/ CallbacksDone \/ Started \/ media_send_task
      PROVE  raced \subseteq raced'
  BY <1>2 DEF pc_task, pc_notify_app, CallbacksDone, Started, media_send_task, Quiet
<1>3. ASSUME esp_webrtc_open \/ CallEnable \/ esp_webrtc_start \/ CallStopOrClose
      PROVE  raced \subseteq raced'
  BY <1>3 DEF esp_webrtc_open, CallEnable, esp_webrtc_start, CallStopOrClose, Calls, Quiet
<1>4. ASSUME (\E t \in CallThreads : CallsBack(t)) \/ signal_bye \/ signal_new_msg
      PROVE  raced \subseteq raced'
  BY <1>4 DEF CallsBack, signal_ice_received, signal_connected, signal_closed, signal_bye,
     signal_new_msg, NewConnection, Races
<1>5. ASSUME NEW t \in Tasks, UseFreed(t)  PROVE raced \subseteq raced'
  BY <1>5 DEF UseFreed, Quiet
<1> QED  BY <1>1, <1>2, <1>3, <1>4, <1>5 DEF RtcNext, Alive, Works, OwnerSteps, PcSteps

LEMMA Preserved == RtcInv /\ [RtcNext]_vars => RtcInv'
<1> SUFFICES ASSUME RtcInv, [RtcNext]_vars, raced' = {}  PROVE Orderly'
  BY DEF RtcInv
<1>1. CASE UNCHANGED vars
  <2>1. Orderly
    BY <1>1 DEF RtcInv, vars, here
  <2>2. UNCHANGED <<rtc, bits, peer, todo, senders, late, api, inside>>
    BY <1>1 DEF vars, here, signaling
  <2>3. \A u : Todo(u)' = Todo(u)
    BY <2>2 DEF Todo
  <2>4. \A u : (Ending(u)' <=> Ending(u)) /\ (Leaving(u)' <=> Leaving(u))
    BY <2>3, Unmoved
  <2>5. Lists' /\ RtcTypes'
    BY <2>1, <2>2, <2>3 DEF Orderly, Lists, RtcTypes
  <2>6. OneCloses' /\ PcAlive'
    BY <2>1, <2>2, <2>3, <2>4 DEF Orderly, OneCloses, PcAlive
  <2>7. Streams'
    BY <2>1, <2>2, <2>3, <2>4 DEF Orderly, Streams
  <2>8. Signals' /\ Life'
    BY <2>1, <2>2, <2>3 DEF Orderly, Signals, Life, NobodyInside
  <2> QED  BY <2>5, <2>6, <2>7, <2>8 DEF Orderly
<1>2. CASE RtcNext
  <2>1. Orderly
    BY <1>2, RacesStay DEF RtcInv
  <2>2. ASSUME NEW t \in Tasks, UseFreed(t)  PROVE FALSE
    BY <2>1, <2>2, IdleOf DEF UseFreed, Orderly, Life
  <2>3. Works /\ rtc.life # "freed" /\ UNCHANGED late
    BY <1>2, <2>2 DEF RtcNext, Alive
  <2>4. CASE esp_webrtc_open \/ CallEnable \/ esp_webrtc_start \/ CallStopOrClose
    BY <2>1, <2>3, <2>4, Opened, AsksEnable, AsksStart, AsksStopOrClose
  <2>5. CASE \E t \in Tasks : StepOf(t)
    BY <2>1, <2>3, <2>5, EachStep
  <2>6. CASE CallbacksDone \/ Started \/ pc_task \/ pc_notify_app
    BY <2>1, <2>3, <2>6, CallbacksOver, StartOver, TaskTurns, Notifies
  <2>7. CASE \E t \in CallThreads : CallsBack(t)
    BY <2>1, <2>3, <2>7, ToldIce, ToldConnected, ToldClosed, WebrtcAssumption DEF CallsBack
  <2>8. CASE signal_bye \/ signal_new_msg \/ media_send_task
    BY <2>1, <2>3, <2>8, Hangs, ToldMessage, SenderEnds
  <2> QED
    BY <2>3, <2>4, <2>5, <2>6, <2>7, <2>8 DEF Works, OwnerSteps, PcSteps, Tasks
<1> QED  BY <1>1, <1>2

\* Unless two tasks have crossed, the tasks of the session object stay in order:
\* the steps each has left, who closes, who streams, and what is still there for them.
THEOREM SessionStaysOrderly == RtcSpec => []RtcInv
BY Begins, Preserved, PTL DEF RtcSpec

\* However the owner, the signaling threads and pc_task interleave, and for any number
\* of calls and callbacks, a streaming task is alone and ends before its peer connection
\* is gone (stop_stream, pc_close), unless two tasks have crossed as raced says.
THEOREM StreamsEndFirst == RtcSpec => []StreamEndsFirst
<1>1. RtcInv => StreamEndsFirst
  <2>1. ASSUME Orderly  PROVE senders \in {0, 1} /\ (senders = 1 => rtc.pc)
    BY <2>1 DEF Orderly, Streams, PcAlive
  <2>2. Orderly => ~(senders > 1) /\ ~(senders > 0 /\ ~rtc.pc)
    BY <2>1
  <2> QED  BY <2>2 DEF RtcInv, StreamEndsFirst
<1> QED  BY <1>1, SessionStaysOrderly, PTL

\* Nobody goes on with the object esp_webrtc_close has freed, under the same exception:
\* pc_task has ended (EXIT), stop has returned, and no callback is left.
THEOREM FreedIsLeftAlone == RtcSpec => []NobodyUsesFreed
<1>1. RtcInv => NobodyUsesFreed
  BY DEF RtcInv, Orderly, Life, NobodyUsesFreed
<1> QED  BY <1>1, SessionStaysOrderly, PTL
=============================================================================
