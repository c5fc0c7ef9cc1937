------------------------------ MODULE WebClient ------------------------------
(***************************************************************************)
(* The page that commands the robot and shows its video                    *)
(* (webrtc_public_gateway/web/app.js).                                     *)
(*                                                                         *)
(* The browser runs one callback at a time; what the page keeps between    *)
(* them are its global variables, `page'.  janus.js, mqtt.js and the peer  *)
(* connection are external: sessions, handles and clients live on until    *)
(* they are destroyed, detached or closed, whether the page still has them *)
(* or not, and call back.                                                  *)
(***************************************************************************)
EXTENDS Naturals

CONSTANTS
  Links,      \* bound: MQTT clients
  Sessions,   \* bound: Janus sessions
  Handles,    \* bound: subscriber handles
  MaxEvents   \* bound: events of the gateway

Feeds == {1, 2}   \* publisher ids the robot may have; 0 is none

VARIABLES
  page,
  link,      \* MQTT clients: "none", "connecting", "online", "ended" or "closed"
  session,   \* "none", "creating", "live" or "dead"
  handle,    \* a subscriber's state, "none", "attaching", "on" or "off", and session
  asked,     \* sessions whose destruction destroySession waits for
  lists,     \* listparticipants requests under way, of each session
  managers,  \* sessions whose manager is being attached
  sampling,  \* sampleConnectionQuality waits for the statistics
  feed,      \* the publisher in the room
  count,     \* events so far
  stalls,    \* history: stalls in the window since video came
  odd        \* history: see Odd

web == <<page, link, session, handle, asked, lists, managers, sampling, feed, count, stalls, odd>>

\* Orders of callbacks that the page does not provide for: a client's close after its
\* successor has connected, a session destroyed before it was created, a listing
\* answered while a subscriber is still being attached.
Odd == {"late_close", "early_destroy", "listed_twice"}

WebInit ==
  /\ page = [mqttClient |-> 0, pendingWebrtcOpen |-> FALSE, heartbeatTimer |-> FALSE,
             janus |-> 0, managerHandle |-> 0, subscriberHandle |-> 0, selectedFeedId |-> 0,
             statsTimer |-> FALSE, seen |-> FALSE, window |-> FALSE, stallCount |-> 0,
             connectable |-> TRUE]
  /\ link = [c \in Links |-> "none"]
  /\ session = [s \in Sessions |-> "none"]
  /\ handle = [h \in Handles |-> [state |-> "none", of |-> 0]]
  /\ asked = {} /\ lists = [s \in Sessions |-> 0] /\ managers = {}
  /\ sampling = FALSE /\ feed = 0 /\ count = 0 /\ stalls = 0 /\ odd = {}

Live(s) == s # 0 /\ session[s] = "live"
Happens == count < MaxEvents /\ count' = count + 1
Janus == <<session, handle, asked, lists, managers>>

-----------------------------------------------------------------------------
(* What the functions of the page do to it *)

\* oncleanup of a subscriber, whichever it is.
Cleaned(p) ==
  [p EXCEPT !.statsTimer = FALSE, !.seen = FALSE, !.window = FALSE, !.stallCount = 0,
            !.subscriberHandle = 0]

\* The end of destroySession.
Reset(p) ==
  [Cleaned(p) EXCEPT !.janus = 0, !.managerHandle = 0, !.selectedFeedId = 0, !.connectable = TRUE]

\* Fault: destroySession does not wait for the gateway.
destroy_at_once(p) ==
  /\ page' = Reset(p)
  /\ UNCHANGED <<asked, odd>>

\* Only a session that is live is asked for; without an id janus.js answers at once,
\* and the session that is being created lives on.
destroySession(p) ==
  IF Live(p.janus)
    THEN /\ page' = [p EXCEPT !.statsTimer = FALSE]
         /\ asked' = asked \cup {p.janus}
         /\ UNCHANGED odd
    ELSE /\ page' = Reset(p)
         /\ odd' = IF p.janus # 0 /\ session[p.janus] = "creating" THEN odd \cup {"early_destroy"}
                   ELSE odd
         /\ UNCHANGED asked

\* connect: a session of its own, whatever `janus' was.
connect(p) ==
  \E s \in Sessions :
    /\ session[s] = "none" /\ \A r \in Sessions : r < s => session[r] # "none"
    /\ session' = [session EXCEPT ![s] = "creating"]
    /\ page' = [p EXCEPT !.janus = s, !.connectable = FALSE]
    /\ stalls' = 0

requestAndAttachPublisher(p) ==
  lists' = IF Live(p.managerHandle) THEN [lists EXCEPT ![p.managerHandle] = @ + 1] ELSE lists

Detached(hs, p) ==
  IF p.subscriberHandle = 0 THEN hs ELSE [hs EXCEPT ![p.subscriberHandle].state = "off"]
Detach(p) == IF p.subscriberHandle = 0 THEN p ELSE Cleaned(p)

-----------------------------------------------------------------------------
(* MQTT *)

Ended(p) == IF p.mqttClient = 0 THEN link ELSE [link EXCEPT ![p.mqttClient] = "ended"]

mqttConnect ==
  \E c \in Links :
    /\ link[c] = "none" /\ \A b \in Links : b < c => link[b] # "none"
    /\ link' = [Ended(page) EXCEPT ![c] = "connecting"]
    /\ page' = [page EXCEPT !.mqttClient = c]
    /\ UNCHANGED <<Janus, sampling, feed, count, stalls, odd>>

\* mqttClient.on('connect'): OPEN_WEBRTC, then a heartbeat every three seconds.
OnConnect(c) ==
  /\ link[c] = "connecting" /\ link' = [link EXCEPT ![c] = "online"]
  /\ page' = [page EXCEPT !.pendingWebrtcOpen = TRUE, !.heartbeatTimer = TRUE]
  /\ UNCHANGED <<Janus, sampling, feed, count, stalls, odd>>

\* mqttClient.on('close'): a client that was not ended connects again.
OnClose(c) ==
  /\ link[c] \in {"online", "ended"}
  /\ IF link[c] = "ended" THEN link' = [link EXCEPT ![c] = "closed"] /\ UNCHANGED count
     ELSE link' = [link EXCEPT ![c] = "connecting"] /\ Happens
  /\ LET p == [page EXCEPT !.pendingWebrtcOpen = FALSE, !.heartbeatTimer = FALSE]
         late == IF page.mqttClient # c /\ page.mqttClient # 0 /\ link[page.mqttClient] = "online"
                   THEN {"late_close"} ELSE {}
     IN  IF page.janus = 0
           THEN page' = p /\ odd' = odd \cup late /\ UNCHANGED asked
           ELSE IF late = {} THEN destroySession(p)
           ELSE page' = p /\ odd' = odd \cup late /\ UNCHANGED asked
  /\ UNCHANGED <<session, handle, lists, managers, sampling, feed, stalls>>

\* mqttClient.on('message'): the robot says that WebRTC is ready.
OnReady(c) ==
  /\ link[c] = "online" /\ page.pendingWebrtcOpen
  /\ LET p == [page EXCEPT !.pendingWebrtcOpen = FALSE]
     IN  IF page.janus = 0 THEN connect(p) ELSE page' = p /\ UNCHANGED <<session, stalls>>
  /\ UNCHANGED <<link, handle, asked, lists, managers, sampling, feed, count, odd>>

\* The Janus session is left to the close that follows.
mqttDisconnect ==
  /\ page.mqttClient # 0 /\ link' = Ended(page)
  /\ page' = [page EXCEPT !.mqttClient = 0, !.heartbeatTimer = FALSE]
  /\ UNCHANGED <<Janus, sampling, feed, count, stalls, odd>>

-----------------------------------------------------------------------------
(* The buttons, and the Janus session *)

ConnectClicked ==
  /\ page.connectable /\ connect(page)
  /\ UNCHANGED <<link, handle, asked, lists, managers, sampling, feed, count, odd>>

DisconnectClicked ==
  /\ ~page.connectable /\ destroySession(page)
  /\ UNCHANGED <<link, session, handle, lists, managers, sampling, feed, count, stalls>>

\* attachManager, on the session that `janus' is by now.
SessionCreated(s) ==
  /\ session[s] = "creating" /\ session' = [session EXCEPT ![s] = "live"]
  /\ managers' = IF page.janus = s \/ Live(page.janus) THEN managers \cup {page.janus} ELSE managers
  /\ UNCHANGED <<page, link, handle, asked, lists, sampling, feed, count, stalls, odd>>

\* error: the session could not be created, or the server was lost.
SessionFails(s) ==
  /\ session[s] \in {"creating", "live"} /\ Happens
  /\ session' = [session EXCEPT ![s] = "dead"]
  /\ page' = [page EXCEPT !.connectable = TRUE]
  /\ asked' = asked \ {s} /\ managers' = managers \ {s} /\ lists' = [lists EXCEPT ![s] = 0]
  /\ UNCHANGED <<link, handle, sampling, feed, stalls, odd>>

\* The gateway has destroyed the session: destroySession goes on.
SessionDestroyed(s) ==
  /\ s \in asked /\ asked' = asked \ {s}
  /\ session' = [session EXCEPT ![s] = "dead"]
  /\ managers' = managers \ {s} /\ lists' = [lists EXCEPT ![s] = 0]
  /\ page' = Reset(page)
  /\ UNCHANGED <<link, handle, sampling, feed, count, stalls, odd>>

-----------------------------------------------------------------------------
(* The manager and the subscribers *)

ManagerAttached(s) ==
  /\ s \in managers /\ managers' = managers \ {s}
  /\ LET p == [page EXCEPT !.managerHandle = s] IN page' = p /\ requestAndAttachPublisher(p)
  /\ UNCHANGED <<link, session, handle, asked, sampling, feed, count, stalls, odd>>

\* The robot publishes, or leaves; the manager hears of it.
Published(f) ==
  /\ f # feed /\ feed' = f /\ Happens
  /\ requestAndAttachPublisher(page)
  /\ UNCHANGED <<page, link, session, handle, asked, managers, sampling, stalls, odd>>

Attaching == \E h \in Handles : handle[h].state = "attaching" /\ Live(handle[h].of)

\* attachSubscriber, in the answer of listparticipants.
attachSubscriber(hs, p) ==
  IF Live(p.janus)
    THEN \E h \in Handles :
           /\ hs[h].state = "none" /\ \A g \in Handles : g < h => hs[g].state # "none"
           /\ handle' = [hs EXCEPT ![h] = [state |-> "attaching", of |-> p.janus]]
           /\ page' = [p EXCEPT !.selectedFeedId = feed]
    ELSE handle' = hs /\ page' = [p EXCEPT !.selectedFeedId = 0]

ListAnswered(s) ==
  /\ lists[s] > 0 /\ lists' = [lists EXCEPT ![s] = @ - 1]
  /\ IF feed = 0
       THEN page' = [page EXCEPT !.selectedFeedId = 0] /\ UNCHANGED <<handle, odd>>
     ELSE IF page.selectedFeedId = feed /\ page.subscriberHandle # 0
       THEN UNCHANGED <<page, handle, odd>>
     ELSE /\ attachSubscriber(Detached(handle, page), Detach(page))
          /\ odd' = IF Attaching THEN odd \cup {"listed_twice"} ELSE odd
  /\ UNCHANGED <<link, session, asked, managers, sampling, feed, count, stalls>>

SubscriberAttached(h) ==
  /\ handle[h].state = "attaching" /\ Live(handle[h].of)
  /\ \/ /\ handle' = [handle EXCEPT ![h].state = "on"]
        /\ page' = [page EXCEPT !.subscriberHandle = h]
        /\ UNCHANGED count
     \/ /\ handle' = [handle EXCEPT ![h].state = "off"]
        /\ page' = [page EXCEPT !.selectedFeedId = 0]
        /\ Happens
  /\ UNCHANGED <<link, session, asked, lists, managers, sampling, feed, stalls, odd>>

Subscribed(h) == handle[h].state = "on" /\ Live(handle[h].of)

\* onmessage with the error "No such feed".
NoSuchFeed(h) ==
  /\ Subscribed(h) /\ Happens
  /\ handle' = Detached(handle, page)
  /\ LET p == [Detach(page) EXCEPT !.selectedFeedId = 0]
     IN  page' = p /\ requestAndAttachPublisher(p)
  /\ UNCHANGED <<link, session, asked, managers, sampling, feed, stalls, odd>>

\* onremotetrack
Track(h) ==
  /\ Subscribed(h) /\ page' = [page EXCEPT !.seen = TRUE, !.window = FALSE, !.stallCount = 0,
                                           !.statsTimer = TRUE]
  /\ UNCHANGED <<link, Janus, sampling, feed, count, stalls, odd>>

\* The gateway hangs up: oncleanup.
HungUp(h) ==
  /\ Subscribed(h) /\ Happens
  /\ handle' = [handle EXCEPT ![h].state = "off"]
  /\ page' = Cleaned(page)
  /\ UNCHANGED <<link, session, asked, lists, managers, sampling, feed, stalls, odd>>

-----------------------------------------------------------------------------
(* sampleConnectionQuality *)

SampleStarts ==
  /\ page.statsTimer /\ page.subscriberHandle # 0 /\ ~sampling
  /\ sampling' = TRUE
  /\ UNCHANGED <<page, link, Janus, feed, count, stalls, odd>>

VideoCame ==
  /\ sampling /\ sampling' = FALSE /\ stalls' = 0
  /\ page' = [page EXCEPT !.seen = TRUE]
  /\ UNCHANGED <<link, Janus, feed, count, odd>>

\* Nothing came for twenty seconds.  Within the window of the first stall the third
\* one closes the session; those before it subscribe again.
Stalled(expired) ==
  /\ sampling /\ sampling' = FALSE /\ page.seen /\ Happens
  /\ expired => page.window
  /\ LET opens == ~page.window \/ expired
         n == (IF opens THEN 0 ELSE page.stallCount) + 1
         p == [page EXCEPT !.window = TRUE, !.stallCount = n]
         again == [Detach(p) EXCEPT !.selectedFeedId = 0, !.seen = TRUE]
     IN  IF n <= 2
           THEN /\ handle' = Detached(handle, p)
                /\ page' = again /\ requestAndAttachPublisher(again)
                /\ stalls' = (IF expired THEN 0 ELSE stalls) + 1
                /\ UNCHANGED <<asked, odd>>
           ELSE /\ destroySession(p)
                /\ stalls' = 0 /\ UNCHANGED <<handle, lists>>
  /\ UNCHANGED <<link, session, managers, feed>>

\* What follows such an order is not looked at.
WebNext == odd = {} /\ (
  \/ mqttConnect \/ mqttDisconnect \/ ConnectClicked \/ DisconnectClicked
  \/ \E c \in Links : OnConnect(c) \/ OnClose(c) \/ OnReady(c)
  \/ \E s \in Sessions : SessionCreated(s) \/ SessionFails(s) \/ SessionDestroyed(s)
                         \/ ManagerAttached(s) \/ ListAnswered(s)
  \/ \E f \in Feeds \cup {0} : Published(f)
  \/ \E h \in Handles : SubscriberAttached(h) \/ NoSuchFeed(h) \/ Track(h) \/ HungUp(h)
  \/ SampleStarts \/ VideoCame
  \/ \E expired \in BOOLEAN : Stalled(expired))

-----------------------------------------------------------------------------
(* Properties *)

Online == page.mqttClient # 0 /\ link[page.mqttClient] = "online"
Receiving(h) == handle[h].state \in {"attaching", "on"} /\ Live(handle[h].of)

\* While the page is connected to the broker the robot gets its heartbeat, unless the
\* last client's close came late; every session at the gateway is the page's own or is
\* being destroyed, unless it was destroyed before it was created; the video comes
\* once, to the subscriber the page has, unless two listings were answered meanwhile.
PageIsWhole ==
  /\ Online /\ "late_close" \notin odd => page.heartbeatTimer
  /\ "early_destroy" \notin odd =>
       \A s \in Sessions : Live(s) => s = page.janus \/ s \in asked
  /\ odd \cap {"listed_twice", "early_destroy"} = {} =>
       \A g, h \in Handles : Receiving(g) /\ Receiving(h) => g = h

\* "First two stalls in a short window trigger local re-subscribe recovery", the
\* third "escalates": subscribing again is tried twice, no more often.
StallsEscalate == stalls <= 2
=============================================================================
