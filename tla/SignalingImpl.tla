---------------------------- MODULE SignalingImpl ----------------------------
(***************************************************************************)
(* The frame of the four signaling implementations: the threads that run   *)
(* in one and the wrapper of esp_peer_signaling.c around it.  A thread is  *)
(* the list of steps it has left; a step named as a callback means that    *)
(* the thread is inside it.                                                *)
(*                                                                         *)
(* Allocations succeed; requests and connections may fail.                 *)
(***************************************************************************)
EXTENDS Integers, Sequences

CONSTANT MaxStarts      \* bound: calls of start

ASSUME SignalingImplAssumption == MaxStarts \in Nat

VARIABLES
  impl,     \* rtc_cfg.signaling_impl
  api,      \* what the session object has called: see Signaling
  told,     \* history: the callbacks that have returned
  todo,     \* the steps each thread has left
  freed,    \* stop has freed the object the threads share
  starts,   \* calls of start so far
  late      \* history: what threads used too late, or too early

frame == <<impl, api, told, todo, freed, starts, late>>

\* app calls start and stop, pc calls send_msg, worker is the thread that
\* receives, aux a second thread an implementation may have, old the earlier
\* ones of its kind, which have a line left.
Threads == {"app", "pc", "worker", "aux", "old"}
Callbacks == {"on_ice_info", "on_connected", "on_msg", "on_close"}

Inside == [t \in Threads |->
  IF todo[t] # << >> /\ Head(todo[t]) \in Callbacks THEN Head(todo[t]) ELSE "none"]

At(t, s) == todo[t] # << >> /\ Head(todo[t]) = s
GoOn(t, s) == todo' = [todo EXCEPT ![t] = s \o Tail(@)]
Instead(t, s) == todo' = [todo EXCEPT ![t] = s]
Idle(t) == todo[t] = << >>
Uses(t, what, bad) == late' = IF bad THEN late \cup {<<t, what>>} ELSE late

Own == UNCHANGED <<impl, api, told, freed, starts>>

FrameInit ==
  /\ api = "idle" /\ told = {} /\ freed = TRUE /\ starts = 0 /\ late = {}
  /\ todo = [t \in Threads |-> << >>]

\* esp_peer_signaling_start calls impl->start.
CallStart(steps) ==
  /\ api = "idle" /\ Idle("app") /\ starts < MaxStarts
  /\ api' = "starting" /\ told' = {} /\ freed' = FALSE /\ starts' = starts + 1
  /\ Instead("app", steps)
  /\ UNCHANGED <<impl, late>>

StartReturns ==
  /\ At("app", "started")
  /\ api' = "running"
  /\ GoOn("app", << >>)
  /\ UNCHANGED <<impl, told, freed, starts, late>>

\* esp_peer_signaling_stop; esp_webrtc_stop has ended pc_task before.
CallStop(steps) ==
  /\ api = "running" /\ Idle("app") /\ Idle("pc")
  /\ api' = "stopping"
  /\ Instead("app", steps)
  /\ UNCHANGED <<impl, told, freed, starts, late>>

\* The object is freed and the call returns.
Free ==
  /\ At("app", "free")
  /\ freed' = TRUE /\ api' = "idle"
  /\ GoOn("app", << >>)
  /\ UNCHANGED <<impl, told, starts, late>>

\* esp_peer_signaling_send_msg: the handle is known once start has returned.
CallSend(step) ==
  /\ api = "running" /\ Idle("app") /\ Idle("pc")
  /\ Instead("pc", <<step>>)
  /\ UNCHANGED <<impl, api, told, freed, starts, late>>

\* A step of the implementation's own code that leads to a callback.
CallOf == [on_ice_info |-> "call_on_ice_info", on_connected |-> "call_on_connected",
           on_msg |-> "call_on_msg", on_close |-> "call_on_close"]
Call(t) ==
  \E c \in Callbacks :
    /\ At(t, CallOf[c])
    /\ GoOn(t, <<c>>)
    /\ UNCHANGED <<impl, api, told, freed, starts, late>>

CallbackReturns(t) ==
  /\ todo[t] # << >> /\ Head(todo[t]) \in Callbacks
  /\ told' = told \cup {Head(todo[t])}
  /\ GoOn(t, << >>)
  /\ UNCHANGED <<impl, api, freed, starts, late>>

FrameNext ==
  \/ StartReturns \/ Free
  \/ \E t \in Threads : Call(t) \/ CallbackReturns(t)
=============================================================================
