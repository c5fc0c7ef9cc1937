------------------------------ MODULE Signaling ------------------------------
(***************************************************************************)
(* What esp_webrtc.c relies on from a signaling implementation             *)
(* (esp_peer_signaling_impl_t: start, send_msg, stop), whichever it is:    *)
(* when its four callbacks may run, and that none runs outside the time    *)
(* between the call of start and the return of stop, for the context they  *)
(* are given is freed next.                                                *)
(***************************************************************************)
CONSTANT CallThreads    \* the threads an implementation calls back from

VARIABLES
  api,      \* idle, starting, running or stopping
  told,     \* the callbacks that have returned since start was called
  inside    \* the callback each thread is in, or none

signaling == <<api, told, inside>>
Callbacks == {"on_ice_info", "on_connected", "on_msg", "on_close"}

Init ==
  /\ api = "idle" /\ told = {}
  /\ inside = [t \in CallThreads |-> "none"]

NobodyInside == \A t \in CallThreads : inside[t] = "none"

Start ==
  /\ api = "idle" /\ NobodyInside
  /\ api' = "starting" /\ told' = {}
  /\ UNCHANGED inside

\* Credentials come first: the connection is made with them.
Enter(t, c) ==
  /\ api # "idle" /\ inside[t] = "none"
  /\ c = "on_connected" => "on_ice_info" \in told
  /\ inside' = [inside EXCEPT ![t] = c]
  /\ UNCHANGED <<api, told>>

Leave(t) ==
  /\ inside[t] # "none"
  /\ told' = told \cup {inside[t]}
  /\ inside' = [inside EXCEPT ![t] = "none"]
  /\ UNCHANGED api

StartSucceeds ==
  /\ api = "starting" /\ "on_ice_info" \in told
  /\ api' = "running"
  /\ UNCHANGED <<told, inside>>

Stop ==
  /\ api = "running"
  /\ api' = "stopping"
  /\ UNCHANGED <<told, inside>>

\* A start that fails is over in the same way.
StopReturns ==
  /\ api \in {"starting", "stopping"} /\ NobodyInside
  /\ api' = "idle"
  /\ UNCHANGED <<told, inside>>

Next ==
  \/ Start \/ StartSucceeds \/ Stop \/ StopReturns
  \/ \E t \in CallThreads : Leave(t) \/ \E c \in Callbacks : Enter(t, c)

Spec == Init /\ [][Next]_signaling
=============================================================================
