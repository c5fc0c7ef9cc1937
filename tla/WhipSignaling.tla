---------------------------- MODULE WhipSignaling ----------------------------
(***************************************************************************)
(* Signaling by WHIP (whip_signaling.c): one POST carries the offer and    *)
(* brings the answer, the resource's location and ICE servers; no thread.  *)
(***************************************************************************)
EXTENDS SignalingImpl

CONSTANT MaxLinks    \* bound: ICE servers in one answer

ASSUME WhipSignalingAssumption == MaxLinks \in Nat

VARIABLES
  whip,       \* the fields of whip_signaling_t
  resource    \* the server holds the resource our offer made

MaxServer == 4    \* MAX_SERVER_SUPPORT

WhipInit ==
  /\ whip = [remote_sdp |-> FALSE, local_sdp_sent |-> FALSE, location |-> FALSE,
             server_num |-> 0]
  /\ resource = FALSE

whip_signaling_start ==
  /\ CallStart(<<"call_on_ice_info", "call_on_connected", "started">>)
  /\ whip' = [remote_sdp |-> FALSE, local_sdp_sent |-> FALSE, location |-> FALSE,
              server_num |-> 0]
  /\ UNCHANGED resource

\* extract_ice_info takes a server as long as server_num is not beyond the limit:
\* one too many is stored behind ice_servers, where server_num itself is, which
\* then is anything: none, some, or too many to take another.
Overflows(n, links) == n <= MaxServer /\ n + links > MaxServer
ServersAfter(n, links) ==
  IF n > MaxServer THEN {n} ELSE IF Overflows(n, links) THEN 0..MaxServer + 1 ELSE {n + links}

\* The headers and the body of the answer: whip_sdp_header takes the location and
\* each ICE server, whip_sdp_answer the SDP.  A request that fails may have
\* arrived, and have been answered in part.
PostOffer ==
  /\ At("pc", "send") /\ ~whip.local_sdp_sent
  /\ \E links \in 0..MaxLinks, located, body, fails \in BOOLEAN :
       /\ \E n \in ServersAfter(whip.server_num, links) :
            whip' = [whip EXCEPT !.location = @ \/ located, !.remote_sdp = @ \/ body, !.server_num = n]
       /\ Uses("pc", "ice_servers", Overflows(whip.server_num, links))
       /\ GoOn("pc", IF fails \/ ~(whip.remote_sdp \/ body) THEN << >> ELSE <<"sent">>)
  /\ resource' \in {resource, TRUE} /\ Own

\* whip_signaling_send_msg goes on with the answer, or stops without an SDP.
TakeAnswer ==
  /\ At("pc", "sent")
  /\ whip' = [whip EXCEPT !.local_sdp_sent = TRUE]
  /\ GoOn("pc", IF whip.server_num > 0 THEN <<"on_ice_info", "call_on_msg", "sdp_done">>
                                       ELSE <<"call_on_msg", "sdp_done">>)
  /\ UNCHANGED <<resource, late>> /\ Own

SdpDone ==
  /\ At("pc", "sdp_done")
  /\ whip' = [whip EXCEPT !.remote_sdp = FALSE]
  /\ GoOn("pc", << >>)
  /\ UNCHANGED <<resource, late>> /\ Own

\* Later offers are patched into the resource; other messages are dropped.
PatchOffer ==
  /\ At("pc", "send") /\ whip.local_sdp_sent
  /\ GoOn("pc", << >>)
  /\ UNCHANGED <<whip, resource, late>> /\ Own

whip_signaling_stop ==
  /\ CallStop(<<"delete", "call_on_close", "free">>)
  /\ UNCHANGED <<whip, resource>>

DeleteResource ==
  /\ At("app", "delete")
  /\ resource' \in IF whip.location THEN {resource, FALSE} ELSE {resource}
  /\ GoOn("app", << >>)
  /\ UNCHANGED <<whip, late>> /\ Own

WhipNext ==
  \/ whip_signaling_start \/ PostOffer \/ TakeAnswer \/ SdpDone \/ PatchOffer
  \/ whip_signaling_stop \/ DeleteResource
  \/ (CallSend("send") /\ UNCHANGED <<whip, resource>>)
  \/ FrameNext /\ UNCHANGED <<whip, resource>>
=============================================================================
