----------------------------- MODULE MCPlatform -----------------------------
(***************************************************************************)
(* What the applications stand on, for TLC: the codec board (CodecBoard),  *)
(* the memory tracing and its history (MemTrace, MemHistory), the network  *)
(* and the MQTT bridge (MqttBridge), the page at the other end             *)
(* (WebClient), the HTTPS requests of the signaling (HttpsClient) and the  *)
(* clock of the pictures (AvSync).  They share no state here: one of them  *)
(* runs in a behaviour, and `part' tells which.                            *)
(***************************************************************************)
EXTENDS AvSync, HttpsClient, FiniteSets

CONSTANTS
  Boards, reuse_dev, Modes, MaxCalls,
  Tracers, Addrs, record_num, MaxMallocs,
  SAVE_SLICE_NUM, cache_size, RecordSizes, MaxUnits,
  Clients, MaxChanges,
  Links, Sessions, Handles, MaxEvents

\* 0 stands for no client (NULL, or the main task among the publishers), and for no
\* object of the page.
ASSUME ClientsAssumption == 0 \notin Clients
ASSUME PageAssumption == 0 \notin Sessions \cup Handles

\* A block is free, live, or in the hands of a task.
ASSUME TracersAssumption == Tracers \cap {"free", "live"} = {}

\* A board is a sequence of lines; a codec names ports by number, and none of I2S is
\* negative.
ASSUME BoardsAssumption ==
  \A name \in DOMAIN Boards :
    /\ Boards[name] \in Seq({Boards[name][i] : i \in DOMAIN Boards[name]})
    /\ \A i \in DOMAIN Boards[name] :
         LET line == Boards[name][i]
         IN  line.type \in {"in", "out", "in_out"} => line.i2c \subseteq Int /\ line.i2s \subseteq Nat

\* A ring has slices, and a slice has room.
ASSUME HistoryAssumption ==
  SAVE_SLICE_NUM \in Nat \ {0} /\ cache_size \in Nat \ {0} /\ RecordSizes \subseteq Nat

VARIABLES
  part,
  section, codec, lines, modes, i2c, i2s, res, live, steps, calls, lost,
  heap, table, usage, module0, tracing, call, mallocs, misuse,
  his, saver, left, written, file, stop, gap, damaged,
  network_connected, told, wifi, events, wifi_config, nvs, s_client, s_started, s_connected,
  alive, running, todo, place, held, changes, strange,
  page, link, session, handle, asked, lists, managers, sampling, feed, count, stalls, odd

-----------------------------------------------------------------------------
(* Boards of board_cfg.txt, and three that it may not have: one whose      *)
(* lines come in the wrong order, one with more I2S ports than there is    *)
(* room for, and one with a second camera.                                 *)

Port(t) == [type |-> t, i2c |-> {}, i2s |-> {}, codec |-> "none"]
Chip(t, c, on_i2c, on_i2s) == [type |-> t, i2c |-> on_i2c, i2s |-> on_i2s, codec |-> c]
Lcd == [type |-> "lcd", attrs |-> <<"bus", "pins">>]

MCBoards ==
  [S3_Korvo_V2       |-> <<Port("i2c"), Port("i2s"), Chip("out", "ES8311", {}, {}),
                           Chip("in", "ES7210", {}, {}), Port("sdcard"), Port("camera"), Lcd>>,
   S3_Korvo_V4       |-> <<Port("i2c"), Port("i2s"), Port("i2s"), Chip("out", "ES8311", {}, {}),
                           Chip("in", "ES7210", {}, {1}), Port("sdcard")>>,
   ESP32_LYRAT_V43   |-> <<Port("i2c"), Port("i2s"), Chip("in_out", "ES8388", {}, {})>>,
   DUMMY_CODEC_BOARD |-> <<Port("i2s"), Chip("out", "DUMMY", {-1}, {})>>,
   disordered        |-> <<Port("i2c"), Chip("out", "ES8311", {}, {0}), Port("i2s")>>,
   too_many          |-> <<Port("i2c"), Port("i2s"), Port("i2s"), Port("i2s")>>,
   two_cameras       |-> <<Port("camera"), Port("camera")>>]

\* The application of the repository asks for both directions; others need not.
MCModes == {{"in", "out"}, {"out"}, {}}

\* Only WHIP takes the headers of the answer.
MCRequests ==
  {[method |-> "POST", header_cb |-> TRUE, max_redirects |-> 2],
   [method |-> "POST", header_cb |-> FALSE, max_redirects |-> 2],
   [method |-> "GET", header_cb |-> FALSE, max_redirects |-> 2]}

-----------------------------------------------------------------------------
B == INSTANCE CodecBoard WITH todo <- steps, strange <- lost
T == INSTANCE MemTrace
H == INSTANCE MemHistory WITH units <- written, broken <- damaged
M == INSTANCE MqttBridge WITH MaxEvents <- MaxChanges, at <- place
W == INSTANCE WebClient

board_vars == <<section, codec, lines, modes, i2c, i2s, res, live, steps, calls, lost>>
trace_vars == <<heap, table, usage, module0, tracing, call, mallocs, misuse>>
his_vars == <<his, saver, left, written, file, stop, gap, damaged>>
bridge_vars == <<network_connected, told, wifi, events, wifi_config, nvs, s_client, s_started,
                 s_connected, alive, running, todo, place, held, changes, strange>>
web_vars == <<page, link, session, handle, asked, lists, managers, sampling, feed, count,
              stalls, odd>>
vars == <<part, board_vars, trace_vars, his_vars, bridge_vars, web_vars, https, sync>>

Init ==
  /\ part \in {"board", "trace", "history", "bridge", "page", "https", "sync"}
  /\ B!BoardInit /\ T!TraceInit /\ H!HisInit /\ M!BridgeInit /\ W!WebInit
  /\ HttpsInit /\ SyncInit
  /\ part # "board" => modes = CHOOSE m \in Modes : TRUE
  /\ part # "bridge" => nvs = "none" /\ wifi_config = "none"
  /\ part # "https" => req = CHOOSE r \in Requests : TRUE
  /\ part # "sync" => mode = [sync |-> "none", allow_drop |-> FALSE]

Next ==
  \/ /\ part = "board" /\ B!BoardNext
     /\ UNCHANGED <<part, trace_vars, his_vars, bridge_vars, web_vars, https, sync>>
  \/ /\ part = "trace" /\ T!TraceNext
     /\ UNCHANGED <<part, board_vars, his_vars, bridge_vars, web_vars, https, sync>>
  \/ /\ part = "history" /\ H!HisNext
     /\ UNCHANGED <<part, board_vars, trace_vars, bridge_vars, web_vars, https, sync>>
  \/ /\ part = "bridge" /\ M!BridgeNext
     /\ UNCHANGED <<part, board_vars, trace_vars, his_vars, web_vars, https, sync>>
  \/ /\ part = "page" /\ W!WebNext
     /\ UNCHANGED <<part, board_vars, trace_vars, his_vars, bridge_vars, https, sync>>
  \/ /\ part = "https" /\ HttpsNext
     /\ UNCHANGED <<part, board_vars, trace_vars, his_vars, bridge_vars, web_vars, sync>>
  \/ /\ part = "sync" /\ SyncNext
     /\ UNCHANGED <<part, board_vars, trace_vars, his_vars, bridge_vars, web_vars, https>>

Spec == Init /\ [][Next]_vars

\* CodecBoard: the devices that init_codec leaves behind are those it keeps.
BoardIsWhole == B!BoardIsWhole
\* MemTrace: the table has the blocks in use.
TableIsTrue == T!TableIsTrue
\* MemHistory: the file has the records, whole and in their order.
FileIsWhole == H!FileIsWhole
\* MqttBridge: the bridge runs while the network is up, and uses no destroyed client.
BridgeIsWhole == M!BridgeIsWhole
\* WebClient: a third stall in the window is not met by subscribing once more.
StallsEscalate == W!StallsEscalate
\* WebClient: the heartbeat, the session and the subscriber are those of the page.
PageIsWhole == W!PageIsWhole
=============================================================================
