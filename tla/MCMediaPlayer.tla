---------------------------- MODULE MCMediaPlayer ----------------------------
(***************************************************************************)
(* The media player for TLC: its threads (AvRender), the queue they are    *)
(* commanded through (MsgQueue), and what becomes of a video and an audio  *)
(* frame on the way (VideoPath, AudioPath).  They share no state here: one *)
(* of them runs in a behaviour, and `part' tells which.                    *)
(***************************************************************************)
EXTENDS AvRender, MsgQueue

CONSTANTS MaxFrames, Samples, MaxAdded, Fifo

VARIABLES
  part,
  deck, vdec, lcd, picture, frames, reads, torn, mixed, lost, stopped,
  fixed, adec, sound, render, work, frame, fifo, added, wrong, why

-----------------------------------------------------------------------------
(* The players: that of the board, and one for each way to configure it *)

Board == [streams |-> Streams, raw |-> {}, lanes |-> {"adec", "vdec", "arender"},
          quit_when_eos |-> FALSE, pause_on_first_frame |-> FALSE,
          pause_render_only |-> FALSE, has_threshold |-> FALSE]
AudioOnly == [Board EXCEPT !.streams = {"audio"}, !.lanes = {"adec", "arender"}]
VideoOnly == [Board EXCEPT !.streams = {"video"}, !.lanes = {"vdec"}]
MCPlayers ==
  {Board,
   AudioOnly,
   [AudioOnly EXCEPT !.raw = {"audio"}, !.pause_render_only = TRUE],
   [AudioOnly EXCEPT !.quit_when_eos = TRUE],
   [AudioOnly EXCEPT !.has_threshold = TRUE, !.pause_render_only = TRUE],
   [AudioOnly EXCEPT !.pause_on_first_frame = TRUE],
   [VideoOnly EXCEPT !.lanes = {"vdec", "vrender"}],
   [VideoOnly EXCEPT !.pause_on_first_frame = TRUE],
   [VideoOnly EXCEPT !.lanes = {"vdec", "vrender"}, !.pause_on_first_frame = TRUE]}

\* The player whose owner calls once more.
MCAudioOnly == {AudioOnly}

\* Decoders: of YUV420 only, of YUV422 only, of that and RGB565.
MCDecks == [caps : {<<"YUV420">>, <<"YUV422">>, <<"YUV422", "RGB565">>}, fb : BOOLEAN, cvt : BOOLEAN]

\* A stream of stereo that is what it says, or wider and faster, or wider only,
\* and one of PCM; the render asks for less, for more, or for some of both.
Format(channel, b, sample_rate) == [channel |-> channel, bits |-> b, sample_rate |-> sample_rate]
MCSources ==
  [info : {Format(1, 2, 1)}, header : {{}, {Format(2, 2, 2)}, {Format(2, 1, 1)}}, pcm : {FALSE}]
  \cup [info : {Format(1, 1, 2)}, header : {{}}, pcm : {TRUE}]
MCFixed == {Format(1, 2, 2), Format(2, 1, 1), Format(1, 1, 1)}

-----------------------------------------------------------------------------
V == INSTANCE VideoPath WITH at <- picture, Decks <- MCDecks
A == INSTANCE AudioPath WITH res <- sound, Sources <- MCSources, Fixed <- MCFixed

video_vars == <<deck, vdec, lcd, picture, frames, reads, torn, mixed, lost, stopped>>
audio_vars == <<fixed, adec, sound, render, work, frame, fifo, added, why, wrong>>
vars == <<part, av, msg, video_vars, audio_vars>>

Init ==
  /\ part \in {"player", "queue", "video", "audio"}
  /\ AvInit /\ MsgInit /\ V!VideoInit /\ A!AudioInit
  /\ part # "player" => set = Board
  /\ part # "video" => deck = CHOOSE d \in MCDecks : TRUE
  /\ part # "audio" => fixed = {}

Next ==
  \/ part = "player" /\ AvNext /\ UNCHANGED <<part, msg, video_vars, audio_vars>>
  \/ part = "queue" /\ MsgNext /\ UNCHANGED <<part, av, video_vars, audio_vars>>
  \/ part = "video" /\ V!VideoNext /\ UNCHANGED <<part, av, msg, audio_vars>>
  \/ part = "audio" /\ A!AudioNext /\ UNCHANGED <<part, av, msg, video_vars>>

Spec == Init /\ [][Next]_vars /\ AvFair /\ MsgFair

\* VideoPath: what is drawn is in the display's format and in a buffer of its own.
DrawnIsWhole == V!DrawnIsWhole
\* AudioPath: what is played is in the format of the render.
PlayedAsAsked == A!PlayedAsAsked
=============================================================================
