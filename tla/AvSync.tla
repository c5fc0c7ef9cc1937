-------------------------------- MODULE AvSync -------------------------------
(***************************************************************************)
(* Which pictures the player shows, and when (av_render.c): a video frame  *)
(* is compared with the position of the audio or with the clock, waits, is *)
(* passed over or starts the clock anew, and a frame before the position   *)
(* the application asked for is not shown.                                 *)
(*                                                                         *)
(* The feeder decodes frames into the queue of the render thread, which    *)
(* takes one at a time; the owner flushes and sets the start.  Times are   *)
(* those of uint32_t, in units of the time of a frame; the renders of the  *)
(* board have no latency.                                                  *)
(***************************************************************************)
EXTENDS Integers, Sequences

CONSTANTS
  Wrap,            \* 2^32, in frames
  sync_tolerance,  \* how far pictures may be from the clock
  QueueLen,        \* frames that the queue of the render thread holds
  Positions,       \* where the application may go on from, and what it may start with
  MaxPts,          \* bound: the last frame
  MaxClock,        \* bound: time
  MaxSeeks         \* bound: flushes

ASSUME SyncAssumption == Wrap \in Nat \ {0, 1} /\ MaxPts \in Nat /\ Positions \subseteq 0..Wrap - 1

VARIABLES
  mode,      \* sync_mode and allow_drop_data
  clock,     \* get_cur_time
  audio,     \* audio_send_pts, None before the first packet
  next,      \* position of the feeder
  frames,    \* the queue of the render thread, the frame it is at included
  wake,      \* when the render thread goes on with that frame, None while it has none
  video,     \* start_pts, start_time, sent (sent_frame_num is not 0)
  flush,     \* the threads have answered a flush that is not over
  seeks,
  wanted,    \* history: the start the application set
  back,      \* history: the next frame is before the last, and no start was set
  rewound,   \* history: such a frame was decoded after the start was set
  missed     \* history: a frame that was wanted was not shown, nothing being rewound

None == -1
history == <<wanted, back, rewound, missed>>
sync == <<mode, clock, audio, next, frames, wake, video, flush, seeks, history>>

SyncInit ==
  /\ mode \in [sync : {"none", "audio", "time"}, allow_drop : BOOLEAN]
  /\ clock = 0 /\ audio = None /\ next = 0
  /\ frames = <<>> /\ wake = None
  /\ video = [start_pts |-> 0, start_time |-> 0, sent |-> FALSE]
  /\ flush = FALSE /\ seeks = 0
  /\ wanted = 0 /\ back = FALSE /\ rewound = FALSE /\ missed = FALSE

Plus(a, b) == (a + b) % Wrap
Minus(a, b) == (a - b) % Wrap

-----------------------------------------------------------------------------
(* Clocks *)

Tick ==
  /\ clock < MaxClock /\ clock' = clock + 1
  /\ UNCHANGED <<mode, audio, next, frames, wake, video, flush, seeks, history>>

\* _render_write_audio: the frame after the last, or that of the new position.
AudioPlays ==
  /\ audio' \in {Plus(audio, 1), next} /\ audio' # Plus(MaxPts, 1)
  /\ UNCHANGED <<mode, clock, next, frames, wake, video, flush, seeks, history>>

\* get_video_sync_time
ref_time == Plus(Minus(clock, video.start_time), video.start_pts)
HasTime == mode.sync = "audio" => audio # None
cur_time == IF mode.sync = "audio" THEN audio ELSE ref_time

\* av_render_get_video_pts: the frames in the queue are still to be shown.
video_pts == Minus(Head(frames), Len(frames))

-----------------------------------------------------------------------------
(* Decoding *)

\* video_sync_control_before_decode.  Without synchronisation it is a decoder
\* with two frames before it that skips.
Late == HasTime /\ video.sent /\ Plus(next, 1) < cur_time
\* A stream that passes the end of uint32_t goes back.
Decoded ==
  /\ next # MaxPts /\ next' = Plus(next, 1)
  /\ back' = (next' < next) /\ rewound' = (rewound \/ back)
  /\ UNCHANGED <<mode, clock, audio, wake, video, flush, seeks, wanted, missed>>
Skip ==
  /\ mode.allow_drop /\ (mode.sync = "none" \/ Late)
  /\ Decoded /\ UNCHANGED frames
Decode ==
  /\ ~(mode.allow_drop /\ mode.sync # "none" /\ Late)
  /\ Len(frames) < QueueLen /\ frames' = Append(frames, next)
  /\ Decoded

-----------------------------------------------------------------------------
(* The render thread: _render_write_video *)

AtFrame == wake # None
TakesFrame == ~AtFrame /\ frames # <<>>
GoesOn(t) == wake' = t
RenderStep == UNCHANGED <<mode, clock, audio, next, flush, seeks, wanted, back, rewound>>

\* A frame before the start is not shown.
PassesOver ==
  /\ TakesFrame /\ Head(frames) < video.start_pts
  /\ frames' = Tail(frames)
  /\ missed' = (missed \/ (Head(frames) >= wanted /\ ~rewound))
  /\ UNCHANGED <<wake, video>> /\ RenderStep

\* Paused, without synchronisation, or without its clock.
ShowsAtOnce ==
  /\ TakesFrame /\ Head(frames) >= video.start_pts
  /\ frames' = Tail(frames)
  /\ UNCHANGED <<wake, video, missed>> /\ RenderStep

Near(now) ==
  /\ video_pts < Plus(now, sync_tolerance)
  /\ Plus(video_pts, sync_tolerance) > now

\* In sync with the audio, or at least with the time since the start.
InSync == Near(cur_time) \/ Near(ref_time)
Ahead == LET now == IF Near(cur_time) THEN cur_time ELSE ref_time
         IN  IF video_pts > now THEN video_pts - now ELSE 0
AtMostTwo(n) == IF n > 2 THEN 2 ELSE n

\* video_sync_control_before_render up to where it sleeps; sync that is lost
\* makes the frame the first one.
Compares ==
  /\ TakesFrame /\ Head(frames) >= video.start_pts
  /\ mode.sync # "none" /\ HasTime
  /\ IF ~video.sent THEN GoesOn(clock) /\ UNCHANGED video
     ELSE IF ~InSync THEN GoesOn(clock) /\ video' = [video EXCEPT !.sent = FALSE]
     ELSE GoesOn(clock + AtMostTwo(Ahead)) /\ UNCHANGED video
  /\ UNCHANGED <<frames, missed>> /\ RenderStep

\* Fault: the clock is started at the position of the audio.
StartedAtAudio ==
  IF video.sent THEN video
  ELSE [start_pts |-> cur_time, start_time |-> clock, sent |-> TRUE]

\* The first frame starts the clock, the first after a flush too.
Started ==
  IF video.sent THEN video
  ELSE [start_pts |-> Head(frames), start_time |-> clock, sent |-> TRUE]

Shows ==
  /\ AtFrame /\ clock >= wake
  /\ video' = Started
  /\ frames' = Tail(frames) /\ GoesOn(None)
  /\ UNCHANGED missed /\ RenderStep

-----------------------------------------------------------------------------
(* The owner *)

\* render_flush: every queue is empty and every thread between two frames; but a
\* frame that is put after the lock was given up may come all the same.
FlushAnswered ==
  /\ ~flush /\ seeks < MaxSeeks /\ ~AtFrame
  /\ flush' = TRUE /\ seeks' = seeks + 1
  /\ frames' = <<>>
  /\ UNCHANGED <<mode, clock, audio, next, wake, video, history>>

\* The feeder goes on from where the application likes.
FlushEnds(position) ==
  /\ flush /\ flush' = FALSE
  /\ video' = [video EXCEPT !.sent = FALSE]
  /\ next' = position
  /\ back' = (back \/ position < next)
  /\ UNCHANGED <<mode, clock, audio, frames, wake, seeks, wanted, rewound, missed>>

\* av_render_set_video_start_pts: with no frame on its way all is as in the beginning.
SetStart(p) ==
  /\ ~flush
  /\ video' = [video EXCEPT !.start_pts = p]
  /\ wanted' = p
  /\ back' = (back /\ frames # <<>>) /\ rewound' = (rewound /\ frames # <<>>)
  /\ UNCHANGED <<mode, clock, audio, next, frames, wake, flush, seeks, missed>>

SyncNext ==
  \/ Tick \/ AudioPlays \/ Decode \/ Skip
  \/ PassesOver \/ ShowsAtOnce \/ Compares \/ Shows
  \/ FlushAnswered \/ \E p \in Positions : FlushEnds(p) \/ SetStart(p)

SyncSpec == SyncInit /\ [][SyncNext]_sync

-----------------------------------------------------------------------------
(* Properties *)

\* A frame at or after the start that the application set is shown, although the
\* render thread moves that start to the frame the clock was started with: what
\* comes later in the stream is later than that.  A stream that goes back, which
\* one that passes the end of uint32_t does, has to be given a start, and that
\* with nothing of the old stream on its way: from then on it is shown again.
WantedIsShown == ~missed
=============================================================================
