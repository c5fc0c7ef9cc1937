------------------------------ MODULE AudioPath ------------------------------
(***************************************************************************)
(* The way of an audio frame through the player: the decoder and what it   *)
(* learns from the header (audio_decoder.c), the opening of the render     *)
(* with the first frame (av_render.c), the conversion to a fixed format in *)
(* two work buffers (audio_resample.c), and the render with its count of   *)
(* users (audio_render.c, i2s_render.c).                                   *)
(*                                                                         *)
(* The decoder's task does all of it up to the render's queue, which the   *)
(* render's task empties.  A frame is its number of samples and their      *)
(* format; sizes are counted in bytes.                                     *)
(***************************************************************************)
EXTENDS Integers, Sequences, FiniteSets

CONSTANTS
  Sources,   \* streams that are added
  Fixed,     \* formats given to av_render_set_fixed_frame_info, {} for none
  Samples,   \* samples that a decoded frame may have
  MaxAdded,  \* bound: streams added
  Fifo       \* bound: frames in the render's queue, 0 for a render in sync

Infos == [channel : {1, 2}, bits : {1, 2}, sample_rate : {1, 2}]

\* A stream is announced with one format and may really have another: header is
\* what the decoder reads, {} when it lacks a field and the announced one stays.
\* Sources: [info : Infos, header : SUBSET Infos, pcm : BOOLEAN]

VARIABLES
  fixed,    \* aud_fix_info
  adec,     \* adec_t
  res,      \* av_render_audio_res_t
  render,   \* audio_render_t, and the format of i2s_render_t
  work,     \* work_buf of resample_t
  frame,    \* the frame under way: its step, samples, size, format and buffer
  fifo,     \* the render's queue
  added,
  why,      \* history: "early": the render was opened before the header,
            \* "renewed": a stream was added with frames of the last queued
  wrong     \* history: the render got a frame of another format for no such reason

audio == <<fixed, adec, res, render, work, frame, fifo, added, why, wrong>>

SAMPLE_SIZE(info) == info.channel * info.bits
Nobody == [channel |-> 0, bits |-> 0, sample_rate |-> 0]
Adec0 == [open |-> FALSE, header_parsed |-> FALSE, info |-> Nobody, truth |-> Nobody,
          header |-> {}]
Res0 == [added |-> FALSE, reached |-> FALSE, pcm |-> FALSE, info |-> Nobody, out |-> {},
         resample |-> {}]
Work0 == [i \in {1, 2} |-> [size |-> 0, used |-> FALSE]]
Idle == [step |-> "idle", n |-> 0, size |-> 0, info |-> Nobody, ops |-> <<>>, last |-> 0]

AudioInit ==
  /\ fixed \in {{}} \cup {{i} : i \in Fixed}
  /\ adec = Adec0 /\ res = Res0 /\ work = Work0 /\ frame = Idle
  /\ render = [is_open |-> FALSE, ref_count |-> 1, info |-> Nobody, freed |-> FALSE]
  /\ fifo = <<>> /\ added = 0 /\ wrong = FALSE /\ why = {}

The(set) == CHOOSE x \in set : TRUE
At(step) == frame.step = step /\ ~render.freed

-----------------------------------------------------------------------------
(* av_render_add_audio_stream *)

AddStream(s) ==
  /\ At("idle") /\ added < MaxAdded
  /\ added' = added + 1
  /\ adec' = IF s.pcm THEN Adec0
             ELSE [Adec0 EXCEPT !.open = TRUE, !.info = s.info, !.header = s.header,
                     !.truth = IF s.header = {} THEN s.info ELSE The(s.header)]
  /\ res' = [res EXCEPT !.added = TRUE, !.reached = FALSE, !.pcm = s.pcm,
               !.info = IF s.pcm THEN s.info ELSE @,
               !.out = IF fixed = {} THEN @ ELSE fixed]
  /\ why' = IF fifo = <<>> THEN why ELSE why \cup {"renewed"}
  /\ UNCHANGED <<fixed, render, work, frame, fifo, wrong>>

-----------------------------------------------------------------------------
(* adec_decode and decoder_one_frame *)

\* Frames of PCM come from av_render_add_audio_data as they are.
PcmFrame(n) ==
  /\ At("idle") /\ res.added /\ res.pcm
  /\ frame' = [Idle EXCEPT !.step = "reached", !.n = n, !.info = res.info,
                 !.size = n * SAMPLE_SIZE(res.info)]
  /\ UNCHANGED <<fixed, adec, res, render, work, fifo, added, wrong, why>>

\* The decoder gets the buffer it asks for, and fails, or gives a frame, of no sample
\* when it needs more data: that frame is handed on as well.
Header(n) == ~adec.header_parsed /\ n > 0
Decoded(n) ==
  /\ adec' = [adec EXCEPT
       !.header_parsed = @ \/ n > 0,
       !.info = IF Header(n) /\ adec.header # {} THEN The(adec.header) ELSE @]
  /\ frame' = [Idle EXCEPT !.step = "reached", !.n = n, !.info = adec.truth,
                 !.size = n * SAMPLE_SIZE(adec.truth)]
decoder_one_frame(n) ==
  /\ At("idle") /\ adec.open
  /\ \/ Decoded(n)
     \/ UNCHANGED <<adec, frame>>
  /\ UNCHANGED <<fixed, res, render, work, fifo, added, wrong, why>>

-----------------------------------------------------------------------------
(* audio_render.c *)

Closed(r) == IF r.is_open THEN [r EXCEPT !.is_open = FALSE, !.ref_count = @ - 1] ELSE r
Opened(r, info) == [r EXCEPT !.is_open = TRUE, !.ref_count = @ + 1, !.info = info]
\* try_free gives the render back with its last user.
Gone(r) == IF r.ref_count = 0 THEN [r EXCEPT !.freed = TRUE] ELSE r

\* audio_resample_open: samples are made fewer or smaller first, and more or
\* larger last.
sort_resample_ops(in, out) ==
  (IF in.channel > out.channel THEN <<"channel">> ELSE <<>>)
  \o (IF in.bits > out.bits THEN <<"bits">> ELSE <<>>)
  \o (IF in.sample_rate # out.sample_rate THEN <<"sample_rate">> ELSE <<>>)
  \o (IF in.bits < out.bits THEN <<"bits">> ELSE <<>>)
  \o (IF in.channel < out.channel THEN <<"channel">> ELSE <<>>)

audio_resample_open(in, out) == [in |-> in, out |-> out, ops |-> sort_resample_ops(in, out)]

\* Fault: the first frame of a new stream finds the render open and leaves it so.
ReachedKept ==
  LET info == IF res.pcm THEN res.info ELSE adec.info
  IN  /\ At("reached") /\ ~res.reached
      /\ res' = [res EXCEPT !.reached = TRUE, !.info = info]
      /\ render' = IF render.is_open THEN render ELSE Opened(render, info)
      /\ UNCHANGED <<fixed, adec, work, frame, fifo, added, wrong, why>>

\* av_render_audio_frame_reached, for the first frame of a stream.  The render
\* is opened again, with the fixed format when there is one; it may refuse.
FirstReached ==
  LET info  == IF res.pcm THEN res.info ELSE adec.info
      fit   == res.out # {} /\ res.out # {info}
      want  == IF fit THEN The(res.out) ELSE info
  IN  /\ At("reached") /\ ~res.reached
      /\ work' = Work0
      /\ \E ok \in BOOLEAN :
           /\ render' = IF ok THEN Opened(Closed(render), want) ELSE Closed(render)
           /\ res' = [res EXCEPT !.info = info, !.reached = ok,
                        !.resample = IF fit THEN {audio_resample_open(info, want)} ELSE {}]
           /\ frame' = IF ok THEN frame ELSE Idle
      /\ why' = IF ~res.pcm /\ ~adec.header_parsed THEN why \cup {"early"} ELSE why
      /\ UNCHANGED <<fixed, adec, fifo, added, wrong>>

\* The frame goes to the resampler, which passes on a frame of no samples.
Resampler == The(res.resample)
FrameReached ==
  /\ At("reached") /\ res.reached
  /\ frame' = IF res.resample # {} /\ frame.size > 0
                THEN [frame EXCEPT !.step = "resample", !.ops = Resampler.ops,
                        !.n = frame.size \div SAMPLE_SIZE(Resampler.in)]
                ELSE [frame EXCEPT !.step = "deliver"]
  /\ UNCHANGED <<fixed, adec, res, render, work, fifo, added, wrong, why>>

-----------------------------------------------------------------------------
(* audio_resample_write: one conversion after the other, from the buffer of *)
(* the last into a free one.                                               *)

alloc_work_buf(size) ==
  LET free == {i \in {1, 2} : ~work[i].used}
      i    == CHOOSE k \in free : \A j \in free : k <= j
  IN  [buf |-> i, work |-> [work EXCEPT ![i] = [used |-> TRUE,
                              size |-> IF size > @.size THEN size ELSE @.size]]]

\* get_need_size; the rate conversion may put out less than its most.
MostSamples(op, n) ==
  IF op = "sample_rate" THEN (n * Resampler.out.sample_rate + Resampler.in.sample_rate - 1)
                               \div Resampler.in.sample_rate
                        ELSE n
get_need_size(op, n, info) ==
  CASE op = "channel" -> n * Resampler.out.channel * info.bits
    [] op = "bits"    -> n * info.channel * Resampler.out.bits
    [] OTHER          -> MostSamples(op, n) * SAMPLE_SIZE(info)

Resample ==
  LET op   == Head(frame.ops)
      most == MostSamples(op, frame.n)
      a    == alloc_work_buf(get_need_size(op, frame.n, frame.info))
      now  == [frame.info EXCEPT ![op] = Resampler.out[op]]
  IN  /\ At("resample") /\ frame.ops # <<>>
      /\ \E n \in IF op = "sample_rate" /\ most > 0 THEN {most - 1, most} ELSE {most} :
           frame' = [frame EXCEPT !.ops = Tail(@), !.n = n, !.info = now, !.last = a.buf,
                       !.size = n * SAMPLE_SIZE(now)]
      /\ work' = IF frame.last = 0 THEN a.work ELSE [a.work EXCEPT ![frame.last].used = FALSE]
      /\ UNCHANGED <<fixed, adec, res, render, fifo, added, wrong, why>>

\* The last buffer is given back before the frame in it is handed on.
Resampled ==
  /\ At("resample") /\ frame.ops = <<>>
  /\ work' = IF frame.last = 0 THEN work ELSE [work EXCEPT ![frame.last].used = FALSE]
  /\ frame' = [frame EXCEPT !.step = "deliver"]
  /\ UNCHANGED <<fixed, adec, res, render, fifo, added, wrong, why>>

-----------------------------------------------------------------------------
(* The render *)

\* i2s_render_write takes what comes for samples of its format.
Written(f) ==
  wrong' = (wrong \/ (why = {} /\ render.is_open /\ f.size > 0 /\ f.info # render.info))

audio_render_frame_reached ==
  /\ At("deliver")
  /\ IF Fifo = 0 THEN Written(frame) /\ UNCHANGED fifo
                 ELSE /\ Len(fifo) < Fifo
                      /\ fifo' = Append(fifo, [info |-> frame.info, size |-> frame.size])
                      /\ UNCHANGED wrong
  /\ frame' = Idle
  /\ UNCHANGED <<fixed, adec, res, render, work, added, why>>

\* a_render_body: the frame is copied out of the work buffer by then.
a_render_body ==
  /\ fifo # <<>> /\ ~render.freed
  /\ Written(Head(fifo))
  /\ fifo' = Tail(fifo)
  /\ UNCHANGED <<fixed, adec, res, render, work, frame, added, why>>

\* av_render_reset: the threads are gone and so is what they had queued.
Reset ==
  /\ At("idle") /\ res.added
  /\ adec' = Adec0 /\ res' = Res0 /\ work' = Work0 /\ fifo' = <<>> /\ why' = {}
  /\ render' = Gone(Closed(render))
  /\ UNCHANGED <<fixed, frame, added, wrong>>

\* media_sys teardown: av_render_close, then the render's own reference.
audio_render_free_handle ==
  /\ At("idle") /\ ~res.added
  /\ render' = Gone([render EXCEPT !.ref_count = @ - 1])
  /\ UNCHANGED <<fixed, adec, res, work, frame, fifo, added, wrong, why>>

AudioNext ==
  \/ \E s \in Sources : AddStream(s)
  \/ \E n \in Samples : PcmFrame(n) \/ decoder_one_frame(n)
  \/ FirstReached \/ FrameReached \/ Resample \/ Resampled
  \/ audio_render_frame_reached \/ a_render_body \/ Reset \/ audio_render_free_handle

-----------------------------------------------------------------------------
(* Properties *)

\* A frame is played in the format the render is open with, whatever the stream
\* was announced as and converted to, and its size is that of its samples.  Two
\* gaps are known: a decoder whose first frame is empty has the render opened
\* with the announced format, and a new stream opens the render anew while
\* frames of the last wait in its queue.  A conversion never lacks a buffer, the
\* render is given back once nobody uses it.
PlayedAsAsked ==
  /\ ~wrong
  /\ At("resample") /\ frame.ops # <<>> =>
       \E i \in {1, 2} : ~work[i].used
  /\ At("deliver") => /\ \A i \in {1, 2} : ~work[i].used
                      /\ frame.size = frame.n * SAMPLE_SIZE(frame.info)
  /\ render.freed <=> (render.ref_count = 0)
=============================================================================
