------------------------------- MODULE AvRender -------------------------------
(***************************************************************************)
(* The media player (av_render.c): decoders and renders of the audio and   *)
(* the video stream, each in a thread of its own where the configuration   *)
(* gives it a queue, else in the task that feeds it.                       *)
(*                                                                         *)
(* Three kinds of tasks: the owner, who calls the functions that wait with *)
(* api_lock held; the feeder, who adds data; the threads, here called      *)
(* lanes.  A lane takes messages from its msg_q (module MsgQueue) and      *)
(* blocks from its data_q (module DataQueue), here sequences.              *)
(***************************************************************************)
EXTENDS Integers, Sequences, FiniteSets

CONSTANTS
  Players,    \* the configurations at hand
  Room,       \* blocks that fit into a data queue
  Threshold,  \* blocks the audio threshold asks for
  MaxFed,     \* bound: blocks fed
  MaxCalls    \* bound: the owner's calls

Lanes == {"adec", "vdec", "arender", "vrender"}
Streams == {"audio", "video"}
Decoder == [audio |-> "adec", video |-> "vdec"]
Render == [audio |-> "arender", video |-> "vrender"]
Decoders == {"adec", "vdec"}
StreamOf == [adec |-> "audio", arender |-> "audio", vdec |-> "video", vrender |-> "video"]

(***************************************************************************)
(* A configuration: the streams that are added, those that are raw (PCM),  *)
(* the lanes whose fifo size is not 0, and flags of av_render_cfg_t;       *)
(* has_threshold tells that av_render_set_audio_threshold was called.      *)
(***************************************************************************)
ASSUME AvAssumption ==
  /\ Players \subseteq [streams : SUBSET Streams, raw : SUBSET Streams, lanes : SUBSET Lanes,
       quit_when_eos : BOOLEAN, pause_on_first_frame : BOOLEAN,
       pause_render_only : BOOLEAN, has_threshold : BOOLEAN]
  /\ Room \in Nat \ {0} /\ Threshold \in 0..Room /\ MaxFed \in Nat /\ MaxCalls \in Nat

VARIABLES
  set,        \* the configuration
  res,        \* av_render_thread_res_t of each lane
  open,       \* streams whose decoder is open (PCM: that were added)
  reached,    \* streams with audio_packet_reached, video_packet_reached
  rendered,   \* streams with audio_rendered, video_rendered
  bits,       \* the bits set in event_group: a lane and "close" or "flush"
  lock,       \* who holds api_lock
  owner,      \* the owner's call, the steps it has left, what it waits for
  feeder,     \* where the feeder is, the lane and block it has
  calls, fed,
  ended,      \* history: an audio EOS was fed that is not reported yet
  raced,      \* history: steps the code leaves open
  unflushed   \* history: av_render_flush returned before old blocks were gone

player == <<set, open, reached, rendered, bits, lock, owner, feeder, calls, fed, ended, raced, unflushed>>
av == <<player, res>>

\* `run' is where the thread is, `block' what it has in use.
Res0 == [there |-> FALSE, thread |-> FALSE, paused |-> FALSE, flushing |-> FALSE,
         msgs |-> << >>, data |-> << >>, run |-> "off", block |-> <<"none", FALSE>>]

AvInit ==
  /\ set \in Players
  /\ res = [l \in Lanes |-> Res0]
  /\ open = {} /\ reached = {} /\ rendered = {} /\ bits = {}
  /\ lock = "none"
  /\ owner = [op |-> "none", todo |-> << >>, await |-> {}, got |-> {}]
  /\ feeder = [at |-> "out", lane |-> "adec", kind |-> "none"]
  /\ calls = 0 /\ fed = 0
  /\ ended = FALSE /\ raced = {} /\ unflushed = FALSE

\* create_thread_res keeps the queues it finds, and `paused'.
create_thread_res(r) == [r EXCEPT !.there = TRUE, !.thread = TRUE, !.run = "recv"]

\* A block is a frame, the end of the stream, or the empty block that wakes a
\* reader; the flag tells that it was there when av_render_flush was called.
Kind(l) == res[l].block[1]
Popped(r) == [r EXCEPT !.data = IF @ = << >> THEN @ ELSE Tail(@)]

-----------------------------------------------------------------------------
(* render_thread: messages first, then the body *)

Proceed(r) == [r EXCEPT !.run = IF r.paused THEN "recv" ELSE "read"]

GotMessage(l) ==
  /\ res[l].run = "recv" /\ res[l].there /\ res[l].msgs # << >>
  /\ LET m == Head(res[l].msgs)
         r == [res[l] EXCEPT !.msgs = Tail(@)]
     IN  /\ res' = [res EXCEPT ![l] =
              CASE m = "CLOSE"  -> [r EXCEPT !.thread = FALSE, !.run = "exit"]
                [] m = "FLUSH"  -> Proceed([r EXCEPT !.data = << >>, !.flushing = FALSE])
                [] m = "PAUSE"  -> [r EXCEPT !.paused = TRUE]
                [] m = "RESUME" -> Proceed([r EXCEPT !.paused = FALSE])]
         /\ bits' = IF m = "FLUSH" THEN bits \cup {<<l, "flush">>} ELSE bits
  /\ UNCHANGED <<set, open, reached, rendered, lock, owner, feeder, calls, fed, ended, raced, unflushed>>

\* msg_q_recv waits while paused, else it does not.
NoMessage(l) ==
  /\ res[l].run = "recv" /\ res[l].there /\ res[l].msgs = << >> /\ ~res[l].paused
  /\ res' = [res EXCEPT ![l].run = "read"]
  /\ UNCHANGED player

\* The thread has left its loop: its handle is gone, then its queue is emptied,
\* so that whoever still puts into it can go on, then its bit is set.
ThreadExit(l) ==
  /\ res[l].run = "exit" /\ res[l].there
  /\ res' = [res EXCEPT ![l].data = << >>, ![l].run = "off"]
  /\ bits' = bits \cup {<<l, "close">>}
  /\ UNCHANGED <<set, open, reached, rendered, lock, owner, feeder, calls, fed, ended, raced, unflushed>>

Read(l) ==
  /\ res[l].run = "read" /\ res[l].there /\ res[l].data # << >>
  /\ res' = [res EXCEPT ![l].block = Head(res[l].data), ![l].run = "body"]
  /\ UNCHANGED player

-----------------------------------------------------------------------------
(* Renders.  Written(r, s, b) is the lane of stream s after               *)
(* _render_write_audio or _render_write_video has had block b.            *)

First(s) == s \notin rendered
Stops(s) == First(s) /\ set.pause_on_first_frame
\* v_render_in_sync is TRUE whenever a frame is written: the render's thread was
\* there before the first one, or there is none.
InSync(s) == s = "video" /\ s \notin set.raw
\* The first frame pauses the video decoder too, and a paused video render goes
\* on when it is given a frame and its decoder is not paused.
PausedIf(r, stops) == [r EXCEPT !.paused = @ \/ stops]
Halts(s) == InSync(s) /\ Stops(s)
Follows(r, s) == InSync(s) /\ ~r.flushing /\ ~Stops(s) /\ ~res["vdec"].paused
Written(r, s) == [r EXCEPT !.paused = (@ \/ Stops(s)) /\ ~Follows(r, s)]
\* The EOS event is for the application; a paused audio render keeps its frame.
Reports(r, s, b) == s = "audio" /\ b = "eos" /\ ~Written(r, s).paused

\* With a threshold audio starts once enough is queued, and starts over when
\* less than three blocks are left.
Starved(s) == s \in rendered /\ Len(res["arender"].data) < 3
Waits(s) == s \notin rendered /\ Len(res["arender"].data) < Threshold

\* Fault: blocks without data are passed over.
RenderDataOnly(l) ==
  LET s == StreamOf[l]
      held == l = "arender" /\ set.has_threshold /\ ~res[l].paused
      r == IF Kind(l) = "frame" THEN Written(res[l], s) ELSE res[l]
  IN  /\ res[l].run = "body" /\ res[l].there
      /\ IF Kind(l) = "frame" /\ held /\ (Starved(s) \/ Waits(s))
           THEN /\ res' = [res EXCEPT ![l].run = "recv"]
                /\ rendered' = rendered \ {s}
                /\ UNCHANGED ended
           ELSE /\ res' = [res EXCEPT ![l] = [(IF r.paused THEN r ELSE Popped(r)) EXCEPT !.run = "recv"],
                                      !["vdec"] = PausedIf(@, Kind(l) = "frame" /\ Halts(s))]
                /\ rendered' = IF Kind(l) = "frame" THEN rendered \cup {s} ELSE rendered
                /\ UNCHANGED ended
      /\ UNCHANGED <<set, open, reached, bits, lock, owner, feeder, calls, fed, raced, unflushed>>

\* a_render_body and v_render_body: a block stays queued when the render pauses.
RenderBody(l) ==
  LET s == StreamOf[l]
      held == l = "arender" /\ set.has_threshold /\ ~res[l].paused
      r == IF Kind(l) = "wake" THEN res[l] ELSE Written(res[l], s)
  IN  /\ res[l].run = "body" /\ res[l].there
      /\ IF Kind(l) = "frame" /\ held /\ (Starved(s) \/ Waits(s))
           THEN /\ res' = [res EXCEPT ![l].run = "recv"]
                /\ rendered' = rendered \ {s}
                /\ UNCHANGED ended
           ELSE /\ res' = [res EXCEPT ![l] = [(IF r.paused THEN r ELSE Popped(r)) EXCEPT !.run = "recv"],
                                      !["vdec"] = PausedIf(@, Kind(l) # "wake" /\ Halts(s))]
                /\ rendered' = IF Kind(l) = "wake" THEN rendered ELSE rendered \cup {s}
                /\ ended' = (ended /\ ~Reports(res[l], s, Kind(l)))
      /\ UNCHANGED <<set, open, reached, bits, lock, owner, feeder, calls, fed, raced, unflushed>>

-----------------------------------------------------------------------------
(* Decoders.  A frame reaches the render: the first one opens it           *)
(* (audio_render_open, video_render_open) and starts the audio render's    *)
(* thread.  The video render's thread is there already, for the decoder    *)
(* fetches its frame buffer from that queue (av_render_fetch_vid_fb).      *)

av_render_frame_reached(rs, s) ==
  IF s \notin reached /\ s = "audio" /\ "arender" \in set.lanes /\ ~rs["arender"].thread
    THEN [rs EXCEPT !["arender"] = create_thread_res(@)]
    ELSE rs

\* adec_body, vdec_body: the block is done with; the end of the stream pauses
\* the thread or ends it.
Done(l, r) ==
  LET p == Popped(r)
  IN  IF r.block[1] # "eos" THEN [p EXCEPT !.run = "recv"]
      ELSE IF set.quit_when_eos THEN [p EXCEPT !.thread = FALSE, !.run = "exit"]
      ELSE [p EXCEPT !.paused = TRUE, !.run = "recv"]
Quits(l) == raced' = IF Kind(l) = "eos" /\ set.quit_when_eos THEN raced \cup {"quits"} ELSE raced

\* The render's thread is started again although its end is awaited.
Restarts(rs) ==
  IF /\ rs["arender"].thread /\ ~res["arender"].thread
     /\ <<"arender", "close">> \in owner.await
    THEN raced \cup {"restarted"} ELSE raced

\* Nothing comes out of the empty block and of one that is not decoded.  An
\* audio EOS has no data and is passed on.
DecodesNothing(l) ==
  /\ l \in Decoders /\ res[l].run = "body" /\ res[l].there
  /\ <<l, Kind(l)>> # <<"adec", "eos">>
  /\ res' = [res EXCEPT ![l] = Done(l, @)]
  /\ Quits(l)
  /\ UNCHANGED <<set, open, reached, rendered, bits, lock, owner, feeder, calls, fed, ended, unflushed>>

\* The frame goes to the render's queue when its thread is there, else it is
\* written here.
Decodes(l) ==
  LET s  == StreamOf[l]
      d  == Render[s]
      rs == av_render_frame_reached(res, s)
  IN  /\ l \in Decoders /\ res[l].run = "body" /\ res[l].there /\ Kind(l) # "wake"
      /\ reached' = reached \cup {s}
      /\ IF rs[d].thread
           THEN /\ res' = [rs EXCEPT ![l].run = "put"]
                /\ raced' = Restarts(rs)
                /\ UNCHANGED <<rendered, ended>>
           ELSE /\ res' = [rs EXCEPT ![d] = Written(@, s),
                             ![l] = Done(l, PausedIf(@, Halts(s)))]
                /\ rendered' = rendered \cup {s}
                /\ ended' = (ended /\ ~Reports(rs[d], s, Kind(l)))
                /\ Quits(l)
      /\ UNCHANGED <<set, open, bits, lock, owner, feeder, calls, fed, unflushed>>

\* data_queue_get_buffer waits for room.
Puts(l) ==
  LET d == Render[StreamOf[l]]
  IN  /\ l \in Decoders /\ res[l].run = "put" /\ res[l].there
      /\ Len(res[d].data) < Room
      /\ res' = [res EXCEPT ![d].data = Append(@, res[l].block), ![l] = Done(l, @)]
      /\ Quits(l)
      /\ UNCHANGED <<set, open, reached, rendered, bits, lock, owner, feeder, calls, fed, ended, unflushed>>

LaneSteps(l) ==
  \/ GotMessage(l) \/ NoMessage(l) \/ Read(l) \/ ThreadExit(l)
  \/ l \notin Decoders /\ RenderBody(l)
  \/ DecodesNothing(l) \/ Decodes(l) \/ Puts(l)

-----------------------------------------------------------------------------
(* The owner's calls: api_lock first, then the steps of the call *)

NoLanes == UNCHANGED <<set, open, reached, rendered, bits, lock, feeder, calls, fed, ended, raced, unflushed>>
Step == IF owner.todo = << >> THEN <<"none">> ELSE Head(owner.todo)
Rest == Tail(owner.todo)

Tells(m, lanes) == [i \in 1..Len(lanes) |-> <<"tell", lanes[i], m>>]
Closes == Tells("CLOSE", <<"adec", "vdec", "arender", "vrender">>)

\* Fault: one round of closing.
ResetOnce == Closes \o <<<<"join">>, <<"free">>>>

\* Two rounds, for a decoder may start a render's thread while it closes.
ResetSteps == Closes \o <<<<"join">>>> \o Closes \o <<<<"join">>, <<"free">>>>

AddSteps(s) == Tells("CLOSE", <<Decoder[s]>>) \o <<<<"await">>, <<"add", s>>>>

PauseSteps == Tells("PAUSE", <<"adec", "vdec", "arender", "vrender">>) \o <<<<"return">>>>
ResumeSteps == Tells("RESUME", <<"arender", "vrender", "adec", "vdec">>) \o <<<<"return">>>>

\* Fault: the renders are flushed first.
FlushRendersFirst ==
  Tells("FLUSH", <<"arender", "vrender">>) \o <<<<"await">>>> \o
  Tells("FLUSH", <<"adec">>) \o <<<<"await">>>> \o
  Tells("FLUSH", <<"vdec">>) \o <<<<"await">>, <<"flushed">>>>

\* render_flush: the decoders first, each of them awaited.
FlushSteps ==
  Tells("FLUSH", <<"adec">>) \o <<<<"await">>>> \o
  Tells("FLUSH", <<"vdec">>) \o <<<<"await">>>> \o
  Tells("FLUSH", <<"arender", "vrender">>) \o <<<<"await">>, <<"flushed">>>>

Adds(s) == s \in set.streams

Call ==
  /\ owner.op = "none" /\ calls < MaxCalls
  /\ calls' = calls + 1
  /\ \/ \E s \in Streams : Adds(s) /\ owner' = [owner EXCEPT !.op = "add", !.todo = AddSteps(s)]
     \/ owner' = [owner EXCEPT !.op = "pause", !.todo = PauseSteps]
     \/ owner' = [owner EXCEPT !.op = "resume", !.todo = ResumeSteps]
     \/ owner' = [owner EXCEPT !.op = "flush", !.todo = FlushSteps]
     \/ owner' = [owner EXCEPT !.op = "reset", !.todo = ResetSteps]
  /\ ended' = FALSE
  /\ UNCHANGED <<set, open, reached, rendered, bits, lock, feeder, fed, raced, unflushed, res>>

\* What is there when av_render_flush begins is old.
Aged(r) == [r EXCEPT !.data = [i \in DOMAIN @ |-> <<@[i][1], TRUE>>], !.block = <<@[1], r.run \in {"body", "put"}>>]

TakeLock ==
  /\ owner.op # "none" /\ lock = "none"
  /\ lock' = "owner"
  /\ res' = IF owner.op = "flush" THEN [l \in Lanes |-> Aged(res[l])] ELSE res
  /\ UNCHANGED <<set, open, reached, rendered, bits, owner, feeder, calls, fed, ended, raced, unflushed>>

Spared(l, m) ==
  \/ ~res[l].thread
  \/ l \in owner.got /\ m = "CLOSE"
  \/ m = "PAUSE" /\ l \in Decoders /\ set.pause_render_only
     /\ res[Render[StreamOf[l]]].thread

\* send_msg_to_thread, and what is awaited of it.  A decoder that is flushed has
\* its render's queue emptied, so that it can put out what it has; of several
\* renders only the last is awaited.
Tell ==
  LET l == Step[2]  m == Step[3]  d == Render[StreamOf[l]]
      told == [res EXCEPT ![l].msgs = Append(@, m), ![l].flushing = @ \/ m = "FLUSH"]
  IN  /\ lock = "owner" /\ Step[1] = "tell"
      /\ IF Spared(l, m)
           THEN owner' = [owner EXCEPT !.todo = Rest] /\ UNCHANGED res
           ELSE /\ Len(res[l].msgs) < 4
                /\ res' = IF m = "FLUSH" /\ l \in Decoders /\ res[d].there
                            THEN [told EXCEPT ![d].flushing = TRUE, ![d].data = << >>]
                            ELSE told
                /\ owner' = [owner EXCEPT
                     !.todo = <<<<"wake", l>>>> \o Rest,
                     !.await = CASE m = "CLOSE" -> @ \cup {<<l, "close">>}
                                 [] m = "FLUSH" -> {<<l, "flush">>}
                                 [] OTHER       -> @]
      /\ NoLanes

\* Fault: a thread that waits for data is not woken.
TellOnly ==
  /\ lock = "owner" /\ Step[1] = "wake"
  /\ owner' = [owner EXCEPT !.todo = Rest]
  /\ UNCHANGED res
  /\ NoLanes

\* The empty block wakes a thread that waits for data.
Wake ==
  /\ lock = "owner" /\ Step[1] = "wake"
  /\ owner' = [owner EXCEPT !.todo = Rest]
  /\ res' = IF res[Step[2]].data = << >> THEN [res EXCEPT ![Step[2]].data = <<<<"wake", FALSE>>>>] ELSE res
  /\ NoLanes

Awaited ==
  /\ lock = "owner" /\ Step[1] \in {"await", "join"}
  /\ owner.await \subseteq bits
  /\ bits' = bits \ owner.await
  /\ owner' = [owner EXCEPT
       !.todo = IF Step[1] = "join" /\ owner.await = {} THEN <<<<"free">>>> ELSE Rest,
       !.await = {}, !.got = @ \cup {b[1] : b \in owner.await}]
  /\ UNCHANGED <<set, open, reached, rendered, lock, feeder, calls, fed, ended, raced, unflushed, res>>

Return ==
  /\ lock' = "none"
  /\ owner' = [op |-> "none", todo |-> << >>, await |-> {}, got |-> {}]

Returns ==
  /\ lock = "owner" /\ Step[1] = "return" /\ Return
  /\ UNCHANGED <<set, open, reached, rendered, bits, feeder, calls, fed, ended, raced, unflushed, res>>

\* av_render_add_audio_stream, av_render_add_video_stream once the old decoder
\* is closed: the new one may not open.  Frame buffers are fetched from the
\* video render's queue, which is made here.
Add ==
  LET s == Step[2]  l == Decoder[s]
      v == s = "video" /\ "vrender" \in set.lanes /\ ~res["vrender"].thread
      opened == [res EXCEPT ![l] = IF l \in set.lanes THEN create_thread_res(@) ELSE @,
                            !["vrender"] = IF v THEN create_thread_res(@) ELSE @]
  IN  /\ lock = "owner" /\ Step[1] = "add"
      /\ \/ /\ s \in set.raw
            /\ open' = open \cup {s} /\ UNCHANGED res
         \/ /\ s \notin set.raw
            /\ open' = open \cup {s} /\ res' = opened
         \/ /\ s \notin set.raw
            /\ open' = open \ {s} /\ UNCHANGED res
      /\ reached' = reached \ {s} /\ rendered' = rendered \ {s}
      /\ Return
      /\ UNCHANGED <<set, bits, feeder, calls, fed, ended, raced, unflushed>>

OldBlock(b) == b[1] # "wake" /\ b[2]
Old == \E l \in Lanes :
  \/ \E i \in DOMAIN res[l].data : OldBlock(res[l].data[i])
  \/ res[l].run \in {"body", "put"} /\ OldBlock(res[l].block)

\* av_render_flush returns; with two renders one was not awaited.
Flushed ==
  /\ lock = "owner" /\ Step[1] = "flushed"
  /\ rendered' = {}
  /\ unflushed' = (unflushed \/ Old)
  /\ raced' = IF res["arender"].thread /\ res["vrender"].thread THEN raced \cup {"two_renders"} ELSE raced
  /\ Return
  /\ UNCHANGED <<set, open, reached, bits, feeder, calls, fed, ended, res>>

\* av_render_reset once the threads have ended: the decoders are closed and the
\* queues destroyed, which lets a feeder that waits in one of them go on.  What
\* av_render_close adds is the end of event_group, lock and object.
Free ==
  /\ lock = "owner" /\ Step[1] = "free"
  /\ res' = [l \in Lanes |-> [Res0 EXCEPT !.run = res[l].run]]
  /\ open' = {} /\ reached' = {} /\ rendered' = {}
  /\ feeder' = [feeder EXCEPT !.at = "out"]
  /\ Return
  /\ UNCHANGED <<set, bits, calls, fed, ended, raced, unflushed>>

OwnerSteps == TakeLock \/ Tell \/ Wake \/ Awaited \/ Returns \/ Add \/ Flushed \/ Free

-----------------------------------------------------------------------------
(* The feeder: av_render_add_audio_data and av_render_add_video_data *)

Untouched(l) == ~res[l].paused /\ res[l].msgs = << >>

\* With a decoder thread api_lock is given up before data_queue_get_buffer
\* may wait; else the feeder decodes and renders with the lock held.
AddData ==
  \E s \in open, kind \in {"frame", "eos"} :
    LET l == Decoder[s]  d == Render[s]  rs == av_render_frame_reached(res, s)
        end == (ended \/ (s = "audio" /\ kind = "eos" /\ owner.op = "none"
                          /\ Untouched(l) /\ Untouched(d)))
    IN  /\ feeder.at = "out" /\ fed < MaxFed /\ lock = "none"
        /\ fed' = fed + 1
        /\ IF res[l].thread
             THEN /\ feeder' = [at |-> "put", lane |-> l, kind |-> kind]
                  /\ ended' = end
                  /\ UNCHANGED <<res, reached, rendered, lock>>
             ELSE /\ reached' = reached \cup {s}
                  /\ IF rs[d].thread
                       THEN /\ feeder' = [at |-> "into", lane |-> d, kind |-> kind]
                            /\ lock' = "feeder" /\ ended' = end
                            /\ res' = rs
                            /\ UNCHANGED rendered
                       ELSE /\ res' = [rs EXCEPT ![d] = Written(@, s), ![l] = PausedIf(@, Halts(s))]
                            /\ rendered' = rendered \cup {s}
                            /\ UNCHANGED <<feeder, lock, ended>>
        /\ UNCHANGED <<set, open, bits, owner, calls, raced, unflushed>>

\* The thread that was there then may have ended.
PutData ==
  /\ feeder.at \in {"put", "into"} /\ res[feeder.lane].there
  /\ Len(res[feeder.lane].data) < Room
  /\ res' = [res EXCEPT ![feeder.lane].data = Append(@, <<feeder.kind, FALSE>>)]
  /\ feeder' = [feeder EXCEPT !.at = "out"]
  /\ lock' = IF feeder.at = "into" THEN "none" ELSE lock
  /\ raced' = IF res[feeder.lane].thread THEN raced ELSE raced \cup {"stray"}
  /\ UNCHANGED <<set, open, reached, rendered, bits, owner, calls, fed, ended, unflushed>>

-----------------------------------------------------------------------------
\* A thread that outlives its queues runs on freed memory.
Orphan(l) == ~res[l].there /\ res[l].run # "off"

AvNext ==
  /\ \A l \in Lanes : ~Orphan(l)
  /\ \/ Call \/ OwnerSteps \/ AddData \/ PutData
     \/ \E l \in Lanes : LaneSteps(l)

\* The scheduler lets every thread run; nothing is called or fed by force.
Alive(A) == (\A l \in Lanes : ~Orphan(l)) /\ A
AvFair ==
  /\ \A l \in Lanes : WF_av(Alive(LaneSteps(l)))
  /\ WF_av(Alive(OwnerSteps)) /\ WF_av(Alive(PutData))

-----------------------------------------------------------------------------
(* Properties *)

(* raced names what they except:                                           *)
(*   quits        with quit_when_eos a thread's own end leaves its bit set,*)
(*                and the next reset does not wait;                        *)
(*   restarted    a decoder starts the audio render's thread again, whose  *)
(*                end the first round of a reset awaits: the second round  *)
(*                takes it for ended;                                      *)
(*   two_renders  of two render threads only the video render is awaited;  *)
(*   stray        a block is put into the queue of a thread that has ended *)

\* av_render_reset frees the queues of no thread that still runs, although a
\* decoder may start the audio render's thread while it is being closed.
ThreadsEndFirst == (\E l \in Lanes : Orphan(l)) => raced \cap {"quits", "restarted"} # {}

\* "run 2 times to avoid render thread creating during closing" (av_render_reset):
\* two rounds are enough for the threads that do not end by themselves.
TwoRoundsSuffice == (\E l \in Lanes : Orphan(l)) => "quits" \in raced

\* When av_render_flush returns nothing that was queued before is left to be
\* rendered, although the decoders put out frames while the renders are flushed.
FlushLeavesNothing == unflushed => raced # {}

\* A call of the owner returns although threads wait for data, for room and for
\* messages.  (It does not while the feeder itself waits, with api_lock held, for
\* room in the queue of a paused render; when a stream is added while the old
\* decoder waits for that; or when a thread ended by itself.)
Stopped(l) == res[l].paused \/ (l = "arender" /\ set.has_threshold)
RoomNeeded ==
  \E s \in Streams :
    /\ Stopped(Render[s])
    /\ \/ feeder.at = "into" /\ feeder.lane = Render[s]
       \/ res[Decoder[s]].run = "put" /\ owner.op = "add"
CallsReturn == owner.op # "none" ~> (owner.op = "none" \/ RoomNeeded \/ raced # {})

\* The end of the audio stream is reported, with the frames before it rendered,
\* unless the owner intervenes or the stream is paused.  (With a threshold the
\* last blocks never start, and their end is not reported.)
EosReported == ended ~> (~ended \/ set.has_threshold \/ set.pause_on_first_frame)
=============================================================================
