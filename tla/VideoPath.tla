------------------------------ MODULE VideoPath ------------------------------
(***************************************************************************)
(* The way of a video frame through the player: which format the decoder   *)
(* puts out (av_render.c, video_decoder.c), where it is converted          *)
(* (color_convert.c), and how it is drawn (video_render.c, lcd_render.c).  *)
(*                                                                         *)
(* One task, the video decoder's, does all this in turn.  The display      *)
(* reads what it is given, a picture or the blank one of lcd_render_clear, *)
(* in its order, and calls draw_finished after each.                       *)
(***************************************************************************)
EXTENDS Integers, Sequences

CONSTANTS
  Decks,      \* decoder and display at hand
  MaxFrames   \* bound: frames decoded

Formats == {"YUV420", "YUV422", "RGB565"}

\* caps are the formats the decoder has, first the one it prefers; fb tells that
\* the display has two frame buffers, cvt is video_cvt_in_render.
\* Decks: [caps : Seq(Formats), fb : BOOLEAN, cvt : BOOLEAN]

VARIABLES
  deck,
  vdec,      \* vdec_t, and dec_out_fmt and out_fmt of av_render_vdec_res_t
  lcd,       \* lcd_render_t, and ref_count and is_open of video_render_t
  at,        \* where the frame is, the buffer it is in and its format
  frames,
  reads,     \* what the display has been given and not finished
  torn,      \* history: the kinds that were written over while read, but for `mixed'
  mixed,     \* history: a picture was given to the display behind a blank one, and
             \* the display has not caught up since
  lost,      \* history: buffers of which the last pointer is gone
  stopped    \* the program is stopped by the write to address 0

video == <<deck, vdec, lcd, at, frames, reads, torn, mixed, lost, stopped>>

Vdec0 == [open |-> FALSE, header |-> FALSE, need_clr_convert |-> FALSE, fmt |-> "none",
          dec_out_fmt |-> "none", out_fmt |-> "none", out_data |-> FALSE, raw |-> FALSE,
          reached |-> FALSE]
Lcd0 == [sel |-> 0, drawing |-> FALSE, type |-> "none", is_open |-> FALSE, ref_count |-> 1]

VideoInit ==
  /\ deck \in Decks
  /\ vdec = Vdec0 /\ lcd = Lcd0
  /\ at = <<"idle", "none", "none">>
  /\ frames = 0 /\ reads = <<>> /\ torn = {} /\ mixed = FALSE /\ lost = 0 /\ stopped = FALSE

Is(step) == at[1] = step /\ ~stopped
Move(step, buf, fmt) == at' = <<step, buf, fmt>>
Has(fmt) == \E i \in DOMAIN deck.caps : deck.caps[i] = fmt

\* lcd_render_format_supported on this board.
lcd_render_format_supported(fmt) == fmt = "RGB565"

-----------------------------------------------------------------------------
(* The formats *)

\* get_support_output_format: one that both know; else the decoder is asked for
\* the display's format, or the render converts from what the decoder prefers.
get_support_output_format ==
  IF \E fmt \in Formats : Has(fmt) /\ lcd_render_format_supported(fmt)
    THEN [dec_out_fmt |-> "RGB565", out_fmt |-> "RGB565"]
    ELSE [dec_out_fmt |-> IF deck.cvt THEN deck.caps[1] ELSE "RGB565", out_fmt |-> "RGB565"]

\* get_frame_type and get_out_fmt know no YUV422.
Known(fmt) == IF fmt = "YUV422" THEN "none" ELSE fmt

\* vdec_open and check_input_format_support; "none" is taken for RGB565.
vdec_open ==
  LET g   == get_support_output_format
      ask == IF Known(g.dec_out_fmt) = "none" THEN "RGB565" ELSE g.dec_out_fmt
  IN  /\ Is("idle") /\ ~vdec.open
      /\ vdec' = [Vdec0 EXCEPT !.open = TRUE, !.need_clr_convert = ~Has(ask),
                    !.fmt = IF Has(ask) THEN ask ELSE deck.caps[1],
                    !.dec_out_fmt = g.dec_out_fmt, !.out_fmt = g.out_fmt]
      /\ UNCHANGED <<deck, lcd, at, frames, reads, torn, mixed, lost, stopped>>

\* convert_color knows one source; any other stops the program.
Convertible(fmt) == fmt = "YUV420"

-----------------------------------------------------------------------------
(* The decoder *)

\* The display's own buffer when it has some, else the decoder's.
Target == IF deck.fb THEN IF lcd.sel = 0 THEN "fb0" ELSE "fb1" ELSE "own"
DecodesInto == IF vdec.need_clr_convert THEN "middle" ELSE Target
Over(buf) == {reads[i].kind : i \in {j \in DOMAIN reads : reads[j].buf = buf}}
Writes(buf) == torn' = IF mixed THEN torn ELSE torn \cup Over(buf)

\* do_decode before the header is known: the size is asked for with a buffer of
\* 64 bytes.  When the data is no key frame that buffer is not given back.
NoHeader ==
  /\ Is("idle") /\ vdec.open /\ ~vdec.header /\ frames < MaxFrames
  /\ frames' = frames + 1
  /\ lost' = IF vdec.out_data THEN lost + 1 ELSE lost
  /\ vdec' = [vdec EXCEPT !.out_data = TRUE]
  /\ UNCHANGED <<deck, lcd, at, reads, torn, mixed, stopped>>

Header ==
  /\ Is("idle") /\ vdec.open /\ ~vdec.header /\ frames < MaxFrames
  /\ lost' = IF vdec.out_data THEN lost + 1 ELSE lost
  /\ vdec' = [vdec EXCEPT !.header = TRUE, !.out_data = ~deck.fb \/ vdec.need_clr_convert,
                          !.raw = vdec.need_clr_convert]
  /\ UNCHANGED <<deck, lcd, at, frames, reads, torn, mixed, stopped>>

\* A frame is decoded, or it is not.
do_decode ==
  /\ Is("idle") /\ vdec.open /\ vdec.header /\ frames < MaxFrames
  /\ frames' = frames + 1
  /\ Writes(DecodesInto)
  /\ \/ Move("decoded", DecodesInto, vdec.fmt)
     \/ UNCHANGED at
  /\ UNCHANGED <<deck, vdec, lcd, reads, mixed, lost, stopped>>

\* The decoder's own conversion.
Convert ==
  /\ Is("decoded")
  /\ IF ~vdec.need_clr_convert
       THEN Move("reached", at[2], at[3]) /\ UNCHANGED <<torn, stopped>>
       ELSE /\ stopped' = ~Convertible(at[3])
            /\ Writes(Target)
            /\ Move("reached", Target, "RGB565")
  /\ UNCHANGED <<deck, vdec, lcd, frames, reads, mixed, lost>>

-----------------------------------------------------------------------------
(* The render *)

\* av_render_video_frame_reached opens the render for the first frame, which it
\* may refuse: set_frame_info compares the format.
Cvt == vdec.dec_out_fmt # vdec.out_fmt
Source == IF vdec.need_clr_convert THEN vdec.dec_out_fmt ELSE at[3]
ToWrite ==
  IF Cvt THEN stopped' = ~Convertible(Source) /\ Move("write", "converted", "RGB565")
         ELSE UNCHANGED stopped /\ Move("write", at[2], at[3])

\* video_render_close, which clears the display when it is open: the buffer that
\* is decoded into next is blanked and given to the display, without `drawing'
\* and without a turn of `sel'.  A panel may refuse it.
Given(buf, kind) == reads' = Append(reads, [buf |-> buf, kind |-> kind])
lcd_render_clear ==
  IF deck.fb /\ lcd.is_open
    THEN Writes(Target) /\ (Given(Target, "blank") \/ UNCHANGED reads)
    ELSE UNCHANGED <<reads, torn>>
Closed == [lcd EXCEPT !.is_open = FALSE, !.ref_count = IF lcd.is_open THEN @ - 1 ELSE @]

video_render_open ==
  LET type == IF Cvt THEN vdec.out_fmt ELSE IF vdec.need_clr_convert THEN "RGB565" ELSE vdec.fmt
  IN  /\ Is("reached") /\ ~vdec.reached
      /\ lcd_render_clear
      /\ IF lcd_render_format_supported(type)
           THEN /\ lcd' = [Closed EXCEPT !.type = type, !.is_open = TRUE, !.ref_count = @ + 1]
                /\ vdec' = [vdec EXCEPT !.reached = TRUE]
                /\ UNCHANGED at
           ELSE /\ lcd' = Closed
                /\ Move("idle", "none", "none")
                /\ UNCHANGED vdec
      /\ UNCHANGED <<deck, frames, mixed, lost, stopped>>

\* The table-driven conversion to RGB565 for the render.
FrameReached ==
  /\ Is("reached") /\ vdec.reached
  /\ ToWrite
  /\ IF Cvt THEN Writes("converted") ELSE UNCHANGED torn
  /\ UNCHANGED <<deck, vdec, lcd, frames, reads, mixed, lost>>

\* A picture is given to the display, or is refused.
Draws ==
  /\ Given(at[2], "picture") \/ UNCHANGED reads
  /\ mixed' = (mixed \/ \E i \in DOMAIN reads : reads[i].kind = "blank")
  /\ Move("idle", "none", "none")
  /\ UNCHANGED <<deck, vdec, frames, torn, lost, stopped>>

\* Fault: the next frame is decoded into the buffer that is drawn.
SelKept ==
  /\ Is("write") /\ ~lcd.drawing
  /\ lcd' = [lcd EXCEPT !.drawing = TRUE]
  /\ Draws

\* lcd_render_write waits until the display has the frame before.  A draw that
\* is refused leaves `drawing' set, and no draw_finished comes for it.
lcd_render_write ==
  /\ Is("write") /\ ~lcd.drawing
  /\ lcd' = [lcd EXCEPT !.drawing = TRUE, !.sel = IF deck.fb THEN 1 - @ ELSE @]
  /\ Draws

\* During av_render_flush, and before the start pts, the frame is not shown.
NotShown ==
  /\ Is("write")
  /\ Move("idle", "none", "none")
  /\ UNCHANGED <<deck, vdec, lcd, frames, reads, torn, mixed, lost, stopped>>

\* Whatever was given first, `drawing' ends with it.
draw_finished ==
  /\ reads # <<>>
  /\ reads' = Tail(reads)
  /\ mixed' = (mixed /\ Tail(reads) # <<>>)
  /\ lcd' = [lcd EXCEPT !.drawing = FALSE]
  /\ UNCHANGED <<deck, vdec, at, frames, torn, lost, stopped>>

\* av_render_reset: vdec_close frees what the decoder has, video_render_close
\* keeps the display.
Reset ==
  /\ Is("idle") /\ vdec.open
  /\ vdec' = Vdec0
  /\ lcd_render_clear
  /\ lcd' = Closed
  /\ UNCHANGED <<deck, at, frames, mixed, lost, stopped>>

VideoNext ==
  \/ vdec_open \/ NoHeader \/ Header \/ do_decode \/ Convert \/ video_render_open
  \/ FrameReached \/ lcd_render_write \/ NotShown \/ draw_finished \/ Reset

-----------------------------------------------------------------------------
(* Properties *)

\* What the display is given is in its format, whatever the decoder puts out and
\* wherever it is converted, and with two frame buffers no picture is written over
\* while it is read, over resets and streams that follow, but for one case: a blank
\* picture that is not finished when the next one is given ends `drawing' early, and
\* frames go where the display still reads until it has caught up.  (The decoder's
\* own buffer and the render's for its conversion are single: the next frame is
\* written while the last is read.)
DrawnIsWhole ==
  /\ Is("write") => at[3] = lcd.type /\ lcd_render_format_supported(at[3])
  /\ "picture" \in torn => ~deck.fb \/ deck.cvt
  /\ lcd.ref_count = IF lcd.is_open THEN 2 ELSE 1
=============================================================================
