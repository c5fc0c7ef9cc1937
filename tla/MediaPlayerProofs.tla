-------------------------- MODULE MediaPlayerProofs --------------------------
(***************************************************************************)
(* Proofs about the media player: what is drawn and what is played is what *)
(* the display and the render were opened for (VideoPath, AudioPath), for  *)
(* every number of frames, queue and pattern of packets; messages come     *)
(* once and in their order for every ring and set of receivers (MsgQueue); *)
(* and no thread outlives its queues, for every player (AvRender).         *)
(*                                                                         *)
(* A frame's invariant follows it from decoder to device: each step on the *)
(* way knows its format from the step before, and the formats of decoder,  *)
(* converter and device were negotiated once, when the first frame came.   *)
(* The ring holds the messages sent last, and q->user counts the tasks     *)
(* that wait; the reset flag is what makes it worth an argument: with it   *)
(* msg_q_send overwrites a full ring, and only its one owner keeps that    *)
(* from happening.                                                         *)
(***************************************************************************)
EXTENDS MCMediaPlayer, SequenceTheorems, FiniteSetTheorems, TLAPS

-----------------------------------------------------------------------------
(* The way of a video frame *)

\* The formats of a decoder that is open: it converts to the display's itself, or the
\* render does, or it puts out the display's.
OutFormats ==
  vdec.open =>
    /\ vdec.out_fmt = "RGB565"
    /\ ~vdec.need_clr_convert /\ vdec.dec_out_fmt = "RGB565" => vdec.fmt = "RGB565"
    /\ ~deck.cvt => vdec.dec_out_fmt = "RGB565"

\* Where the frame is, in which format, and in which buffer when the display has two
\* and the decoder converts.
Underway ==
  /\ picture = <<picture[1], picture[2], picture[3]>>
  /\ picture[1] \in {"decoded", "reached", "write"} => vdec.open
  /\ picture[1] = "decoded" => picture[3] = vdec.fmt
  /\ picture[1] = "reached" => picture[3] = IF vdec.need_clr_convert THEN "RGB565" ELSE vdec.fmt
  /\ picture[1] = "write" => picture[3] = "RGB565" /\ vdec.reached
TwoBuffers == deck.fb /\ ~deck.cvt
Buffered ==
  TwoBuffers =>
    /\ picture[1] = "decoded" => picture[2] = V!DecodesInto
    /\ picture[1] \in {"reached", "write"} => picture[2] = V!Target

\* A picture the display still reads is the first it was given, the next one waits for
\* it, and it is not in the buffer that is written next: unless it was given behind a
\* blank one.
Shown == [buf : {"fb0", "fb1"}, kind : {"picture", "blank"}]
NotTorn ==
  TwoBuffers =>
    /\ reads \in Seq(Shown)
    /\ "picture" \notin torn
    /\ ~mixed =>
         \A i \in DOMAIN reads :
           reads[i].kind = "picture" => i = 1 /\ lcd.drawing /\ reads[i].buf # V!Target

LcdUse ==
  /\ vdec.reached => lcd.is_open
  /\ lcd.is_open => lcd.type = "RGB565"
  /\ lcd.ref_count = IF lcd.is_open THEN 2 ELSE 1

LcdFields ==
  /\ {"sel", "drawing", "type", "is_open", "ref_count"} \subseteq DOMAIN lcd
  /\ lcd.sel \in {0, 1}
  /\ mixed \in BOOLEAN
VdecFields == DOMAIN vdec = DOMAIN V!Vdec0
VideoInv == LcdFields /\ VdecFields /\ OutFormats /\ Underway /\ Buffered /\ NotTorn /\ LcdUse

\* What most steps leave alone.
FormatsKept ==
  /\ DOMAIN vdec' = DOMAIN vdec
  /\ vdec'.open = vdec.open /\ vdec'.need_clr_convert = vdec.need_clr_convert
  /\ vdec'.fmt = vdec.fmt /\ vdec'.dec_out_fmt = vdec.dec_out_fmt /\ vdec'.out_fmt = vdec.out_fmt
LcdKept ==
  /\ DOMAIN lcd' = DOMAIN lcd
  /\ lcd'.type = lcd.type /\ lcd'.is_open = lcd.is_open /\ lcd'.ref_count = lcd.ref_count

LEMMA VideoInitInv == V!VideoInit => VideoInv
<1> SUFFICES ASSUME V!VideoInit  PROVE VideoInv
  OBVIOUS
<1>1. NotTorn
  <2>1. reads = <<>> /\ torn = {} /\ <<>> \in Seq(Shown) /\ DOMAIN reads = {}
    BY DEF V!VideoInit
  <2> QED  BY <2>1 DEF NotTorn
<1> QED
  BY <1>1 DEF V!VideoInit, VideoInv, LcdFields, VdecFields, OutFormats, Underway, Buffered, LcdUse,
    V!Vdec0, V!Lcd0, V!Target

\* What is written next is not a picture that the display reads.
LEMMA WriteTears ==
  ASSUME NotTorn, TwoBuffers, NEW buf, buf \in {V!Target, "middle"}, V!Writes(buf)
  PROVE  "picture" \notin torn'
<1>1. CASE mixed
  BY <1>1 DEF NotTorn, V!Writes
<1>2. CASE ~mixed
  <2>1. \A i \in DOMAIN reads : reads[i].kind = "picture" => reads[i].buf # buf
    <3> SUFFICES ASSUME NEW i \in DOMAIN reads, reads[i].kind = "picture"
                 PROVE  reads[i].buf # buf
      OBVIOUS
    <3>1. reads[i] \in Shown
      <4>1. i \in 1..Len(reads)
        BY DEF NotTorn
      <4> QED  BY <4>1 DEF NotTorn
    <3>2. reads[i].buf # V!Target /\ reads[i].buf # "middle"
      BY <1>2, <3>1 DEF NotTorn, Shown
    <3> QED  BY <3>2
  <2>2. torn' = torn \cup {reads[i].kind : i \in {j \in DOMAIN reads : reads[j].buf = buf}}
    BY <1>2 DEF V!Writes, V!Over
  <2> QED  BY <2>1, <2>2 DEF NotTorn
<1> QED  BY <1>1, <1>2

\* The blank picture stays behind what is read, in the buffer that is written next.
LEMMA ClearTears ==
  ASSUME NotTorn, LcdFields, V!lcd_render_clear, UNCHANGED <<deck, mixed>>,
         lcd'.sel = lcd.sel, lcd'.drawing = lcd.drawing
  PROVE  NotTorn'
<1> SUFFICES ASSUME TwoBuffers  PROVE NotTorn'
  BY DEF NotTorn, TwoBuffers
<1>1. V!Target' = V!Target /\ V!Target \in {"fb0", "fb1"}
  BY DEF TwoBuffers, V!Target
<1>2. CASE UNCHANGED <<reads, torn>>
  BY <1>1, <1>2 DEF NotTorn, TwoBuffers
<1>3. CASE V!Writes(V!Target) /\ reads' = reads
  BY <1>1, <1>3, WriteTears DEF NotTorn, TwoBuffers
<1>4. CASE V!Writes(V!Target) /\ V!Given(V!Target, "blank")
  <2> DEFINE b == [buf |-> V!Target, kind |-> "blank"]
  <2>1. reads \in Seq(Shown) /\ reads' = Append(reads, b) /\ b \in Shown /\ b.kind = "blank"
    BY <1>1, <1>4 DEF NotTorn, Shown, V!Given
  <2> HIDE DEF b
  <2>2. /\ reads' \in Seq(Shown) /\ DOMAIN reads = 1..Len(reads)
        /\ DOMAIN reads' = 1..Len(reads) + 1 /\ reads'[Len(reads) + 1] = b
        /\ \A i \in 1..Len(reads) : reads'[i] = reads[i]
    BY <2>1
  <2>3. "picture" \notin torn'
    BY <1>4, WriteTears
  <2>4. ASSUME ~mixed, NEW i \in DOMAIN reads', reads'[i].kind = "picture"
        PROVE  i = 1 /\ lcd.drawing /\ reads'[i].buf # V!Target
    <3>1. i # Len(reads) + 1
      BY <2>1, <2>2, <2>4
    <3>2. i \in DOMAIN reads /\ reads'[i] = reads[i]
      BY <2>2, <3>1
    <3> QED  BY <2>4, <3>2 DEF NotTorn
  <2> QED  BY <1>1, <2>2, <2>3, <2>4 DEF NotTorn
<1> QED  BY <1>2, <1>3, <1>4 DEF V!lcd_render_clear

LEMMA VdecOpenInv == VideoInv /\ V!vdec_open => VideoInv'
<1> SUFFICES ASSUME VideoInv, V!vdec_open
             PROVE  VideoInv'
  OBVIOUS
<1> DEFINE g == V!get_support_output_format
           ask == IF V!Known(g.dec_out_fmt) = "none" THEN "RGB565" ELSE g.dec_out_fmt
<1>1. /\ picture[1] = "idle" /\ UNCHANGED <<deck, lcd, picture, frames, reads, torn, mixed, lost, stopped>>
      /\ vdec' = [V!Vdec0 EXCEPT !.open = TRUE, !.need_clr_convert = ~V!Has(ask),
                    !.fmt = IF V!Has(ask) THEN ask ELSE deck.caps[1],
                    !.dec_out_fmt = g.dec_out_fmt, !.out_fmt = g.out_fmt]
  BY DEF V!vdec_open, V!Is
<1>2. g.out_fmt = "RGB565" /\ (~deck.cvt => g.dec_out_fmt = "RGB565")
  BY DEF V!get_support_output_format
<1>3. g.dec_out_fmt = "RGB565" => ask = "RGB565"
  BY DEF V!Known
<1> HIDE DEF g, ask
<1>4. OutFormats' /\ VdecFields' /\ ~vdec'.reached
  BY <1>1, <1>2, <1>3 DEF OutFormats, VdecFields, V!Vdec0
<1>5. LcdFields' /\ Underway' /\ LcdUse'
  BY <1>1, <1>4 DEF VideoInv, LcdFields, Underway, LcdUse
<1>6. Buffered' /\ NotTorn'
  BY <1>1 DEF VideoInv, Buffered, NotTorn, TwoBuffers, V!Target
<1> QED  BY <1>4, <1>5, <1>6 DEF VideoInv

\* The header, and a frame without it, find no frame underway.
LEMMA HeaderInv == VideoInv /\ (V!NoHeader \/ V!Header) => VideoInv'
<1> SUFFICES ASSUME VideoInv, V!NoHeader \/ V!Header
             PROVE  VideoInv'
  OBVIOUS
<1>1. /\ picture[1] = "idle" /\ UNCHANGED <<deck, lcd, picture, reads, torn, mixed>>
      /\ \/ vdec' = [vdec EXCEPT !.out_data = TRUE]
         \/ \E a, b : vdec' = [vdec EXCEPT !.header = TRUE, !.out_data = a, !.raw = b]
  BY DEF V!NoHeader, V!Header, V!Is
<1>a. FormatsKept /\ vdec'.reached = vdec.reached
  BY <1>1 DEF FormatsKept, VideoInv, VdecFields, V!Vdec0
<1>2. LcdFields' /\ VdecFields' /\ OutFormats' /\ Underway' /\ LcdUse'
  BY <1>1, <1>a DEF FormatsKept, VideoInv, LcdFields, VdecFields, OutFormats, Underway, LcdUse
<1>3. Buffered' /\ NotTorn'
  BY <1>1 DEF VideoInv, Buffered, NotTorn, TwoBuffers, V!Target
<1> QED  BY <1>2, <1>3 DEF VideoInv

LEMMA DecodeInv == VideoInv /\ V!do_decode => VideoInv'
<1> SUFFICES ASSUME VideoInv, V!do_decode
             PROVE  VideoInv'
  OBVIOUS
<1>1. /\ picture[1] = "idle" /\ vdec.open /\ UNCHANGED <<deck, vdec, lcd, reads, mixed>>
      /\ V!Writes(V!DecodesInto)
      /\ picture' = <<"decoded", V!DecodesInto, vdec.fmt>> \/ picture' = picture
  BY DEF V!do_decode, V!Is, V!Move
<1>2. LcdFields' /\ VdecFields' /\ OutFormats' /\ LcdUse'
  BY <1>1 DEF VideoInv, LcdFields, VdecFields, OutFormats, LcdUse
<1>3. Underway'
  BY <1>1 DEF VideoInv, Underway
<1>4. Buffered'
  BY <1>1 DEF VideoInv, Buffered, TwoBuffers, V!DecodesInto, V!Target
<1>5. NotTorn'
  BY <1>1, WriteTears DEF VideoInv, NotTorn, TwoBuffers, V!DecodesInto, V!Target
<1> QED  BY <1>2, <1>3, <1>4, <1>5 DEF VideoInv

LEMMA ConvertInv == VideoInv /\ V!Convert => VideoInv'
<1> SUFFICES ASSUME VideoInv, V!Convert
             PROVE  VideoInv'
  OBVIOUS
<1>1. /\ picture[1] = "decoded" /\ UNCHANGED <<deck, vdec, lcd, reads, mixed>>
      /\ \/ /\ ~vdec.need_clr_convert /\ torn' = torn
            /\ picture' = <<"reached", picture[2], picture[3]>>
         \/ /\ vdec.need_clr_convert /\ V!Writes(V!Target)
            /\ picture' = <<"reached", V!Target, "RGB565">>
  BY DEF V!Convert, V!Is, V!Move
<1>2. LcdFields' /\ VdecFields' /\ OutFormats' /\ LcdUse'
  BY <1>1 DEF VideoInv, LcdFields, VdecFields, OutFormats, LcdUse
<1>3. Underway'
  BY <1>1 DEF VideoInv, Underway
<1>4. Buffered'
  BY <1>1 DEF VideoInv, Buffered, TwoBuffers, V!DecodesInto, V!Target
<1>5. NotTorn'
  BY <1>1, WriteTears DEF VideoInv, NotTorn, TwoBuffers, V!Target
<1> QED  BY <1>2, <1>3, <1>4, <1>5 DEF VideoInv

LEMMA ClosedLcd ==
  ASSUME LcdFields, LcdUse
  PROVE  /\ DOMAIN V!Closed = DOMAIN lcd /\ V!Closed.sel = lcd.sel /\ V!Closed.drawing = lcd.drawing
         /\ V!Closed.type = lcd.type /\ ~V!Closed.is_open /\ V!Closed.ref_count = 1
BY DEF LcdFields, LcdUse, V!Closed

\* The render is opened with the display's format only.
LEMMA RenderOpenInv == VideoInv /\ V!video_render_open => VideoInv'
<1> SUFFICES ASSUME VideoInv, V!video_render_open
             PROVE  VideoInv'
  OBVIOUS
<1> DEFINE type == IF V!Cvt THEN vdec.out_fmt
                   ELSE IF vdec.need_clr_convert THEN "RGB565" ELSE vdec.fmt
<1>1. /\ picture[1] = "reached" /\ ~vdec.reached /\ UNCHANGED <<deck, mixed>>
      /\ V!lcd_render_clear
      /\ \/ /\ type = "RGB565"
            /\ lcd' = [V!Closed EXCEPT !.type = type, !.is_open = TRUE, !.ref_count = @ + 1]
            /\ vdec' = [vdec EXCEPT !.reached = TRUE]
            /\ picture' = picture
         \/ /\ lcd' = V!Closed
            /\ picture' = <<"idle", "none", "none">> /\ vdec' = vdec
  BY DEF V!video_render_open, V!Is, V!Move, V!lcd_render_format_supported
<1> HIDE DEF type
<1>c. /\ DOMAIN V!Closed = DOMAIN lcd /\ V!Closed.sel = lcd.sel /\ V!Closed.drawing = lcd.drawing
      /\ V!Closed.type = lcd.type /\ ~V!Closed.is_open /\ V!Closed.ref_count = 1
      /\ {"sel", "drawing", "type", "is_open", "ref_count"} \subseteq DOMAIN lcd
  BY ClosedLcd DEF VideoInv, LcdFields
<1>2. FormatsKept
  BY <1>1 DEF FormatsKept, VideoInv, VdecFields, V!Vdec0
<1>3. lcd'.sel = lcd.sel /\ lcd'.drawing = lcd.drawing /\ DOMAIN lcd' = DOMAIN lcd
  BY <1>1, <1>c
<1>4. LcdFields' /\ VdecFields' /\ OutFormats'
  BY <1>1, <1>2, <1>3 DEF FormatsKept, VideoInv, LcdFields, VdecFields, OutFormats
<1>5. LcdUse'
  <2>1. vdec'.reached => lcd'.is_open
    BY <1>1, <1>c DEF VideoInv, VdecFields, V!Vdec0
  <2>2. lcd'.is_open => lcd'.type = "RGB565"
    BY <1>1, <1>c
  <2>3. lcd'.ref_count = IF lcd'.is_open THEN 2 ELSE 1
    <3>1. \/ lcd'.is_open = TRUE /\ lcd'.ref_count = V!Closed.ref_count + 1
          \/ lcd' = V!Closed
      BY <1>1, <1>c
    <3> QED  BY <1>c, <3>1
  <2> QED  BY <2>1, <2>2, <2>3 DEF LcdUse
<1>6. Underway'
  BY <1>1, <1>2 DEF FormatsKept, VideoInv, Underway
<1>7. Buffered'
  BY <1>1, <1>2, <1>3 DEF FormatsKept, VideoInv, Buffered, TwoBuffers, V!Target
<1>8. NotTorn'
  BY <1>1, <1>3, ClearTears DEF VideoInv
<1> QED  BY <1>4, <1>5, <1>6, <1>7, <1>8 DEF VideoInv

\* The render converts into its own buffer, and not with two frame buffers.
LEMMA FrameReachedInv == VideoInv /\ V!FrameReached => VideoInv'
<1> SUFFICES ASSUME VideoInv, V!FrameReached
             PROVE  VideoInv'
  OBVIOUS
<1>1. /\ picture[1] = "reached" /\ vdec.reached /\ UNCHANGED <<deck, vdec, lcd, reads, mixed>>
      /\ \/ /\ V!Cvt
            /\ picture' = <<"write", "converted", "RGB565">>
         \/ /\ ~V!Cvt /\ torn' = torn
            /\ picture' = <<"write", picture[2], picture[3]>>
  BY DEF V!FrameReached, V!ToWrite, V!Is, V!Move
<1>2. ~V!Cvt => picture[3] = "RGB565"
  BY <1>1 DEF VideoInv, Underway, OutFormats, V!Cvt
<1>3. ~deck.cvt => ~V!Cvt
  BY <1>1 DEF VideoInv, Underway, OutFormats, V!Cvt
<1>4. LcdFields' /\ VdecFields' /\ OutFormats' /\ LcdUse'
  BY <1>1 DEF VideoInv, LcdFields, VdecFields, OutFormats, LcdUse
<1>5. Underway'
  BY <1>1, <1>2 DEF VideoInv, Underway
<1>6. Buffered' /\ NotTorn'
  BY <1>1, <1>3 DEF VideoInv, Buffered, NotTorn, TwoBuffers, V!Target
<1> QED  BY <1>4, <1>5, <1>6 DEF VideoInv

\* The display is given a frame, and the next goes to the other buffer.
LEMMA WriteInv == VideoInv /\ V!lcd_render_write => VideoInv'
<1> SUFFICES ASSUME VideoInv, V!lcd_render_write
             PROVE  VideoInv'
  OBVIOUS
<1>1. /\ UNCHANGED <<deck, vdec, torn>>
      /\ picture[1] = "write" /\ picture' = <<"idle", "none", "none">> /\ ~lcd.drawing
      /\ lcd' = [lcd EXCEPT !.drawing = TRUE, !.sel = IF deck.fb THEN 1 - @ ELSE @]
      /\ V!Given(picture[2], "picture") \/ UNCHANGED reads
      /\ mixed' = (mixed \/ \E i \in DOMAIN reads : reads[i].kind = "blank")
  BY DEF V!lcd_render_write, V!Draws, V!Is, V!Move
<1>2. /\ LcdKept /\ lcd'.drawing /\ lcd'.sel = (IF deck.fb THEN 1 - lcd.sel ELSE lcd.sel)
      /\ LcdFields'
  BY <1>1 DEF LcdKept, VideoInv, LcdFields
<1>3. VdecFields' /\ OutFormats' /\ LcdUse' /\ Underway' /\ Buffered'
  BY <1>1, <1>2 DEF LcdKept, VideoInv, VdecFields, OutFormats, LcdUse, Underway, Buffered, TwoBuffers
<1>4. NotTorn'
  <2> SUFFICES ASSUME TwoBuffers  PROVE NotTorn'
    BY <1>1 DEF NotTorn, TwoBuffers
  <2>1. picture[2] = V!Target /\ V!Target \in {"fb0", "fb1"} /\ V!Target' # V!Target
    BY <1>1, <1>2 DEF VideoInv, Buffered, TwoBuffers, V!Target, LcdFields
  <2>2. reads \in Seq(Shown) /\ "picture" \notin torn'
    BY <1>1 DEF VideoInv, NotTorn
  <2>3. ~mixed' => ~mixed /\ reads = <<>>
    <3> SUFFICES ASSUME ~mixed', reads # <<>>  PROVE FALSE
      BY <1>1
    <3>1. 1 \in DOMAIN reads /\ reads[1] \in Shown
      BY <2>2
    <3>2. reads[1].kind = "picture"
      BY <1>1, <3>1 DEF Shown
    <3> QED  BY <1>1, <3>1, <3>2 DEF VideoInv, NotTorn
  <2>4. CASE UNCHANGED reads
    BY <2>2, <2>3, <2>4 DEF NotTorn
  <2>5. CASE V!Given(picture[2], "picture")
    <3> DEFINE p == [buf |-> V!Target, kind |-> "picture"]
    <3>1. reads' = Append(reads, p) /\ p \in Shown /\ p.buf = V!Target
      BY <2>1, <2>5 DEF Shown, V!Given
    <3> HIDE DEF p
    <3>2. reads' \in Seq(Shown)
      BY <2>2, <3>1
    <3>3. ~mixed' => \A i \in DOMAIN reads' : i = 1 /\ reads'[i] = p
      BY <2>3, <3>1
    <3> QED  BY <1>2, <2>1, <2>2, <3>1, <3>2, <3>3 DEF NotTorn
  <2> QED  BY <1>1, <2>4, <2>5
<1> QED  BY <1>2, <1>3, <1>4 DEF VideoInv

\* The display gives one back, or the frame is not shown.
LEMMA DrawInv == VideoInv /\ (V!NotShown \/ V!draw_finished) => VideoInv'
<1> SUFFICES ASSUME VideoInv, V!NotShown \/ V!draw_finished
             PROVE  VideoInv'
  OBVIOUS
<1>1. CASE V!NotShown
  <2>1. /\ UNCHANGED <<deck, vdec, lcd, reads, torn, mixed>>
        /\ picture' = <<"idle", "none", "none">>
    BY <1>1 DEF V!NotShown, V!Move
  <2> QED
    BY <2>1 DEF VideoInv, LcdFields, VdecFields, OutFormats, LcdUse, Underway, Buffered, NotTorn,
      TwoBuffers, V!Target
<1>2. CASE V!draw_finished
  <2>1. /\ UNCHANGED <<deck, vdec, picture, torn>>
        /\ reads # <<>> /\ reads' = Tail(reads)
        /\ mixed' = (mixed /\ Tail(reads) # <<>>)
        /\ lcd' = [lcd EXCEPT !.drawing = FALSE]
    BY <1>2 DEF V!draw_finished
  <2>2. LcdKept /\ lcd'.sel = lcd.sel /\ LcdFields'
    BY <2>1 DEF LcdKept, VideoInv, LcdFields
  <2>3. VdecFields' /\ OutFormats' /\ LcdUse' /\ Underway' /\ Buffered'
    BY <2>1, <2>2 DEF LcdKept, VideoInv, VdecFields, OutFormats, LcdUse, Underway, Buffered,
      TwoBuffers, V!Target, V!DecodesInto
  <2>4. NotTorn'
    <3> SUFFICES ASSUME TwoBuffers  PROVE NotTorn'
      BY <2>1 DEF NotTorn, TwoBuffers
    <3>1. reads \in Seq(Shown) /\ "picture" \notin torn'
      BY <2>1 DEF VideoInv, NotTorn
    <3>2. /\ reads' \in Seq(Shown)
          /\ \A i \in DOMAIN reads' : i + 1 \in DOMAIN reads /\ reads'[i] = reads[i + 1] /\ i + 1 # 1
      BY <2>1, <3>1
    <3>3. ~mixed' => ~mixed \/ DOMAIN reads' = {}
      <4>1. Tail(reads) = <<>> => DOMAIN Tail(reads) = {}
        OBVIOUS
      <4> QED  BY <2>1, <4>1
    <3>4. ASSUME ~mixed', NEW i \in DOMAIN reads'  PROVE reads'[i].kind # "picture"
      BY <3>2, <3>3, <3>4 DEF VideoInv, NotTorn
    <3> QED  BY <3>1, <3>2, <3>4 DEF NotTorn
  <2> QED  BY <2>2, <2>3, <2>4 DEF VideoInv
<1> QED  BY <1>1, <1>2

LEMMA VideoResetInv == VideoInv /\ V!Reset => VideoInv'
<1> SUFFICES ASSUME VideoInv, V!Reset
             PROVE  VideoInv'
  OBVIOUS
<1>1. /\ picture[1] = "idle" /\ UNCHANGED <<deck, picture, mixed>>
      /\ vdec' = V!Vdec0 /\ V!lcd_render_clear /\ lcd' = V!Closed
  BY DEF V!Reset, V!Is
<1>2. /\ DOMAIN lcd' = DOMAIN lcd /\ lcd'.sel = lcd.sel /\ lcd'.drawing = lcd.drawing
      /\ lcd'.type = lcd.type /\ ~lcd'.is_open /\ lcd'.ref_count = 1
  BY <1>1, ClosedLcd DEF VideoInv
<1>3. LcdFields' /\ VdecFields' /\ OutFormats' /\ Underway' /\ LcdUse'
  BY <1>1, <1>2 DEF VideoInv, LcdFields, VdecFields, OutFormats, Underway, LcdUse, V!Vdec0
<1>4. Buffered'
  BY <1>1 DEF Buffered, TwoBuffers
<1>5. NotTorn'
  BY <1>1, <1>2, ClearTears DEF VideoInv
<1> QED  BY <1>3, <1>4, <1>5 DEF VideoInv

LEMMA VideoNextInv == VideoInv /\ V!VideoNext => VideoInv'
BY VdecOpenInv, HeaderInv, DecodeInv, ConvertInv, RenderOpenInv, FrameReachedInv, WriteInv, DrawInv,
  VideoResetInv DEF V!VideoNext

LEMMA VideoKept == VideoInv /\ UNCHANGED video_vars => VideoInv'
BY DEF video_vars, VideoInv, LcdFields, VdecFields, OutFormats, Underway, Buffered, NotTorn, LcdUse,
  TwoBuffers, V!Target, V!DecodesInto

LEMMA VideoInvHolds == VideoInv => DrawnIsWhole
BY DEF VideoInv, Underway, NotTorn, LcdUse, TwoBuffers, DrawnIsWhole, V!DrawnIsWhole, V!Is,
  V!lcd_render_format_supported

\* DrawnIsWhole, for any number of frames and streams: the display is given its own
\* format wherever the picture is converted, and of its two buffers none is written
\* in which it still reads a picture, while no blank one holds it up.
THEOREM DrawnStaysWhole == Spec => []DrawnIsWhole
<1>1. Init => VideoInv
  BY VideoInitInv DEF Init
<1>2. VideoInv /\ [Next]_vars => VideoInv'
  BY VideoNextInv, VideoKept DEF Next, vars
<1>3. VideoInv => DrawnIsWhole
  BY VideoInvHolds
<1> QED  BY <1>1, <1>2, <1>3, PTL DEF Spec

-----------------------------------------------------------------------------
(* The way of an audio frame *)

Sides == {"channel", "bits", "sample_rate"}
IsSeq(s) == s \in Seq({s[i] : i \in DOMAIN s})
FrameFields == {"step", "n", "size", "info", "ops", "last"}
AudioTypes ==
  /\ DOMAIN adec = {"open", "header_parsed", "info", "truth", "header"}
  /\ DOMAIN sound = {"added", "reached", "pcm", "info", "out", "resample"}
  /\ DOMAIN render = {"is_open", "ref_count", "info", "freed"}
  /\ DOMAIN frame = FrameFields
  /\ DOMAIN work = {1, 2} /\ \A i \in {1, 2} : DOMAIN work[i] = {"size", "used"}
  /\ IsSeq(fifo)
  /\ fixed \in {{}} \cup {{i} : i \in A!Infos}
  /\ sound.out \in {{}} \cup {{i} : i \in A!Infos}

\* A stream is decoded or it is PCM, and the header tells what its frames are.
Stream ==
  /\ sound.pcm => ~adec.open /\ (sound.added => sound.info \in A!Infos)
  /\ adec.open => sound.added /\ adec.info \in A!Infos /\ adec.truth \in A!Infos
  /\ adec.header_parsed => adec.info = adec.truth
  /\ adec.header = {} => adec.truth = adec.info
  /\ adec.header # {} => adec.truth = A!The(adec.header)
Current == IF sound.pcm THEN sound.info ELSE adec.truth

\* The resampler is one between two formats that differ.
Resampling ==
  \/ sound.resample = {}
  \/ \E in, out \in A!Infos : in # out /\ sound.resample = {A!audio_resample_open(in, out)}

\* Once the first frame is there the render is open with the stream's format, or with
\* that which it is converted to, and nothing is queued before.
Rendering ==
  why = {} =>
    IF ~sound.reached THEN fifo = <<>>
    ELSE /\ sound.pcm \/ adec.header_parsed
         /\ sound.resample = {} => render.info = Current
         /\ sound.resample # {} => A!Resampler.in = Current /\ A!Resampler.out = render.info

\* The frame on its way.
Measured == frame.size = frame.n * A!SAMPLE_SIZE(frame.info)
Converting ==
  /\ sound.resample # {} /\ frame.info \in A!Infos /\ frame.ops \in Seq(Sides)
  /\ frame.last = 0 => frame.ops # <<>>
  /\ frame.last # 0 => Measured
  /\ why = {} => \A f \in Sides :
       frame.info[f] = A!Resampler.out[f] \/ \E i \in DOMAIN frame.ops : frame.ops[i] = f
OnItsWay ==
  /\ frame.step \in {"idle", "reached", "resample", "deliver"}
  /\ frame.step # "idle" => sound.added /\ (sound.pcm \/ adec.open)
  /\ frame.step = "reached" => frame.info = Current /\ Measured /\ frame.last = 0
  /\ frame.step \in {"resample", "deliver"} => sound.reached
  /\ frame.step = "resample" => Converting
  /\ frame.step = "deliver" => Measured /\ (why = {} /\ frame.size > 0 => frame.info = render.info)

Queued == why = {} => \A i \in DOMAIN fifo : fifo[i].size > 0 => fifo[i].info = render.info

\* At most the buffer of the last conversion is in use.
Buffers ==
  \A i \in {1, 2} : work[i].used <=> frame.step = "resample" /\ frame.last = i

RenderUse ==
  /\ render.ref_count = IF render.freed THEN 0 ELSE IF render.is_open THEN 2 ELSE 1
  /\ render.is_open => sound.added
  /\ render.freed => ~sound.added
  /\ frame.last \in {0, 1, 2}

AudioInv ==
  AudioTypes /\ Stream /\ Resampling /\ Rendering /\ OnItsWay /\ Queued /\ Buffers /\ RenderUse
  /\ ~wrong

-----------------------------------------------------------------------------
(* The model's operators *)

LEMMA TheOne == ASSUME NEW x  PROVE A!The({x}) = x
BY DEF A!The

\* A conversion is asked for whatever differs, and of nothing else.
LEMMA OpsCover ==
  ASSUME NEW in \in A!Infos, NEW out \in A!Infos
  PROVE  LET ops == A!sort_resample_ops(in, out)
         IN  /\ ops \in Seq(Sides)
             /\ \A f \in Sides : in[f] = out[f] \/ \E i \in DOMAIN ops : ops[i] = f
             /\ in # out => ops # <<>>
<1> DEFINE s1 == IF in.channel > out.channel THEN <<"channel">> ELSE <<>>
           s2 == IF in.bits > out.bits THEN <<"bits">> ELSE <<>>
           s3 == IF in.sample_rate # out.sample_rate THEN <<"sample_rate">> ELSE <<>>
           s4 == IF in.bits < out.bits THEN <<"bits">> ELSE <<>>
           s5 == IF in.channel < out.channel THEN <<"channel">> ELSE <<>>
           Finds(s, f) == \E i \in DOMAIN s : s[i] = f
<1>1. /\ s1 \in Seq(Sides) /\ s2 \in Seq(Sides) /\ s3 \in Seq(Sides) /\ s4 \in Seq(Sides)
      /\ s5 \in Seq(Sides)
  <2>1. <<>> \in Seq(Sides) /\ \A x \in Sides : <<x>> \in Seq(Sides)
    OBVIOUS
  <2>2. /\ <<"channel">> \in Seq(Sides) /\ <<"bits">> \in Seq(Sides)
        /\ <<"sample_rate">> \in Seq(Sides)
    BY <2>1 DEF Sides
  <2> HIDE DEF Sides
  <2> QED  BY <2>1, <2>2, Zenon
<1>2. /\ in.channel > out.channel => Finds(s1, "channel")
      /\ in.bits > out.bits => Finds(s2, "bits")
      /\ in.sample_rate # out.sample_rate => Finds(s3, "sample_rate")
      /\ in.bits < out.bits => Finds(s4, "bits")
      /\ in.channel < out.channel => Finds(s5, "channel")
  OBVIOUS
<1> HIDE DEF s1, s2, s3, s4, s5
<1>3. ASSUME NEW s \in Seq(Sides), NEW t \in Seq(Sides), NEW f
      PROVE  s \o t \in Seq(Sides) /\ (Finds(s, f) \/ Finds(t, f) => Finds(s \o t, f))
  <2>1. /\ s \o t \in Seq(Sides) /\ Len(s \o t) = Len(s) + Len(t)
        /\ \A i \in 1..Len(s) : (s \o t)[i] = s[i]
        /\ \A i \in 1..Len(t) : (s \o t)[Len(s) + i] = t[i]
    OBVIOUS
  <2>2. ASSUME NEW i \in DOMAIN s, s[i] = f
        PROVE  Finds(s \o t, f)
    <3>1. i \in DOMAIN (s \o t) /\ (s \o t)[i] = f
      BY <2>1, <2>2
    <3> QED  BY <3>1
  <2>3. ASSUME NEW i \in DOMAIN t, t[i] = f
        PROVE  Finds(s \o t, f)
    <3>1. Len(s) + i \in DOMAIN (s \o t) /\ (s \o t)[Len(s) + i] = f
      BY <2>1, <2>3
    <3> QED  BY <3>1
  <2> QED  BY <2>1, <2>2, <2>3
<1> DEFINE ops == s1 \o s2 \o s3 \o s4 \o s5
<1> HIDE DEF Finds
<1>4. /\ ops \in Seq(Sides)
      /\ \A f : Finds(s1, f) \/ Finds(s2, f) \/ Finds(s3, f) \/ Finds(s4, f) \/ Finds(s5, f) =>
                  Finds(ops, f)
  <2>1. /\ s1 \o s2 \in Seq(Sides)
        /\ \A f : Finds(s1, f) \/ Finds(s2, f) => Finds(s1 \o s2, f)
    BY <1>1, <1>3
  <2>2. /\ s1 \o s2 \o s3 \in Seq(Sides)
        /\ \A f : Finds(s1 \o s2, f) \/ Finds(s3, f) => Finds(s1 \o s2 \o s3, f)
    BY <1>1, <1>3, <2>1
  <2>3. /\ s1 \o s2 \o s3 \o s4 \in Seq(Sides)
        /\ \A f : Finds(s1 \o s2 \o s3, f) \/ Finds(s4, f) => Finds(s1 \o s2 \o s3 \o s4, f)
    BY <1>1, <1>3, <2>2
  <2>4. /\ ops \in Seq(Sides)
        /\ \A f : Finds(s1 \o s2 \o s3 \o s4, f) \/ Finds(s5, f) => Finds(ops, f)
    BY <1>1, <1>3, <2>3
  <2> QED  BY <2>1, <2>2, <2>3, <2>4
<1> HIDE DEF ops
<1>5. \A f \in Sides : in[f] = out[f] \/ Finds(ops, f)
  <2>1. in.channel \in Int /\ out.channel \in Int /\ in.bits \in Int /\ out.bits \in Int
    BY DEF A!Infos
  <2> QED  BY <1>2, <1>4, <2>1 DEF Sides
<1>6. in # out => \E f \in Sides : in[f] # out[f]
  BY DEF A!Infos, Sides
<1>7. in # out => ops # <<>>
  BY <1>5, <1>6 DEF Finds
<1>8. ops = A!sort_resample_ops(in, out)
  BY DEF ops, s1, s2, s3, s4, s5, A!sort_resample_ops
<1> QED  BY <1>4, <1>5, <1>7, <1>8 DEF Finds

\* The resampler that is there.
LEMMA TheResampler ==
  ASSUME Resampling, sound.resample # {}
  PROVE  /\ A!Resampler.in \in A!Infos /\ A!Resampler.out \in A!Infos
         /\ A!Resampler.in # A!Resampler.out
         /\ A!Resampler.ops = A!sort_resample_ops(A!Resampler.in, A!Resampler.out)
<1>1. PICK in \in A!Infos, out \in A!Infos :
        in # out /\ sound.resample = {A!audio_resample_open(in, out)}
  BY DEF Resampling
<1>2. A!Resampler = A!audio_resample_open(in, out)
  BY <1>1, TheOne DEF A!Resampler
<1> QED  BY <1>1, <1>2 DEF A!audio_resample_open

\* A buffer that is free is found.
LEMMA FreeBuffer ==
  ASSUME NEW size, DOMAIN work = {1, 2}, \A i \in {1, 2} : DOMAIN work[i] = {"size", "used"},
         NEW k \in {1, 2}, ~work[k].used
  PROVE  LET a == A!alloc_work_buf(size)
         IN  /\ a.buf \in {1, 2} /\ ~work[a.buf].used
             /\ DOMAIN a.work = {1, 2} /\ \A i \in {1, 2} : DOMAIN a.work[i] = {"size", "used"}
             /\ a.work[a.buf].used
             /\ \A i \in {1, 2} \ {a.buf} : a.work[i] = work[i]
<1> DEFINE free == {i \in {1, 2} : ~work[i].used}
           first == CHOOSE m \in free : \A j \in free : m <= j
<1>1. \E m \in free : \A j \in free : m <= j
  <2>1. CASE 1 \in free
    BY <2>1
  <2>2. CASE 1 \notin free
    BY <2>2
  <2> QED  BY <2>1, <2>2
<1>2. first \in free
  BY <1>1
<1> HIDE DEF first
<1>3. first \in {1, 2} /\ ~work[first].used
  BY <1>2
<1> DEFINE b == [used |-> TRUE, size |-> IF size > work[first].size THEN size ELSE work[first].size]
           w == [work EXCEPT ![first] = b]
<1>4. A!alloc_work_buf(size) = [buf |-> first, work |-> w]
  BY DEF A!alloc_work_buf, first
<1>5. DOMAIN b = {"size", "used"} /\ b.used
  OBVIOUS
<1> HIDE DEF b
<1>6. DOMAIN w = {1, 2} /\ w[first] = b /\ \A i \in {1, 2} \ {first} : w[i] = work[i]
  BY <1>3
<1> HIDE DEF w
<1> QED  BY <1>3, <1>4, <1>5, <1>6

LEMMA SeqOfIts ==
  /\ \A s, x : IsSeq(s) => /\ IsSeq(Append(s, x))
                           /\ DOMAIN Append(s, x) = DOMAIN s \cup {Len(s) + 1}
                           /\ \A i \in DOMAIN s : Append(s, x)[i] = s[i]
                           /\ Append(s, x)[Len(s) + 1] = x
  /\ \A s : IsSeq(s) /\ s # <<>> =>
       /\ IsSeq(Tail(s)) /\ Head(s) = s[1] /\ 1 \in DOMAIN s
       /\ \A i \in DOMAIN Tail(s) : i + 1 \in DOMAIN s /\ Tail(s)[i] = s[i + 1]
<1>1. ASSUME NEW s, NEW x, IsSeq(s)
      PROVE  /\ IsSeq(Append(s, x)) /\ DOMAIN Append(s, x) = DOMAIN s \cup {Len(s) + 1}
             /\ \A i \in DOMAIN s : Append(s, x)[i] = s[i]
             /\ Append(s, x)[Len(s) + 1] = x
  <2> DEFINE S == {s[i] : i \in DOMAIN s}
             T == S \cup {x}
  <2>1. s \in Seq(T)
    BY <1>1 DEF IsSeq
  <2> HIDE DEF T
  <2>2. x \in T
    BY DEF T
  <2>3. /\ Append(s, x) \in Seq(T) /\ Len(Append(s, x)) = Len(s) + 1
        /\ DOMAIN Append(s, x) = DOMAIN s \cup {Len(s) + 1}
        /\ \A i \in DOMAIN s : Append(s, x)[i] = s[i]
        /\ Append(s, x)[Len(s) + 1] = x
    BY <2>1, <2>2
  <2>4. IsSeq(Append(s, x))
    BY <2>3 DEF IsSeq
  <2> QED  BY <2>3, <2>4
<1>2. ASSUME NEW s, IsSeq(s), s # <<>>
      PROVE  /\ IsSeq(Tail(s)) /\ Head(s) = s[1] /\ 1 \in DOMAIN s
             /\ \A i \in DOMAIN Tail(s) : i + 1 \in DOMAIN s /\ Tail(s)[i] = s[i + 1]
  <2> DEFINE S == {s[i] : i \in DOMAIN s}
  <2>1. s \in Seq(S)
    BY <1>2 DEF IsSeq
  <2> HIDE DEF S
  <2>2. /\ Tail(s) \in Seq(S) /\ Head(s) = s[1] /\ 1 \in DOMAIN s
        /\ \A i \in DOMAIN Tail(s) : i + 1 \in DOMAIN s /\ Tail(s)[i] = s[i + 1]
    BY <2>1, <1>2
  <2>3. IsSeq(Tail(s))
    <3> DEFINE t == Tail(s)
    <3>1. t \in Seq(S) /\ Len(t) \in Nat /\ DOMAIN t = 1..Len(t)
      BY <2>2
    <3> HIDE DEF t
    <3>2. t \in Seq({t[i] : i \in DOMAIN t})
      BY <3>1
    <3> QED  BY <3>2 DEF IsSeq, t
  <2> QED  BY <2>2, <2>3
<1> QED  BY <1>1, <1>2

-----------------------------------------------------------------------------
LEMMA AudioInitInv == A!AudioInit /\ MCFixed \subseteq A!Infos => AudioInv
<1> SUFFICES ASSUME A!AudioInit, MCFixed \subseteq A!Infos
             PROVE  AudioInv
  OBVIOUS
<1>1. /\ fixed \in {{}} \cup {{i} : i \in MCFixed}
      /\ adec = A!Adec0 /\ sound = A!Res0 /\ work = A!Work0 /\ frame = A!Idle
      /\ render = [is_open |-> FALSE, ref_count |-> 1, info |-> A!Nobody, freed |-> FALSE]
      /\ fifo = <<>> /\ wrong = FALSE /\ why = {}
  BY DEF A!AudioInit
<1>2. IsSeq(<<>>)
  BY DEF IsSeq
<1>3. AudioTypes
  BY <1>1, <1>2 DEF AudioTypes, A!Adec0, A!Res0, A!Work0, A!Idle, FrameFields
<1>4. Stream /\ Resampling /\ Rendering /\ Queued
  BY <1>1 DEF Stream, Resampling, Rendering, Queued, A!Adec0, A!Res0
<1>5. OnItsWay /\ Buffers /\ RenderUse
  BY <1>1 DEF OnItsWay, Buffers, RenderUse, A!Work0, A!Idle
<1> QED  BY <1>1, <1>3, <1>4, <1>5 DEF AudioInv

\* The sources at hand.
LEMMA SourceTypes ==
  \A s \in MCSources :
    /\ s.info \in A!Infos
    /\ s.header = {} \/ \E h \in A!Infos : s.header = {h}
<1> DEFINE f == Format(1, 2, 1)
           g == Format(1, 1, 2)
           h == Format(2, 2, 2)
           k == Format(2, 1, 1)
<1>1. f \in A!Infos /\ g \in A!Infos /\ h \in A!Infos /\ k \in A!Infos
  BY DEF Format, A!Infos
<1>2. MCSources = [info : {f}, header : {{}, {h}, {k}}, pcm : {FALSE}]
                    \cup [info : {g}, header : {{}}, pcm : {TRUE}]
  BY DEF MCSources
<1> HIDE DEF f, g, h, k
<1> QED  BY <1>1, <1>2

LEMMA FixedTypes == MCFixed \subseteq A!Infos
BY DEF MCFixed, Format, A!Infos

LEMMA AddStreamInv ==
  ASSUME NEW s \in MCSources, AudioInv, A!AddStream(s)
  PROVE  AudioInv'
<1>1. /\ frame.step = "idle" /\ ~render.freed
      /\ adec' = IF s.pcm THEN A!Adec0
                 ELSE [A!Adec0 EXCEPT !.open = TRUE, !.info = s.info, !.header = s.header,
                         !.truth = IF s.header = {} THEN s.info ELSE A!The(s.header)]
      /\ sound' = [sound EXCEPT !.added = TRUE, !.reached = FALSE, !.pcm = s.pcm,
                     !.info = IF s.pcm THEN s.info ELSE @,
                     !.out = IF fixed = {} THEN @ ELSE fixed]
      /\ why' = IF fifo = <<>> THEN why ELSE why \cup {"renewed"}
      /\ UNCHANGED <<fixed, render, work, frame, fifo, wrong>>
  BY DEF A!AddStream, A!At
<1>2. /\ DOMAIN sound' = DOMAIN sound /\ sound'.added = TRUE /\ sound'.reached = FALSE
      /\ sound'.pcm = s.pcm /\ sound'.resample = sound.resample
      /\ sound'.info = IF s.pcm THEN s.info ELSE sound.info
      /\ sound'.out = IF fixed = {} THEN sound.out ELSE fixed
  BY <1>1 DEF AudioInv, AudioTypes
<1>3. /\ DOMAIN adec' = {"open", "header_parsed", "info", "truth", "header"}
      /\ adec'.header_parsed = FALSE /\ adec'.open = ~s.pcm
      /\ ~s.pcm => /\ adec'.info = s.info /\ adec'.header = s.header
                   /\ adec'.truth = IF s.header = {} THEN s.info ELSE A!The(s.header)
      /\ s.pcm => adec' = A!Adec0
  BY <1>1 DEF A!Adec0, MCSources
<1>4. s.info \in A!Infos /\ (s.header # {} => A!The(s.header) \in A!Infos)
  BY SourceTypes, TheOne
<1>5. why' = {} => why = {} /\ fifo = <<>>
  BY <1>1
<1>6. AudioTypes'
  BY <1>1, <1>2, <1>3 DEF AudioInv, AudioTypes
<1>7. Stream'
  BY <1>2, <1>3, <1>4 DEF Stream, A!Adec0
<1>8. Resampling' /\ Rendering'
  BY <1>1, <1>2, <1>5 DEF AudioInv, Resampling, Rendering
<1>9. OnItsWay' /\ RenderUse' /\ Buffers'
  BY <1>1, <1>2 DEF AudioInv, OnItsWay, RenderUse, Buffers
<1>10. Queued'
  BY <1>1, <1>5 DEF AudioInv, Queued
<1> QED  BY <1>1, <1>6, <1>7, <1>8, <1>9, <1>10 DEF AudioInv

\* A frame comes: all that is said of the stream stays.
LEMMA FrameComes ==
  ASSUME NEW n, NEW info, AudioInv, frame.step = "idle", sound.added,
         frame' = [A!Idle EXCEPT !.step = "reached", !.n = n, !.info = info,
                     !.size = n * A!SAMPLE_SIZE(info)],
         AudioTypes', Stream',
         UNCHANGED <<sound, render, work, fifo, why, wrong>>, adec'.truth = adec.truth,
         adec'.open = adec.open, info = Current, sound.pcm \/ adec.open,
         adec.header_parsed => adec'.header_parsed
  PROVE  AudioInv'
<1>1. /\ frame'.step = "reached" /\ frame'.info = info /\ frame'.n = n /\ frame'.last = 0
      /\ frame'.size = n * A!SAMPLE_SIZE(info)
  BY DEF A!Idle
<1>2. Resampling' /\ Queued'
  BY DEF AudioInv, Resampling, Queued
<1>3. Rendering'
  BY DEF AudioInv, Rendering, Current, A!Resampler
<1>4. OnItsWay'
  BY <1>1 DEF OnItsWay, Current, Measured
<1>5. RenderUse' /\ Buffers'
  BY <1>1 DEF AudioInv, RenderUse, Buffers
<1> QED  BY <1>2, <1>3, <1>4, <1>5 DEF AudioInv

LEMMA PcmFrameInv ==
  ASSUME NEW n, AudioInv, A!PcmFrame(n)
  PROVE  AudioInv'
<1>1. /\ frame.step = "idle" /\ sound.added /\ sound.pcm
      /\ frame' = [A!Idle EXCEPT !.step = "reached", !.n = n, !.info = sound.info,
                     !.size = n * A!SAMPLE_SIZE(sound.info)]
      /\ UNCHANGED <<fixed, adec, sound, render, work, fifo, wrong, why>>
  BY DEF A!PcmFrame, A!At
<1>2. DOMAIN frame' = FrameFields
  BY <1>1 DEF A!Idle, FrameFields
<1>3. AudioTypes' /\ Stream'
  BY <1>1, <1>2 DEF AudioInv, AudioTypes, Stream
<1>4. sound.info = Current
  BY <1>1 DEF Current
<1> QED  BY <1>1, <1>3, <1>4, FrameComes

LEMMA DecoderInv ==
  ASSUME NEW n, AudioInv, A!decoder_one_frame(n)
  PROVE  AudioInv'
<1>1. /\ frame.step = "idle" /\ adec.open
      /\ A!Decoded(n) \/ UNCHANGED <<adec, frame>>
      /\ UNCHANGED <<fixed, sound, render, work, fifo, wrong, why>>
  BY DEF A!decoder_one_frame, A!At
<1>2. CASE UNCHANGED <<adec, frame>>
  BY <1>1, <1>2 DEF AudioInv, AudioTypes, Stream, Resampling, Rendering, OnItsWay, Queued, Buffers,
    RenderUse, Current, A!Resampler, Measured, Converting
<1>3. CASE A!Decoded(n)
  <2>1. /\ adec' = [adec EXCEPT
              !.header_parsed = @ \/ n > 0,
              !.info = IF A!Header(n) /\ adec.header # {} THEN A!The(adec.header) ELSE @]
        /\ frame' = [A!Idle EXCEPT !.step = "reached", !.n = n, !.info = adec.truth,
                       !.size = n * A!SAMPLE_SIZE(adec.truth)]
    BY <1>3 DEF A!Decoded
  <2>2. /\ DOMAIN adec' = DOMAIN adec /\ adec'.truth = adec.truth /\ adec'.open = adec.open
        /\ adec'.header = adec.header
        /\ adec'.header_parsed = (adec.header_parsed \/ n > 0)
        /\ adec'.info = IF A!Header(n) /\ adec.header # {} THEN A!The(adec.header) ELSE adec.info
    BY <2>1 DEF AudioInv, AudioTypes
  <2>3. DOMAIN frame' = FrameFields
    BY <2>1 DEF A!Idle, FrameFields
  <2>4. AudioTypes'
    BY <1>1, <2>2, <2>3 DEF AudioInv, AudioTypes
  <2>5. adec.header # {} => A!The(adec.header) = adec.truth
    BY DEF AudioInv, Stream
  <2>6. adec'.info \in {adec.info, adec.truth}
    BY <2>2, <2>5
  <2>7. adec'.header_parsed => adec'.info = adec'.truth
    <3>1. CASE adec.header_parsed
      BY <2>2, <2>5, <3>1 DEF AudioInv, Stream
    <3>2. CASE ~adec.header_parsed /\ n > 0
      BY <2>2, <2>5, <3>2 DEF A!Header, AudioInv, Stream
    <3> QED  BY <2>2, <3>1, <3>2
  <2>8. Stream'
    <3>1. adec.header = {} => adec'.info = adec.info
      BY <2>2
    <3> QED  BY <1>1, <2>2, <2>5, <2>6, <2>7, <3>1 DEF AudioInv, Stream
  <2>9. ~sound.pcm /\ sound.added
    BY <1>1 DEF AudioInv, Stream
  <2>10. adec.truth = Current
    BY <2>9 DEF Current
  <2> QED  BY <1>1, <2>1, <2>2, <2>4, <2>8, <2>9, <2>10, FrameComes
<1> QED  BY <1>1, <1>2, <1>3

-----------------------------------------------------------------------------
(* The first frame opens the render, the others go to the resampler or on *)

LEMMA FirstReachedInv == AudioInv /\ A!FirstReached => AudioInv'
<1> SUFFICES ASSUME AudioInv, A!FirstReached
             PROVE  AudioInv'
  OBVIOUS
<1> DEFINE info == IF sound.pcm THEN sound.info ELSE adec.info
           fit == sound.out # {} /\ sound.out # {info}
           want == IF fit THEN A!The(sound.out) ELSE info
           resample == IF fit THEN {A!audio_resample_open(info, want)} ELSE {}
<1>1. /\ frame.step = "reached" /\ ~render.freed /\ ~sound.reached
      /\ work' = A!Work0
      /\ why' = IF ~sound.pcm /\ ~adec.header_parsed THEN why \cup {"early"} ELSE why
      /\ UNCHANGED <<fixed, adec, fifo, wrong>>
  BY DEF A!FirstReached, A!At
<1>2. PICK ok \in BOOLEAN :
        /\ render' = IF ok THEN A!Opened(A!Closed(render), want) ELSE A!Closed(render)
        /\ sound' = [sound EXCEPT !.info = info, !.reached = ok, !.resample = resample]
        /\ frame' = IF ok THEN frame ELSE A!Idle
  BY DEF A!FirstReached
<1>3. info \in A!Infos
  BY <1>1 DEF AudioInv, Stream, OnItsWay
<1>4. /\ want \in A!Infos
      /\ fit => info # want
  <2>1. CASE ~fit
    BY <1>3, <2>1
  <2>2. CASE fit
    <3>1. PICK i \in A!Infos : sound.out = {i}
      BY <2>2 DEF AudioInv, AudioTypes
    <3> QED  BY <2>2, <3>1, TheOne
  <2> QED  BY <2>1, <2>2
<1>5. sound.pcm \/ adec.header_parsed => info = Current
  BY DEF Current, AudioInv, Stream
<1> HIDE DEF info, fit, want
<1>6. \/ resample = {} /\ want = info
      \/ /\ info # want /\ resample = {A!audio_resample_open(info, want)}
         /\ A!The(resample) = A!audio_resample_open(info, want)
  BY <1>4, TheOne DEF want
<1> HIDE DEF resample
<1>7. /\ DOMAIN sound' = DOMAIN sound /\ sound'.added = sound.added /\ sound'.reached = ok
      /\ sound'.pcm = sound.pcm /\ sound'.info = info /\ sound'.out = sound.out
      /\ sound'.resample = resample
  BY <1>2 DEF AudioInv, AudioTypes
<1>8. sound.added /\ (sound.pcm \/ adec.open) /\ frame.info = Current /\ Measured /\ frame.last = 0
  BY <1>1 DEF AudioInv, OnItsWay
<1>9. Current' = IF sound.pcm THEN info ELSE adec.truth
  BY <1>1, <1>7 DEF Current
<1>10. frame.info = Current'
  BY <1>8, <1>9 DEF Current, info
<1>11. /\ DOMAIN render' = {"is_open", "ref_count", "info", "freed"}
       /\ ok => render'.info = want
       /\ render'.freed = FALSE /\ render'.is_open = ok
       /\ render'.ref_count = IF ok THEN 2 ELSE 1
  <2>1. /\ DOMAIN A!Closed(render) = {"is_open", "ref_count", "info", "freed"}
        /\ A!Closed(render).freed = FALSE /\ A!Closed(render).is_open = FALSE
        /\ A!Closed(render).ref_count = 1
    <3>1. CASE render.is_open
      BY <1>1, <3>1 DEF A!Closed, AudioInv, AudioTypes, RenderUse
    <3>2. CASE ~render.is_open
      BY <1>1, <3>2 DEF A!Closed, AudioInv, AudioTypes, RenderUse
    <3> QED  BY <3>1, <3>2
  <2> DEFINE closed == A!Closed(render)
  <2> HIDE DEF closed
  <2>2. CASE ok
    <3>1. render' = [closed EXCEPT !.is_open = TRUE, !.ref_count = @ + 1, !.info = want]
      BY <1>2, <2>2 DEF A!Opened, closed
    <3> QED  BY <2>1, <2>2, <3>1 DEF closed
  <2>3. CASE ~ok
    BY <1>2, <2>1, <2>3
  <2> QED  BY <2>2, <2>3
<1>12. /\ DOMAIN frame' = FrameFields /\ frame'.last = 0
       /\ \/ ok /\ frame'.step = "reached" /\ frame' = frame
          \/ ~ok /\ frame'.step = "idle"
  BY <1>1, <1>2, <1>8 DEF A!Idle, FrameFields, AudioInv, AudioTypes
<1>13. AudioTypes'
  BY <1>1, <1>7, <1>11, <1>12 DEF AudioInv, AudioTypes, A!Work0
<1>14. Stream'
  BY <1>1, <1>3, <1>7 DEF AudioInv, Stream
<1>15. Resampling'
  BY <1>3, <1>4, <1>6, <1>7 DEF Resampling
<1>16. why' = {} => why = {} /\ fifo = <<>> /\ (sound.pcm \/ adec.header_parsed)
  BY <1>1 DEF AudioInv, Rendering
<1>17. Rendering'
  <2>1. ASSUME why' = {}, ok
        PROVE  /\ sound'.pcm \/ adec'.header_parsed
               /\ sound'.resample = {} => render'.info = Current'
               /\ sound'.resample # {} => (A!Resampler)'.in = Current' /\ (A!Resampler)'.out = render'.info
    <3>1. Current' = info
      BY <1>5, <1>16, <2>1, <1>9 DEF Current
    <3>2. (A!Resampler)' = A!The(resample)
      BY <1>7 DEF A!Resampler
    <3> QED  BY <1>1, <1>6, <1>7, <1>11, <1>16, <2>1, <3>1, <3>2 DEF A!audio_resample_open
  <2>2. ASSUME why' = {}, ~ok
        PROVE  fifo' = <<>>
    BY <1>1, <1>16, <2>2
  <2> QED  BY <1>7, <2>1, <2>2 DEF Rendering
<1>18. OnItsWay'
  BY <1>1, <1>7, <1>8, <1>10, <1>12 DEF OnItsWay, Measured
<1>19. Queued'
  BY <1>1, <1>16 DEF Queued
<1>20. Buffers' /\ RenderUse'
  BY <1>1, <1>7, <1>8, <1>11, <1>12 DEF Buffers, RenderUse, A!Work0
<1> QED  BY <1>1, <1>13, <1>14, <1>15, <1>17, <1>18, <1>19, <1>20 DEF AudioInv

\* What holds of the stream and the render holds when only the frame goes on.
LEMMA FrameGoesOn ==
  ASSUME AudioInv, UNCHANGED <<fixed, adec, sound, render, fifo, wrong, why>>,
         DOMAIN frame' = FrameFields,
         DOMAIN work' = {1, 2}, \A i \in {1, 2} : DOMAIN work'[i] = {"size", "used"},
         frame'.last \in {0, 1, 2}, OnItsWay', Buffers'
  PROVE  AudioInv'
<1>1. AudioTypes' /\ Stream' /\ Resampling' /\ Queued' /\ RenderUse'
  BY DEF AudioInv, AudioTypes, Stream, Resampling, Queued, RenderUse
<1>2. Rendering'
  BY DEF AudioInv, Rendering, Current, A!Resampler
<1> QED  BY <1>1, <1>2 DEF AudioInv

LEMMA AudioReachedInv == AudioInv /\ A!FrameReached => AudioInv'
<1> SUFFICES ASSUME AudioInv, A!FrameReached
             PROVE  AudioInv'
  OBVIOUS
<1>1. /\ frame.step = "reached" /\ sound.reached
      /\ UNCHANGED <<fixed, adec, sound, render, work, fifo, wrong, why>>
      /\ frame' = IF sound.resample # {} /\ frame.size > 0
                    THEN [frame EXCEPT !.step = "resample", !.ops = A!Resampler.ops,
                            !.n = frame.size \div A!SAMPLE_SIZE(A!Resampler.in)]
                    ELSE [frame EXCEPT !.step = "deliver"]
  BY DEF A!FrameReached, A!At
<1>2. /\ sound.added /\ (sound.pcm \/ adec.open) /\ frame.info = Current /\ Measured
      /\ frame.last = 0
  BY <1>1 DEF AudioInv, OnItsWay
<1>3. Current \in A!Infos
  BY <1>2 DEF AudioInv, Stream, Current
<1>4. /\ DOMAIN frame' = FrameFields /\ frame'.last = 0 /\ frame'.info = frame.info
      /\ frame'.size = frame.size
  BY <1>1, <1>2 DEF AudioInv, AudioTypes, FrameFields
<1>5. OnItsWay' /\ Buffers'
  <2>1. CASE sound.resample # {} /\ frame.size > 0
    <3> DEFINE ops == A!sort_resample_ops(A!Resampler.in, A!Resampler.out)
    <3>1. frame'.step = "resample" /\ frame'.ops = ops
      BY <1>1, <2>1, TheResampler DEF AudioInv, AudioTypes, FrameFields
    <3>2. /\ ops \in Seq(Sides) /\ ops # <<>>
          /\ \A f \in Sides : A!Resampler.in[f] = A!Resampler.out[f] \/ \E i \in DOMAIN ops : ops[i] = f
      BY <2>1, TheResampler, OpsCover DEF AudioInv
    <3> HIDE DEF ops
    <3>3. why = {} => A!Resampler.in = Current
      BY <1>1, <2>1 DEF AudioInv, Rendering
    <3>4. (A!Resampler)' = A!Resampler
      BY <1>1 DEF A!Resampler
    <3>5. Converting'
      BY <1>1, <1>2, <1>3, <1>4, <2>1, <3>1, <3>2, <3>3, <3>4 DEF Converting
    <3>6. OnItsWay'
      BY <1>1, <1>2, <3>1, <3>5 DEF OnItsWay
    <3>7. Buffers'
      BY <1>1, <1>4, <3>1 DEF AudioInv, Buffers
    <3> QED  BY <3>6, <3>7
  <2>2. CASE ~(sound.resample # {} /\ frame.size > 0)
    <3>1. frame'.step = "deliver" /\ frame'.n = frame.n
      BY <1>1, <2>2 DEF AudioInv, AudioTypes, FrameFields
    <3>2. Measured'
      BY <1>2, <1>4, <3>1 DEF Measured
    <3>3. why = {} /\ frame.size > 0 => frame.info = render.info
      BY <1>1, <1>2, <2>2 DEF AudioInv, Rendering
    <3>4. OnItsWay'
      BY <1>1, <1>2, <1>4, <3>1, <3>2, <3>3 DEF OnItsWay
    <3>5. Buffers'
      BY <1>1, <1>4, <3>1 DEF AudioInv, Buffers
    <3> QED  BY <3>4, <3>5
  <2> QED  BY <2>1, <2>2
<1> QED  BY <1>1, <1>4, <1>5, FrameGoesOn DEF AudioInv, AudioTypes

LEMMA ResampleInv == AudioInv /\ A!Resample => AudioInv'
<1> SUFFICES ASSUME AudioInv, A!Resample
             PROVE  AudioInv'
  OBVIOUS
<1> DEFINE op == Head(frame.ops)
           most == A!MostSamples(op, frame.n)
           a == A!alloc_work_buf(A!get_need_size(op, frame.n, frame.info))
           now == [frame.info EXCEPT ![op] = A!Resampler.out[op]]
<1>1. /\ frame.step = "resample" /\ frame.ops # <<>>
      /\ \E n : frame' = [frame EXCEPT !.ops = Tail(@), !.n = n, !.info = now, !.last = a.buf,
                            !.size = n * A!SAMPLE_SIZE(now)]
      /\ work' = IF frame.last = 0 THEN a.work ELSE [a.work EXCEPT ![frame.last].used = FALSE]
      /\ UNCHANGED <<fixed, adec, sound, render, fifo, wrong, why>>
  BY DEF A!Resample, A!At
<1>2. PICK n : frame' = [frame EXCEPT !.ops = Tail(@), !.n = n, !.info = now, !.last = a.buf,
                           !.size = n * A!SAMPLE_SIZE(now)]
  BY <1>1
<1>3. Converting /\ sound.added /\ (sound.pcm \/ adec.open) /\ sound.reached
  BY <1>1 DEF AudioInv, OnItsWay
<1>4. PICK k \in {1, 2} : ~work[k].used
  <2>1. frame.last \in {0, 1, 2} /\ \A i \in {1, 2} : work[i].used => frame.last = i
    BY DEF AudioInv, Buffers, RenderUse
  <2>2. \E i \in {1, 2} : i # frame.last
    OBVIOUS
  <2> QED  BY <2>1, <2>2
<1>5. /\ a.buf \in {1, 2} /\ ~work[a.buf].used
      /\ DOMAIN a.work = {1, 2} /\ \A i \in {1, 2} : DOMAIN a.work[i] = {"size", "used"}
      /\ a.work[a.buf].used
      /\ \A i \in {1, 2} \ {a.buf} : a.work[i] = work[i]
  BY <1>4, FreeBuffer DEF AudioInv, AudioTypes
<1> HIDE DEF a
<1>6. op \in Sides /\ A!Resampler.out \in A!Infos
  BY <1>1, <1>3, TheResampler DEF Converting, AudioInv
<1>7. /\ now \in A!Infos /\ now[op] = A!Resampler.out[op]
      /\ \A f \in Sides \ {op} : now[f] = frame.info[f]
  BY <1>3, <1>6 DEF Converting, A!Infos, Sides
<1>8. /\ Tail(frame.ops) \in Seq(Sides)
      /\ \A i \in DOMAIN frame.ops : frame.ops[i] = op \/ \E j \in DOMAIN Tail(frame.ops) : Tail(frame.ops)[j] = frame.ops[i]
  <2>1. /\ Tail(frame.ops) \in Seq(Sides) /\ op = frame.ops[1]
        /\ \A i \in DOMAIN frame.ops : i = 1 \/ (i - 1 \in DOMAIN Tail(frame.ops) /\ Tail(frame.ops)[i - 1] = frame.ops[i])
    BY <1>1, <1>3 DEF Converting
  <2> HIDE DEF op
  <2> QED  BY <2>1
<1> HIDE DEF op, now
<1>9. /\ DOMAIN frame' = FrameFields /\ frame'.step = "resample" /\ frame'.ops = Tail(frame.ops)
      /\ frame'.n = n /\ frame'.info = now /\ frame'.last = a.buf
      /\ frame'.size = n * A!SAMPLE_SIZE(now)
  BY <1>1, <1>2 DEF AudioInv, AudioTypes, FrameFields
<1>10. (A!Resampler)' = A!Resampler
  BY <1>1 DEF A!Resampler
<1>11. Measured'
  BY <1>9 DEF Measured
<1>12. Converting'
  <2>1. ASSUME why = {}, NEW f \in Sides
        PROVE  now[f] = A!Resampler.out[f] \/ \E j \in DOMAIN Tail(frame.ops) : Tail(frame.ops)[j] = f
    <3>1. CASE f = op
      BY <1>7, <3>1
    <3>2. CASE f # op
      BY <1>3, <1>7, <1>8, <2>1, <3>2 DEF Converting
    <3> QED  BY <3>1, <3>2
  <2>2. frame'.last # 0
    BY <1>5, <1>9
  <2> QED  BY <1>1, <1>3, <1>7, <1>8, <1>9, <1>10, <1>11, <2>1, <2>2 DEF Converting
<1>13. OnItsWay'
  BY <1>1, <1>3, <1>9, <1>12 DEF OnItsWay
<1>14. /\ DOMAIN work' = {1, 2} /\ \A i \in {1, 2} : DOMAIN work'[i] = {"size", "used"}
       /\ \A i \in {1, 2} : work'[i].used <=> a.buf = i
  <2>1. CASE frame.last = 0
    <3>1. \A i \in {1, 2} : ~work[i].used
      BY <2>1 DEF AudioInv, Buffers
    <3> QED  BY <1>1, <1>5, <2>1, <3>1
  <2>2. CASE frame.last # 0
    <3> DEFINE l == frame.last
    <3>1. l \in {1, 2} /\ work[l].used /\ \A i \in {1, 2} \ {l} : ~work[i].used
      BY <1>1, <2>2 DEF AudioInv, Buffers, RenderUse
    <3>2. l # a.buf
      BY <1>5, <3>1
    <3>3. work' = [a.work EXCEPT ![l].used = FALSE]
      BY <1>1, <2>2
    <3> HIDE DEF l
    <3>4. /\ DOMAIN work' = {1, 2} /\ work'[l] = [a.work[l] EXCEPT !.used = FALSE]
          /\ work'[a.buf] = a.work[a.buf]
      BY <1>5, <3>1, <3>2, <3>3
    <3>5. DOMAIN work'[l] = {"size", "used"} /\ ~work'[l].used
      BY <1>5, <3>1, <3>4
    <3>6. DOMAIN work'[a.buf] = {"size", "used"} /\ work'[a.buf].used
      BY <1>5, <3>4
    <3>7. \A i \in {1, 2} : i = l \/ i = a.buf
      BY <1>5, <3>1, <3>2
    <3> QED  BY <3>2, <3>4, <3>5, <3>6, <3>7
  <2> QED  BY <2>1, <2>2
<1>15. Buffers' /\ frame'.last \in {0, 1, 2}
  BY <1>5, <1>9, <1>14 DEF Buffers
<1> QED  BY <1>1, <1>9, <1>13, <1>14, <1>15, FrameGoesOn

\* The frame is converted: it is in the format of the render.
LEMMA ResampledInv == AudioInv /\ A!Resampled => AudioInv'
<1> SUFFICES ASSUME AudioInv, A!Resampled
             PROVE  AudioInv'
  OBVIOUS
<1>1. /\ frame.step = "resample" /\ frame.ops = <<>>
      /\ work' = IF frame.last = 0 THEN work ELSE [work EXCEPT ![frame.last].used = FALSE]
      /\ frame' = [frame EXCEPT !.step = "deliver"]
      /\ UNCHANGED <<fixed, adec, sound, render, fifo, wrong, why>>
  BY DEF A!Resampled, A!At
<1>2. Converting /\ sound.added /\ (sound.pcm \/ adec.open) /\ sound.reached
  BY <1>1 DEF AudioInv, OnItsWay
<1>3. frame.last \in {1, 2} /\ Measured
  BY <1>1, <1>2 DEF Converting, AudioInv, RenderUse
<1>4. /\ DOMAIN frame' = FrameFields /\ frame'.step = "deliver" /\ frame'.last = frame.last
      /\ frame'.n = frame.n /\ frame'.info = frame.info /\ frame'.size = frame.size
  BY <1>1 DEF AudioInv, AudioTypes, FrameFields
<1>5. why = {} => frame.info = render.info
  <2>1. ASSUME why = {}
        PROVE  frame.info = render.info
    <3>1. \A f \in Sides : frame.info[f] = A!Resampler.out[f]
      BY <1>1, <1>2, <2>1 DEF Converting
    <3>2. frame.info \in A!Infos /\ A!Resampler.out \in A!Infos /\ A!Resampler.out = render.info
      BY <1>2, <2>1, TheResampler DEF Converting, AudioInv, Rendering
    <3> QED  BY <3>1, <3>2 DEF Sides, A!Infos
  <2> QED  BY <2>1
<1>6. Measured'
  BY <1>3, <1>4 DEF Measured
<1>7. OnItsWay'
  BY <1>1, <1>2, <1>4, <1>5, <1>6 DEF OnItsWay
<1>8. /\ DOMAIN work' = {1, 2} /\ \A i \in {1, 2} : DOMAIN work'[i] = {"size", "used"}
      /\ \A i \in {1, 2} : ~work'[i].used
  <2> DEFINE l == frame.last
  <2>1. /\ DOMAIN work = {1, 2} /\ \A i \in {1, 2} : DOMAIN work[i] = {"size", "used"}
        /\ \A i \in {1, 2} \ {l} : ~work[i].used
    BY DEF AudioInv, AudioTypes, Buffers
  <2>2. l \in {1, 2} /\ work' = [work EXCEPT ![l].used = FALSE]
    BY <1>1, <1>3
  <2> HIDE DEF l
  <2>3. /\ DOMAIN work' = {1, 2} /\ work'[l] = [work[l] EXCEPT !.used = FALSE]
        /\ \A i \in {1, 2} \ {l} : work'[i] = work[i]
    BY <2>1, <2>2
  <2>4. DOMAIN work'[l] = {"size", "used"} /\ ~work'[l].used
    BY <2>1, <2>2, <2>3
  <2> QED  BY <2>1, <2>2, <2>3, <2>4
<1>9. Buffers'
  BY <1>4, <1>8 DEF Buffers
<1> QED  BY <1>1, <1>3, <1>4, <1>7, <1>8, <1>9, FrameGoesOn

-----------------------------------------------------------------------------
(* The render plays, is reset and is given back *)

LEMMA DeliverInv == AudioInv /\ A!audio_render_frame_reached => AudioInv'
<1> SUFFICES ASSUME AudioInv, A!audio_render_frame_reached
             PROVE  AudioInv'
  OBVIOUS
<1> DEFINE item == [info |-> frame.info, size |-> frame.size]
<1>1. /\ frame.step = "deliver" /\ frame' = A!Idle
      /\ \/ A!Written(frame) /\ UNCHANGED fifo
         \/ fifo' = Append(fifo, item) /\ UNCHANGED wrong
      /\ UNCHANGED <<fixed, adec, sound, render, work, why>>
  BY DEF A!audio_render_frame_reached, A!At
<1>2. sound.reached /\ (why = {} /\ frame.size > 0 => frame.info = render.info)
  BY <1>1 DEF AudioInv, OnItsWay
<1>3. ~wrong'
  BY <1>1, <1>2 DEF AudioInv, A!Written
<1>4. IsSeq(fifo) /\ item.info = frame.info /\ item.size = frame.size
  BY DEF AudioInv, AudioTypes
<1> HIDE DEF item
<1>5. IsSeq(fifo') /\ Queued'
  <2>1. CASE fifo' = Append(fifo, item)
    <3>1. /\ IsSeq(fifo') /\ DOMAIN fifo' = DOMAIN fifo \cup {Len(fifo) + 1}
          /\ \A i \in DOMAIN fifo : fifo'[i] = fifo[i]
          /\ fifo'[Len(fifo) + 1] = item
      BY <1>4, <2>1, SeqOfIts
    <3> QED  BY <1>1, <1>2, <1>4, <3>1 DEF AudioInv, Queued
  <2>2. CASE UNCHANGED fifo
    BY <1>1, <1>4, <2>2 DEF AudioInv, Queued
  <2> QED  BY <1>1, <2>1, <2>2
<1>6. DOMAIN frame' = FrameFields /\ frame'.step = "idle" /\ frame'.last = 0
  BY <1>1 DEF A!Idle, FrameFields
<1>7. AudioTypes'
  BY <1>1, <1>5, <1>6 DEF AudioInv, AudioTypes
<1>8. Stream' /\ Resampling' /\ Rendering'
  BY <1>1, <1>2 DEF AudioInv, Stream, Resampling, Rendering, Current, A!Resampler
<1>9. OnItsWay' /\ Buffers' /\ RenderUse'
  BY <1>1, <1>6 DEF AudioInv, OnItsWay, Buffers, RenderUse
<1> QED  BY <1>3, <1>5, <1>7, <1>8, <1>9 DEF AudioInv

LEMMA PlayInv == AudioInv /\ A!a_render_body => AudioInv'
<1> SUFFICES ASSUME AudioInv, A!a_render_body
             PROVE  AudioInv'
  OBVIOUS
<1>1. /\ fifo # <<>> /\ A!Written(Head(fifo)) /\ fifo' = Tail(fifo)
      /\ UNCHANGED <<fixed, adec, sound, render, work, frame, why>>
  BY DEF A!a_render_body
<1>2. /\ IsSeq(fifo') /\ Head(fifo) = fifo[1] /\ 1 \in DOMAIN fifo
      /\ \A i \in DOMAIN fifo' : i + 1 \in DOMAIN fifo /\ fifo'[i] = fifo[i + 1]
  BY <1>1, SeqOfIts DEF AudioInv, AudioTypes
<1>3. ~wrong'
  BY <1>1, <1>2 DEF AudioInv, Queued, A!Written
<1>4. Queued'
  BY <1>1, <1>2 DEF AudioInv, Queued
<1>5. AudioTypes'
  BY <1>1, <1>2 DEF AudioInv, AudioTypes
<1>6. Rendering'
  BY <1>1 DEF AudioInv, Rendering, Current, A!Resampler
<1>7. Stream' /\ Resampling' /\ Buffers' /\ RenderUse'
  BY <1>1 DEF AudioInv, Stream, Resampling, Buffers, RenderUse
<1>8. OnItsWay'
  BY <1>1 DEF AudioInv, OnItsWay, Converting, Measured, Current, A!Resampler
<1> QED  BY <1>3, <1>4, <1>5, <1>6, <1>7, <1>8 DEF AudioInv

\* Reset leaves the render closed, and freed when it had no other user.
LEMMA AudioResetInv == AudioInv /\ A!Reset => AudioInv'
<1> SUFFICES ASSUME AudioInv, A!Reset
             PROVE  AudioInv'
  OBVIOUS
<1>1. /\ frame.step = "idle" /\ ~render.freed
      /\ adec' = A!Adec0 /\ sound' = A!Res0 /\ work' = A!Work0 /\ fifo' = <<>> /\ why' = {}
      /\ render' = A!Gone(A!Closed(render))
      /\ UNCHANGED <<fixed, frame, wrong>>
  BY DEF A!Reset, A!At
<1>2. /\ DOMAIN A!Closed(render) = {"is_open", "ref_count", "info", "freed"}
      /\ A!Closed(render).freed = FALSE /\ A!Closed(render).is_open = FALSE
      /\ A!Closed(render).ref_count = 1
  <2>1. CASE render.is_open
    BY <1>1, <2>1 DEF A!Closed, AudioInv, AudioTypes, RenderUse
  <2>2. CASE ~render.is_open
    BY <1>1, <2>2 DEF A!Closed, AudioInv, AudioTypes, RenderUse
  <2> QED  BY <2>1, <2>2
<1>3. render' = A!Closed(render)
  BY <1>1, <1>2 DEF A!Gone
<1>4. IsSeq(<<>>)
  BY DEF IsSeq
<1>5. AudioTypes'
  BY <1>1, <1>2, <1>3, <1>4 DEF AudioInv, AudioTypes, A!Adec0, A!Res0, A!Work0
<1>6. Stream' /\ Resampling' /\ Rendering' /\ Queued'
  BY <1>1 DEF Stream, Resampling, Rendering, Queued, A!Adec0, A!Res0
<1>7. OnItsWay' /\ Buffers' /\ RenderUse'
  BY <1>1, <1>2, <1>3 DEF AudioInv, OnItsWay, Buffers, RenderUse, A!Work0, A!Res0
<1> QED  BY <1>1, <1>5, <1>6, <1>7 DEF AudioInv

LEMMA FreeRenderInv == AudioInv /\ A!audio_render_free_handle => AudioInv'
<1> SUFFICES ASSUME AudioInv, A!audio_render_free_handle
             PROVE  AudioInv'
  OBVIOUS
<1>1. /\ frame.step = "idle" /\ ~render.freed /\ ~sound.added
      /\ render' = A!Gone([render EXCEPT !.ref_count = @ - 1])
      /\ UNCHANGED <<fixed, adec, sound, work, frame, fifo, wrong, why>>
  BY DEF A!audio_render_free_handle, A!At
<1>2. render.ref_count = 1 /\ ~render.is_open
  BY <1>1 DEF AudioInv, RenderUse
<1>3. /\ DOMAIN render' = DOMAIN render /\ render'.freed = TRUE /\ render'.ref_count = 0
      /\ render'.is_open = render.is_open /\ render'.info = render.info
  <2> DEFINE r == [render EXCEPT !.ref_count = @ - 1]
  <2>1. /\ DOMAIN r = DOMAIN render /\ r.ref_count = 0 /\ r.is_open = render.is_open
        /\ r.info = render.info
    BY <1>2 DEF AudioInv, AudioTypes
  <2>2. render' = [r EXCEPT !.freed = TRUE]
    BY <1>1, <2>1 DEF A!Gone
  <2> HIDE DEF r
  <2> QED  BY <2>1, <2>2 DEF AudioInv, AudioTypes
<1>4. AudioTypes' /\ Stream' /\ Resampling' /\ Queued' /\ Buffers'
  BY <1>1, <1>3 DEF AudioInv, AudioTypes, Stream, Resampling, Queued, Buffers
<1>5. Rendering'
  BY <1>1, <1>3 DEF AudioInv, Rendering, Current, A!Resampler
<1>6. OnItsWay' /\ RenderUse'
  BY <1>1, <1>2, <1>3 DEF AudioInv, OnItsWay, RenderUse
<1> QED  BY <1>1, <1>4, <1>5, <1>6 DEF AudioInv

-----------------------------------------------------------------------------
LEMMA AudioNextInv == AudioInv /\ A!AudioNext => AudioInv'
BY AddStreamInv, PcmFrameInv, DecoderInv, FirstReachedInv, AudioReachedInv, ResampleInv,
  ResampledInv, DeliverInv, PlayInv, AudioResetInv, FreeRenderInv DEF A!AudioNext

LEMMA AudioKept == AudioInv /\ UNCHANGED audio_vars => AudioInv'
BY DEF audio_vars, AudioInv, AudioTypes, Stream, Resampling, Rendering, OnItsWay, Queued, Buffers,
  RenderUse, Current, A!Resampler, Measured, Converting

LEMMA AudioInvHolds == AudioInv => PlayedAsAsked
<1> SUFFICES ASSUME AudioInv
             PROVE  PlayedAsAsked
  OBVIOUS
<1>1. A!At("resample") => \E i \in {1, 2} : ~work[i].used
  <2>1. \E i \in {1, 2} : i # frame.last
    OBVIOUS
  <2> QED  BY <2>1 DEF AudioInv, Buffers
<1>2. A!At("deliver") => /\ \A i \in {1, 2} : ~work[i].used
                         /\ frame.size = frame.n * A!SAMPLE_SIZE(frame.info)
  BY DEF A!At, AudioInv, Buffers, OnItsWay, Measured
<1>3. render.freed <=> (render.ref_count = 0)
  BY DEF AudioInv, RenderUse
<1> QED  BY <1>1, <1>2, <1>3 DEF AudioInv, PlayedAsAsked, A!PlayedAsAsked

\* PlayedAsAsked, for frames of any sizes, any number of streams and any length of the
\* render's queue: what is played is in the format of the render but for the two gaps, and
\* the two work buffers are enough for every chain of conversions.
THEOREM PlayedStaysAsAsked == Spec => []PlayedAsAsked
<1>1. Init => AudioInv
  BY AudioInitInv, FixedTypes DEF Init
<1>2. AudioInv /\ [Next]_vars => AudioInv'
  BY AudioNextInv, AudioKept DEF Next, vars
<1>3. AudioInv => PlayedAsAsked
  BY AudioInvHolds
<1> QED  BY <1>1, <1>2, <1>3, PTL DEF Spec

-----------------------------------------------------------------------------
(* The message queue *)

WaitPlaces == {"send_waits", "recv_waits", "consume_waits"}
Uses == WaitPlaces \cup {"send", "recv", "consumed"}
Places == Uses \cup {"out", "signal", "resetting", "reset_seen", "waking", "destroying",
                    "freed"}
Users == {t \in MsgTasks : at[t] \in Uses}

Queues == [data : [0..number - 1 -> Int], cur : 0..number - 1, filled : 0..number,
           quit : BOOLEAN, reset : BOOLEAN, user : Int]
Receiving == {"out", "signal", "recv_waits", "recv"}
Ends == {"resetting", "reset_seen", "waking"}

MsgTypes ==
  /\ q \in Queues
  /\ sent \in Int /\ got \in Int
  /\ at \in [MsgTasks -> Places]
  /\ \A t \in Receivers : at[t] \in Receiving

\* A ring of n whose f messages from c on are the last of s.
Holds(n, d, c, f, s) ==
  /\ n \in Nat \ {0} /\ d \in [0..n - 1 -> Int] /\ c \in 0..n - 1 /\ f \in 0..n
  /\ s \in Int
  /\ \A k \in 0..f - 1 : d[(c + k) % n] = s - f + k + 1

\* The ring holds the messages sent last, later ones than those received.
Ring == Holds(number, q.data, q.cur, q.filled, sent) /\ got <= sent - q.filled

\* While its owner may send, a queue that is to be reset is empty.
Flag == q.reset => q.filled = 0 \/ at[Owner] \in Ends

Counted == q.user = Cardinality(Users)
Left == Freed => Users = {}

MsgInv == MsgTypes /\ Ring /\ Flag /\ Counted /\ Left /\ ~misled

-----------------------------------------------------------------------------
(* The ring and the tasks in it *)

\* The places of a ring of n from c on are apart, and go round.
LEMMA Inside == ASSUME NEW n \in Nat \ {0}, NEW x \in Int  PROVE x % n \in 0..n - 1
BY SMTT(20)

LEMMA Apart ==
  ASSUME NEW n \in Nat \ {0}, NEW c \in 0..n - 1, NEW j \in 0..n - 1, NEW k \in 0..j - 1
  PROVE  (c + k) % n # (c + j) % n
BY SMTT(30)

LEMMA FirstSlot == ASSUME NEW n \in Nat \ {0}, NEW c \in 0..n - 1  PROVE (c + 0) % n = c
BY SMTT(20)

LEMMA Shifted ==
  ASSUME NEW n \in Nat \ {0}, NEW c \in 0..n - 1, NEW k \in 0..n - 2
  PROVE  (((c + 1) % n) + k) % n = (c + (k + 1)) % n
BY SMTT(30)

LEMMA Filled ==
  ASSUME NEW n, NEW d, NEW c, NEW f, NEW s, Holds(n, d, c, f, s), f < n
  PROVE  Holds(n, [d EXCEPT ![(c + f) % n] = s + 1], c, f + 1, s + 1)
<1> DEFINE e == [d EXCEPT ![(c + f) % n] = s + 1]
<1>1. /\ n \in Nat \ {0} /\ d \in [0..n - 1 -> Int] /\ c \in 0..n - 1 /\ f \in 0..n - 1
      /\ s \in Int /\ \A k \in 0..f - 1 : d[(c + k) % n] = s - f + k + 1
  BY DEF Holds
<1>2. e \in [0..n - 1 -> Int] /\ f + 1 \in 0..n /\ s + 1 \in Int
  BY <1>1
<1>3. ASSUME NEW k \in 0..(f + 1) - 1
      PROVE  e[(c + k) % n] = (s + 1) - (f + 1) + k + 1
  <2>1. (c + k) % n \in 0..n - 1
    <3>1. c + k \in Int
      BY <1>1
    <3> QED  BY <1>1, <3>1, Inside
  <2>2. CASE k = f
    <3>1. e[(c + k) % n] = s + 1
      BY <1>1, <2>1, <2>2
    <3> HIDE DEF e
    <3> QED  BY <1>1, <2>2, <3>1
  <2>3. CASE k # f
    <3>1. k \in 0..f - 1
      BY <1>1, <2>3
    <3>2. (c + k) % n # (c + f) % n
      BY <1>1, <3>1, Apart
    <3>3. e[(c + k) % n] = d[(c + k) % n]
      BY <1>1, <2>1, <3>2
    <3>4. d[(c + k) % n] = s - f + k + 1
      BY <1>1, <3>1
    <3> HIDE DEF e
    <3> QED  BY <1>1, <3>1, <3>3, <3>4
  <2> QED  BY <2>2, <2>3
<1> HIDE DEF e
<1>4. Holds(n, e, c, f + 1, s + 1)
  BY <1>1, <1>2, <1>3 DEF Holds
<1> QED  BY <1>4 DEF e

LEMMA Taken ==
  ASSUME NEW n, NEW d, NEW c, NEW f, NEW s, Holds(n, d, c, f, s), f > 0
  PROVE  d[c] = s - f + 1 /\ Holds(n, d, (c + 1) % n, f - 1, s)
<1>1. /\ n \in Nat \ {0} /\ d \in [0..n - 1 -> Int] /\ c \in 0..n - 1 /\ f \in 1..n
      /\ s \in Int /\ \A k \in 0..f - 1 : d[(c + k) % n] = s - f + k + 1
  BY DEF Holds
<1>2. d[c] = s - f + 1
  <2>1. (c + 0) % n = c
    BY <1>1, FirstSlot
  <2>2. d[(c + 0) % n] = s - f + 0 + 1
    BY <1>1
  <2> QED  BY <1>1, <2>1, <2>2
<1>3. (c + 1) % n \in 0..n - 1
  <2>1. c + 1 \in Int
    BY <1>1
  <2> QED  BY <1>1, <2>1, Inside
<1>4. ASSUME NEW k \in 0..(f - 1) - 1
      PROVE  d[(((c + 1) % n) + k) % n] = s - (f - 1) + k + 1
  <2>1. k \in 0..n - 2 /\ k + 1 \in 0..f - 1
    BY <1>1
  <2>2. (((c + 1) % n) + k) % n = (c + (k + 1)) % n
    BY <1>1, <2>1, Shifted
  <2>3. d[(c + (k + 1)) % n] = s - f + (k + 1) + 1
    BY <1>1, <2>1
  <2> QED  BY <1>1, <2>1, <2>2, <2>3
<1>5. f - 1 \in 0..n
  BY <1>1
<1> QED  BY <1>1, <1>2, <1>3, <1>4, <1>5 DEF Holds

\* t goes to its place; others may be woken, and nothing else happens to them.
Passes(t, place) ==
  /\ at' \in [MsgTasks -> Places]
  /\ at'[t] = place
  /\ \A s \in MsgTasks \ {t} :
       \/ at'[s] = at[s]
       \/ at[s] \in WaitPlaces /\ at'[s] = Woken[at[s]]

LEMMA ToPasses ==
  ASSUME MsgTypes, NEW t \in MsgTasks, NEW place \in Places, To(t, place)
  PROVE  Passes(t, place)
BY DEF MsgTypes, To, Passes

LEMMA SleepersWait ==
  ASSUME MsgTypes
  PROVE  /\ Sleepers = {s \in MsgTasks : at[s] \in WaitPlaces}
         /\ \A w \in WaitPlaces : Woken[w] \in {"send", "recv", "consumed"}
         /\ Woken["recv_waits"] = "recv"
BY DEF Sleepers, Asleep, WaitPlaces, Woken

LEMMA SignalledPasses ==
  ASSUME MsgTypes, NEW t \in MsgTasks, NEW place \in Places, at[t] \notin WaitPlaces,
         at' \in Signalled(at, t, place)
  PROVE  Passes(t, place)
<1> DEFINE b == [at EXCEPT ![t] = place]
<1>1. b \in [MsgTasks -> Places] /\ b[t] = place /\ \A s \in MsgTasks \ {t} : b[s] = at[s]
  BY DEF MsgTypes
<1>2. CASE Sleepers = {}
  <2>1. at' = b
    BY <1>2 DEF Signalled
  <2> QED  BY <1>1, <2>1 DEF Passes
<1>3. CASE Sleepers # {}
  <2>1. PICK s \in Sleepers : at' = [b EXCEPT ![s] = Woken[at[s]]]
    BY <1>3 DEF Signalled
  <2>2. s \in MsgTasks \ {t} /\ at[s] \in WaitPlaces /\ Woken[at[s]] \in Places
    BY SleepersWait DEF Places, Uses
  <2>3. /\ at' \in [MsgTasks -> Places] /\ at'[s] = Woken[at[s]]
        /\ \A r \in MsgTasks \ {s} : at'[r] = b[r]
    BY <1>1, <2>1, <2>2
  <2> QED  BY <1>1, <2>2, <2>3 DEF Passes
<1> QED  BY <1>2, <1>3

LEMMA BroadcastPasses ==
  ASSUME MsgTypes, NEW t \in MsgTasks, NEW place \in Places, at[t] \notin WaitPlaces,
         Broadcast(t, place)
  PROVE  Passes(t, place)
<1>1. at' = [s \in MsgTasks |-> IF s \in Sleepers THEN Woken[at[s]]
                                ELSE IF s = t THEN place ELSE at[s]]
  BY DEF Broadcast
<1>2. \A s \in MsgTasks : s \in Sleepers <=> at[s] \in WaitPlaces
  BY SleepersWait
<1>3. \A s \in MsgTasks : at[s] \in Places
  BY DEF MsgTypes
<1>4. \A w \in WaitPlaces : Woken[w] \in Places
  BY SleepersWait DEF Places, Uses
<1> QED  BY <1>1, <1>2, <1>3, <1>4 DEF Passes

\* A receiver stays in msg_q_recv.
LEMMA RolesKept ==
  ASSUME MsgTypes, NEW t \in MsgTasks, NEW place \in Places, Passes(t, place),
         t \in Receivers => place \in Receiving
  PROVE  \A s \in Receivers : at'[s] \in Receiving
<1> SUFFICES ASSUME NEW s \in Receivers
             PROVE  at'[s] \in Receiving
  OBVIOUS
<1>1. s \in MsgTasks /\ at[s] \in Receiving
  BY DEF MsgTasks, MsgTypes
<1>2. at[s] \in WaitPlaces => Woken[at[s]] = "recv"
  BY <1>1, SleepersWait DEF WaitPlaces, Receiving
<1> QED  BY <1>1, <1>2 DEF Passes, Receiving

\* The waits of the others go on being waits.
LEMMA OthersUse ==
  ASSUME MsgTypes, NEW t \in MsgTasks, NEW place \in Places, Passes(t, place)
  PROVE  Users' = (Users \ {t}) \cup IF place \in Uses THEN {t} ELSE {}
<1>1. \A s \in MsgTasks \ {t} : at'[s] \in Uses <=> at[s] \in Uses
  BY SleepersWait DEF Passes, Uses
<1> QED  BY <1>1 DEF Users, Passes

StepsTo(t, place) == t \in MsgTasks /\ place \in Places /\ Passes(t, place)

LEMMA UsersFinite == ASSUME IsFiniteSet(Receivers)  PROVE IsFiniteSet(Users)
BY FS_AddElement, FS_Subset DEF Users, MsgTasks

\* What a place counts for.
Use(place) == IF place \in Uses THEN 1 ELSE 0

LEMMA Counts ==
  ASSUME MsgTypes, Counted, IsFiniteSet(Receivers), NEW t, NEW place, StepsTo(t, place),
         q'.user = q.user - Use(at[t]) + Use(place)
  PROVE  Counted'
<1>1. /\ Users' = (Users \ {t}) \cup IF place \in Uses THEN {t} ELSE {}
      /\ t \in Users <=> at[t] \in Uses
  BY OthersUse DEF StepsTo, Users
<1>2. /\ IsFiniteSet(Users \ {t})
      /\ Cardinality(Users \ {t}) = q.user - Use(at[t])
  BY <1>1, UsersFinite, FS_RemoveElement, FS_CardinalityType DEF Counted, Use
<1>3. q.user \in Int
  BY DEF MsgTypes, Queues
<1>4. CASE place \in Uses
  <2>1. Cardinality(Users') = Cardinality(Users \ {t}) + 1
    BY <1>1, <1>2, <1>4, FS_AddElement
  <2>2. q'.user = (q.user - Use(at[t])) + 1
    BY <1>4 DEF Use
  <2> QED  BY <1>2, <1>3, <2>1, <2>2 DEF Counted, Use
<1>5. CASE place \notin Uses
  <2>1. Users' = Users \ {t}
    BY <1>1, <1>5
  <2> QED  BY <1>2, <1>3, <1>5, <2>1 DEF Counted, Use
<1> QED  BY <1>4, <1>5

LEMMA FlagKept ==
  ASSUME MsgTypes, Flag, NEW t, NEW place, StepsTo(t, place), at[t] \notin Ends,
         q'.reset => q.reset, q.filled = 0 => q'.filled = 0
  PROVE  Flag'
<1>1. CASE at[Owner] \in Ends
  <2>1. Owner \in MsgTasks \ {t} /\ at[Owner] \notin WaitPlaces
    BY <1>1 DEF MsgTasks, Ends, WaitPlaces
  <2>2. at'[Owner] = at[Owner]
    BY <2>1 DEF StepsTo, Passes
  <2> QED  BY <1>1, <2>2 DEF Flag
<1> QED  BY <1>1 DEF Flag

LEMMA NotFreed ==
  ASSUME MsgTypes, ~Freed, NEW t, NEW place, StepsTo(t, place), place # "freed"
  PROVE  ~Freed'
<1>1. CASE t = Owner
  BY <1>1 DEF StepsTo, Passes, Freed
<1>2. CASE t # Owner
  <2>1. Owner \in MsgTasks \ {t}
    BY <1>2 DEF MsgTasks
  <2> QED  BY <2>1, SleepersWait DEF StepsTo, Passes, Freed
<1> QED  BY <1>1, <1>2

\* What every step but the last one of msg_q_destroy has to show.
LEMMA StepInv ==
  ASSUME MsgInv, ~Freed, NEW t, NEW place, StepsTo(t, place), place # "freed",
         t \in Receivers => place \in Receiving,
         q' \in Queues, sent' \in Int, got' \in Int, Ring', Flag', Counted', ~misled'
  PROVE  MsgInv'
<1>1. \A s \in Receivers : at'[s] \in Receiving
  BY RolesKept DEF StepsTo, MsgInv
<1>2. MsgTypes'
  BY <1>1 DEF MsgTypes, StepsTo, Passes
<1>3. Left'
  BY NotFreed DEF MsgInv, Left
<1> QED  BY <1>2, <1>3 DEF MsgInv

\* Steps that leave the messages alone, and do not set the flag.
Quiet(t, place) ==
  /\ StepsTo(t, place) /\ place # "freed" /\ at[t] \notin Ends
  /\ t \in Receivers => place \in Receiving
  /\ q' \in Queues /\ q'.data = q.data /\ q'.cur = q.cur /\ q'.filled = q.filled
  /\ q'.reset => q.reset
  /\ q'.user = q.user - Use(at[t]) + Use(place)
  /\ UNCHANGED <<sent, got, misled>>

LEMMA QuietInv ==
  ASSUME IsFiniteSet(Receivers), MsgInv, ~Freed, NEW t, NEW place, Quiet(t, place)
  PROVE  MsgInv'
<1>1. Ring' /\ sent' \in Int /\ got' \in Int /\ ~misled'
  BY DEF MsgInv, Ring, MsgTypes, Quiet
<1>2. Flag'
  BY FlagKept DEF MsgInv, Quiet
<1>3. Counted'
  BY Counts DEF MsgInv, Quiet
<1> QED  BY <1>1, <1>2, <1>3, StepInv DEF Quiet

-----------------------------------------------------------------------------
(* The calls.  Waiting and going on waiting leave the messages alone.      *)

LEMMA WaitInv ==
  ASSUME IsFiniteSet(Receivers), MsgInv, ~Freed, NEW t \in MsgTasks, NEW place \in WaitPlaces,
         at[t] = "out", t \in Receivers => place = "recv_waits", Wait(t, place)
  PROVE  MsgInv'
<1>1. /\ place \in Places /\ place \in Uses /\ place # "freed" /\ "out" \notin Uses
      /\ "out" \notin Ends
      /\ t \in Receivers => place \in Receiving
  BY DEF WaitPlaces, Uses, Places, Ends, Receiving
<1>2. /\ q' = [q EXCEPT !.user = @ + 1] /\ To(t, place) /\ q \in Queues
      /\ UNCHANGED <<sent, got, misled>>
  BY DEF Wait, Sleeps, MsgInv, MsgTypes
<1>3. /\ q' \in Queues /\ q'.data = q.data /\ q'.cur = q.cur /\ q'.filled = q.filled
      /\ q'.reset => q.reset
  BY <1>2 DEF Queues
<1>4. q'.user = q.user - Use(at[t]) + Use(place)
  BY <1>1, <1>2 DEF Queues, Use
<1>5. StepsTo(t, place)
  BY <1>1, <1>2, ToPasses DEF StepsTo, MsgInv
<1>6. Quiet(t, place)
  BY <1>1, <1>2, <1>3, <1>4, <1>5 DEF Quiet
<1> QED  BY <1>6, QuietInv

LEMMA StillWaits ==
  ASSUME IsFiniteSet(Receivers), MsgInv, ~Freed, NEW t \in MsgTasks, NEW place \in WaitPlaces,
         at[t] \in Uses, t \in Receivers => place = "recv_waits", To(t, place),
         UNCHANGED <<q, sent, got, misled>>
  PROVE  MsgInv'
<1>1. /\ place \in Places /\ place \in Uses /\ place # "freed"
      /\ at[t] \notin Ends
      /\ t \in Receivers => place \in Receiving
  BY DEF WaitPlaces, Uses, Places, Ends, Receiving
<1>2. /\ q' \in Queues /\ q'.data = q.data /\ q'.cur = q.cur /\ q'.filled = q.filled
      /\ q'.reset => q.reset
  BY DEF MsgInv, MsgTypes
<1>3. q'.user = q.user - Use(at[t]) + Use(place)
  BY <1>1 DEF MsgInv, MsgTypes, Queues, Use
<1>4. StepsTo(t, place)
  BY <1>1, ToPasses DEF StepsTo, MsgInv
<1>5. Quiet(t, place)
  BY <1>1, <1>2, <1>3, <1>4 DEF Quiet
<1> QED  BY <1>5, QuietInv

\* A use is given back, and the flag taken down.
LEMMA Cleared ==
  ASSUME NEW x \in Queues, NEW u \in Int
  PROVE  /\ [x EXCEPT !.user = @ - u, !.reset = FALSE] \in Queues
         /\ [[x EXCEPT !.user = @ - u] EXCEPT !.reset = FALSE] \in Queues
<1>1. ASSUME NEW y \in Queues  PROVE [y EXCEPT !.reset = FALSE] \in Queues
  BY DEF Queues
<1>2. [x EXCEPT !.user = @ - u] \in Queues
  BY DEF Queues
<1>3. [x EXCEPT !.user = @ - u, !.reset = FALSE]
        = [[x EXCEPT !.user = @ - u] EXCEPT !.reset = FALSE]
  BY DEF Queues
<1> QED  BY <1>1, <1>2, <1>3

\* With its flag set and room for nothing, the ring could be overwritten: while the
\* owner is to send, a queue with the flag is empty.
LEMMA SendInv ==
  ASSUME number \in Nat \ {0}, IsFiniteSet(Receivers), Owner \notin Receivers, MsgInv,
         ~Freed, at[Owner] \in {"out", "send"}, ~Full,
         NEW u \in Int, u = Use(at[Owner]), SendNow(u),
         UNCHANGED <<got, misled>>
  PROVE  MsgInv'
<1> DEFINE p == [q EXCEPT !.user = @ - u, !.reset = FALSE]
<1>1. /\ q \in Queues /\ sent \in Int /\ got \in Int /\ MsgTypes /\ Owner \in MsgTasks
      /\ at[Owner] \notin Ends /\ {"out", "signal"} \cap Uses = {}
      /\ {"out", "signal"} \subseteq Places
  BY DEF MsgInv, MsgTypes, MsgTasks, Ends, Uses, WaitPlaces, Places
<1>2. Use("out") = 0 /\ Use("signal") = 0
  BY <1>1 DEF Use
<1>3. CASE q.quit
  <2>1. q' = p /\ To(Owner, "out") /\ UNCHANGED sent
    BY <1>3 DEF SendNow
  <2>2. /\ q' \in Queues /\ q'.data = q.data /\ q'.cur = q.cur /\ q'.filled = q.filled
        /\ q'.reset = FALSE
    <3>1. q' \in Queues
      BY <1>1, <2>1, Cleared
    <3> QED  BY <1>1, <2>1, <3>1 DEF Queues
  <2>3. q'.user = q.user - Use(at[Owner]) + Use("out")
    BY <1>1, <1>2, <2>1 DEF Queues
  <2>4. StepsTo(Owner, "out")
    BY <1>1, <2>1, ToPasses DEF StepsTo
  <2>5. Quiet(Owner, "out")
    BY <1>1, <2>1, <2>2, <2>3, <2>4 DEF Quiet
  <2> QED  BY <2>5, QuietInv
<1>4. CASE ~q.quit
  <2>1. /\ q' = [p EXCEPT !.data[Slot(q)] = sent + 1, !.filled = @ + 1]
        /\ sent' = sent + 1 /\ To(Owner, "signal")
    BY <1>4 DEF SendNow
  <2>2. q.filled < number
    <3>1. q.reset => q.filled = 0
      BY <1>1 DEF MsgInv, Flag
    <3> QED  BY <1>1, <1>4, <3>1 DEF Full, Queues
  <2>3. /\ q'.data = [q.data EXCEPT ![(q.cur + q.filled) % number] = sent + 1]
        /\ q'.cur = q.cur /\ q'.filled = q.filled + 1 /\ q'.reset = FALSE
    BY <1>1, <2>1 DEF Queues, Slot
  <2>4. q'.user = q.user - Use(at[Owner]) + Use("signal")
    BY <1>1, <1>2, <2>1 DEF Queues
  <2>5. q' \in Queues
    <3>1. p \in Queues
      BY <1>1, Cleared
    <3>2. sent + 1 \in Int /\ p.filled + 1 \in 0..number
      BY <1>1, <2>2 DEF Queues
    <3> HIDE DEF p
    <3> QED  BY <2>1, <3>1, <3>2 DEF Queues
  <2>6. Holds(number, q'.data, q'.cur, q'.filled, sent')
    BY <2>1, <2>2, <2>3, Filled DEF MsgInv, Ring
  <2>7. got' <= sent' - q'.filled
    BY <1>1, <2>1, <2>3 DEF MsgInv, Ring, Queues
  <2>8. StepsTo(Owner, "signal")
    BY <1>1, <2>1, ToPasses DEF StepsTo
  <2>9. Counted'
    BY <1>1, <2>4, <2>8, Counts DEF MsgInv
  <2>10. Ring' /\ Flag' /\ sent' \in Int /\ ~misled'
    BY <1>1, <2>1, <2>3, <2>6, <2>7 DEF Ring, Flag, MsgInv
  <2> QED  BY <1>1, <2>5, <2>8, <2>9, <2>10, StepInv
<1> QED  BY <1>3, <1>4

LEMMA RecvInv ==
  ASSUME number \in Nat \ {0}, IsFiniteSet(Receivers), Owner \notin Receivers, MsgInv,
         ~Freed, NEW t \in Receivers, at[t] \in {"out", "recv"}, ~Empty,
         NEW u \in Int, u = Use(at[t]), RecvNow(t, u)
  PROVE  MsgInv'
<1> DEFINE p == [q EXCEPT !.user = @ - u]
<1>1. /\ q \in Queues /\ sent \in Int /\ got \in Int /\ MsgTypes /\ t \in MsgTasks
      /\ at[t] \notin Ends /\ {"out", "signal"} \cap Uses = {}
      /\ {"out", "signal"} \subseteq Places /\ {"out", "signal"} \subseteq Receiving
  BY DEF MsgInv, MsgTypes, MsgTasks, Ends, Uses, WaitPlaces, Places, Receiving
<1>2. Use("out") = 0 /\ Use("signal") = 0
  BY <1>1 DEF Use
<1>3. CASE q.quit \/ q.reset
  <2>1. q' = [p EXCEPT !.reset = FALSE] /\ To(t, "out") /\ UNCHANGED <<sent, got, misled>>
    BY <1>3 DEF RecvNow
  <2>2. /\ q' \in Queues /\ q'.data = q.data /\ q'.cur = q.cur /\ q'.filled = q.filled
        /\ q'.reset = FALSE
    <3>1. q' \in Queues
      BY <1>1, <2>1, Cleared
    <3> QED  BY <1>1, <2>1, <3>1 DEF Queues
  <2>3. q'.user = q.user - Use(at[t]) + Use("out")
    BY <1>1, <1>2, <2>1 DEF Queues
  <2>4. StepsTo(t, "out")
    BY <1>1, <2>1, ToPasses DEF StepsTo
  <2>5. Quiet(t, "out")
    BY <1>1, <2>1, <2>2, <2>3, <2>4 DEF Quiet
  <2> QED  BY <2>5, QuietInv
<1>4. CASE ~(q.quit \/ q.reset)
  <2>1. /\ q' = [p EXCEPT !.filled = @ - 1, !.cur = (@ + 1) % number]
        /\ got' = q.data[q.cur] /\ misled' = (misled \/ q.data[q.cur] <= got)
        /\ To(t, "signal") /\ UNCHANGED sent
    BY <1>4 DEF RecvNow
  <2>2. q.filled > 0 /\ q.filled \in Int
    BY <1>1, <1>4 DEF Empty, Queues
  <2>3. /\ q'.data = q.data /\ q'.cur = (q.cur + 1) % number /\ q'.filled = q.filled - 1
        /\ q'.reset = q.reset
    BY <1>1, <2>1 DEF Queues
  <2>4. q'.user = q.user - Use(at[t]) + Use("signal")
    BY <1>1, <1>2, <2>1 DEF Queues
  <2>5. /\ Holds(number, q'.data, q'.cur, q'.filled, sent')
        /\ got' = sent - q.filled + 1
    <3>1. Holds(number, q.data, q.cur, q.filled, sent)
      BY DEF MsgInv, Ring
    <3>2. /\ q.data[q.cur] = sent - q.filled + 1
          /\ Holds(number, q.data, (q.cur + 1) % number, q.filled - 1, sent)
      BY <2>2, <3>1, Taken
    <3> QED  BY <2>1, <2>3, <3>2
  <2>6. q' \in Queues
    <3>1. q'.cur \in 0..number - 1 /\ q'.filled \in 0..number
      BY <2>5 DEF Holds
    <3>2. p \in Queues
      BY <1>1 DEF Queues
    <3>3. /\ q'.cur = (p.cur + 1) % number /\ q'.filled = p.filled - 1
          /\ q' = [p EXCEPT !.filled = p.filled - 1, !.cur = (p.cur + 1) % number]
      BY <1>1, <2>1 DEF Queues
    <3> HIDE DEF p
    <3> QED  BY <3>1, <3>2, <3>3 DEF Queues
  <2>7. got' <= sent' - q'.filled /\ got' \in Int /\ ~(q.data[q.cur] <= got)
    BY <1>1, <2>1, <2>2, <2>3, <2>5 DEF MsgInv, Ring
  <2>8. ~misled'
    BY <2>1, <2>7 DEF MsgInv
  <2>9. StepsTo(t, "signal")
    BY <1>1, <2>1, ToPasses DEF StepsTo
  <2>10. Counted'
    BY <1>1, <2>4, <2>9, Counts DEF MsgInv
  <2>11. Ring' /\ Flag'
    BY <1>4, <2>3, <2>5, <2>7 DEF Ring, Flag
  <2> QED  BY <1>1, <2>1, <2>6, <2>7, <2>8, <2>9, <2>10, <2>11, StepInv
<1> QED  BY <1>3, <1>4

LEMMA UserOf ==
  ASSUME MsgInv, NEW t \in MsgTasks
  PROVE  /\ at[t] = "out" => Use(at[t]) = 0
         /\ at[t] \in {"send", "recv", "consumed"} => Use(at[t]) = 1
BY DEF Use, Uses, WaitPlaces

LEMMA SendStep ==
  ASSUME number \in Nat \ {0}, IsFiniteSet(Receivers), Owner \notin Receivers
  PROVE  MsgInv /\ ~Freed /\ msg_q_send => MsgInv'
<1> SUFFICES ASSUME MsgInv, ~Freed, msg_q_send
             PROVE  MsgInv'
  OBVIOUS
<1>1. Owner \in MsgTasks /\ "send_waits" \in WaitPlaces /\ "send" \in Uses
  BY DEF MsgTasks, WaitPlaces, Uses
<1>2. CASE at[Owner] = "out" /\ Full /\ Wait(Owner, "send_waits")
  BY <1>1, <1>2, WaitInv
<1>3. CASE at[Owner] = "out" /\ ~Full /\ SendNow(0) /\ UNCHANGED <<got, misled>>
  <2>1. 0 \in Int /\ 0 = Use(at[Owner]) /\ at[Owner] \in {"out", "send"}
    BY <1>1, <1>3, UserOf
  <2> QED  BY <1>3, <2>1, SendInv
<1>4. CASE /\ at[Owner] = "send" /\ To(Owner, "send_waits")
           /\ UNCHANGED <<q, sent, got, misled>>
  <2>1. at[Owner] \in Uses
    BY <1>1, <1>4
  <2> QED  BY <1>1, <1>4, <2>1, StillWaits
<1>5. CASE at[Owner] = "send" /\ ~Full /\ SendNow(1) /\ UNCHANGED <<got, misled>>
  <2>1. 1 \in Int /\ 1 = Use(at[Owner]) /\ at[Owner] \in {"out", "send"}
    BY <1>1, <1>5, UserOf
  <2> QED  BY <1>5, <2>1, SendInv
<1> QED  BY <1>2, <1>3, <1>4, <1>5 DEF msg_q_send, Sleeps, Back

LEMMA RecvStep ==
  ASSUME number \in Nat \ {0}, IsFiniteSet(Receivers), Owner \notin Receivers,
         NEW t \in Receivers, NEW no_wait \in BOOLEAN
  PROVE  MsgInv /\ ~Freed /\ msg_q_recv(t, no_wait) => MsgInv'
<1> SUFFICES ASSUME MsgInv, ~Freed, msg_q_recv(t, no_wait)
             PROVE  MsgInv'
  OBVIOUS
<1>1. t \in MsgTasks /\ "recv_waits" \in WaitPlaces /\ "recv" \in Uses
  BY DEF MsgTasks, WaitPlaces, Uses
<1>2. CASE at[t] = "out" /\ Empty /\ Wait(t, "recv_waits")
  BY <1>1, <1>2, WaitInv
<1>3. CASE at[t] = "out" /\ ~Empty /\ RecvNow(t, 0)
  <2>1. 0 \in Int /\ 0 = Use(at[t]) /\ at[t] \in {"out", "recv"}
    BY <1>1, <1>3, UserOf
  <2> QED  BY <1>3, <2>1, RecvInv
<1>4. CASE at[t] = "recv" /\ To(t, "recv_waits") /\ UNCHANGED <<q, sent, got, misled>>
  <2>1. at[t] \in Uses
    BY <1>1, <1>4
  <2> QED  BY <1>1, <1>4, <2>1, StillWaits
<1>5. CASE at[t] = "recv" /\ ~Empty /\ RecvNow(t, 1)
  <2>1. 1 \in Int /\ 1 = Use(at[t]) /\ at[t] \in {"out", "recv"}
    BY <1>1, <1>5, UserOf
  <2> QED  BY <1>5, <2>1, RecvInv
<1> QED  BY <1>2, <1>3, <1>4, <1>5 DEF msg_q_recv, Sleeps, Back

\* The condition is signalled, by a task that is on its way out.
LEMMA SignalStep ==
  ASSUME IsFiniteSet(Receivers), NEW t \in MsgTasks
  PROVE  MsgInv /\ ~Freed /\ Signal(t) => MsgInv'
<1> SUFFICES ASSUME MsgInv, ~Freed, Signal(t)
             PROVE  MsgInv'
  OBVIOUS
<1>1. /\ at[t] = "signal" /\ at[t] \notin WaitPlaces /\ at[t] \notin Ends /\ "out" \in Places
      /\ at' \in Signalled(at, t, "out") /\ UNCHANGED <<q, sent, got, misled>>
      /\ "out" \in Receiving /\ Use(at[t]) = 0 /\ Use("out") = 0 /\ MsgTypes
  BY DEF Signal, WaitPlaces, Ends, Places, Receiving, Use, Uses, MsgInv
<1>2. StepsTo(t, "out")
  BY <1>1, SignalledPasses DEF StepsTo
<1>3. /\ q' \in Queues /\ q'.data = q.data /\ q'.cur = q.cur /\ q'.filled = q.filled
      /\ q.user \in Int
  BY <1>1 DEF MsgTypes, Queues
<1>4. q'.user = q.user - Use(at[t]) + Use("out")
  BY <1>1, <1>3
<1>5. Quiet(t, "out")
  BY <1>1, <1>2, <1>3, <1>4 DEF Quiet
<1> QED  BY <1>5, QuietInv

LEMMA ConsumeStep ==
  ASSUME IsFiniteSet(Receivers), Owner \notin Receivers
  PROVE  MsgInv /\ ~Freed /\ msg_q_wait_consume => MsgInv'
<1> SUFFICES ASSUME MsgInv, ~Freed, msg_q_wait_consume
             PROVE  MsgInv'
  OBVIOUS
<1>1. Owner \in MsgTasks /\ "consume_waits" \in WaitPlaces
  BY DEF MsgTasks, WaitPlaces
<1>2. CASE at[Owner] = "out" /\ Wait(Owner, "consume_waits")
  BY <1>1, <1>2, WaitInv
<1>3. CASE /\ at[Owner] = "consumed" /\ q' = [q EXCEPT !.user = @ - 1]
           /\ To(Owner, "out") /\ UNCHANGED <<sent, got, misled>>
  <2>1. /\ at[Owner] \notin Ends /\ "out" \in Places /\ MsgTypes /\ q \in Queues
        /\ Use(at[Owner]) = 1 /\ Use("out") = 0
    BY <1>3 DEF Ends, Places, MsgInv, MsgTypes, Use, Uses, WaitPlaces
  <2>2. StepsTo(Owner, "out")
    BY <1>1, <1>3, <2>1, ToPasses DEF StepsTo
  <2>3. /\ q' \in Queues /\ q'.data = q.data /\ q'.cur = q.cur /\ q'.filled = q.filled
        /\ q'.reset = q.reset
    BY <1>3, <2>1 DEF Queues
  <2>4. q'.user = q.user - Use(at[Owner]) + Use("out")
    BY <1>3, <2>1 DEF Queues
  <2>5. Quiet(Owner, "out")
    BY <1>3, <2>1, <2>2, <2>3, <2>4 DEF Quiet
  <2> QED  BY <2>5, QuietInv
<1> QED  BY <1>2, <1>3 DEF msg_q_wait_consume, Back

\* The calls that end the waits of others: the owner goes on, nobody comes or goes.
LEMMA EndingInv ==
  ASSUME IsFiniteSet(Receivers), Owner \notin Receivers, MsgInv, ~Freed,
         at[Owner] \notin Uses, NEW place \in Places \ Uses, place # "freed",
         Passes(Owner, place), q' \in Queues, q'.user = q.user,
         UNCHANGED <<sent, got, misled>>,
         \/ q'.data = q.data /\ q'.cur = q.cur /\ q'.filled = q.filled
         \/ q'.data = q.data /\ q'.cur = 0 /\ q'.filled = 0,
         q'.reset => q'.filled = 0 \/ place \in Ends
  PROVE  MsgInv'
<1>1. /\ q \in Queues /\ MsgTypes /\ sent \in Int /\ got \in Int /\ ~misled
      /\ Holds(number, q.data, q.cur, q.filled, sent) /\ got <= sent - q.filled
  BY DEF MsgInv, MsgTypes, Ring
<1>2. StepsTo(Owner, place)
  BY DEF StepsTo, MsgTasks
<1>3. q'.user = q.user - Use(at[Owner]) + Use(place)
  BY <1>1 DEF Use, Queues
<1>4. Counted'
  BY <1>1, <1>2, <1>3, Counts DEF MsgInv
<1>5. Ring'
  <2>1. CASE q'.data = q.data /\ q'.cur = q.cur /\ q'.filled = q.filled
    BY <1>1, <2>1 DEF Ring
  <2>2. CASE q'.data = q.data /\ q'.cur = 0 /\ q'.filled = 0
    <3>1. Holds(number, q.data, 0, 0, sent)
      BY <1>1 DEF Holds
    <3>2. got <= sent - 0
      BY <1>1 DEF Queues
    <3> QED  BY <2>2, <3>1, <3>2 DEF Ring
  <2> QED  BY <2>1, <2>2
<1>6. Flag'
  BY DEF Flag, Passes
<1> QED  BY <1>1, <1>2, <1>4, <1>5, <1>6, StepInv

LEMMA ResetStep ==
  ASSUME number \in Nat \ {0}, IsFiniteSet(Receivers), Owner \notin Receivers
  PROVE  MsgInv /\ ~Freed /\ msg_q_reset => MsgInv'
<1> SUFFICES ASSUME MsgInv, ~Freed, msg_q_reset
             PROVE  MsgInv'
  OBVIOUS
<1>1. /\ q \in Queues /\ MsgTypes /\ Owner \in MsgTasks
      /\ {"out", "resetting", "reset_seen"} \subseteq Places \ Uses
      /\ {"resetting", "reset_seen"} \subseteq Ends /\ "out" \notin Ends
  BY DEF MsgInv, MsgTypes, MsgTasks, Places, Uses, WaitPlaces, Ends
<1>2. CASE /\ at[Owner] = "out" /\ To(Owner, "resetting")
           /\ UNCHANGED <<q, sent, got, misled>>
  BY <1>1, <1>2, ToPasses, EndingInv
<1>3. CASE /\ at[Owner] = "resetting" /\ To(Owner, "reset_seen")
           /\ UNCHANGED <<q, sent, got, misled>>
  BY <1>1, <1>3, ToPasses, EndingInv
<1>4. CASE /\ at[Owner] = "resetting" /\ To(Owner, "out")
           /\ q' = [q EXCEPT !.cur = 0, !.filled = 0] /\ UNCHANGED <<sent, got, misled>>
  <2>1. /\ q'.user = q.user /\ q'.data = q.data /\ q'.cur = 0 /\ q'.filled = 0
        /\ q' = [data |-> q.data, cur |-> 0, filled |-> 0, quit |-> q.quit,
                 reset |-> q.reset, user |-> q.user]
    BY <1>1, <1>4 DEF Queues
  <2>2. q' \in Queues
    BY <1>1, <2>1 DEF Queues
  <2> QED  BY <1>1, <1>4, <2>1, <2>2, ToPasses, EndingInv
<1>5. CASE /\ at[Owner] = "reset_seen" /\ q' = [q EXCEPT !.reset = TRUE]
           /\ Broadcast(Owner, "resetting") /\ UNCHANGED <<sent, got, misled>>
  <2>1. /\ q' \in Queues /\ q'.user = q.user /\ q'.data = q.data /\ q'.cur = q.cur
        /\ q'.filled = q.filled
    BY <1>1, <1>5 DEF Queues
  <2>2. Passes(Owner, "resetting")
    BY <1>1, <1>5, BroadcastPasses DEF WaitPlaces
  <2> QED  BY <1>1, <1>5, <2>1, <2>2, EndingInv
<1> QED  BY <1>2, <1>3, <1>4, <1>5 DEF msg_q_reset

LEMMA WakeupStep ==
  ASSUME IsFiniteSet(Receivers), Owner \notin Receivers
  PROVE  MsgInv /\ ~Freed /\ msg_q_wakeup => MsgInv'
<1> SUFFICES ASSUME MsgInv, ~Freed, msg_q_wakeup
             PROVE  MsgInv'
  OBVIOUS
<1>1. /\ q \in Queues /\ MsgTypes /\ Owner \in MsgTasks
      /\ {"out", "waking"} \subseteq Places \ Uses
      /\ "waking" \in Ends /\ UNCHANGED <<sent, got, misled>>
  BY DEF MsgInv, MsgTypes, MsgTasks, Places, Uses, WaitPlaces, Ends, msg_q_wakeup
<1>2. CASE /\ at[Owner] = "out" /\ q' = [q EXCEPT !.reset = TRUE]
           /\ at' \in Signalled(at, Owner, "waking")
  <2>1. /\ q' \in Queues /\ q'.user = q.user /\ q'.data = q.data /\ q'.cur = q.cur
        /\ q'.filled = q.filled
    BY <1>1, <1>2 DEF Queues
  <2>2. Passes(Owner, "waking")
    BY <1>1, <1>2, SignalledPasses DEF WaitPlaces
  <2> QED  BY <1>1, <1>2, <2>1, <2>2, EndingInv
<1>3. CASE at[Owner] = "waking" /\ q' = [q EXCEPT !.reset = FALSE] /\ To(Owner, "out")
  <2>1. /\ q' \in Queues /\ q'.user = q.user /\ q'.data = q.data /\ q'.cur = q.cur
        /\ q'.filled = q.filled /\ q'.reset = FALSE
    BY <1>1, <1>3 DEF Queues
  <2> QED  BY <1>1, <1>3, <2>1, ToPasses, EndingInv
<1> QED  BY <1>2, <1>3 DEF msg_q_wakeup

\* The queue is freed once nobody is counted, that is once nobody is in it.
LEMMA DestroyStep ==
  ASSUME IsFiniteSet(Receivers), Owner \notin Receivers
  PROVE  MsgInv /\ ~Freed /\ msg_q_destroy => MsgInv'
<1> SUFFICES ASSUME MsgInv, ~Freed, msg_q_destroy
             PROVE  MsgInv'
  OBVIOUS
<1>1. /\ q \in Queues /\ MsgTypes /\ Owner \in MsgTasks
      /\ {"out", "destroying", "freed"} \subseteq Places \ Uses
      /\ {"out", "destroying", "freed"} \cap Ends = {} /\ UNCHANGED <<sent, got, misled>>
  BY DEF MsgInv, MsgTypes, MsgTasks, Places, Uses, WaitPlaces, Ends, msg_q_destroy
<1>2. CASE /\ at[Owner] = "out" /\ q' = [q EXCEPT !.quit = TRUE]
           /\ at' \in Signalled(at, Owner, "destroying")
  <2>1. /\ q' \in Queues /\ q'.user = q.user /\ q'.data = q.data /\ q'.cur = q.cur
        /\ q'.filled = q.filled /\ q'.reset = q.reset
    BY <1>1, <1>2 DEF Queues
  <2>2. Passes(Owner, "destroying")
    BY <1>1, <1>2, SignalledPasses DEF WaitPlaces
  <2>3. q.reset => q.filled = 0
    BY <1>1, <1>2 DEF MsgInv, Flag
  <2> QED  BY <1>1, <1>2, <2>1, <2>2, <2>3, EndingInv
<1>3. CASE /\ at[Owner] = "destroying" /\ q.user = 0 /\ To(Owner, "freed") /\ UNCHANGED q
  <2>1. Users = {}
    BY <1>3, UsersFinite, FS_EmptySet DEF MsgInv, Counted
  <2>2. StepsTo(Owner, "freed")
    BY <1>1, <1>3, ToPasses DEF StepsTo
  <2>3. Users' = {}
    BY <1>1, <2>1, <2>2, OthersUse DEF StepsTo
  <2>4. at' \in [MsgTasks -> Places] /\ \A t \in Receivers : at'[t] = at[t]
    BY <1>1, <1>3, <2>2 DEF StepsTo, Passes, To, MsgTypes, MsgTasks
  <2>5. MsgTypes' /\ Left' /\ ~misled'
    BY <1>1, <1>3, <2>3, <2>4 DEF MsgTypes, Left, MsgInv
  <2>6. Counted'
    BY <1>3, <2>1, <2>3 DEF MsgInv, Counted
  <2>7. Ring'
    BY <1>1, <1>3 DEF MsgInv, Ring
  <2>8. Flag'
    BY <1>1, <1>3 DEF MsgInv, Flag
  <2> QED  BY <2>5, <2>6, <2>7, <2>8 DEF MsgInv
<1> QED  BY <1>2, <1>3 DEF msg_q_destroy

-----------------------------------------------------------------------------
LEMMA MsgInitInv ==
  ASSUME number \in Nat \ {0}, IsFiniteSet(Receivers), Owner \notin Receivers
  PROVE  MsgInit => MsgInv
<1> SUFFICES ASSUME MsgInit
             PROVE  MsgInv
  OBVIOUS
<1>1. /\ q = [data |-> [i \in 0..number - 1 |-> 0], cur |-> 0, filled |-> 0,
              quit |-> FALSE, reset |-> FALSE, user |-> 0]
      /\ at = [t \in MsgTasks |-> "out"] /\ sent = 0 /\ got = 0 /\ misled = FALSE
  BY DEF MsgInit
<1>2. q \in Queues
  BY <1>1 DEF Queues
<1>3. MsgTypes
  BY <1>1, <1>2 DEF MsgTypes, Places, Receiving, MsgTasks
<1>4. Ring
  BY <1>1 DEF Ring, Holds
<1>5. Users = {}
  BY <1>1 DEF Users, Uses, WaitPlaces
<1>6. Counted /\ Left
  BY <1>1, <1>5, FS_EmptySet DEF Counted, Left
<1>7. Flag /\ ~misled
  BY <1>1 DEF Flag
<1> QED  BY <1>3, <1>4, <1>6, <1>7 DEF MsgInv

LEMMA MsgNextInv ==
  ASSUME number \in Nat \ {0}, IsFiniteSet(Receivers), Owner \notin Receivers
  PROVE  MsgInv /\ [MsgNext]_msg => MsgInv'
<1>1. CASE MsgNext
  BY <1>1, SendStep, RecvStep, SignalStep, ConsumeStep, ResetStep, WakeupStep, DestroyStep
  DEF MsgNext, OwnerCalls
<1>2. CASE UNCHANGED msg
  BY <1>2 DEF msg, MsgInv, MsgTypes, Ring, Flag, Counted, Left, Users, Freed
<1> QED  BY <1>1, <1>2

LEMMA MsgInvOrder == MsgInv => MessagesInOrder
<1> SUFFICES ASSUME MsgInv
             PROVE  MessagesInOrder
  OBVIOUS
<1>1. ASSUME Freed, NEW t \in Receivers
      PROVE  at[t] \in {"out", "signal"}
  <2>1. t \notin Users /\ t \in MsgTasks /\ at[t] \in Receiving
    BY <1>1 DEF MsgInv, Left, MsgTypes, MsgTasks
  <2> QED  BY <2>1 DEF Users, Uses, WaitPlaces, Receiving
<1> QED  BY <1>1 DEF MessagesInOrder, MsgInv

\* Messages come in the order they were sent, each once, and msg_q_destroy frees the
\* queue only when no receiver waits in it, for every ring and finite set of
\* receivers: what av_render.c relies on to command its threads.
THEOREM MessagesKeepOrder == MsgSpec => []MessagesInOrder
<1>1. MsgInit => MsgInv
  BY MsgInitInv, MsgAssumption
<1>2. MsgInv /\ [MsgNext]_msg => MsgInv'
  BY MsgNextInv, MsgAssumption
<1>3. MsgInv => MessagesInOrder
  BY MsgInvOrder
<1> QED  BY <1>1, <1>2, <1>3, PTL DEF MsgSpec

-----------------------------------------------------------------------------
(* The threads of the player.  That a call frees no queue of a thread that *)
(* runs is an argument about what the call still has to do: the invariant  *)
(* reads the plan of a reset from its end, says of each step of it which   *)
(* threads have been told and are awaited, and of each thread that it has  *)
(* been told at most once and that its bit is set by it alone.             *)

Messages == {"CLOSE", "FLUSH", "PAUSE", "RESUME"}
AtWork == {"recv", "read", "body", "put"}
OwnerTodos ==
  {<<"tell", l, m>> : l \in Lanes, m \in Messages} \cup {<<"wake", l>> : l \in Lanes}
  \cup {<<"add", s>> : s \in Streams}
  \cup {<<"await">>, <<"join">>, <<"free">>, <<"return">>, <<"flushed">>}
\* What a call does that closes nothing.
MildTodos ==
  {<<"tell", l, m>> : l \in Lanes, m \in Messages \ {"CLOSE"}} \cup {<<"wake", l>> : l \in Lanes}
  \cup {<<"await">>, <<"return">>, <<"flushed">>}
CloseAwaited(l) == <<l, "close">> \in owner.await

\* A thread that was told to close is awaited until its bit is taken, and it is told
\* no more than that.
LaneInv(l) ==
  /\ DOMAIN res[l] = DOMAIN Res0 /\ res[l].msgs \in Seq(Messages)
  /\ res[l].thread => res[l].run \in AtWork
  /\ ~res[l].thread => res[l].run \in {"off", "exit"}
  /\ res[l].run # "off" => res[l].there
  /\ res[l].run = "exit" => CloseAwaited(l)
  /\ \A i \in 1..Len(res[l].msgs) :
       res[l].msgs[i] = "CLOSE" => i = Len(res[l].msgs) /\ res[l].thread /\ CloseAwaited(l)
  /\ <<l, "close">> \in bits => res[l].run = "off" /\ CloseAwaited(l)
LanesInv == DOMAIN res = Lanes /\ \A l \in Lanes : LaneInv(l)

\* The steps a call has left, counted from its end.
FromEnd(s, i) == s[Len(s) + 1 - i]
Togo == Len(owner.todo)
Waking == Step[1] = "wake"

OwnerInv ==
  /\ DOMAIN owner = {"op", "todo", "await", "got"}
  /\ owner.op \in {"none", "add", "pause", "resume", "flush", "reset"}
  /\ owner.todo \in Seq(OwnerTodos)
  /\ owner.op = "none" => owner.todo = <<>> /\ lock # "owner"
  /\ lock # "owner" => owner.await = {} /\ owner.got = {}
  /\ feeder.at = "into" => lock = "feeder"
  /\ DOMAIN feeder = {"at", "lane", "kind"} /\ feeder.lane \in Lanes /\ open \subseteq Streams

Mild ==
  owner.op \in {"pause", "resume", "flush"} =>
    /\ owner.todo \in Seq(MildTodos)
    /\ \A l \in Lanes : ~CloseAwaited(l)
Adding ==
  owner.op = "add" =>
    /\ Togo \in 1..3
    /\ FromEnd(owner.todo, 1)[1] = "add"
    /\ Togo > 1 => FromEnd(owner.todo, 2) = <<"await">>
    /\ Togo = 3 => Waking \/ (Step[1] = "tell" /\ Step[3] = "CLOSE" /\ owner.await = {})
    /\ Togo = 1 => owner.await = {}
    /\ lock # "owner" => Togo = 3 /\ ~Waking

\* The two rounds of a reset: when each thread's turn comes in the second.
Turn == [adec |-> 6, vdec |-> 5, arender |-> 4, vrender |-> 3]
Planned(i) ==
  CASE i = 1        -> <<"free">>
    [] i \in {2, 7} -> <<"join">>
    [] OTHER        -> <<"tell", CHOOSE l \in Lanes : Turn[l] \in {i, i - 5}, "CLOSE">>
Told(l, turn) == Togo < turn \/ (Togo = turn /\ Waking)
Resetting ==
  owner.op = "reset" =>
    /\ Togo \in 1..11
    /\ \A i \in 1..Togo - 1 : FromEnd(owner.todo, i) = Planned(i)
    /\ Step = Planned(Togo) \/ (Waking /\ Planned(Togo)[1] = "tell")
    /\ lock # "owner" => Togo = 11 /\ ~Waking

\* In the first round every thread but the audio render's is told once for all;
\* that one runs again only while a decoder is awaited.
FirstRound ==
  owner.op = "reset" /\ Togo > 6 =>
    /\ owner.got = {} /\ owner.await \subseteq {<<l, "close">> : l \in Lanes}
    /\ \A l \in Lanes : CloseAwaited(l) => Told(l, Turn[l] + 5)
    /\ \A l \in Lanes \ {"arender"} : Told(l, Turn[l] + 5) /\ res[l].thread => CloseAwaited(l)
    /\ Told("arender", 9) /\ res["arender"].thread => owner.await # {}
SecondRound ==
  owner.op = "reset" /\ Togo < 7 =>
    /\ \A l \in Lanes \ {"arender"} : res[l].run = "off"
    /\ owner.await \subseteq {<<"arender", "close">>}
    /\ "arender" \in owner.got => res["arender"].run = "off"
    /\ CloseAwaited("arender") => Told("arender", 4)
    /\ Told("arender", 4) /\ res["arender"].thread => CloseAwaited("arender")
    /\ Togo = 1 => res["arender"].run = "off" /\ owner.await = {}

InTurn == raced \cap {"quits", "restarted"} = {}
Parts == LanesInv /\ OwnerInv /\ Mild /\ Adding /\ Resetting /\ FirstRound /\ SecondRound
AvInv == InTurn => Parts

\* What the steps of a thread and of the feeder leave alone.

\* The render's thread may start: its end is not awaited, and a decoder runs or the
\* owner waits for api_lock.
Starting == ~CloseAwaited("arender") /\ (lock # "owner" \/ \E l \in Decoders : res[l].run # "off")
LanesMove ==
  /\ LanesInv'
  /\ \A l \in Lanes : res[l].run = "off" => res'[l].run = "off" \/ (l = "arender" /\ Starting)
OwnerStays ==
  /\ owner' = owner
  /\ lock' = "owner" <=> lock = "owner"
  /\ feeder'.at = "into" => lock' = "feeder"
  /\ DOMAIN feeder' = DOMAIN feeder /\ feeder'.lane \in Lanes /\ open' = open

LEMMA MoveInv ==
  ASSUME Parts, LanesMove, OwnerStays
  PROVE  Parts'
<1>1. OwnerInv' /\ Mild' /\ Adding' /\ Resetting'
  BY DEF Parts, OwnerStays, OwnerInv, Mild, Adding, Resetting, Togo, Waking, Step, CloseAwaited
<1>2. \A l \in Lanes : res'[l].thread => res'[l].run # "off"
  BY DEF LanesMove, LanesInv, LaneInv, AtWork
<1>3. \A l \in Lanes : res[l].run \in {"off", "exit"} \/ res[l].thread
  BY DEF Parts, LanesInv, LaneInv
<1>4. \A l \in Lanes : res[l].run = "exit" => CloseAwaited(l)
  BY DEF Parts, LanesInv, LaneInv
<1>5. /\ \A l \in Lanes : CloseAwaited(l)' <=> CloseAwaited(l)
      /\ Togo' = Togo /\ Waking' = Waking /\ owner' = owner
      /\ \A l, n : Told(l, n)' <=> Told(l, n)
  BY DEF OwnerStays, Togo, Waking, Step, Told, CloseAwaited
<1>6. FirstRound'
  <2> SUFFICES ASSUME owner.op = "reset", Togo > 6
               PROVE  FirstRound!2'
    BY <1>5 DEF FirstRound
  <2>1. FirstRound!2
    BY DEF Parts, FirstRound
  <2>2. ASSUME NEW l \in Lanes \ {"arender"}, Told(l, Turn[l] + 5), res'[l].thread
        PROVE  CloseAwaited(l)
    BY <2>1, <2>2, <1>2, <1>3, <1>4 DEF LanesMove
  <2>3. ASSUME Told("arender", 9), res'["arender"].thread
        PROVE  owner.await # {}
    <3>1. lock = "owner"
      BY <2>3 DEF Parts, Resetting, Told
    <3>2. CASE res["arender"].run # "off"
      BY <3>2, <2>1, <2>3, <1>3, <1>4 DEF CloseAwaited, Lanes
    <3>3. CASE res["arender"].run = "off"
      <4>1. PICK l \in Decoders : res[l].run # "off"
        BY <3>1, <3>3, <1>2, <2>3 DEF LanesMove, Starting, Lanes
      <4>2. Told(l, Turn[l] + 5) /\ l \in Lanes \ {"arender"}
        BY <2>3, <4>1 DEF Told, Turn, Decoders, Lanes, Parts, Resetting
      <4> QED  BY <4>1, <4>2, <2>1, <1>3, <1>4 DEF CloseAwaited
    <3> QED  BY <3>2, <3>3
  <2> QED  BY <2>1, <2>2, <2>3, <1>5
<1>7. SecondRound'
  <2> SUFFICES ASSUME owner.op = "reset", Togo < 7
               PROVE  SecondRound!2'
    BY <1>5 DEF SecondRound
  <2>1. SecondRound!2
    BY DEF Parts, SecondRound
  <2>2. lock = "owner"
    BY DEF Parts, Resetting
  <2>3. ~Starting
    BY <2>1, <2>2 DEF Starting, Decoders, Lanes
  <2>4. \A l \in Lanes : res[l].run = "off" => res'[l].run = "off"
    BY <2>3 DEF LanesMove
  <2>5. Told("arender", 4) /\ res'["arender"].thread => CloseAwaited("arender")
    BY <2>1, <2>4, <1>2, <1>3, <1>4 DEF Lanes
  <2>6. "arender" \in Lanes
    BY DEF Lanes
  <2> QED  BY <2>1, <2>4, <2>5, <2>6, <1>5
<1> QED  BY <1>1, <1>6, <1>7 DEF Parts, LanesMove

\* A thread's record with another run, pause, flag or data.
Kin(r, o) == DOMAIN r = DOMAIN o /\ r.there = o.there /\ r.thread = o.thread /\ r.msgs = o.msgs
Carries(r, o) == Kin(r, o) /\ (r.run = o.run \/ (r.run \in AtWork /\ o.run \in AtWork))
Bitless == \A l \in Lanes : <<l, "close">> \in bits' => <<l, "close">> \in bits

LEMMA CarriedLane ==
  ASSUME NEW l \in Lanes, LaneInv(l), owner' = owner, Bitless, Carries(res'[l], res[l])
  PROVE  LaneInv(l)' /\ (res[l].run = "off" => res'[l].run = "off")
BY DEF LaneInv, Bitless, Carries, Kin, CloseAwaited, AtWork

LEMMA CarriedMove ==
  ASSUME Parts, DOMAIN res' = Lanes, owner' = owner, Bitless,
         \A l \in Lanes : Carries(res'[l], res[l])
  PROVE  LanesMove
<1>1. ASSUME NEW l \in Lanes
      PROVE  LaneInv(l)' /\ (res[l].run = "off" => res'[l].run = "off")
  BY CarriedLane DEF Parts, LanesInv
<1> QED  BY <1>1 DEF LanesMove, LanesInv

LEMMA FieldsOf == DOMAIN Res0 = {"there", "thread", "paused", "flushing", "msgs", "data", "run", "block"}
BY DEF Res0

LEMMA WrittenKin ==
  ASSUME NEW r, NEW s
  PROVE  Kin(Written(r, s), r) /\ ("run" \in DOMAIN r => Written(r, s).run = r.run)
         /\ ("data" \in DOMAIN r => Written(r, s).data = r.data)
BY DEF Written, Kin

LEMMA PoppedKin ==
  ASSUME NEW r, DOMAIN r = DOMAIN Res0
  PROVE  Kin(Popped(r), r) /\ Popped(r).run = r.run
BY FieldsOf DEF Popped, Kin

LEMMA RunKin ==
  ASSUME NEW r, NEW o, DOMAIN o = DOMAIN Res0, Kin(r, o), NEW x
  PROVE  Kin([r EXCEPT !.run = x], o) /\ [r EXCEPT !.run = x].run = x
BY FieldsOf DEF Kin

LEMMA KinChain == ASSUME NEW r, NEW o, NEW p, Kin(r, o), Kin(o, p)  PROVE Kin(r, p)
BY DEF Kin

LEMMA OneCarries ==
  ASSUME Parts, NEW l \in Lanes, NEW r, res' = [res EXCEPT ![l] = r],
         Carries(r, res[l])
  PROVE  DOMAIN res' = Lanes /\ \A m \in Lanes : Carries(res'[m], res[m])
<1>1. DOMAIN res = Lanes
  BY DEF Parts, LanesInv
<1>2. ASSUME NEW m \in Lanes, m # l
      PROVE  res'[m] = res[m]
  BY <1>1, <1>2
<1>3. res'[l] = r
  BY <1>1
<1> QED  BY <1>1, <1>2, <1>3 DEF Carries, Kin

LEMMA PausedCarries ==
  ASSUME Parts, NEW v \in Lanes, NEW b, res'[v] = PausedIf(res[v], b),
         \A k \in Lanes \ {v} : Carries(res'[k], res[k])
  PROVE  \A k \in Lanes : Carries(res'[k], res[k])
<1>1. DOMAIN res[v] = DOMAIN Res0
  BY DEF Parts, LanesInv, LaneInv
<1>2. Carries(res'[v], res[v])
  BY <1>1, FieldsOf DEF PausedIf, Kin, Carries
<1> QED  BY <1>2

LEMMA ReadMove ==
  ASSUME Parts, NEW l \in Lanes, NoMessage(l) \/ Read(l)
  PROVE  LanesMove /\ OwnerStays
<1>0. DOMAIN res[l] = DOMAIN Res0 /\ DOMAIN res = Lanes
  BY DEF Parts, LanesInv, LaneInv
<1>1. owner' = owner /\ bits' = bits /\ lock' = lock /\ feeder' = feeder /\ open' = open /\ raced' = raced
  BY DEF NoMessage, Read, player
<1>2. \E r : res' = [res EXCEPT ![l] = r] /\ Carries(r, res[l])
  <2>1. CASE NoMessage(l)
    <3> DEFINE r == [res[l] EXCEPT !.run = "read"]
    <3>1. res' = [res EXCEPT ![l] = r]
      BY <2>1, <1>0 DEF NoMessage
    <3>2. Carries(r, res[l])
      BY <2>1, <1>0, FieldsOf DEF NoMessage, Carries, Kin, AtWork
    <3> QED  BY <3>1, <3>2
  <2>2. CASE Read(l)
    <3> DEFINE r == [res[l] EXCEPT !.block = Head(res[l].data), !.run = "body"]
    <3>1. res' = [res EXCEPT ![l] = r]
      BY <2>2, <1>0 DEF Read
    <3>2. Carries(r, res[l])
      BY <2>2, <1>0, FieldsOf DEF Read, Carries, Kin, AtWork
    <3> QED  BY <3>1, <3>2
  <2> QED  BY <2>1, <2>2
<1>3. DOMAIN res' = Lanes /\ \A m \in Lanes : Carries(res'[m], res[m])
  BY <1>2, OneCarries
<1>4. Bitless
  BY <1>1 DEF Bitless
<1>5. LanesMove
  BY <1>1, <1>3, <1>4, CarriedMove
<1>6. OwnerStays
  BY <1>1 DEF OwnerStays, Parts, OwnerInv
<1> QED  BY <1>5, <1>6

LEMMA CarriedInv ==
  ASSUME Parts, DOMAIN res' = Lanes, \A l \in Lanes : Carries(res'[l], res[l]),
         OwnerStays, bits' = bits
  PROVE  Parts'
<1>1. Bitless /\ owner' = owner
  BY DEF Bitless, OwnerStays
<1> QED  BY <1>1, CarriedMove, MoveInv

\* What the body of a render leaves.
LEMMA RenderMove ==
  ASSUME Parts, NEW l \in Lanes \ Decoders, RenderBody(l)
  PROVE  Parts'
<1> DEFINE s == StreamOf[l]
           r == IF Kind(l) = "wake" THEN res[l] ELSE Written(res[l], s)
           p == IF r.paused THEN r ELSE Popped(r)
           h == Kind(l) # "wake" /\ Halts(s)
<1>0. DOMAIN res[l] = DOMAIN Res0 /\ DOMAIN res = Lanes /\ res[l].run = "body"
  BY DEF Parts, LanesInv, LaneInv, RenderBody
<1>1. owner' = owner /\ bits' = bits /\ lock' = lock /\ feeder' = feeder /\ open' = open
  BY DEF RenderBody
<1>2. Kin(r, res[l])
  BY WrittenKin DEF Kin
<1>3. Kin(p, res[l])
  <2>1. Kin(Popped(r), r)
    BY <1>0, <1>2, PoppedKin DEF Kin
  <2> QED  BY <2>1, <1>2, KinChain
<1>4. Kin([p EXCEPT !.run = "recv"], res[l]) /\ [p EXCEPT !.run = "recv"].run = "recv"
  BY <1>3, <1>0, RunKin
<1>5. Kin([res[l] EXCEPT !.run = "recv"], res[l]) /\ [res[l] EXCEPT !.run = "recv"].run = "recv"
  BY <1>0, RunKin DEF Kin
<1>6. \/ res' = [res EXCEPT ![l] = [res[l] EXCEPT !.run = "recv"]]
      \/ res' = [res EXCEPT ![l] = [p EXCEPT !.run = "recv"], !["vdec"] = PausedIf(@, h)]
  <2> HIDE DEF p, r, h
  <2>1. res' = [res EXCEPT ![l].run = "recv"] => res' = [res EXCEPT ![l] = [res[l] EXCEPT !.run = "recv"]]
    BY <1>0
  <2> QED  BY <2>1 DEF RenderBody, p, r, h
<1>7. DOMAIN res' = Lanes /\ \A m \in Lanes : Carries(res'[m], res[m])
  <2> HIDE DEF p, h
  <2>1. \A x : x.run = "recv" /\ Kin(x, res[l]) => Carries(x, res[l])
    BY <1>0 DEF Carries, AtWork
  <2>2. CASE res' = [res EXCEPT ![l] = [res[l] EXCEPT !.run = "recv"]]
    BY <2>1, <2>2, <1>5, OneCarries
  <2>3. CASE res' = [res EXCEPT ![l] = [p EXCEPT !.run = "recv"], !["vdec"] = PausedIf(@, h)]
    <3> DEFINE x == [p EXCEPT !.run = "recv"]
               P(o) == PausedIf(o, h)
    <3>1. Carries(x, res[l])
      BY <2>1, <1>4
    <3> HIDE DEF x
    <3>2. "vdec" \in Lanes /\ "vdec" # l
      BY DEF Lanes, Decoders
    <3>3. /\ DOMAIN res' = Lanes /\ res'[l] = x /\ res'["vdec"] = P(res["vdec"])
          /\ \A k \in Lanes \ {l, "vdec"} : res'[k] = res[k]
      <4> HIDE DEF P
      <4>1. res' = [res EXCEPT ![l] = x, !["vdec"] = P(@)]
        BY <2>3 DEF x, P
      <4> QED  BY <4>1, <3>2, <1>0
    <3>4. \A k \in Lanes \ {"vdec"} : Carries(res'[k], res[k])
      BY <3>1, <3>3 DEF Carries, Kin
    <3> QED  BY <3>2, <3>3, <3>4, PausedCarries
  <2> QED  BY <2>2, <2>3, <1>6
<1> QED  BY <1>1, <1>7, CarriedInv DEF OwnerStays, Parts, OwnerInv

LEMMA DoneKin ==
  ASSUME NEW l, NEW r, DOMAIN r = DOMAIN Res0, ~(r.block[1] = "eos" /\ set.quit_when_eos)
  PROVE  Kin(Done(l, r), r) /\ Done(l, r).run = "recv"
<1>1. Kin(Popped(r), r) /\ DOMAIN Popped(r) = DOMAIN Res0
  BY PoppedKin DEF Kin
<1>2. Kin([Popped(r) EXCEPT !.run = "recv"], r) /\ [Popped(r) EXCEPT !.run = "recv"].run = "recv"
  BY <1>1, RunKin
<1>3. LET p == [Popped(r) EXCEPT !.paused = TRUE, !.run = "recv"]
      IN  Kin(p, r) /\ p.run = "recv"
  BY <1>1, FieldsOf DEF Kin
<1>4. \/ Done(l, r) = [Popped(r) EXCEPT !.run = "recv"]
      \/ Done(l, r) = [Popped(r) EXCEPT !.paused = TRUE, !.run = "recv"]
  <2> DEFINE a == [Popped(r) EXCEPT !.run = "recv"]
             b == [Popped(r) EXCEPT !.thread = FALSE, !.run = "exit"]
             c == [Popped(r) EXCEPT !.paused = TRUE, !.run = "recv"]
  <2> HIDE DEF a, b, c
  <2>1. Done(l, r) = IF r.block[1] # "eos" THEN a ELSE IF set.quit_when_eos THEN b ELSE c
    BY DEF Done, a, b, c
  <2>2. Done(l, r) = a \/ Done(l, r) = c
    BY <2>1
  <2> QED  BY <2>2 DEF a, c
<1> QED  BY <1>2, <1>3, <1>4

LEMMA NoQuit ==
  ASSUME NEW l, Quits(l), InTurn'
  PROVE  ~(Kind(l) = "eos" /\ set.quit_when_eos)
BY DEF Quits, InTurn

LEMMA DecodesNothingMove ==
  ASSUME Parts, NEW l \in Lanes, DecodesNothing(l), InTurn'
  PROVE  Parts'
<1>0. DOMAIN res[l] = DOMAIN Res0 /\ DOMAIN res = Lanes /\ res[l].run = "body"
  BY DEF Parts, LanesInv, LaneInv, DecodesNothing
<1>1. /\ owner' = owner /\ bits' = bits /\ lock' = lock /\ feeder' = feeder /\ open' = open
      /\ Quits(l) /\ res' = [res EXCEPT ![l] = Done(l, res[l])]
  BY <1>0 DEF DecodesNothing
<1>2. Kin(Done(l, res[l]), res[l]) /\ Done(l, res[l]).run = "recv"
  BY <1>0, <1>1, NoQuit, DoneKin DEF Kind
<1>3. DOMAIN res' = Lanes /\ \A m \in Lanes : Carries(res'[m], res[m])
  BY <1>0, <1>1, <1>2, OneCarries DEF Carries, AtWork
<1> QED  BY <1>1, <1>3, CarriedInv DEF OwnerStays, Parts, OwnerInv

LEMMA PutsMove ==
  ASSUME Parts, NEW l \in Lanes, Puts(l), InTurn'
  PROVE  Parts'
<1> DEFINE d == Render[StreamOf[l]]
           r == [res[d] EXCEPT !.data = Append(@, res[l].block)]
<1>0. DOMAIN res[l] = DOMAIN Res0 /\ DOMAIN res = Lanes /\ res[l].run = "put"
  BY DEF Parts, LanesInv, LaneInv, Puts
<1>1. d \in Lanes /\ d # l
  BY DEF Puts, Decoders, Render, StreamOf, Lanes
<1>2. /\ owner' = owner /\ bits' = bits /\ lock' = lock /\ feeder' = feeder /\ open' = open /\ Quits(l)
      /\ res' = [res EXCEPT ![d] = r, ![l] = Done(l, res[l])]
  BY <1>0, <1>1 DEF Puts
<1>3. Kin(Done(l, res[l]), res[l]) /\ Done(l, res[l]).run = "recv"
  BY <1>0, <1>2, NoQuit, DoneKin DEF Kind
<1>4. Kin(r, res[d]) /\ r.run = res[d].run
  BY <1>1, FieldsOf DEF Kin, Parts, LanesInv, LaneInv
<1>5. Carries(r, res[d]) /\ Carries(Done(l, res[l]), res[l])
  BY <1>0, <1>3, <1>4 DEF Carries, AtWork
<1>6. DOMAIN res' = Lanes /\ \A m \in Lanes : Carries(res'[m], res[m])
  <2> HIDE DEF r, d
  <2>1. /\ DOMAIN res' = Lanes /\ res'[l] = Done(l, res[l]) /\ res'[d] = r
        /\ \A m \in Lanes \ {l, d} : res'[m] = res[m]
    BY <1>0, <1>1, <1>2
  <2> QED  BY <2>1, <1>5 DEF Carries, Kin
<1> QED  BY <1>2, <1>6, CarriedInv DEF OwnerStays, Parts, OwnerInv

\* A thread that starts where none runs and none is awaited.
\* A thread that starts: no end of it is awaited.
LEMMA CreatedLane ==
  ASSUME NEW l \in Lanes, LaneInv(l), ~CloseAwaited(l), CloseAwaited(l)' <=> CloseAwaited(l),
         res'[l] = create_thread_res(res[l]), bits' = bits
  PROVE  LaneInv(l)'
<1>1. /\ DOMAIN res'[l] = DOMAIN Res0 /\ res'[l].thread /\ res'[l].there /\ res'[l].run = "recv"
      /\ res'[l].msgs = res[l].msgs
  BY FieldsOf DEF create_thread_res, LaneInv
<1>2. \A i \in 1..Len(res[l].msgs) : res[l].msgs[i] # "CLOSE"
  BY DEF LaneInv
<1>3. <<l, "close">> \notin bits
  BY DEF LaneInv
<1> QED  BY <1>1, <1>2, <1>3 DEF LaneInv, AtWork

LEMMA StartMove ==
  ASSUME Parts, DOMAIN res' = Lanes, Starting,
         res'["arender"] = create_thread_res(res["arender"]),
         \A l \in Lanes \ {"arender"} : Carries(res'[l], res[l]),
         OwnerStays, bits' = bits
  PROVE  Parts'
<1>1. owner' = owner /\ Bitless
  BY DEF OwnerStays, Bitless
<1>2. LaneInv("arender")'
  BY <1>1, CreatedLane DEF Starting, CloseAwaited, Lanes, Parts, LanesInv
<1>3. ASSUME NEW l \in Lanes \ {"arender"}
      PROVE  LaneInv(l)' /\ (res[l].run = "off" => res'[l].run = "off")
  BY <1>1, CarriedLane DEF Parts, LanesInv
<1>4. LanesMove
  BY <1>2, <1>3 DEF LanesMove, LanesInv, Lanes
<1> QED  BY <1>4, MoveInv

\* The first frame starts the audio render's thread, or nothing.
LEMMA FrameReaches ==
  ASSUME Parts, NEW s
  PROVE  LET rs == av_render_frame_reached(res, s)
         IN  \/ rs = res
             \/ /\ rs = [res EXCEPT !["arender"] = create_thread_res(res["arender"])]
                /\ s = "audio" /\ ~res["arender"].thread /\ rs["arender"].thread
<1>1. DOMAIN res = Lanes /\ "arender" \in Lanes /\ DOMAIN res["arender"] = DOMAIN Res0
  BY DEF Parts, LanesInv, LaneInv, Lanes
<1>2. create_thread_res(res["arender"]).thread
  BY <1>1, FieldsOf DEF create_thread_res
<1> DEFINE c == create_thread_res(res["arender"])
<1> HIDE DEF c
<1>3. av_render_frame_reached(res, s) = [res EXCEPT !["arender"] = c] => av_render_frame_reached(res, s)["arender"].thread
  BY <1>1, <1>2 DEF c
<1>4. \/ av_render_frame_reached(res, s) = res
      \/ av_render_frame_reached(res, s) = [res EXCEPT !["arender"] = c] /\ s = "audio" /\ ~res["arender"].thread
  BY <1>1 DEF av_render_frame_reached, c
<1> QED  BY <1>3, <1>4 DEF c

LEMMA DecodesMove ==
  ASSUME Parts, NEW l \in Lanes, Decodes(l), InTurn'
  PROVE  Parts'
<1> DEFINE s  == StreamOf[l]
           d  == Render[s]
           rs == av_render_frame_reached(res, s)
<1>0. DOMAIN res[l] = DOMAIN Res0 /\ DOMAIN res = Lanes /\ res[l].run = "body"
  BY DEF Parts, LanesInv, LaneInv, Decodes
<1>1. d \in Lanes /\ d # l /\ l # "arender" /\ l \in Decoders /\ (s = "audio" => d = "arender")
  BY DEF Decodes, Decoders, Render, StreamOf, Lanes
<1>2. /\ owner' = owner /\ bits' = bits /\ lock' = lock /\ feeder' = feeder /\ open' = open /\ OwnerStays
  BY DEF Decodes, OwnerStays, Parts, OwnerInv
<1>3. CASE rs[d].thread
  <2>1. res' = [rs EXCEPT ![l].run = "put"] /\ raced' = Restarts(rs)
    BY <1>3 DEF Decodes
  <2>2. CASE rs = res
    <3> DEFINE r == [res[l] EXCEPT !.run = "put"]
    <3>1. res' = [res EXCEPT ![l] = r]
      BY <2>1, <2>2, <1>0
    <3>2. Kin(r, res[l]) /\ r.run = "put"
      BY <1>0, RunKin DEF Kin
    <3>3. Carries(r, res[l])
      BY <3>2, <1>0 DEF Carries, AtWork
    <3>4. DOMAIN res' = Lanes /\ \A m \in Lanes : Carries(res'[m], res[m])
      BY <3>1, <3>3, OneCarries
    <3> QED  BY <3>4, <1>2, CarriedInv
  <2>3. CASE /\ rs = [res EXCEPT !["arender"] = create_thread_res(res["arender"])]
             /\ s = "audio" /\ ~res["arender"].thread /\ rs["arender"].thread
    <3> DEFINE c == create_thread_res(res["arender"])
               r == [res[l] EXCEPT !.run = "put"]
    <3>1. ~CloseAwaited("arender")
      BY <2>1, <2>3 DEF Restarts, InTurn, CloseAwaited
    <3>2. Starting
      BY <3>1, <1>0, <1>1 DEF Starting
    <3>3. Kin(r, res[l]) /\ r.run = "put"
      BY <1>0, RunKin DEF Kin
    <3>4. Carries(r, res[l])
      BY <3>3, <1>0 DEF Carries, AtWork
    <3>5. "arender" \in Lanes
      BY DEF Lanes
    <3> HIDE DEF c, s, d
    <3>6. rs = [res EXCEPT !["arender"] = c]
      BY <2>3 DEF c
    <3> HIDE DEF rs
    <3>7. res' = [[res EXCEPT !["arender"] = c] EXCEPT ![l] = r]
      BY <2>1, <3>6, <1>0, <1>1
    <3> HIDE DEF r
    <3>8. /\ DOMAIN res' = Lanes /\ res'["arender"] = c /\ res'[l] = r
          /\ \A m \in Lanes \ {"arender", l} : res'[m] = res[m]
      BY <3>7, <3>5, <1>0, <1>1
    <3>9. \A m \in Lanes \ {"arender"} : Carries(res'[m], res[m])
      BY <3>8, <3>4 DEF Carries, Kin
    <3> QED  BY <3>2, <3>8, <3>9, <1>2, StartMove DEF c
  <2> QED  BY <2>2, <2>3, FrameReaches
<1>4. CASE ~rs[d].thread
  <2> DEFINE i == PausedIf(res[l], Halts(s))
             w == Written(res[d], s)
             n == Done(l, i)
  <2>1. rs = res
    BY <1>4, <1>1, FrameReaches
  <2>2. Kin(i, res[l]) /\ i.run = res[l].run /\ i.block = res[l].block
    BY <1>0, FieldsOf DEF Kin, PausedIf
  <2>3. Quits(l)
    BY <1>4 DEF Decodes
  <2>4. Kin(n, i) /\ n.run = "recv"
    <3>1. ~(i.block[1] = "eos" /\ set.quit_when_eos)
      BY <2>2, <2>3, NoQuit DEF Kind
    <3>2. DOMAIN i = DOMAIN Res0
      BY <2>2, <1>0 DEF Kin
    <3> HIDE DEF i
    <3> QED  BY <3>1, <3>2, DoneKin
  <2>5. Carries(n, res[l])
    <3>1. Kin(n, res[l])
      BY <2>2, <2>4, KinChain
    <3> QED  BY <3>1, <2>4, <1>0 DEF Carries, AtWork
  <2>6. Carries(w, res[d])
    <3>1. "run" \in DOMAIN res[d]
      BY <1>1, FieldsOf DEF Parts, LanesInv, LaneInv
    <3> QED  BY <3>1, WrittenKin DEF Carries
  <2> DEFINE W(x) == Written(x, s)
             D(x) == Done(l, PausedIf(x, Halts(s)))
  <2>7. res' = [rs EXCEPT ![d] = W(@), ![l] = D(@)]
    BY <1>4 DEF Decodes
  <2>8. /\ DOMAIN res' = Lanes /\ res'[d] = w /\ res'[l] = n
        /\ \A m \in Lanes \ {l, d} : res'[m] = res[m]
    <3>1. w = W(res[d]) /\ n = D(res[l])
      OBVIOUS
    <3> HIDE DEF w, n, W, D, s, d, rs
    <3> QED  BY <2>1, <2>7, <3>1, <1>0, <1>1
  <2> HIDE DEF w, n, i, d, s
  <2>9. \A m \in Lanes : Carries(res'[m], res[m])
    BY <2>8, <2>5, <2>6 DEF Carries, Kin
  <2> QED  BY <2>8, <2>9, <1>2, CarriedInv
<1> QED  BY <1>3, <1>4

LEMMA AddDataMove ==
  ASSUME Parts, AddData
  PROVE  Parts'
<1>1. PICK s \in open, kind \in {"frame", "eos"} :
        LET l == Decoder[s]  d == Render[s]  rs == av_render_frame_reached(res, s)
        IN  \/ UNCHANGED <<res, lock>> /\ feeder' = [at |-> "put", lane |-> l, kind |-> kind]
            \/ rs[d].thread /\ feeder' = [at |-> "into", lane |-> d, kind |-> kind] /\ lock' = "feeder" /\ res' = rs
            \/ ~rs[d].thread /\ res' = [rs EXCEPT ![d] = Written(@, s), ![l] = PausedIf(@, Halts(s))]
               /\ UNCHANGED <<feeder, lock>>
  BY DEF AddData
<1> DEFINE l == Decoder[s]
           d  == Render[s]
           rs == av_render_frame_reached(res, s)
<1>2. /\ owner' = owner /\ bits' = bits /\ lock = "none" /\ feeder.at = "out" /\ open' = open
      /\ DOMAIN feeder = {"at", "lane", "kind"} /\ feeder.lane \in Lanes /\ s \in Streams
  BY DEF AddData, Parts, OwnerInv
<1>3. DOMAIN res = Lanes /\ "arender" \in Lanes
  BY DEF Parts, LanesInv, Lanes
<1>4. d \in Lanes /\ l \in Lanes /\ d # l /\ (s = "audio" => d = "arender")
  BY <1>2 DEF Render, Decoder, Lanes, Streams
<1>5. OwnerStays
  <2> HIDE DEF d, l, rs
  <2>1. /\ DOMAIN feeder' = {"at", "lane", "kind"}
        /\ \/ lock' = lock /\ feeder'.at = "put" /\ feeder'.lane = l
           \/ lock' = "feeder" /\ feeder'.at = "into" /\ feeder'.lane = d
           \/ lock' = lock /\ feeder' = feeder
    BY <1>1, <1>2 DEF d, l
  <2> QED  BY <2>1, <1>2, <1>4 DEF OwnerStays
<1>6. Starting
  BY <1>2 DEF Starting, CloseAwaited, Parts, OwnerInv
<1>7. CASE res' = res
  BY <1>7, <1>2, <1>3, <1>5, CarriedInv DEF Carries, Kin
<1>8. CASE res' = rs
  <2>1. CASE rs = res
    BY <2>1, <1>7, <1>8
  <2>2. CASE rs = [res EXCEPT !["arender"] = create_thread_res(res["arender"])]
    <3> DEFINE c == create_thread_res(res["arender"])
    <3> HIDE DEF c
    <3>1. res' = [res EXCEPT !["arender"] = c]
      BY <2>2, <1>8 DEF c
    <3>2. DOMAIN res' = Lanes /\ res'["arender"] = c /\ \A m \in Lanes \ {"arender"} : res'[m] = res[m]
      BY <3>1, <1>3
    <3>3. \A m \in Lanes \ {"arender"} : Carries(res'[m], res[m])
      BY <3>2 DEF Carries, Kin
    <3> QED  BY <3>2, <3>3, <1>2, <1>5, <1>6, StartMove DEF c
  <2> QED  BY <2>1, <2>2, FrameReaches
<1>9. CASE ~rs[d].thread /\ res' = [rs EXCEPT ![d] = Written(@, s), ![l] = PausedIf(@, Halts(s))]
  <2>1. rs = res
    BY <1>9, <1>4, FrameReaches
  <2> DEFINE w == Written(res[d], s)
  <2>2. Carries(w, res[d])
    <3>1. "run" \in DOMAIN res[d]
      BY <1>4, FieldsOf DEF Parts, LanesInv, LaneInv
    <3> QED  BY <3>1, WrittenKin DEF Carries
  <2> DEFINE W(x) == Written(x, s)
             P(x) == PausedIf(x, Halts(s))
  <2>3. /\ DOMAIN res' = Lanes /\ res'[d] = w /\ res'[l] = P(res[l])
        /\ \A k \in Lanes \ {d, l} : res'[k] = res[k]
    <3>1. res' = [res EXCEPT ![d] = W(@), ![l] = P(@)] /\ w = W(res[d])
      BY <1>9, <2>1
    <3> HIDE DEF w, d, l, rs, W, P
    <3> QED  BY <3>1, <1>3, <1>4
  <2>4. DOMAIN res' = Lanes /\ \A k \in Lanes : Carries(res'[k], res[k])
    <3> HIDE DEF w, d, l, rs
    <3>1. \A k \in Lanes \ {l} : Carries(res'[k], res[k])
      BY <2>2, <2>3 DEF Carries, Kin
    <3> QED  BY <1>4, <2>3, <3>1, PausedCarries
  <2> QED  BY <2>4, <1>2, <1>5, CarriedInv
<1> QED  BY <1>1, <1>7, <1>8, <1>9

LEMMA PutDataMove ==
  ASSUME Parts, PutData
  PROVE  Parts'
<1> DEFINE l == feeder.lane
           r == [res[l] EXCEPT !.data = Append(@, <<feeder.kind, FALSE>>)]
<1>1. /\ owner' = owner /\ bits' = bits /\ res' = [res EXCEPT ![l] = r] /\ open' = open
      /\ feeder' = [feeder EXCEPT !.at = "out"] /\ lock' = IF feeder.at = "into" THEN "none" ELSE lock
  BY DEF PutData
<1>2. DOMAIN res = Lanes /\ l \in Lanes /\ DOMAIN feeder = {"at", "lane", "kind"}
  BY DEF Parts, LanesInv, OwnerInv
<1>3. lock' = "owner" <=> lock = "owner"
  BY <1>1 DEF Parts, OwnerInv
<1>4. feeder'.at = "into" => lock' = "feeder"
  BY <1>1 DEF Parts, OwnerInv
<1>5. OwnerStays
  BY <1>1, <1>2, <1>3, <1>4 DEF OwnerStays
<1>6. Carries(r, res[l])
  BY <1>2, FieldsOf DEF Carries, Kin, Parts, LanesInv, LaneInv
<1>7. DOMAIN res' = Lanes /\ \A m \in Lanes : Carries(res'[m], res[m])
  <2> HIDE DEF r, l
  <2> QED  BY <1>1, <1>2, <1>6, OneCarries
<1> QED  BY <1>7, <1>1, <1>5, CarriedInv

LEMMA TailOf ==
  ASSUME NEW S, NEW s \in Seq(S), s # <<>>
  PROVE  /\ Tail(s) \in Seq(S) /\ Len(Tail(s)) = Len(s) - 1 /\ Head(s) = s[1] /\ Head(s) \in S
         /\ \A i \in 1..Len(s) - 1 : Tail(s)[i] = s[i + 1]
BY HeadTailProperties

LEMMA ProceedKin ==
  ASSUME NEW r, DOMAIN r = DOMAIN Res0
  PROVE  Kin(Proceed(r), r) /\ Proceed(r).run \in {"recv", "read"}
<1>1. Kin([r EXCEPT !.run = "recv"], r) /\ [r EXCEPT !.run = "recv"].run = "recv"
  BY RunKin DEF Kin
<1>2. Kin([r EXCEPT !.run = "read"], r) /\ [r EXCEPT !.run = "read"].run = "read"
  BY RunKin DEF Kin
<1> DEFINE x == [r EXCEPT !.run = "recv"]
           y == [r EXCEPT !.run = "read"]
<1> HIDE DEF x, y
<1>3. Proceed(r) = x \/ Proceed(r) = y
  <2>1. Proceed(r) = [r EXCEPT !.run = IF r.paused THEN "recv" ELSE "read"]
    BY DEF Proceed
  <2>2. CASE r.paused
    BY <2>1, <2>2 DEF x
  <2>3. CASE ~r.paused
    BY <2>1, <2>3 DEF y
  <2> QED  BY <2>2, <2>3
<1> QED  BY <1>1, <1>2, <1>3 DEF x, y

\* A thread has taken a message; the one that closes it is its last.
LEMMA GotMessageMove ==
  ASSUME Parts, NEW l \in Lanes, GotMessage(l)
  PROVE  Parts'
<1> DEFINE m == Head(res[l].msgs)
           t == Tail(res[l].msgs)
           r == [res[l] EXCEPT !.msgs = t]
           closed == [r EXCEPT !.thread = FALSE, !.run = "exit"]
           emptied == [r EXCEPT !.data = << >>, !.flushing = FALSE]
           stopped1 == [r EXCEPT !.paused = TRUE]
           resumed == [r EXCEPT !.paused = FALSE]
<1>1. /\ DOMAIN res[l] = DOMAIN Res0 /\ DOMAIN res = Lanes /\ res[l].run = "recv" /\ LaneInv(l)
      /\ res[l].msgs \in Seq(Messages) /\ res[l].msgs # <<>> /\ res[l].there
  BY DEF Parts, LanesInv, LaneInv, GotMessage
<1>2. /\ owner' = owner /\ lock' = lock /\ feeder' = feeder /\ open' = open
      /\ bits' = IF m = "FLUSH" THEN bits \cup {<<l, "flush">>} ELSE bits
      /\ res' = [res EXCEPT ![l] =
              CASE m = "CLOSE"  -> closed
                [] m = "FLUSH"  -> Proceed(emptied)
                [] m = "PAUSE"  -> stopped1
                [] m = "RESUME" -> Proceed(resumed)]
  BY DEF GotMessage
<1>3. /\ t \in Seq(Messages) /\ Len(t) = Len(res[l].msgs) - 1 /\ m = res[l].msgs[1] /\ m \in Messages
      /\ \A i \in 1..Len(t) : t[i] = res[l].msgs[i + 1]
      /\ Len(res[l].msgs) \in Nat \ {0}
  BY <1>1, TailOf
<1>4. res[l].thread
  BY <1>1 DEF LaneInv
<1>5. DOMAIN r = DOMAIN Res0 /\ r.there = res[l].there /\ r.thread = res[l].thread /\ r.msgs = t /\ r.run = "recv"
  BY <1>1, FieldsOf
<1>6. /\ DOMAIN closed = DOMAIN Res0 /\ closed.there /\ ~closed.thread
      /\ closed.msgs = t /\ closed.run = "exit"
  BY <1>1, FieldsOf
<1>7. LET Fits(x) == DOMAIN x = DOMAIN Res0 /\ x.there = res[l].there /\ x.thread = res[l].thread /\ x.msgs = t
      IN  /\ Fits(Proceed(emptied)) /\ Proceed(emptied).run \in {"recv", "read"}
          /\ Fits(stopped1) /\ stopped1.run = "recv"
          /\ Fits(Proceed(resumed)) /\ Proceed(resumed).run \in {"recv", "read"}
  <2>1. Kin(emptied, r) /\ Kin(stopped1, r) /\ stopped1.run = "recv" /\ Kin(resumed, r)
    BY <1>5, FieldsOf DEF Kin
  <2> HIDE DEF emptied, resumed, stopped1, r, t
  <2>2. /\ Kin(Proceed(emptied), emptied) /\ Proceed(emptied).run \in {"recv", "read"}
        /\ Kin(Proceed(resumed), resumed) /\ Proceed(resumed).run \in {"recv", "read"}
    BY <2>1, <1>5, ProceedKin DEF Kin
  <2> QED  BY <2>1, <2>2, <1>5 DEF Kin
<1> HIDE DEF r, t, m, closed, emptied, stopped1, resumed
<1>8. Bitless
  BY <1>2 DEF Bitless
<1>9. /\ DOMAIN res' = Lanes /\ \A k \in Lanes \ {l} : res'[k] = res[k]
      /\ m = "CLOSE" => res'[l] = closed
      /\ m # "CLOSE" => res'[l] \in {Proceed(emptied), stopped1, Proceed(resumed)}
  BY <1>1, <1>2, <1>3 DEF Messages
<1>10. LaneInv(l)' /\ res'[l].run # "off"
  <2>1. CASE m = "CLOSE"
    <3>1. CloseAwaited(l) /\ Len(res[l].msgs) = 1
      <4>1. \A i \in 1..Len(res[l].msgs) : res[l].msgs[i] = "CLOSE" => i = Len(res[l].msgs) /\ CloseAwaited(l)
        BY <1>1 DEF LaneInv
      <4>2. 1 \in 1..Len(res[l].msgs) /\ res[l].msgs[1] = "CLOSE"
        BY <1>3, <2>1
      <4> QED  BY <4>1, <4>2
    <3>2. CloseAwaited(l)' /\ <<l, "close">> \notin bits'
      BY <3>1, <1>1, <1>2 DEF CloseAwaited, LaneInv
    <3>3. res'[l] = closed /\ Len(t) = 0
      BY <1>9, <2>1, <1>3, <3>1
    <3> QED  BY <3>2, <3>3, <1>6, <1>3 DEF LaneInv
  <2>2. CASE m # "CLOSE"
    <3>1. /\ DOMAIN res'[l] = DOMAIN Res0 /\ res'[l].there /\ res'[l].thread
          /\ res'[l].msgs = t /\ res'[l].run \in {"recv", "read"}
      BY <2>2, <1>1, <1>4, <1>7, <1>9
    <3>2. <<l, "close">> \notin bits'
      BY <1>1, <1>2 DEF LaneInv
    <3>3. \A i \in 1..Len(t) : t[i] = "CLOSE" => i = Len(t) /\ CloseAwaited(l)
      BY <1>1, <1>3 DEF LaneInv
    <3>4. CloseAwaited(l)' <=> CloseAwaited(l)
      BY <1>2 DEF CloseAwaited
    <3> QED  BY <3>1, <3>2, <3>3, <3>4, <1>3 DEF LaneInv, AtWork
  <2> QED  BY <2>1, <2>2
<1>11. ASSUME NEW k \in Lanes \ {l}
       PROVE  LaneInv(k)' /\ (res[k].run = "off" => res'[k].run = "off")
  BY <1>2, <1>8, <1>9, CarriedLane DEF Carries, Kin, Parts, LanesInv
<1>12. LanesMove
  BY <1>1, <1>9, <1>10, <1>11 DEF LanesMove, LanesInv
<1>13. OwnerStays
  BY <1>2 DEF OwnerStays, Parts, OwnerInv
<1> QED  BY <1>12, <1>13, MoveInv

LEMMA ThreadExitMove ==
  ASSUME Parts, NEW l \in Lanes, ThreadExit(l)
  PROVE  Parts'
<1> DEFINE r == [res[l] EXCEPT !.data = << >>, !.run = "off"]
<1>1. DOMAIN res[l] = DOMAIN Res0 /\ DOMAIN res = Lanes /\ res[l].run = "exit" /\ LaneInv(l)
  BY DEF Parts, LanesInv, LaneInv, ThreadExit
<1>2. /\ owner' = owner /\ lock' = lock /\ feeder' = feeder /\ open' = open
      /\ bits' = bits \cup {<<l, "close">>} /\ res' = [res EXCEPT ![l] = r]
  BY <1>1 DEF ThreadExit
<1>3. Kin(r, res[l]) /\ r.run = "off"
  BY <1>1, FieldsOf DEF Kin
<1> HIDE DEF r
<1>4. DOMAIN res' = Lanes /\ res'[l] = r /\ \A k \in Lanes \ {l} : res'[k] = res[k]
  BY <1>1, <1>2
<1>5. ~res[l].thread /\ CloseAwaited(l)
  BY <1>1 DEF LaneInv, AtWork
<1>6. LaneInv(l)'
  BY <1>1, <1>2, <1>3, <1>4, <1>5 DEF LaneInv, Kin, CloseAwaited
<1>7. ASSUME NEW k \in Lanes \ {l}
      PROVE  LaneInv(k)' /\ (res[k].run = "off" => res'[k].run = "off")
  <2>1. <<k, "close">> \in bits' => <<k, "close">> \in bits
    BY <1>2
  <2>2. CloseAwaited(k)' <=> CloseAwaited(k)
    BY <1>2 DEF CloseAwaited
  <2> QED  BY <1>4, <2>1, <2>2 DEF LaneInv, Parts, LanesInv
<1>8. LanesMove
  BY <1>1, <1>4, <1>6, <1>7 DEF LanesMove, LanesInv
<1>9. OwnerStays
  BY <1>2 DEF OwnerStays, Parts, OwnerInv
<1> QED  BY <1>8, <1>9, MoveInv

-----------------------------------------------------------------------------
(* The steps of the owner's calls *)

\* The plans of the owner's calls.
LEMMA JoinedSteps ==
  ASSUME NEW s \in Seq(OwnerTodos), NEW t \in Seq(OwnerTodos)
  PROVE  /\ s \o t \in Seq(OwnerTodos) /\ Len(s \o t) = Len(s) + Len(t)
         /\ \A i \in 1..Len(s) + Len(t) : (s \o t)[i] = IF i <= Len(s) THEN s[i] ELSE t[i - Len(s)]
BY ConcatProperties

LEMMA TellsSteps ==
  ASSUME NEW m \in Messages, NEW lanes \in Seq(Lanes)
  PROVE  /\ Tells(m, lanes) \in Seq(OwnerTodos) /\ Len(Tells(m, lanes)) = Len(lanes)
         /\ \A i \in 1..Len(lanes) : Tells(m, lanes)[i] = <<"tell", lanes[i], m>>
<1>1. \A i \in 1..Len(lanes) : <<"tell", lanes[i], m>> \in OwnerTodos
  BY DEF OwnerTodos
<1>2. Len(lanes) \in Nat
  OBVIOUS
<1> QED  BY <1>1, <1>2 DEF Tells

LEMMA ClosesSteps ==
  /\ Closes \in Seq(OwnerTodos) /\ Len(Closes) = 4
  /\ Closes[1] = <<"tell", "adec", "CLOSE">> /\ Closes[2] = <<"tell", "vdec", "CLOSE">>
  /\ Closes[3] = <<"tell", "arender", "CLOSE">> /\ Closes[4] = <<"tell", "vrender", "CLOSE">>
<1> DEFINE lanes == <<"adec", "vdec", "arender", "vrender">>
<1>1. /\ lanes \in Seq(Lanes) /\ Len(lanes) = 4
      /\ lanes[1] = "adec" /\ lanes[2] = "vdec" /\ lanes[3] = "arender" /\ lanes[4] = "vrender"
  BY DEF Lanes
<1>2. Closes = Tells("CLOSE", lanes) /\ "CLOSE" \in Messages
  BY DEF Closes, Messages
<1> HIDE DEF lanes
<1>3. Closes \in Seq(OwnerTodos) /\ Len(Closes) = 4 /\ \A i \in 1..4 : Closes[i] = <<"tell", lanes[i], "CLOSE">>
  BY <1>1, <1>2, TellsSteps
<1>4. 1 \in 1..4 /\ 2 \in 1..4 /\ 3 \in 1..4 /\ 4 \in 1..4
  OBVIOUS
<1> QED  BY <1>1, <1>3, <1>4

LEMMA PlannedSteps ==
  /\ Planned(1) = <<"free">> /\ Planned(2) = <<"join">> /\ Planned(7) = <<"join">>
  /\ Planned(6) = <<"tell", "adec", "CLOSE">> /\ Planned(11) = <<"tell", "adec", "CLOSE">>
  /\ Planned(5) = <<"tell", "vdec", "CLOSE">> /\ Planned(10) = <<"tell", "vdec", "CLOSE">>
  /\ Planned(4) = <<"tell", "arender", "CLOSE">> /\ Planned(9) = <<"tell", "arender", "CLOSE">>
  /\ Planned(3) = <<"tell", "vrender", "CLOSE">> /\ Planned(8) = <<"tell", "vrender", "CLOSE">>
<1> DEFINE Who(i) == CHOOSE l \in Lanes : Turn[l] \in {i, i - 5}
<1>1. ASSUME NEW i \in {3, 4, 5, 6, 8, 9, 10, 11}
      PROVE  Planned(i) = <<"tell", Who(i), "CLOSE">>
  BY DEF Planned
<1>2. \A i, j : Turn["adec"] = 6 /\ Turn["vdec"] = 5 /\ Turn["arender"] = 4 /\ Turn["vrender"] = 3
  BY DEF Turn
<1>3. ASSUME NEW i \in {6, 11}
      PROVE  Who(i) = "adec"
  <2>1. \A l \in Lanes : Turn[l] \in {i, i - 5} <=> l = "adec"
    BY <1>2 DEF Lanes
  <2>2. "adec" \in Lanes
    BY DEF Lanes
  <2> QED  BY <2>1, <2>2
<1>4. ASSUME NEW i \in {5, 10}
      PROVE  Who(i) = "vdec"
  <2>1. \A l \in Lanes : Turn[l] \in {i, i - 5} <=> l = "vdec"
    BY <1>2 DEF Lanes
  <2>2. "vdec" \in Lanes
    BY DEF Lanes
  <2> QED  BY <2>1, <2>2
<1>5. ASSUME NEW i \in {4, 9}
      PROVE  Who(i) = "arender"
  <2>1. \A l \in Lanes : Turn[l] \in {i, i - 5} <=> l = "arender"
    BY <1>2 DEF Lanes
  <2>2. "arender" \in Lanes
    BY DEF Lanes
  <2> QED  BY <2>1, <2>2
<1>6. ASSUME NEW i \in {3, 8}
      PROVE  Who(i) = "vrender"
  <2>1. \A l \in Lanes : Turn[l] \in {i, i - 5} <=> l = "vrender"
    BY <1>2 DEF Lanes
  <2>2. "vrender" \in Lanes
    BY DEF Lanes
  <2> QED  BY <2>1, <2>2
<1>7. Planned(1) = <<"free">> /\ Planned(2) = <<"join">> /\ Planned(7) = <<"join">>
  BY DEF Planned
<1> HIDE DEF Who
<1>8. Planned(6) = <<"tell", "adec", "CLOSE">> /\ Planned(11) = <<"tell", "adec", "CLOSE">>
  BY <1>1, <1>3
<1>9. Planned(5) = <<"tell", "vdec", "CLOSE">> /\ Planned(10) = <<"tell", "vdec", "CLOSE">>
  BY <1>1, <1>4
<1>10. Planned(4) = <<"tell", "arender", "CLOSE">> /\ Planned(9) = <<"tell", "arender", "CLOSE">>
  BY <1>1, <1>5
<1>11. Planned(3) = <<"tell", "vrender", "CLOSE">> /\ Planned(8) = <<"tell", "vrender", "CLOSE">>
  BY <1>1, <1>6
<1> QED  BY <1>7, <1>8, <1>9, <1>10, <1>11

LEMMA ResetPlan ==
  /\ ResetSteps \in Seq(OwnerTodos) /\ Len(ResetSteps) = 11
  /\ \A i \in 1..11 : FromEnd(ResetSteps, i) = Planned(i)
<1> DEFINE j == <<<<"join">>>>
           e == <<<<"join">>, <<"free">>>>
           a == Closes \o j
           b == a \o Closes
<1>1. j \in Seq(OwnerTodos) /\ Len(j) = 1 /\ j[1] = <<"join">>
  BY DEF OwnerTodos
<1>2. e \in Seq(OwnerTodos) /\ Len(e) = 2 /\ e[1] = <<"join">> /\ e[2] = <<"free">>
  BY DEF OwnerTodos
<1>3. ResetSteps = b \o e
  BY DEF ResetSteps
<1> HIDE DEF j, e
<1>4. a \in Seq(OwnerTodos) /\ Len(a) = 5 /\ \A i \in 1..5 : a[i] = IF i <= 4 THEN Closes[i] ELSE j[i - 4]
  <2>1. Closes \in Seq(OwnerTodos) /\ Len(Closes) = 4 /\ j \in Seq(OwnerTodos) /\ Len(j) = 1
    BY <1>1, ClosesSteps
  <2>2. /\ Closes \o j \in Seq(OwnerTodos) /\ Len(Closes \o j) = Len(Closes) + Len(j)
        /\ \A i \in 1..Len(Closes) + Len(j) : (Closes \o j)[i] = IF i <= Len(Closes) THEN Closes[i] ELSE j[i - Len(Closes)]
    <3>1. Closes \in Seq(OwnerTodos) /\ j \in Seq(OwnerTodos)
      BY <2>1
    <3> QED  BY <3>1, JoinedSteps
  <2>3. /\ a \in Seq(OwnerTodos) /\ Len(a) = Len(Closes) + Len(j)
        /\ \A i \in 1..Len(Closes) + Len(j) : a[i] = IF i <= Len(Closes) THEN Closes[i] ELSE j[i - Len(Closes)]
    BY <2>2
  <2> HIDE DEF a
  <2> QED  BY <2>1, <2>3
<1> HIDE DEF a
<1>5. b \in Seq(OwnerTodos) /\ Len(b) = 9 /\ \A i \in 1..9 : b[i] = IF i <= 5 THEN a[i] ELSE Closes[i - 5]
  <2>1. a \in Seq(OwnerTodos) /\ Len(a) = 5 /\ Closes \in Seq(OwnerTodos) /\ Len(Closes) = 4
    BY <1>4, ClosesSteps
  <2>2. /\ a \o Closes \in Seq(OwnerTodos) /\ Len(a \o Closes) = Len(a) + Len(Closes)
        /\ \A i \in 1..Len(a) + Len(Closes) : (a \o Closes)[i] = IF i <= Len(a) THEN a[i] ELSE Closes[i - Len(a)]
    <3>1. a \in Seq(OwnerTodos) /\ Closes \in Seq(OwnerTodos)
      BY <2>1
    <3> QED  BY <3>1, JoinedSteps
  <2>3. /\ b \in Seq(OwnerTodos) /\ Len(b) = Len(a) + Len(Closes)
        /\ \A i \in 1..Len(a) + Len(Closes) : b[i] = IF i <= Len(a) THEN a[i] ELSE Closes[i - Len(a)]
    BY <2>2
  <2> HIDE DEF b
  <2> QED  BY <2>1, <2>3
<1> HIDE DEF b
<1>6. ResetSteps \in Seq(OwnerTodos) /\ Len(ResetSteps) = 11 /\ \A i \in 1..11 : ResetSteps[i] = IF i <= 9 THEN b[i] ELSE e[i - 9]
  <2>1. b \in Seq(OwnerTodos) /\ Len(b) = 9 /\ e \in Seq(OwnerTodos) /\ Len(e) = 2
    BY <1>2, <1>5
  <2>2. /\ b \o e \in Seq(OwnerTodos) /\ Len(b \o e) = Len(b) + Len(e)
        /\ \A i \in 1..Len(b) + Len(e) : (b \o e)[i] = IF i <= Len(b) THEN b[i] ELSE e[i - Len(b)]
    <3>1. b \in Seq(OwnerTodos) /\ e \in Seq(OwnerTodos)
      BY <2>1
    <3> QED  BY <3>1, JoinedSteps
  <2>3. /\ ResetSteps \in Seq(OwnerTodos) /\ Len(ResetSteps) = Len(b) + Len(e)
        /\ \A i \in 1..Len(b) + Len(e) : ResetSteps[i] = IF i <= Len(b) THEN b[i] ELSE e[i - Len(b)]
    BY <2>2, <1>3
  <2> QED  BY <2>1, <2>3
<1>7. ResetSteps[11] = e[2] /\ ResetSteps[10] = e[1] /\ ResetSteps[5] = j[1]
  BY <1>4, <1>5, <1>6
<1>8. ResetSteps[9] = Closes[4] /\ ResetSteps[8] = Closes[3] /\ ResetSteps[7] = Closes[2] /\ ResetSteps[6] = Closes[1]
  BY <1>5, <1>6
<1>9. ResetSteps[4] = Closes[4] /\ ResetSteps[3] = Closes[3] /\ ResetSteps[2] = Closes[2] /\ ResetSteps[1] = Closes[1]
  BY <1>4, <1>5, <1>6
<1>10. /\ ResetSteps[11] = Planned(1) /\ ResetSteps[10] = Planned(2) /\ ResetSteps[9] = Planned(3)
       /\ ResetSteps[8] = Planned(4) /\ ResetSteps[7] = Planned(5) /\ ResetSteps[6] = Planned(6)
  BY <1>2, <1>7, <1>8, ClosesSteps, PlannedSteps
<1>11. /\ ResetSteps[5] = Planned(7) /\ ResetSteps[4] = Planned(8) /\ ResetSteps[3] = Planned(9)
       /\ ResetSteps[2] = Planned(10) /\ ResetSteps[1] = Planned(11)
  BY <1>1, <1>7, <1>9, ClosesSteps, PlannedSteps
<1>12. \A i \in 1..11 : FromEnd(ResetSteps, i) = ResetSteps[12 - i]
  BY <1>6 DEF FromEnd
<1>13. ASSUME NEW i \in 1..11
       PROVE  ResetSteps[12 - i] = Planned(i)
  <2>1. i \in {1, 2, 3, 4, 5, 6, 7, 8, 9, 10, 11}
    OBVIOUS
  <2> QED  BY <2>1, <1>10, <1>11
<1> QED  BY <1>6, <1>12, <1>13

LEMMA AllJoined ==
  ASSUME NEW s \in Seq(MildTodos), NEW t \in Seq(MildTodos)
  PROVE  s \o t \in Seq(MildTodos)
BY ConcatProperties

LEMMA MildTells ==
  ASSUME NEW m \in Messages \ {"CLOSE"}, NEW lanes \in Seq(Lanes)
  PROVE  Tells(m, lanes) \in Seq(MildTodos)
<1>1. \A i \in 1..Len(lanes) : <<"tell", lanes[i], m>> \in MildTodos
  BY DEF MildTodos
<1>2. Len(lanes) \in Nat
  OBVIOUS
<1> QED  BY <1>1, <1>2 DEF Tells

LEMMA MildAre == ASSUME NEW s \in Seq(MildTodos)  PROVE s \in Seq(OwnerTodos)
<1>1. MildTodos \subseteq OwnerTodos
  BY DEF MildTodos, OwnerTodos
<1> QED  BY <1>1

LEMMA MildPlans ==
  PauseSteps \in Seq(MildTodos) /\ ResumeSteps \in Seq(MildTodos) /\ FlushSteps \in Seq(MildTodos)
<1>1. {"PAUSE", "RESUME", "FLUSH"} \subseteq Messages \ {"CLOSE"}
  BY DEF Messages
<1>2. /\ <<"adec", "vdec", "arender", "vrender">> \in Seq(Lanes)
      /\ <<"arender", "vrender", "adec", "vdec">> \in Seq(Lanes)
      /\ <<"arender", "vrender">> \in Seq(Lanes) /\ <<"adec">> \in Seq(Lanes) /\ <<"vdec">> \in Seq(Lanes)
  BY DEF Lanes
<1>3. /\ <<<<"return">>>> \in Seq(MildTodos) /\ <<<<"await">>>> \in Seq(MildTodos)
      /\ <<<<"await">>, <<"flushed">>>> \in Seq(MildTodos)
  BY DEF MildTodos
<1>4. PauseSteps \in Seq(MildTodos)
  <2>1. Tells("PAUSE", <<"adec", "vdec", "arender", "vrender">>) \in Seq(MildTodos)
    BY <1>1, <1>2, MildTells
  <2> QED  BY <2>1, <1>3, AllJoined DEF PauseSteps
<1>5. ResumeSteps \in Seq(MildTodos)
  <2>1. Tells("RESUME", <<"arender", "vrender", "adec", "vdec">>) \in Seq(MildTodos)
    BY <1>1, <1>2, MildTells
  <2> QED  BY <2>1, <1>3, AllJoined DEF ResumeSteps
<1>6. FlushSteps \in Seq(MildTodos)
  <2> DEFINE a == Tells("FLUSH", <<"adec">>)
             v == Tells("FLUSH", <<"vdec">>)
             r == Tells("FLUSH", <<"arender", "vrender">>)
  <2>1. a \in Seq(MildTodos)
    BY <1>1, <1>2, MildTells
  <2>2. v \in Seq(MildTodos)
    BY <1>1, <1>2, MildTells
  <2>3. r \in Seq(MildTodos)
    BY <1>1, <1>2, MildTells
  <2>4. FlushSteps = a \o <<<<"await">>>> \o v \o <<<<"await">>>> \o r \o <<<<"await">>, <<"flushed">>>>
    BY DEF FlushSteps
  <2> HIDE DEF a, v, r
  <2>5. a \o <<<<"await">>>> \in Seq(MildTodos)
    BY <2>1, <1>3, AllJoined
  <2>6. a \o <<<<"await">>>> \o v \in Seq(MildTodos)
    BY <2>2, <2>5, AllJoined
  <2>7. a \o <<<<"await">>>> \o v \o <<<<"await">>>> \in Seq(MildTodos)
    BY <2>6, <1>3, AllJoined
  <2>8. a \o <<<<"await">>>> \o v \o <<<<"await">>>> \o r \in Seq(MildTodos)
    BY <2>3, <2>7, AllJoined
  <2> QED  BY <2>4, <2>8, <1>3, AllJoined
<1> QED  BY <1>4, <1>5, <1>6

LEMMA AddPlan ==
  ASSUME NEW s \in Streams
  PROVE  /\ AddSteps(s) \in Seq(OwnerTodos) /\ Len(AddSteps(s)) = 3
         /\ AddSteps(s)[1] = <<"tell", Decoder[s], "CLOSE">>
         /\ AddSteps(s)[2] = <<"await">> /\ AddSteps(s)[3] = <<"add", s>>
<1> DEFINE t == Tells("CLOSE", <<Decoder[s]>>)
           e == <<<<"await">>, <<"add", s>>>>
           c == AddSteps(s)
<1>1. "CLOSE" \in Messages /\ Decoder[s] \in Lanes
  BY DEF Messages, Decoder, Lanes, Streams
<1>2. t \in Seq(OwnerTodos) /\ Len(t) = 1 /\ t[1] = <<"tell", Decoder[s], "CLOSE">>
  <2> DEFINE d == <<Decoder[s]>>
  <2>1. d \in Seq(Lanes) /\ Len(d) = 1 /\ d[1] = Decoder[s]
    BY <1>1
  <2> HIDE DEF d
  <2>2. /\ Tells("CLOSE", d) \in Seq(OwnerTodos) /\ Len(Tells("CLOSE", d)) = Len(d)
        /\ \A i \in 1..Len(d) : Tells("CLOSE", d)[i] = <<"tell", d[i], "CLOSE">>
    BY <1>1, <2>1, TellsSteps
  <2> QED  BY <2>1, <2>2 DEF d
<1>3. e \in Seq(OwnerTodos) /\ Len(e) = 2 /\ e[1] = <<"await">> /\ e[2] = <<"add", s>>
  BY DEF OwnerTodos
<1>4. c = t \o e
  BY DEF AddSteps
<1> HIDE DEF t, e, c
<1>5. /\ t \o e \in Seq(OwnerTodos) /\ Len(t \o e) = Len(t) + Len(e)
      /\ \A i \in 1..Len(t) + Len(e) : (t \o e)[i] = IF i <= Len(t) THEN t[i] ELSE e[i - Len(t)]
  <2>1. t \in Seq(OwnerTodos) /\ e \in Seq(OwnerTodos)
    BY <1>2, <1>3
  <2> QED  BY <2>1, JoinedSteps
<1>6. /\ c \in Seq(OwnerTodos) /\ Len(c) = Len(t) + Len(e)
      /\ \A i \in 1..Len(t) + Len(e) : c[i] = IF i <= Len(t) THEN t[i] ELSE e[i - Len(t)]
  BY <1>4, <1>5
<1>7. c \in Seq(OwnerTodos) /\ Len(c) = 3 /\ c[1] = t[1] /\ c[2] = e[1] /\ c[3] = e[2]
  BY <1>2, <1>3, <1>6
<1> QED  BY <1>2, <1>3, <1>7 DEF c

LEMMA RestOf ==
  ASSUME NEW S, NEW s \in Seq(S), s # <<>>
  PROVE  /\ Tail(s) \in Seq(S) /\ Len(Tail(s)) = Len(s) - 1 /\ Len(s) \in Nat \ {0}
         /\ Head(s) \in S /\ Head(s) = FromEnd(s, Len(s))
         /\ \A i \in 1..Len(s) - 1 : FromEnd(Tail(s), i) = FromEnd(s, i)
<1>1. /\ Tail(s) \in Seq(S) /\ Len(Tail(s)) = Len(s) - 1 /\ Head(s) = s[1] /\ Head(s) \in S
      /\ \A i \in 1..Len(s) - 1 : Tail(s)[i] = s[i + 1]
  BY TailOf
<1>2. Len(s) \in Nat \ {0}
  BY LenProperties
<1>3. Head(s) = FromEnd(s, Len(s))
  BY <1>1, <1>2 DEF FromEnd
<1>4. ASSUME NEW i \in 1..Len(s) - 1
      PROVE  FromEnd(Tail(s), i) = FromEnd(s, i)
  BY <1>1, <1>2 DEF FromEnd
<1> QED  BY <1>1, <1>2, <1>3, <1>4

LEMMA WokenOf ==
  ASSUME NEW S, NEW s \in Seq(S), s # <<>>, NEW w \in S
  PROVE  /\ <<w>> \o Tail(s) \in Seq(S) /\ Len(<<w>> \o Tail(s)) = Len(s) /\ <<w>> \o Tail(s) # <<>>
         /\ Head(<<w>> \o Tail(s)) = w
         /\ \A i \in 1..Len(s) - 1 : FromEnd(<<w>> \o Tail(s), i) = FromEnd(s, i)
<1>1. /\ Tail(s) \in Seq(S) /\ Len(Tail(s)) = Len(s) - 1 /\ Len(s) \in Nat \ {0}
      /\ \A i \in 1..Len(s) - 1 : FromEnd(Tail(s), i) = FromEnd(s, i)
  BY RestOf
<1> DEFINE t == Tail(s)
           c == <<w>> \o t
<1> HIDE DEF t
<1>2. <<w>> \in Seq(S) /\ Len(<<w>>) = 1 /\ <<w>>[1] = w /\ t \in Seq(S)
  BY <1>1 DEF t
<1>3. /\ c \in Seq(S) /\ Len(c) = 1 + Len(t)
      /\ \A i \in 1..1 + Len(t) : c[i] = IF i <= 1 THEN w ELSE t[i - 1]
  BY <1>2, ConcatProperties
<1> HIDE DEF c
<1>4. Len(c) = Len(s) /\ c # <<>> /\ c[1] = w
  BY <1>1, <1>3 DEF t
<1>5. Head(c) = w
  BY <1>3, <1>4, HeadTailProperties
<1>6. ASSUME NEW i \in 1..Len(s) - 1
      PROVE  FromEnd(c, i) = FromEnd(t, i)
  <2>1. Len(t) = Len(s) - 1 /\ Len(t) + 1 - i \in 1..Len(t) /\ Len(c) + 1 - i = (Len(t) + 1 - i) + 1
    BY <1>1, <1>4 DEF t
  <2>2. c[(Len(t) + 1 - i) + 1] = t[Len(t) + 1 - i]
    BY <1>3, <2>1
  <2> QED  BY <2>1, <2>2 DEF FromEnd
<1> QED  BY <1>1, <1>3, <1>4, <1>5, <1>6 DEF c, t

\* What the step at hand may be.
LEMMA StepOf ==
  ASSUME Parts, Step[1] # "none"
  PROVE  /\ owner.todo # <<>> /\ owner.todo \in Seq(OwnerTodos) /\ Step \in OwnerTodos
         /\ Step = Head(owner.todo) /\ Step = FromEnd(owner.todo, Togo) /\ owner.op # "none"
         /\ Togo \in Nat \ {0}
<1>1. owner.todo # <<>> /\ owner.todo \in Seq(OwnerTodos) /\ Step = Head(owner.todo) /\ owner.op # "none"
  BY DEF Step, Parts, OwnerInv
<1> QED  BY <1>1, RestOf DEF Togo

LEMMA TodoKinds ==
  ASSUME NEW st \in OwnerTodos
  PROVE  /\ st[1] \in {"tell", "wake", "add", "await", "join", "free", "return", "flushed"}
         /\ st[1] = "tell" => st[2] \in Lanes /\ st[3] \in Messages
         /\ st[1] = "wake" => st[2] \in Lanes
         /\ st[1] = "add" => st[2] \in Streams
         /\ st[1] = "free" => st = <<"free">>
BY DEF OwnerTodos

LEMMA MildHas ==
  ASSUME Parts, Step[1] # "none", owner.op \in {"pause", "resume", "flush"}
  PROVE  /\ owner.todo \in Seq(MildTodos) /\ Step[1] \in {"tell", "wake", "await", "return", "flushed"}
         /\ Step[1] = "tell" => Step[3] # "CLOSE" /\ Step[2] \in Lanes
         /\ Step[1] = "wake" => Step[2] \in Lanes
         /\ \A l \in Lanes : ~CloseAwaited(l)
<1>1. owner.todo \in Seq(MildTodos) /\ owner.todo # <<>> /\ Step = Head(owner.todo)
      /\ \A l \in Lanes : ~CloseAwaited(l)
  BY StepOf DEF Parts, Mild
<1>2. Step \in MildTodos
  BY <1>1, RestOf
<1>3. \A st \in MildTodos :
        /\ st[1] \in {"tell", "wake", "await", "return", "flushed"}
        /\ st[1] = "tell" => st[3] # "CLOSE" /\ st[2] \in Lanes
        /\ st[1] = "wake" => st[2] \in Lanes
  BY DEF MildTodos
<1> QED  BY <1>1, <1>2, <1>3

LEMMA AddingHas ==
  ASSUME Parts, Step[1] # "none", owner.op = "add"
  PROVE  /\ Togo = 1 => Step[1] = "add" /\ owner.await = {}
         /\ Togo = 2 => Step = <<"await">>
         /\ Togo = 3 => Step[1] = "wake" \/ (Step[1] = "tell" /\ Step[3] = "CLOSE" /\ owner.await = {})
         /\ Togo \in {1, 2, 3}
BY StepOf DEF Parts, Adding, Waking

Turns == {3, 4, 5, 6, 8, 9, 10, 11}

LEMMA PlannedKinds ==
  ASSUME NEW n \in 1..11
  PROVE  /\ Planned(n)[1] # "wake"
         /\ n \in Turns => /\ Planned(n)[1] = "tell" /\ Planned(n)[3] = "CLOSE" /\ Planned(n)[2] \in Lanes
                            /\ Turn[Planned(n)[2]] \in {n, n - 5}
         /\ n \in {2, 7} => Planned(n) = <<"join">>
         /\ n = 1 => Planned(n) = <<"free">>
<1>1. n \in {1, 2, 3, 4, 5, 6, 7, 8, 9, 10, 11}
  OBVIOUS
<1>2. Turn["adec"] = 6 /\ Turn["vdec"] = 5 /\ Turn["arender"] = 4 /\ Turn["vrender"] = 3
  BY DEF Turn
<1>3. \A x : <<"tell", x, "CLOSE">>[1] = "tell" /\ <<"tell", x, "CLOSE">>[2] = x /\ <<"tell", x, "CLOSE">>[3] = "CLOSE"
  OBVIOUS
<1>4. <<"join">>[1] = "join" /\ <<"free">>[1] = "free"
  OBVIOUS
<1>5. CASE n \in {6, 11}  BY <1>5, <1>2, <1>3, PlannedSteps DEF Turns, Lanes
<1>6. CASE n \in {5, 10}  BY <1>6, <1>2, <1>3, PlannedSteps DEF Turns, Lanes
<1>7. CASE n \in {4, 9}  BY <1>7, <1>2, <1>3, PlannedSteps DEF Turns, Lanes
<1>8. CASE n \in {3, 8}  BY <1>8, <1>2, <1>3, PlannedSteps DEF Turns, Lanes
<1>9. CASE n \in {1, 2, 7}  BY <1>9, <1>4, PlannedSteps DEF Turns
<1> QED  BY <1>1, <1>5, <1>6, <1>7, <1>8, <1>9

LEMMA ResettingHas ==
  ASSUME Parts, Step[1] # "none", owner.op = "reset"
  PROVE  /\ Togo \in 1..11
         /\ Step[1] \in {"tell", "wake", "join", "free"}
         /\ Step[1] = "wake" => Togo \in Turns
         /\ Step[1] = "tell" => Togo \in Turns /\ Step[3] = "CLOSE" /\ Step[2] \in Lanes
                                /\ Turn[Step[2]] \in {Togo, Togo - 5}
         /\ Step[1] = "join" => Togo \in {2, 7}
         /\ Step[1] = "free" => Togo = 1
<1>1. Togo \in 1..11 /\ (Step = Planned(Togo) \/ (Step[1] = "wake" /\ Planned(Togo)[1] = "tell"))
  BY DEF Parts, Resetting, Waking
<1>2. Togo \in Turns \/ Togo \in {2, 7} \/ Togo = 1
  BY <1>1 DEF Turns
<1>3. <<"join">>[1] = "join" /\ <<"free">>[1] = "free"
  OBVIOUS
<1>4. CASE Togo \in Turns
  BY <1>1, <1>4, PlannedKinds DEF Turns
<1>5. CASE Togo \in {2, 7}
  BY <1>1, <1>3, <1>5, PlannedKinds DEF Turns
<1>6. CASE Togo = 1
  BY <1>1, <1>3, <1>6, PlannedKinds DEF Turns
<1> QED  BY <1>1, <1>2, <1>4, <1>5, <1>6

LEMMA LanesKept ==
  ASSUME LanesInv, DOMAIN res' = Lanes, \A l \in Lanes : Carries(res'[l], res[l]), Bitless,
         owner'.await = owner.await
  PROVE  LanesInv' /\ \A l \in Lanes : CloseAwaited(l)' <=> CloseAwaited(l)
<1>1. \A l \in Lanes : CloseAwaited(l)' <=> CloseAwaited(l)
  BY DEF CloseAwaited
<1>2. ASSUME NEW l \in Lanes
      PROVE  LaneInv(l)'
  <2>1. LaneInv(l) /\ Carries(res'[l], res[l]) /\ (CloseAwaited(l)' <=> CloseAwaited(l))
    BY <1>1 DEF LanesInv
  <2>2. <<l, "close">> \in bits' => <<l, "close">> \in bits
    BY DEF Bitless
  <2> QED  BY <2>1, <2>2 DEF LaneInv, Carries, Kin, AtWork
<1> QED  BY <1>1, <1>2 DEF LanesInv

LEMMA SameCarries == ASSUME LanesInv, res' = res  PROVE DOMAIN res' = Lanes /\ \A l \in Lanes : Carries(res'[l], res[l])
BY DEF LanesInv, Carries, Kin

LEMMA CallMove ==
  ASSUME Parts, Call
  PROVE  Parts'
<1>1. /\ owner.op = "none" /\ lock # "owner" /\ owner.await = {} /\ owner.got = {}
      /\ DOMAIN owner = {"op", "todo", "await", "got"}
  BY DEF Parts, OwnerInv, Call
<1>2. /\ lock' = lock /\ feeder' = feeder /\ open' = open /\ bits' = bits /\ res' = res
      /\ DOMAIN owner' = DOMAIN owner /\ owner'.await = owner.await /\ owner'.got = owner.got
      /\ \/ owner'.op = "add" /\ \E s \in Streams : owner'.todo = AddSteps(s)
         \/ owner'.op = "pause" /\ owner'.todo = PauseSteps
         \/ owner'.op = "resume" /\ owner'.todo = ResumeSteps
         \/ owner'.op = "flush" /\ owner'.todo = FlushSteps
         \/ owner'.op = "reset" /\ owner'.todo = ResetSteps
  BY <1>1 DEF Call
<1>3. LanesInv' /\ \A l \in Lanes : ~CloseAwaited(l)'
  <2>1. LanesInv' /\ \A l \in Lanes : CloseAwaited(l)' <=> CloseAwaited(l)
    BY <1>2, SameCarries, LanesKept DEF Parts, Bitless
  <2>2. \A l \in Lanes : ~CloseAwaited(l)
    BY <1>1 DEF CloseAwaited
  <2> QED  BY <2>1, <2>2
<1>4. DOMAIN feeder = {"at", "lane", "kind"} /\ feeder.lane \in Lanes /\ open \subseteq Streams /\ (feeder.at = "into" => lock = "feeder")
  BY DEF Parts, OwnerInv
<1>5. CASE owner'.op \in {"pause", "resume", "flush"}
  <2>1. owner'.todo \in Seq(MildTodos)
    BY <1>2, <1>5, MildPlans
  <2>2. owner'.todo \in Seq(OwnerTodos)
    BY <2>1, MildAre
  <2>3. OwnerInv'
    BY <1>1, <1>2, <1>4, <1>5, <2>2 DEF OwnerInv
  <2>4. Mild' /\ Adding' /\ Resetting' /\ FirstRound' /\ SecondRound'
    BY <1>3, <1>5, <2>1 DEF Mild, Adding, Resetting, FirstRound, SecondRound
  <2> QED  BY <1>3, <2>3, <2>4 DEF Parts
<1>6. CASE owner'.op = "add"
  <2>1. PICK s \in Streams : owner'.todo = AddSteps(s)
    BY <1>2, <1>6
  <2>2. /\ owner'.todo \in Seq(OwnerTodos) /\ Len(owner'.todo) = 3
        /\ owner'.todo[1] = <<"tell", Decoder[s], "CLOSE">>
        /\ owner'.todo[2] = <<"await">> /\ owner'.todo[3] = <<"add", s>>
    BY <2>1, AddPlan
  <2>3. OwnerInv'
    BY <1>1, <1>2, <1>4, <1>6, <2>2 DEF OwnerInv
  <2>4. Head(owner'.todo) = owner'.todo[1] /\ owner'.todo # <<>>
    BY <2>2
  <2>5. Togo' = 3 /\ Step' = <<"tell", Decoder[s], "CLOSE">>
    BY <2>2, <2>4 DEF Togo, Step
  <2>6. FromEnd(owner'.todo, 1) = <<"add", s>> /\ FromEnd(owner'.todo, 2) = <<"await">>
    BY <2>2 DEF FromEnd
  <2>7. Adding'
    BY <2>5, <2>6, <1>1, <1>2 DEF Adding, Waking
  <2>8. Mild' /\ Resetting' /\ FirstRound' /\ SecondRound'
    BY <1>6 DEF Mild, Resetting, FirstRound, SecondRound
  <2> QED  BY <1>3, <2>3, <2>7, <2>8 DEF Parts
<1>7. CASE owner'.op = "reset"
  <2>1. /\ owner'.todo \in Seq(OwnerTodos) /\ Len(owner'.todo) = 11
        /\ \A i \in 1..11 : FromEnd(owner'.todo, i) = Planned(i)
    BY <1>2, <1>7, ResetPlan
  <2>2. OwnerInv'
    BY <1>1, <1>2, <1>4, <1>7, <2>1 DEF OwnerInv
  <2>3. Togo' = 11
    BY <2>1 DEF Togo
  <2>4. owner'.todo # <<>> /\ Head(owner'.todo) = FromEnd(owner'.todo, 11)
    <3>1. owner'.todo # <<>>
      <4>1. Len(owner'.todo) # 0
        BY <2>1
      <4>2. Len(<<>>) = 0
        OBVIOUS
      <4> QED  BY <4>1, <4>2
    <3>2. Head(owner'.todo) = FromEnd(owner'.todo, Len(owner'.todo))
      <4>1. owner'.todo \in Seq(OwnerTodos)
        BY <2>1
      <4> QED  BY <4>1, <3>1, RestOf
    <3> QED  BY <3>1, <3>2, <2>1
  <2>5. Step' = Planned(11)
    BY <2>1, <2>4 DEF Step
  <2>6. ~Waking'
    BY <2>5, PlannedKinds DEF Waking
  <2>7. Resetting'
    BY <2>1, <2>3, <2>5, <2>6 DEF Resetting
  <2>8. \A l \in Lanes : ~Told(l, Turn[l] + 5)'
    BY <2>3, <2>6 DEF Told, Turn, Lanes
  <2>9. FirstRound' /\ SecondRound'
    <3>1. ~Told("arender", 9)'
      BY <2>3, <2>6 DEF Told
    <3> QED  BY <1>1, <1>2, <1>3, <2>3, <2>8, <3>1 DEF FirstRound, SecondRound
  <2>10. Mild' /\ Adding'
    BY <1>7 DEF Mild, Adding
  <2> QED  BY <1>3, <2>2, <2>7, <2>9, <2>10 DEF Parts
<1> QED  BY <1>2, <1>5, <1>6, <1>7

\* The plan after a step, and with a thread to wake first.
LEMMA RestShape ==
  ASSUME Parts, Step[1] # "none", owner'.todo = Rest
  PROVE  /\ owner'.todo \in Seq(OwnerTodos) /\ Togo' = Togo - 1 /\ Togo \in Nat \ {0}
         /\ \A i \in 1..Togo - 1 : FromEnd(owner'.todo, i) = FromEnd(owner.todo, i)
         /\ Togo > 1 => Step' = FromEnd(owner.todo, Togo - 1)
         /\ owner.todo \in Seq(MildTodos) => owner'.todo \in Seq(MildTodos)
<1>1. owner.todo # <<>> /\ owner.todo \in Seq(OwnerTodos) /\ owner'.todo = Tail(owner.todo)
  BY StepOf DEF Rest
<1>2. /\ owner'.todo \in Seq(OwnerTodos) /\ Len(owner'.todo) = Len(owner.todo) - 1
      /\ Len(owner.todo) \in Nat \ {0}
      /\ \A i \in 1..Len(owner.todo) - 1 : FromEnd(owner'.todo, i) = FromEnd(owner.todo, i)
  BY <1>1, RestOf
<1>3. owner.todo \in Seq(MildTodos) => owner'.todo \in Seq(MildTodos)
  BY <1>1, RestOf
<1>4. ASSUME Len(owner.todo) > 1
      PROVE  Step' = FromEnd(owner.todo, Len(owner.todo) - 1)
  <2>1. owner'.todo # <<>>
    <3>1. Len(owner'.todo) # 0
      <4> DEFINE n == Len(owner.todo)
                 m == Len(owner'.todo)
      <4>1. m = n - 1 /\ n \in Nat /\ n > 1
        BY <1>2, <1>4
      <4> HIDE DEF n, m
      <4>2. m # 0
        BY <4>1
      <4> QED  BY <4>2 DEF m
    <3>2. Len(<<>>) = 0
      OBVIOUS
    <3> QED  BY <3>1, <3>2
  <2>2. Head(owner'.todo) = FromEnd(owner'.todo, Len(owner'.todo))
    <3>1. owner'.todo \in Seq(OwnerTodos)
      BY <1>2
    <3> QED  BY <3>1, <2>1, RestOf
  <2>3. Step' = Head(owner'.todo)
    BY <2>1 DEF Step
  <2> QED  BY <2>2, <2>3, <1>2, <1>4
<1> QED  BY <1>2, <1>3, <1>4 DEF Togo

LEMMA WokenShape ==
  ASSUME Parts, Step[1] # "none", NEW l \in Lanes, owner'.todo = <<<<"wake", l>>>> \o Rest
  PROVE  /\ owner'.todo \in Seq(OwnerTodos) /\ Togo' = Togo /\ Togo \in Nat \ {0}
         /\ \A i \in 1..Togo - 1 : FromEnd(owner'.todo, i) = FromEnd(owner.todo, i)
         /\ Waking' /\ Step' = <<"wake", l>>
         /\ owner.todo \in Seq(MildTodos) => owner'.todo \in Seq(MildTodos)
<1> DEFINE w == <<"wake", l>>
<1>1. /\ owner.todo # <<>> /\ owner.todo \in Seq(OwnerTodos) /\ owner'.todo = <<w>> \o Tail(owner.todo)
      /\ Togo \in Nat \ {0}
  BY StepOf DEF Rest
<1>2. w \in OwnerTodos /\ w \in MildTodos /\ w[1] = "wake"
  BY DEF OwnerTodos, MildTodos
<1> HIDE DEF w
<1>3. /\ owner'.todo \in Seq(OwnerTodos) /\ Len(owner'.todo) = Len(owner.todo) /\ owner'.todo # <<>>
      /\ Head(owner'.todo) = w
      /\ \A i \in 1..Len(owner.todo) - 1 : FromEnd(owner'.todo, i) = FromEnd(owner.todo, i)
  <2> DEFINE s == owner.todo
             c == <<w>> \o Tail(s)
  <2>1. s \in Seq(OwnerTodos) /\ s # <<>> /\ w \in OwnerTodos
    BY <1>1, <1>2
  <2>2. c = owner'.todo
    BY <1>1
  <2> HIDE DEF s
  <2>3. /\ c \in Seq(OwnerTodos) /\ Len(c) = Len(s) /\ c # <<>> /\ Head(c) = w
        /\ \A i \in 1..Len(s) - 1 : FromEnd(c, i) = FromEnd(s, i)
    BY <2>1, WokenOf
  <2> HIDE DEF c
  <2> QED  BY <2>2, <2>3 DEF s
<1>4. owner.todo \in Seq(MildTodos) => owner'.todo \in Seq(MildTodos)
  <2> DEFINE s == owner.todo
             c == <<w>> \o Tail(s)
  <2>1. s # <<>> /\ w \in MildTodos
    BY <1>1, <1>2
  <2>2. c = owner'.todo
    BY <1>1
  <2> HIDE DEF s
  <2>3. s \in Seq(MildTodos) => c \in Seq(MildTodos)
    BY <2>1, WokenOf
  <2> HIDE DEF c
  <2> QED  BY <2>2, <2>3 DEF s
<1>5. Step' = w
  BY <1>3 DEF Step
<1> QED  BY <1>1, <1>2, <1>3, <1>4, <1>5 DEF Togo, Waking, w

LEMMA RestResetting ==
  ASSUME Parts, Step[1] # "none", owner'.todo = Rest, owner.op = "reset", owner'.op = "reset",
         lock' = "owner", Togo > 1
  PROVE  Resetting' /\ Togo' = Togo - 1 /\ ~Waking' /\ Step' = Planned(Togo')
<1>1. /\ Togo' = Togo - 1 /\ Togo \in 2..11
      /\ \A i \in 1..Togo - 1 : FromEnd(owner'.todo, i) = Planned(i)
      /\ Step' = Planned(Togo - 1)
  <2>1. Togo \in 1..11 /\ \A i \in 1..Togo - 1 : FromEnd(owner.todo, i) = Planned(i)
    BY DEF Parts, Resetting
  <2>2. /\ Togo' = Togo - 1
        /\ \A i \in 1..Togo - 1 : FromEnd(owner'.todo, i) = FromEnd(owner.todo, i)
        /\ Step' = FromEnd(owner.todo, Togo - 1)
    BY RestShape
  <2> QED  BY <2>1, <2>2
<1>2. ~Waking'
  BY <1>1, PlannedKinds DEF Waking
<1>3. Resetting'
  BY <1>1, <1>2 DEF Resetting
<1> QED  BY <1>1, <1>2, <1>3

LEMMA WokenResetting ==
  ASSUME Parts, Step[1] # "none", NEW l \in Lanes, owner'.todo = <<<<"wake", l>>>> \o Rest,
         owner.op = "reset", owner'.op = "reset", lock' = "owner", Togo \in Turns
  PROVE  Resetting' /\ Togo' = Togo /\ Waking'
<1>1. Togo \in 1..11 /\ \A i \in 1..Togo - 1 : FromEnd(owner.todo, i) = Planned(i)
  BY DEF Parts, Resetting
<1>2. /\ Togo' = Togo /\ Waking'
      /\ \A i \in 1..Togo - 1 : FromEnd(owner'.todo, i) = FromEnd(owner.todo, i)
  BY WokenShape
<1>3. Planned(Togo)[1] = "tell"
  BY <1>1, PlannedKinds
<1> QED  BY <1>1, <1>2, <1>3 DEF Resetting

LEMMA RestAdding ==
  ASSUME Parts, Step[1] # "none", owner'.todo = Rest, owner.op = "add", owner'.op = "add",
         lock' = "owner", Togo > 1, Togo = 2 => owner'.await = {}
  PROVE  Adding'
<1>1. Togo \in {2, 3} /\ FromEnd(owner.todo, 1)[1] = "add" /\ FromEnd(owner.todo, 2) = <<"await">>
  BY AddingHas DEF Parts, Adding
<1>2. /\ Togo' = Togo - 1 /\ \A i \in 1..Togo - 1 : FromEnd(owner'.todo, i) = FromEnd(owner.todo, i)
  BY RestShape
<1>3. FromEnd(owner'.todo, 1)[1] = "add" /\ (Togo' = 2 => FromEnd(owner'.todo, 2) = <<"await">>) /\ Togo' \in {1, 2}
  BY <1>1, <1>2
<1> QED  BY <1>1, <1>2, <1>3 DEF Adding

LEMMA WokenAdding ==
  ASSUME Parts, Step[1] # "none", NEW l \in Lanes, owner'.todo = <<<<"wake", l>>>> \o Rest,
         owner.op = "add", owner'.op = "add", lock' = "owner", Togo = 3
  PROVE  Adding'
<1>1. FromEnd(owner.todo, 1)[1] = "add" /\ FromEnd(owner.todo, 2) = <<"await">>
  BY DEF Parts, Adding
<1>2. /\ Togo' = Togo /\ Waking' /\ \A i \in 1..Togo - 1 : FromEnd(owner'.todo, i) = FromEnd(owner.todo, i)
  BY WokenShape
<1> QED  BY <1>1, <1>2 DEF Adding

LEMMA AgedKin == ASSUME NEW r, DOMAIN r = DOMAIN Res0  PROVE Kin(Aged(r), r) /\ Aged(r).run = r.run
BY FieldsOf DEF Aged, Kin

LEMMA TakeLockMove ==
  ASSUME Parts, TakeLock
  PROVE  Parts'
<1>1. /\ owner.op # "none" /\ lock = "none" /\ lock' = "owner"
      /\ UNCHANGED <<bits, owner, feeder, open>>
      /\ res' = IF owner.op = "flush" THEN [l \in Lanes |-> Aged(res[l])] ELSE res
  BY DEF TakeLock
<1>2. DOMAIN res' = Lanes /\ \A l \in Lanes : Kin(res'[l], res[l]) /\ res'[l].run = res[l].run
  <2>1. CASE owner.op = "flush"
    <3>1. DOMAIN res' = Lanes /\ \A l \in Lanes : res'[l] = Aged(res[l])
      BY <1>1, <2>1
    <3>2. \A l \in Lanes : DOMAIN res[l] = DOMAIN Res0
      BY DEF Parts, LanesInv, LaneInv
    <3>3. \A l \in Lanes : Kin(Aged(res[l]), res[l]) /\ Aged(res[l]).run = res[l].run
      BY <3>2, AgedKin
    <3> QED  BY <3>1, <3>3
  <2>2. CASE owner.op # "flush"
    BY <1>1, <2>2 DEF Parts, LanesInv, Kin
  <2> QED  BY <2>1, <2>2
<1>3. LanesInv' /\ \A l \in Lanes : CloseAwaited(l)' <=> CloseAwaited(l)
  BY <1>1, <1>2, LanesKept DEF Parts, Bitless, Carries
<1>4. OwnerInv'
  BY <1>1 DEF Parts, OwnerInv
<1>5. /\ Togo' = Togo /\ Waking' = Waking /\ Step' = Step /\ \A l, n : Told(l, n)' <=> Told(l, n)
  BY <1>1 DEF Togo, Waking, Step, Told
<1>6. Mild' /\ Adding' /\ Resetting'
  BY <1>1, <1>5, <1>3 DEF Parts, Mild, Adding, Resetting
<1>7. \A l \in Lanes : res'[l].thread = res[l].thread /\ res'[l].run = res[l].run
  BY <1>2 DEF Kin
<1>8. "arender" \in Lanes
  BY DEF Lanes
<1>9. FirstRound'
  BY <1>1, <1>3, <1>5, <1>7, <1>8 DEF Parts, FirstRound
<1>10. SecondRound'
  BY <1>1, <1>3, <1>5, <1>7, <1>8 DEF Parts, SecondRound
<1> QED  BY <1>3, <1>4, <1>6, <1>9, <1>10 DEF Parts

LEMMA WakeMove ==
  ASSUME Parts, Wake
  PROVE  Parts'
<1>1. /\ lock = "owner" /\ lock' = lock /\ Step[1] = "wake" /\ owner' = [owner EXCEPT !.todo = Rest]
      /\ UNCHANGED <<bits, feeder, open>>
      /\ res' = IF res[Step[2]].data = << >> THEN [res EXCEPT ![Step[2]].data = <<<<"wake", FALSE>>>>] ELSE res
  BY DEF Wake, NoLanes
<1>2. Step[2] \in Lanes
  BY <1>1, StepOf, TodoKinds
<1>3. DOMAIN owner = {"op", "todo", "await", "got"}
  BY DEF Parts, OwnerInv
<1>4. /\ DOMAIN owner' = DOMAIN owner /\ owner'.op = owner.op /\ owner'.await = owner.await
      /\ owner'.got = owner.got /\ owner'.todo = Rest
  BY <1>1, <1>3
<1>5. DOMAIN res' = Lanes /\ \A l \in Lanes : Kin(res'[l], res[l]) /\ res'[l].run = res[l].run
  <2> DEFINE k == Step[2]
             r == [res[k] EXCEPT !.data = <<<<"wake", FALSE>>>>]
  <2>1. Kin(r, res[k]) /\ r.run = res[k].run
    BY <1>2, FieldsOf DEF Kin, Parts, LanesInv, LaneInv
  <2>2. res' = [res EXCEPT ![k] = r] \/ res' = res
    <3> HIDE DEF k
    <3> QED  BY <1>1 DEF k
  <2>3. DOMAIN res = Lanes
    BY DEF Parts, LanesInv
  <2> HIDE DEF r, k
  <2> QED  BY <1>2, <2>1, <2>2, <2>3 DEF Kin, k
<1>6. LanesInv' /\ \A l \in Lanes : CloseAwaited(l)' <=> CloseAwaited(l)
  BY <1>1, <1>4, <1>5, LanesKept DEF Parts, Bitless, Carries
<1>7. OwnerInv'
  <2>1. owner'.todo \in Seq(OwnerTodos) /\ owner.op # "none"
    BY <1>1, <1>4, RestShape, StepOf
  <2> QED  BY <1>1, <1>4, <2>1 DEF Parts, OwnerInv
<1>8. \A l \in Lanes : res'[l].thread = res[l].thread /\ res'[l].run = res[l].run
  BY <1>5 DEF Kin
<1>9. CASE owner.op \in {"pause", "resume", "flush"}
  <2>1. owner'.todo \in Seq(MildTodos) /\ \A l \in Lanes : ~CloseAwaited(l)
    BY <1>1, <1>4, <1>9, MildHas, RestShape
  <2>2. Mild' /\ Adding' /\ Resetting' /\ FirstRound' /\ SecondRound'
    BY <2>1, <1>4, <1>6, <1>9 DEF Mild, Adding, Resetting, FirstRound, SecondRound
  <2> QED  BY <1>6, <1>7, <2>2 DEF Parts
<1>10. CASE owner.op = "add"
  <2>1. Togo = 3
    BY <1>1, <1>10, AddingHas
  <2>2. Adding'
    BY <1>1, <1>4, <1>10, <2>1, RestAdding
  <2>3. Mild' /\ Resetting' /\ FirstRound' /\ SecondRound'
    BY <1>4, <1>10 DEF Mild, Resetting, FirstRound, SecondRound
  <2> QED  BY <1>6, <1>7, <2>2, <2>3 DEF Parts
<1>11. CASE owner.op = "reset"
  <2>1. Togo \in Turns
    BY <1>1, <1>11, ResettingHas
  <2>2. Resetting' /\ Togo' = Togo - 1 /\ ~Waking' /\ Togo > 1 /\ Waking
    <3>1. Togo > 1 /\ Waking
      BY <1>1, <2>1 DEF Turns, Waking
    <3> QED  BY <1>1, <1>4, <1>11, <3>1, RestResetting
  <2>3. \A l, n : n \in Int => (Told(l, n)' <=> Told(l, n))
    BY <2>1, <2>2 DEF Told, Turns
  <2>4. \A l \in Lanes : Told(l, Turn[l] + 5)' <=> Told(l, Turn[l] + 5)
    BY <2>3 DEF Turn, Lanes
  <2>5. (Told("arender", 9)' <=> Told("arender", 9)) /\ (Told("arender", 4)' <=> Told("arender", 4))
    BY <2>3
  <2>6. (Togo' > 6 <=> Togo > 6) /\ (Togo' < 7 <=> Togo < 7) /\ Togo' # 1
    BY <2>1, <2>2 DEF Turns
  <2>7. "arender" \in Lanes
    BY DEF Lanes
  <2>8. FirstRound'
    BY <1>4, <1>6, <1>8, <1>11, <2>4, <2>5, <2>6, <2>7 DEF Parts, FirstRound
  <2>9. SecondRound'
    BY <1>4, <1>6, <1>8, <1>11, <2>5, <2>6, <2>7 DEF Parts, SecondRound
  <2>10. Mild' /\ Adding'
    BY <1>4, <1>11 DEF Mild, Adding
  <2> QED  BY <1>6, <1>7, <2>2, <2>8, <2>9, <2>10 DEF Parts
<1> QED  BY <1>1, <1>9, <1>10, <1>11, StepOf DEF Parts, OwnerInv

\* Whose turn it is when a reset tells a thread to close, and that it was not told yet.
LEMMA TurnOf ==
  ASSUME Parts, Step[1] = "tell", owner.op = "reset"
  PROVE  /\ Togo \in Turns /\ Step[2] \in Lanes /\ Step[3] = "CLOSE" /\ ~Waking
         /\ Togo > 6 => \A k \in Lanes : Togo = Turn[k] + 5 <=> k = Step[2]
         /\ Togo < 7 => \A k \in Lanes : Togo = Turn[k] <=> k = Step[2]
         /\ ~CloseAwaited(Step[2])
<1>1. /\ Togo \in Turns /\ Step[2] \in Lanes /\ Step[3] = "CLOSE" /\ Turn[Step[2]] \in {Togo, Togo - 5}
      /\ ~Waking
  BY ResettingHas DEF Waking
<1>2. Turn["adec"] = 6 /\ Turn["vdec"] = 5 /\ Turn["arender"] = 4 /\ Turn["vrender"] = 3
  BY DEF Turn
<1>3. Togo > 6 => \A k \in Lanes : Togo = Turn[k] + 5 <=> k = Step[2]
  BY <1>1, <1>2 DEF Turns, Lanes
<1>4. Togo < 7 => \A k \in Lanes : Togo = Turn[k] <=> k = Step[2]
  BY <1>1, <1>2 DEF Turns, Lanes
<1>5. ~CloseAwaited(Step[2])
  <2>1. CASE Togo > 6
    <3>1. CloseAwaited(Step[2]) => Told(Step[2], Turn[Step[2]] + 5)
      BY <1>1, <2>1 DEF Parts, FirstRound
    <3>2. Togo = Turn[Step[2]] + 5
      BY <1>1, <1>3, <2>1
    <3> QED  BY <3>1, <3>2, <1>1, <1>2 DEF Told, Lanes, Turns
  <2>2. CASE Togo < 7
    <3>1. owner.await \subseteq {<<"arender", "close">>} /\ (CloseAwaited("arender") => Told("arender", 4))
      BY <2>2 DEF Parts, SecondRound
    <3>2. CloseAwaited(Step[2]) => Step[2] = "arender"
      BY <3>1 DEF CloseAwaited
    <3>3. Step[2] = "arender" => Togo = 4
      BY <1>1, <1>2, <1>4, <2>2
    <3> QED  BY <3>1, <3>2, <3>3, <1>1 DEF Told
  <2> QED  BY <1>1, <2>1, <2>2 DEF Turns
<1> QED  BY <1>1, <1>3, <1>4, <1>5

\* Once told, or passed over, a thread has had its turn.
LEMMA ToldAfter ==
  ASSUME Togo \in Turns, ~Waking, (Togo' = Togo /\ Waking') \/ (Togo' = Togo - 1 /\ ~Waking')
  PROVE  /\ \A l, n : n \in Int => (Told(l, n)' <=> Told(l, n) \/ Togo = n)
         /\ Togo' > 6 <=> Togo > 6
         /\ Togo' < 7 <=> Togo < 7
         /\ Togo' # 1
<1>1. Togo \in Int
  BY DEF Turns
<1>2. \A l, n : n \in Int => (Told(l, n)' <=> Told(l, n) \/ Togo = n)
  BY <1>1 DEF Told
<1> QED  BY <1>2 DEF Turns

\* The rounds of a reset when a thread was told, or passed over.
LEMMA RoundsMove ==
  ASSUME Parts, Step[1] = "tell", owner.op = "reset", NEW given \in BOOLEAN,
         given => owner'.await = owner.await \cup {<<Step[2], "close">>},
         ~given => owner'.await = owner.await /\ (~res[Step[2]].thread \/ Step[2] \in owner.got),
         given => res[Step[2]].thread,
         owner'.op = "reset", owner'.got = owner.got,
         \A k \in Lanes : res'[k].thread = res[k].thread /\ res'[k].run = res[k].run,
         (Togo' = Togo /\ Waking') \/ (Togo' = Togo - 1 /\ ~Waking')
  PROVE  FirstRound' /\ SecondRound'
<1> DEFINE l == Step[2]
<1>1. /\ Togo \in Turns /\ l \in Lanes /\ Step[3] = "CLOSE" /\ ~Waking
      /\ Togo > 6 => \A k \in Lanes : Togo = Turn[k] + 5 <=> k = l
      /\ Togo < 7 => \A k \in Lanes : Togo = Turn[k] <=> k = l
  BY TurnOf
<1>2. /\ \A k, n : n \in Int => (Told(k, n)' <=> Told(k, n) \/ Togo = n)
      /\ (Togo' > 6 <=> Togo > 6) /\ (Togo' < 7 <=> Togo < 7) /\ Togo' # 1
  BY <1>1, ToldAfter
<1> HIDE DEF l
<1>3. \A k \in Lanes : CloseAwaited(k)' <=> CloseAwaited(k) \/ (given /\ k = l)
  BY DEF CloseAwaited, l
<1>4. "arender" \in Lanes /\ Turn["arender"] = 4 /\ \A k \in Lanes : Turn[k] \in Int /\ Turn[k] + 5 \in Int
  BY DEF Lanes, Turn
<1>5. FirstRound'
  <2> SUFFICES ASSUME Togo > 6
               PROVE  FirstRound!2'
    BY <1>2 DEF FirstRound
  <2>1. FirstRound!2
    BY DEF Parts, FirstRound
  <2>2. \A k \in Lanes : Told(k, Turn[k] + 5)' <=> Told(k, Turn[k] + 5) \/ k = l
    BY <1>1, <1>2, <1>4
  <2>3. Told("arender", 9)' <=> Told("arender", 9) \/ "arender" = l
    BY <1>1, <1>2, <1>4
  <2>4. given \/ ~res[l].thread
    BY <2>1 DEF l
  <2>5. owner'.got = {} /\ owner'.await \subseteq {<<k, "close">> : k \in Lanes}
    BY <1>1, <2>1 DEF l
  <2>6. \A k \in Lanes : CloseAwaited(k)' => Told(k, Turn[k] + 5)'
    BY <2>1, <2>2, <1>3
  <2>7. \A k \in Lanes \ {"arender"} : Told(k, Turn[k] + 5)' /\ res'[k].thread => CloseAwaited(k)'
    BY <2>1, <2>2, <2>4, <1>3
  <2>8. ASSUME Told("arender", 9)', res'["arender"].thread
        PROVE  owner'.await # {}
    <3>1. CASE Told("arender", 9)
      <4>1. owner.await # {}
        BY <2>1, <2>8, <3>1, <1>4
      <4> QED  BY <4>1
    <3>2. CASE "arender" = l
      BY <2>4, <2>8, <3>2, <1>4 DEF l
    <3> QED  BY <2>8, <2>3, <3>1, <3>2
  <2> QED  BY <2>5, <2>6, <2>7, <2>8
<1>6. SecondRound'
  <2> SUFFICES ASSUME Togo < 7
               PROVE  SecondRound!2'
    BY <1>2 DEF SecondRound
  <2>1. SecondRound!2
    BY DEF Parts, SecondRound
  <2>2. Told("arender", 4)' <=> Told("arender", 4) \/ "arender" = l
    BY <1>1, <1>2, <1>4
  <2>3. \A k \in Lanes : res[k].run = "off" => ~res[k].thread
    BY DEF Parts, LanesInv, LaneInv, AtWork
  <2>4. given => l = "arender"
    BY <2>1, <2>3, <1>1 DEF l
  <2>5. ~given /\ "arender" = l => ~res[l].thread
    BY <2>1, <2>3, <1>4 DEF l
  <2>6. owner'.await \subseteq {<<"arender", "close">>}
    BY <2>1, <2>4 DEF l
  <2>7. CloseAwaited("arender")' => Told("arender", 4)'
    BY <2>1, <2>2, <1>3, <1>4
  <2>8. Told("arender", 4)' /\ res'["arender"].thread => CloseAwaited("arender")'
    BY <2>1, <2>2, <2>5, <1>3, <1>4
  <2> QED  BY <2>1, <2>6, <2>7, <2>8, <1>2, <1>4
<1> QED  BY <1>5, <1>6

LEMMA AppendedMessage ==
  ASSUME NEW s \in Seq(Messages), NEW m \in Messages
  PROVE  /\ Append(s, m) \in Seq(Messages) /\ Len(Append(s, m)) = Len(s) + 1 /\ Len(s) \in Nat
         /\ Append(s, m)[Len(s) + 1] = m /\ \A i \in 1..Len(s) : Append(s, m)[i] = s[i]
BY AppendProperties, LenProperties

\* A message more for a thread of which no end is awaited.
LEMMA ToldLanes ==
  ASSUME LanesInv, NEW l \in Lanes, NEW m \in Messages, res[l].thread, ~CloseAwaited(l),
         DOMAIN res' = Lanes, bits' = bits,
         \A k \in Lanes : /\ DOMAIN res'[k] = DOMAIN res[k] /\ res'[k].there = res[k].there
                          /\ res'[k].thread = res[k].thread /\ res'[k].run = res[k].run
                          /\ res'[k].msgs = IF k = l THEN Append(res[k].msgs, m) ELSE res[k].msgs,
         \A k \in Lanes : CloseAwaited(k)' <=> CloseAwaited(k) \/ (m = "CLOSE" /\ k = l)
  PROVE  LanesInv'
<1>1. ASSUME NEW k \in Lanes, k # l
      PROVE  LaneInv(k)'
  BY <1>1 DEF LanesInv, LaneInv
<1>2. LaneInv(l)'
  <2>1. LaneInv(l)
    BY DEF LanesInv
  <2>2. /\ res'[l].msgs \in Seq(Messages) /\ Len(res'[l].msgs) = Len(res[l].msgs) + 1 /\ Len(res[l].msgs) \in Nat
        /\ res'[l].msgs[Len(res[l].msgs) + 1] = m
        /\ \A i \in 1..Len(res[l].msgs) : res'[l].msgs[i] = res[l].msgs[i]
    <3>1. res[l].msgs \in Seq(Messages) /\ res'[l].msgs = Append(res[l].msgs, m)
      BY <2>1 DEF LaneInv
    <3> QED  BY <3>1, AppendedMessage
  <2>3. \A i \in 1..Len(res[l].msgs) : res[l].msgs[i] # "CLOSE"
    BY <2>1 DEF LaneInv
  <2>4. \A i \in 1..Len(res'[l].msgs) :
          res'[l].msgs[i] = "CLOSE" => i = Len(res'[l].msgs) /\ res'[l].thread /\ CloseAwaited(l)'
    BY <2>2, <2>3
  <2>5. (<<l, "close">> \in bits' => res'[l].run = "off" /\ CloseAwaited(l)') /\ (res'[l].run = "exit" => CloseAwaited(l)')
    BY <2>1 DEF LaneInv, AtWork
  <2> QED  BY <2>1, <2>2, <2>4, <2>5 DEF LaneInv
<1> QED  BY <1>1, <1>2 DEF LanesInv

\* What telling a thread does.
LEMMA TellDoes ==
  ASSUME Parts, Tell
  PROVE  LET l == Step[2]  m == Step[3]
         IN  /\ l \in Lanes /\ m \in Messages /\ lock = "owner" /\ lock' = lock /\ Step[1] = "tell"
             /\ UNCHANGED <<bits, feeder, open>> /\ DOMAIN owner' = DOMAIN owner /\ owner'.op = owner.op
             /\ owner'.got = owner.got
             /\ \/ Spared(l, m) /\ owner'.todo = Rest /\ owner'.await = owner.await /\ res' = res
                \/ /\ res[l].thread /\ owner'.todo = <<<<"wake", l>>>> \o Rest
                   /\ owner'.await = CASE m = "CLOSE" -> owner.await \cup {<<l, "close">>}
                                       [] m = "FLUSH" -> {<<l, "flush">>}
                                       [] OTHER       -> owner.await
                   /\ DOMAIN res' = Lanes
                   /\ \A k \in Lanes : 
                        /\ DOMAIN res'[k] = DOMAIN res[k] /\ res'[k].there = res[k].there
                        /\ res'[k].thread = res[k].thread /\ res'[k].run = res[k].run
                        /\ res'[k].msgs = IF k = l THEN Append(res[k].msgs, m) ELSE res[k].msgs
<1> DEFINE l == Step[2]
           m == Step[3]
           d == Render[StreamOf[l]]
           r == [res[l] EXCEPT !.msgs = Append(@, m), !.flushing = @ \/ m = "FLUSH"]
           told == [res EXCEPT ![l] = r]
           a == CASE m = "CLOSE" -> owner.await \cup {<<l, "close">>}
                  [] m = "FLUSH" -> {<<l, "flush">>}
                  [] OTHER       -> owner.await
<1>1. Step[1] = "tell" /\ lock = "owner" /\ NoLanes /\ l \in Lanes /\ m \in Messages
  BY StepOf, TodoKinds DEF Tell
<1>2. UNCHANGED <<bits, feeder, open>> /\ lock' = lock
  BY <1>1 DEF NoLanes
<1>3. DOMAIN owner = {"op", "todo", "await", "got"} /\ DOMAIN res = Lanes
  BY DEF Parts, OwnerInv, LanesInv
<1>4. \A k \in Lanes : DOMAIN res[k] = DOMAIN Res0
  BY DEF Parts, LanesInv, LaneInv
<1>5. CASE Spared(l, m)
  <2>1. owner' = [owner EXCEPT !.todo = Rest] /\ res' = res
    BY <1>5 DEF Tell
  <2> QED  BY <2>1, <1>1, <1>2, <1>3, <1>5
<1>6. CASE ~Spared(l, m)
  <2>1. res[l].thread
    BY <1>6 DEF Spared
  <2>2. owner' = [owner EXCEPT !.todo = <<<<"wake", l>>>> \o Rest, !.await = a]
    BY <1>6 DEF Tell
  <2>3. /\ DOMAIN owner' = DOMAIN owner /\ owner'.op = owner.op /\ owner'.got = owner.got
        /\ owner'.await = a /\ owner'.todo = <<<<"wake", l>>>> \o Rest
    <3> HIDE DEF a, l
    <3> QED  BY <2>2, <1>3
  <2>4. \/ res' = told
        \/ d \in Lanes /\ res' = [told EXCEPT ![d] = [told[d] EXCEPT !.flushing = TRUE, !.data = << >>]]
    <3>1. d \in Lanes
      BY <1>1 DEF Lanes, Render, StreamOf
    <3>2. told = [res EXCEPT ![l].msgs = Append(@, m), ![l].flushing = @ \/ m = "FLUSH"]
      BY <1>1, <1>3, <1>4, FieldsOf
    <3>3. res' = told \/ res' = [told EXCEPT ![d].flushing = TRUE, ![d].data = << >>]
      BY <3>2, <1>6 DEF Tell
    <3>4. DOMAIN told = Lanes
      BY <1>3
    <3>5. [told EXCEPT ![d].flushing = TRUE, ![d].data = << >>]
            = [told EXCEPT ![d] = [told[d] EXCEPT !.flushing = TRUE, !.data = << >>]]
      <4> HIDE DEF told, d
      <4> QED  BY <3>1, <3>4
    <3> QED  BY <3>1, <3>3, <3>5
  <2>5. /\ DOMAIN r = DOMAIN res[l] /\ r.there = res[l].there /\ r.thread = res[l].thread /\ r.run = res[l].run
        /\ r.msgs = Append(res[l].msgs, m)
    BY <1>1, <1>4, FieldsOf
  <2>6. /\ DOMAIN told = Lanes
        /\ \A k \in Lanes :
             /\ DOMAIN told[k] = DOMAIN res[k] /\ told[k].there = res[k].there
             /\ told[k].thread = res[k].thread /\ told[k].run = res[k].run
             /\ told[k].msgs = IF k = l THEN Append(res[k].msgs, m) ELSE res[k].msgs
    <3> HIDE DEF r
    <3>1. DOMAIN told = Lanes /\ told[l] = r /\ \A k \in Lanes : k # l => told[k] = res[k]
      BY <1>1, <1>3
    <3> HIDE DEF told
    <3> QED  BY <3>1, <2>5
  <2> HIDE DEF told, r
  <2>7. /\ DOMAIN res' = Lanes
        /\ \A k \in Lanes :
             /\ DOMAIN res'[k] = DOMAIN told[k] /\ res'[k].there = told[k].there
             /\ res'[k].thread = told[k].thread /\ res'[k].run = told[k].run
             /\ res'[k].msgs = told[k].msgs
    <3>1. CASE res' = told
      BY <3>1, <2>6
    <3>2. CASE d \in Lanes /\ res' = [told EXCEPT ![d] = [told[d] EXCEPT !.flushing = TRUE, !.data = << >>]]
      <4> DEFINE f == [told[d] EXCEPT !.flushing = TRUE, !.data = << >>]
      <4>1. DOMAIN f = DOMAIN told[d] /\ f.there = told[d].there /\ f.thread = told[d].thread
            /\ f.run = told[d].run /\ f.msgs = told[d].msgs
        BY <3>2, <2>6, <1>4, FieldsOf
      <4> HIDE DEF f
      <4>2. DOMAIN res' = Lanes /\ res'[d] = f /\ \A k \in Lanes : k # d => res'[k] = told[k]
        BY <3>2, <2>6 DEF f
      <4> QED  BY <4>1, <4>2
    <3> QED  BY <2>4, <3>1, <3>2
  <2>8. DOMAIN res' = Lanes /\ \A k \in Lanes : 
                        /\ DOMAIN res'[k] = DOMAIN res[k] /\ res'[k].there = res[k].there
                        /\ res'[k].thread = res[k].thread /\ res'[k].run = res[k].run
                        /\ res'[k].msgs = IF k = l THEN Append(res[k].msgs, m) ELSE res[k].msgs
    BY <2>6, <2>7
  <2> QED  BY <1>1, <1>2, <2>1, <2>3, <2>8
<1> QED  BY <1>5, <1>6

LEMMA TellMove ==
  ASSUME Parts, Tell
  PROVE  Parts'
<1> DEFINE l == Step[2]
           m == Step[3]
           spared == Spared(l, m) /\ owner'.todo = Rest /\ owner'.await = owner.await /\ res' = res
           same(k) == /\ DOMAIN res'[k] = DOMAIN res[k] /\ res'[k].there = res[k].there
                      /\ res'[k].thread = res[k].thread /\ res'[k].run = res[k].run
                      /\ res'[k].msgs = IF k = l THEN Append(res[k].msgs, m) ELSE res[k].msgs
           a == CASE m = "CLOSE" -> owner.await \cup {<<l, "close">>}
                  [] m = "FLUSH" -> {<<l, "flush">>}
                  [] OTHER       -> owner.await
           told == /\ res[l].thread /\ owner'.todo = <<<<"wake", l>>>> \o Rest
                   /\ owner'.await = a /\ DOMAIN res' = Lanes /\ \A k \in Lanes : same(k)
<1>1. /\ l \in Lanes /\ m \in Messages /\ lock = "owner" /\ lock' = lock /\ Step[1] = "tell"
      /\ UNCHANGED <<bits, feeder, open>> /\ DOMAIN owner' = DOMAIN owner /\ owner'.op = owner.op
      /\ owner'.got = owner.got
      /\ spared \/ told
  BY TellDoes
<1>2. owner.op \in {"add", "pause", "resume", "flush", "reset"} /\ Step[1] # "none"
  BY <1>1, StepOf DEF Parts, OwnerInv
<1>3. OwnerInv'
  <2>1. owner'.todo \in Seq(OwnerTodos)
    BY <1>1, <1>2, RestShape, WokenShape
  <2> HIDE DEF spared, told
  <2> QED  BY <1>1, <1>2, <2>1 DEF Parts, OwnerInv
<1>4. \A k \in Lanes : res'[k].thread = res[k].thread /\ res'[k].run = res[k].run
  BY <1>1
<1>5. spared => LanesInv' /\ \A k \in Lanes : CloseAwaited(k)' <=> CloseAwaited(k)
  <2> HAVE spared
  <2>1. DOMAIN res' = Lanes /\ (\A k \in Lanes : Carries(res'[k], res[k])) /\ Bitless /\ owner'.await = owner.await
    BY <1>1, SameCarries DEF Parts, Bitless
  <2> HIDE DEF spared
  <2> QED  BY <2>1, LanesKept DEF Parts
<1>6. told /\ ~CloseAwaited(l) /\ (m = "CLOSE" \/ \A k \in Lanes : ~CloseAwaited(k))
        => LanesInv' /\ \A k \in Lanes : CloseAwaited(k)' <=> CloseAwaited(k) \/ (m = "CLOSE" /\ k = l)
  <2> HAVE told /\ ~CloseAwaited(l) /\ (m = "CLOSE" \/ \A k \in Lanes : ~CloseAwaited(k))
  <2>1. \A k \in Lanes : CloseAwaited(k)' <=> CloseAwaited(k) \/ (m = "CLOSE" /\ k = l)
    <3>1. owner'.await = a /\ (m = "CLOSE" \/ \A k \in Lanes : ~CloseAwaited(k))
      OBVIOUS
    <3> HIDE DEF told, spared, l, m
    <3>2. m = "CLOSE" => owner'.await = owner.await \cup {<<l, "close">>}
      BY <3>1
    <3>3. m # "CLOSE" => owner'.await = owner.await \/ owner'.await = {<<l, "flush">>}
      BY <3>1
    <3>4. CASE m = "CLOSE"
      BY <3>2, <3>4 DEF CloseAwaited
    <3>5. CASE m # "CLOSE"
      <4>1. \A k \in Lanes : ~CloseAwaited(k)
        BY <3>1, <3>5
      <4>2. \A k \in Lanes : ~CloseAwaited(k)'
        <5>1. \A k : <<k, "close">> # <<l, "flush">>
          OBVIOUS
        <5>2. \A k : <<k, "close">> \notin {<<l, "flush">>}
          BY <5>1
        <5> QED  BY <3>3, <3>5, <4>1, <5>2 DEF CloseAwaited
      <4> QED  BY <4>1, <4>2, <3>5
    <3> QED  BY <3>4, <3>5
  <2>2. LanesInv /\ l \in Lanes /\ m \in Messages /\ res[l].thread /\ ~CloseAwaited(l)
        /\ DOMAIN res' = Lanes /\ bits' = bits /\ \A k \in Lanes : same(k)
    BY <1>1 DEF Parts
  <2> HIDE DEF told, spared, l, m
  <2>3. LanesInv'
    BY <2>1, <2>2, ToldLanes
  <2> QED  BY <2>1, <2>3
<1> HIDE DEF l, m
<1>7. CASE owner.op \in {"pause", "resume", "flush"}
  <2>1. owner.todo \in Seq(MildTodos) /\ m # "CLOSE" /\ \A k \in Lanes : ~CloseAwaited(k)
    BY <1>1, <1>2, <1>7, MildHas DEF m
  <2>2. LanesInv' /\ \A k \in Lanes : ~CloseAwaited(k)'
    <3> HIDE DEF spared, told
    <3> QED  BY <1>1, <1>5, <1>6, <2>1
  <2>3. owner'.todo \in Seq(MildTodos)
    BY <1>1, <1>2, <2>1, RestShape, WokenShape
  <2> HIDE DEF spared, told
  <2>4. Mild' /\ Adding' /\ Resetting' /\ FirstRound' /\ SecondRound'
    BY <1>1, <1>7, <2>2, <2>3 DEF Mild, Adding, Resetting, FirstRound, SecondRound
  <2> QED  BY <1>3, <2>2, <2>4 DEF Parts
<1>8. CASE owner.op = "add"
  <2>1. Togo = 3 /\ m = "CLOSE" /\ owner.await = {}
    BY <1>1, <1>2, <1>8, AddingHas DEF m
  <2>2. LanesInv'
    <3>1. ~CloseAwaited(l)
      BY <2>1 DEF CloseAwaited
    <3> HIDE DEF spared, told
    <3> QED  BY <1>1, <1>5, <1>6, <2>1, <3>1
  <2>3. Adding'
    <3>1. spared => Adding'
      BY <1>1, <1>2, <1>8, <2>1, RestAdding
    <3>2. told => Adding'
      BY <1>1, <1>2, <1>8, <2>1, WokenAdding
    <3> QED  BY <1>1, <3>1, <3>2
  <2> HIDE DEF spared, told
  <2>4. Mild' /\ Resetting' /\ FirstRound' /\ SecondRound'
    BY <1>1, <1>8 DEF Mild, Resetting, FirstRound, SecondRound
  <2> QED  BY <1>3, <2>2, <2>3, <2>4 DEF Parts
<1>9. CASE owner.op = "reset"
  <2>1. Togo \in Turns /\ m = "CLOSE" /\ ~Waking /\ ~CloseAwaited(l)
    BY <1>1, <1>9, TurnOf DEF l, m
  <2>2. LanesInv'
    <3> HIDE DEF spared, told
    <3> QED  BY <1>1, <1>5, <1>6, <2>1
  <2>3. spared => Resetting' /\ FirstRound' /\ SecondRound'
    <3> HAVE spared
    <3>1. Resetting' /\ Togo' = Togo - 1 /\ ~Waking'
      <4>1. Togo > 1
        BY <2>1 DEF Turns
      <4> QED  BY <1>1, <1>2, <1>9, <4>1, RestResetting
    <3>2. owner'.await = owner.await /\ (~res[l].thread \/ l \in owner.got)
      BY <2>1 DEF Spared
    <3> HIDE DEF spared, told
    <3>3. FirstRound' /\ SecondRound'
      BY <1>1, <1>4, <1>9, <3>1, <3>2, RoundsMove, FALSE \in BOOLEAN DEF l
    <3> QED  BY <3>1, <3>3
  <2>4. told => Resetting' /\ FirstRound' /\ SecondRound'
    <3> HAVE told
    <3>1. Resetting' /\ Togo' = Togo /\ Waking'
      BY <1>1, <1>2, <1>9, <2>1, WokenResetting
    <3>2. owner'.await = owner.await \cup {<<l, "close">>} /\ res[l].thread
      <4>1. owner'.await = a /\ res[l].thread
        OBVIOUS
      <4> HIDE DEF told
      <4> QED  BY <2>1, <4>1
    <3> HIDE DEF spared, told
    <3>3. FirstRound' /\ SecondRound'
      BY <1>1, <1>4, <1>9, <3>1, <3>2, RoundsMove, TRUE \in BOOLEAN DEF l
    <3> QED  BY <3>1, <3>3
  <2> HIDE DEF spared, told
  <2>5. Mild' /\ Adding'
    BY <1>1, <1>9 DEF Mild, Adding
  <2> QED  BY <1>1, <1>3, <2>2, <2>3, <2>4, <2>5 DEF Parts
<1> QED  BY <1>2, <1>7, <1>8, <1>9

LEMMA FreeAlone ==
  /\ <<<<"free">>>> \in Seq(OwnerTodos) /\ Len(<<<<"free">>>>) = 1
  /\ Head(<<<<"free">>>>) = <<"free">> /\ <<<<"free">>>> # <<>>
BY DEF OwnerTodos

\* A thread whose end was awaited has ended.
LEMMA AwaitedEnded ==
  ASSUME Parts, owner.await \subseteq bits
  PROVE  /\ \A l \in Lanes : CloseAwaited(l) => res[l].run = "off" /\ ~res[l].thread
         /\ \A l \in Lanes : ~res[l].thread => res[l].run = "off"
<1>1. \A l \in Lanes : LaneInv(l)
  BY DEF Parts, LanesInv
<1>2. \A l \in Lanes : CloseAwaited(l) => res[l].run = "off"
  BY <1>1 DEF LaneInv, CloseAwaited
<1>3. \A l \in Lanes : res[l].thread => res[l].run # "off"
  BY <1>1 DEF LaneInv, AtWork
<1>4. \A l \in Lanes : ~res[l].thread => res[l].run = "off"
  BY <1>1, <1>2 DEF LaneInv
<1> QED  BY <1>2, <1>3, <1>4

\* After the first round only the audio render's thread may run, after the second none.
LEMMA AwaitedMove ==
  ASSUME Parts, Awaited
  PROVE  Parts'
<1>1. /\ lock = "owner" /\ lock' = lock /\ Step[1] \in {"await", "join"} /\ Step[1] # "none"
      /\ owner.await \subseteq bits /\ bits' = bits \ owner.await
      /\ UNCHANGED <<res, feeder, open>>
  BY DEF Awaited
<1>2. DOMAIN owner = {"op", "todo", "await", "got"}
  BY DEF Parts, OwnerInv
<1>3. /\ DOMAIN owner' = DOMAIN owner /\ owner'.op = owner.op /\ owner'.await = {}
      /\ owner'.got = owner.got \cup {b[1] : b \in owner.await}
      /\ owner'.todo = IF Step[1] = "join" /\ owner.await = {} THEN <<<<"free">>>> ELSE Rest
  BY <1>2 DEF Awaited
<1>4. /\ \A l \in Lanes : CloseAwaited(l) => res[l].run = "off" /\ ~res[l].thread
      /\ \A l \in Lanes : ~res[l].thread => res[l].run = "off"
  BY <1>1, AwaitedEnded
<1>5. LanesInv' /\ \A l \in Lanes : ~CloseAwaited(l)'
  <2>1. \A l \in Lanes : ~CloseAwaited(l)'
    BY <1>3 DEF CloseAwaited
  <2>2. ASSUME NEW l \in Lanes
        PROVE  LaneInv(l)'
    <3>1. LaneInv(l) /\ res' = res /\ (<<l, "close">> \in bits' => <<l, "close">> \in bits /\ ~CloseAwaited(l))
      BY <1>1 DEF Parts, LanesInv, CloseAwaited
    <3>2. <<l, "close">> \notin bits' /\ res[l].run # "exit"
      BY <3>1, <1>4 DEF LaneInv
    <3>3. \A i \in 1..Len(res[l].msgs) : res[l].msgs[i] # "CLOSE"
      BY <3>1, <1>4 DEF LaneInv
    <3> QED  BY <3>1, <3>2, <3>3 DEF LaneInv
  <2> QED  BY <1>1, <2>1, <2>2 DEF Parts, LanesInv
<1>6. OwnerInv'
  <2>1. owner'.todo \in Seq(OwnerTodos) /\ owner.op # "none"
    <3>1. CASE owner'.todo = Rest
      BY <1>1, <3>1, RestShape, StepOf
    <3>2. CASE owner'.todo = <<<<"free">>>>
      BY <1>1, <3>2, FreeAlone, StepOf
    <3> QED  BY <1>3, <3>1, <3>2
  <2> QED  BY <1>1, <1>2, <1>3, <2>1 DEF Parts, OwnerInv
<1>7. CASE owner.op \in {"pause", "resume", "flush"}
  <2>1. Step[1] # "join" /\ owner.todo \in Seq(MildTodos)
    BY <1>1, <1>7, MildHas
  <2>2. owner'.todo \in Seq(MildTodos)
    BY <1>1, <1>3, <2>1, RestShape
  <2>3. Mild' /\ Adding' /\ Resetting' /\ FirstRound' /\ SecondRound'
    BY <1>3, <1>5, <1>7, <2>2 DEF Mild, Adding, Resetting, FirstRound, SecondRound
  <2> QED  BY <1>5, <1>6, <2>3 DEF Parts
<1>8. CASE owner.op = "add"
  <2>1. Togo = 2 /\ Step[1] # "join"
    <3>1. <<"await">>[1] = "await"
      OBVIOUS
    <3> QED  BY <1>1, <1>8, <3>1, AddingHas
  <2>2. Adding'
    BY <1>1, <1>3, <1>8, <2>1, RestAdding
  <2>3. Mild' /\ Resetting' /\ FirstRound' /\ SecondRound'
    BY <1>3, <1>8 DEF Mild, Resetting, FirstRound, SecondRound
  <2> QED  BY <1>5, <1>6, <2>2, <2>3 DEF Parts
<1>9. CASE owner.op = "reset"
  <2>1. Step[1] = "join" /\ Togo \in {2, 7}
    BY <1>1, <1>9, ResettingHas
  <2>2. ASSUME owner'.todo = <<<<"free">>>>
        PROVE  Togo' = 1 /\ Step' = Planned(1) /\ ~Waking' /\ Resetting'
    <3>1. Togo' = 1 /\ Step' = <<"free">>
      BY <2>2, FreeAlone DEF Togo, Step
    <3>2. Step' = Planned(1) /\ ~Waking'
      BY <3>1, PlannedKinds DEF Waking
    <3>3. Resetting'
      BY <1>1, <3>1, <3>2 DEF Resetting
    <3> QED  BY <3>1, <3>2, <3>3
  <2>3. ASSUME owner'.todo = Rest
        PROVE  Togo' = Togo - 1 /\ ~Waking' /\ Resetting'
    <3>1. Togo > 1
      BY <2>1
    <3> QED  BY <1>1, <1>3, <1>9, <2>3, <3>1, RestResetting
  <2>4. CASE Togo = 7
    <3>1. FirstRound!2
      BY <1>9, <2>4 DEF Parts, FirstRound
    <3>2. \A l \in Lanes \ {"arender"} : Told(l, Turn[l] + 5)
      BY <2>4 DEF Told, Turn, Lanes
    <3>3. \A l \in Lanes \ {"arender"} : res[l].run = "off"
      BY <3>1, <3>2, <1>4
    <3>4. CASE owner.await = {}
      <4>1. Told("arender", 9) /\ "arender" \in Lanes
        BY <2>4 DEF Told, Lanes
      <4>2. res["arender"].run = "off"
        BY <3>1, <3>4, <4>1, <1>4
      <4>3. Togo' = 1 /\ Resetting'
        BY <1>3, <2>1, <2>2, <3>4
      <4>4. \A l \in Lanes : res'[l].run = "off" /\ ~res'[l].thread
        BY <3>3, <4>2, <1>1 DEF Parts, LanesInv, LaneInv, AtWork
      <4>5. FirstRound' /\ SecondRound'
        BY <1>3, <1>5, <4>1, <4>3, <4>4 DEF FirstRound, SecondRound
      <4> QED  BY <4>3, <4>5, <1>3, <1>5, <1>6, <1>9 DEF Parts, Mild, Adding
    <3>5. CASE owner.await # {}
      <4>1. Togo' = 6 /\ ~Waking' /\ Resetting'
        BY <1>3, <2>3, <2>4, <3>5
      <4>2. "arender" \in owner'.got => CloseAwaited("arender")
        BY <1>3, <3>1 DEF CloseAwaited
      <4>3. "arender" \in Lanes /\ ~Told("arender", 4)'
        BY <4>1 DEF Told, Lanes
      <4>4. FirstRound' /\ SecondRound'
        BY <1>1, <1>3, <1>4, <1>5, <3>3, <4>1, <4>2, <4>3 DEF FirstRound, SecondRound
      <4> QED  BY <4>1, <4>4, <1>3, <1>5, <1>6, <1>9 DEF Parts, Mild, Adding
    <3> QED  BY <3>4, <3>5
  <2>5. CASE Togo = 2
    <3>1. SecondRound!2
      BY <1>9, <2>5 DEF Parts, SecondRound
    <3>2. Told("arender", 4) /\ "arender" \in Lanes
      BY <2>5 DEF Told, Lanes
    <3>3. \A l \in Lanes : res'[l].run = "off" /\ ~res'[l].thread
      <4>1. \A l \in Lanes : res[l].run = "off"
        BY <3>1, <3>2, <1>4
      <4> QED  BY <4>1, <1>1 DEF Parts, LanesInv, LaneInv, AtWork
    <3>4. Togo' = 1 /\ Resetting'
      BY <1>3, <2>2, <2>3, <2>5
    <3>5. FirstRound' /\ SecondRound'
      BY <1>3, <1>5, <3>2, <3>3, <3>4 DEF FirstRound, SecondRound
    <3> QED  BY <3>4, <3>5, <1>3, <1>5, <1>6, <1>9 DEF Parts, Mild, Adding
  <2> QED  BY <2>1, <2>4, <2>5
<1> QED  BY <1>1, <1>7, <1>8, <1>9, StepOf DEF Parts, OwnerInv

\* The call is over, and no thread is awaited.
LEMMA ReturnMove ==
  ASSUME Parts, lock = "owner", Return, LanesInv', feeder'.at = "into" => feeder.at = "into",
         DOMAIN feeder' = DOMAIN feeder, feeder'.lane \in Lanes, open' \subseteq Streams
  PROVE  Parts'
<1>1. lock' = "none" /\ owner' = [op |-> "none", todo |-> << >>, await |-> {}, got |-> {}]
  BY DEF Return
<1>2. <<>> \in Seq(OwnerTodos)
  OBVIOUS
<1>3. feeder'.at # "into"
  BY DEF Parts, OwnerInv
<1>4. OwnerInv'
  BY <1>1, <1>2, <1>3 DEF OwnerInv, Parts
<1> QED  BY <1>1, <1>4 DEF Parts, Mild, Adding, Resetting, FirstRound, SecondRound

LEMMA IdleLanes ==
  ASSUME LanesInv, res' = res, bits' = bits, owner'.await = {}, \A l \in Lanes : ~CloseAwaited(l)
  PROVE  LanesInv'
BY DEF LanesInv, LaneInv, CloseAwaited

LEMMA MildReturns ==
  ASSUME Parts, Returns \/ Flushed
  PROVE  Parts'
<1>1. /\ lock = "owner" /\ Return /\ Step[1] \in {"return", "flushed"} /\ UNCHANGED <<res, bits, feeder, open>>
  BY DEF Returns, Flushed
<1>2. Step[1] # "none"
  BY <1>1
<1>3. \A l \in Lanes : ~CloseAwaited(l)
  <2>1. owner.op # "reset"
    BY <1>1, <1>2, ResettingHas
  <2>2. owner.op # "add"
    <3>1. <<"await">>[1] = "await"
      OBVIOUS
    <3> QED  BY <1>1, <1>2, <3>1, AddingHas
  <2> QED  BY <1>2, <2>1, <2>2, MildHas, StepOf DEF Parts, OwnerInv
<1>4. owner'.await = {}
  BY <1>1 DEF Return
<1>5. LanesInv'
  BY <1>1, <1>3, <1>4, IdleLanes DEF Parts
<1> QED  BY <1>1, <1>5, ReturnMove DEF Parts, OwnerInv

LEMMA AddMove ==
  ASSUME Parts, Add
  PROVE  Parts'
<1> DEFINE s == Step[2]
           l == Decoder[s]
           v == s = "video" /\ "vrender" \in set.lanes /\ ~res["vrender"].thread
           opened == [res EXCEPT ![l] = IF l \in set.lanes THEN create_thread_res(@) ELSE @,
                                 !["vrender"] = IF v THEN create_thread_res(@) ELSE @]
<1>1. /\ lock = "owner" /\ Return /\ Step[1] = "add" /\ Step[1] # "none" /\ UNCHANGED <<bits, feeder>>
  BY DEF Add
<1>2. s \in Streams /\ l \in Decoders
  BY <1>1, StepOf, TodoKinds DEF Streams, Decoder, Decoders
<1>3. owner.op = "add" /\ owner.await = {}
  <2>1. owner.op = "add"
    BY <1>1, ResettingHas, MildHas, StepOf DEF Parts, OwnerInv
  <2>2. <<"await">>[1] = "await"
    OBVIOUS
  <2> QED  BY <1>1, <2>1, <2>2, AddingHas
<1>4. owner'.await = {} /\ \A k \in Lanes : ~CloseAwaited(k) /\ ~CloseAwaited(k)'
  BY <1>1, <1>3 DEF Return, CloseAwaited
<1>5. open' \subseteq Streams
  <2>1. open \subseteq Streams
    BY DEF Parts, OwnerInv
  <2>2. open' = open \cup {s} \/ open' = open \ {s}
    BY DEF Add
  <2> HIDE DEF s
  <2> QED  BY <1>2, <2>1, <2>2
<1>6. res' = res \/ res' = opened
  BY DEF Add
<1>7. LanesInv'
  <2>1. CASE res' = res
    BY <2>1, <1>1, <1>4, IdleLanes DEF Parts
  <2>2. CASE res' = opened
    <3>1. DOMAIN res = Lanes /\ l \in Lanes /\ "vrender" \in Lanes /\ l # "vrender"
      BY <1>2 DEF Parts, LanesInv, Lanes, Decoders
    <3> HIDE DEF l, v
    <3>2. /\ DOMAIN res' = Lanes
          /\ \A k \in Lanes : res'[k] = res[k] \/ res'[k] = create_thread_res(res[k])
      BY <2>2, <3>1
    <3>3. ASSUME NEW k \in Lanes
          PROVE  LaneInv(k)'
      <4>1. LaneInv(k) /\ bits' = bits /\ ~CloseAwaited(k) /\ (CloseAwaited(k)' <=> CloseAwaited(k))
        BY <1>1, <1>4 DEF Parts, LanesInv
      <4>2. CASE res'[k] = create_thread_res(res[k])
        BY <4>1, <4>2, CreatedLane
      <4>3. CASE res'[k] = res[k]
        BY <4>1, <4>3 DEF LaneInv
      <4> QED  BY <3>2, <4>2, <4>3
    <3> QED  BY <3>2, <3>3 DEF LanesInv
  <2> QED  BY <1>6, <2>1, <2>2
<1> QED  BY <1>1, <1>5, <1>7, ReturnMove DEF Parts, OwnerInv

LEMMA FreeMove ==
  ASSUME Parts, Free
  PROVE  Parts'
<1>1. /\ lock = "owner" /\ Return /\ Step[1] = "free" /\ Step[1] # "none" /\ bits' = bits
      /\ res' = [l \in Lanes |-> [Res0 EXCEPT !.run = res[l].run]] /\ open' = {}
      /\ feeder' = [feeder EXCEPT !.at = "out"]
  BY DEF Free
<1>2. owner.op = "reset" /\ Togo = 1
  <2>1. <<"await">>[1] = "await"
    OBVIOUS
  <2>2. owner.op \in {"add", "pause", "resume", "flush", "reset"}
    BY <1>1, StepOf DEF Parts, OwnerInv
  <2>3. owner.op # "add"
    BY <1>1, <2>1, AddingHas
  <2>4. owner.op \notin {"pause", "resume", "flush"}
    BY <1>1, MildHas
  <2> QED  BY <1>1, <2>2, <2>3, <2>4, ResettingHas
<1>3. owner.await = {} /\ \A l \in Lanes : res[l].run = "off"
  BY <1>2 DEF Parts, SecondRound
<1>4. LanesInv'
  <2>1. \A l \in Lanes : <<l, "close">> \notin bits
    BY <1>3 DEF Parts, LanesInv, LaneInv, CloseAwaited
  <2>2. DOMAIN res' = Lanes /\ \A l \in Lanes : res'[l] = Res0
    <3>1. [Res0 EXCEPT !.run = "off"] = Res0
      BY DEF Res0
    <3> QED  BY <1>1, <1>3, <3>1
  <2>3. Res0.msgs = <<>> /\ ~Res0.thread /\ Res0.run = "off" /\ <<>> \in Seq(Messages) /\ Len(<<>>) = 0
    BY DEF Res0
  <2>4. \A l \in Lanes : /\ res'[l].msgs = <<>> /\ ~res'[l].thread /\ res'[l].run = "off"
                         /\ DOMAIN res'[l] = DOMAIN Res0 /\ <<l, "close">> \notin bits'
    BY <1>1, <2>1, <2>2, <2>3
  <2>5. \A l \in Lanes : \A i \in 1..Len(res'[l].msgs) : FALSE
    <3>1. \A n : n = 0 => \A i \in 1..n : FALSE
      OBVIOUS
    <3>2. \A l \in Lanes : Len(res'[l].msgs) = 0
      BY <2>3, <2>4
    <3> QED  BY <3>1, <3>2
  <2>6. \A l \in Lanes : res'[l].msgs \in Seq(Messages)
    BY <2>3, <2>4
  <2>7. ASSUME NEW l \in Lanes  PROVE LaneInv(l)'
    <3>1. /\ ~res'[l].thread /\ res'[l].run = "off" /\ DOMAIN res'[l] = DOMAIN Res0 /\ <<l, "close">> \notin bits'
          /\ res'[l].msgs \in Seq(Messages) /\ \A i \in 1..Len(res'[l].msgs) : FALSE
      BY <2>4, <2>5, <2>6
    <3>2. res'[l].run # "exit"
      BY <3>1
    <3>3. DOMAIN Res0' = DOMAIN Res0
      BY DEF Res0
    <3> QED  BY <3>1, <3>2, <3>3 DEF LaneInv
  <2> QED  BY <2>2, <2>7 DEF LanesInv
<1>5. DOMAIN feeder = {"at", "lane", "kind"} /\ feeder.lane \in Lanes
  BY DEF Parts, OwnerInv
<1>6. DOMAIN feeder' = DOMAIN feeder /\ feeder'.at = "out" /\ feeder'.lane \in Lanes
  BY <1>1, <1>5
<1> QED  BY <1>1, <1>4, <1>5, <1>6, ReturnMove

LEMMA RacedGrows == AvNext => raced \subseteq raced'
<1>1. Call \/ OwnerSteps \/ AddData => raced \subseteq raced'
  BY DEF Call, OwnerSteps, TakeLock, Tell, Wake, Awaited, Returns, Add, Flushed, Free, AddData, NoLanes
<1>2. PutData => raced \subseteq raced'
  BY DEF PutData
<1>3. ASSUME NEW l \in Lanes, LaneSteps(l)
      PROVE  raced \subseteq raced'
  <2>1. GotMessage(l) \/ NoMessage(l) \/ Read(l) \/ ThreadExit(l) \/ RenderBody(l) => raced \subseteq raced'
    BY DEF GotMessage, NoMessage, Read, ThreadExit, RenderBody, player
  <2>2. Quits(l) => raced \subseteq raced'
    BY DEF Quits
  <2>3. \A rs : raced' = Restarts(rs) => raced \subseteq raced'
    BY DEF Restarts
  <2>4. DecodesNothing(l) \/ Decodes(l) \/ Puts(l) => Quits(l) \/ \E rs : raced' = Restarts(rs)
    BY DEF DecodesNothing, Decodes, Puts
  <2> QED  BY <1>3, <2>1, <2>2, <2>3, <2>4 DEF LaneSteps
<1> QED  BY <1>1, <1>2, <1>3 DEF AvNext

LEMMA AvInitInv == AvInit => AvInv
<1> SUFFICES ASSUME AvInit
             PROVE  Parts
  BY DEF AvInv
<1>1. /\ res = [l \in Lanes |-> Res0] /\ open = {} /\ bits = {} /\ lock = "none"
      /\ owner = [op |-> "none", todo |-> << >>, await |-> {}, got |-> {}]
      /\ feeder = [at |-> "out", lane |-> "adec", kind |-> "none"]
  BY DEF AvInit
<1>2. /\ Res0.msgs = <<>> /\ ~Res0.thread /\ Res0.run = "off"
      /\ <<>> \in Seq(Messages) /\ <<>> \in Seq(OwnerTodos) /\ \A i \in 1..Len(<<>>) : FALSE
  BY DEF Res0
<1>3. LanesInv
  BY <1>1, <1>2 DEF LanesInv, LaneInv
<1>4. OwnerInv
  BY <1>1, <1>2 DEF OwnerInv, Lanes
<1> QED  BY <1>1, <1>3, <1>4 DEF Parts, Mild, Adding, Resetting, FirstRound, SecondRound

LEMMA AvNextInv ==
  ASSUME AvInv, AvNext
  PROVE  AvInv'
<1> SUFFICES ASSUME InTurn'
             PROVE  Parts'
  BY DEF AvInv
<1>1. Parts
  BY RacedGrows DEF AvInv, InTurn
<1>2. Call \/ OwnerSteps => Parts'
  BY <1>1, CallMove, TakeLockMove, TellMove, WakeMove, AwaitedMove, MildReturns, AddMove, FreeMove
  DEF OwnerSteps
<1>3. AddData \/ PutData => Parts'
  BY <1>1, AddDataMove, PutDataMove
<1>4. ASSUME NEW l \in Lanes, LaneSteps(l)
      PROVE  Parts'
  <2>1. NoMessage(l) \/ Read(l) => Parts'
    BY <1>1, ReadMove, MoveInv
  <2>2. GotMessage(l) \/ ThreadExit(l) \/ (l \notin Decoders /\ RenderBody(l)) => Parts'
    BY <1>1, GotMessageMove, ThreadExitMove, RenderMove
  <2>3. DecodesNothing(l) \/ Decodes(l) \/ Puts(l) => Parts'
    BY <1>1, DecodesNothingMove, DecodesMove, PutsMove
  <2> QED  BY <1>4, <2>1, <2>2, <2>3 DEF LaneSteps
<1> QED  BY <1>2, <1>3, <1>4 DEF AvNext

LEMMA AvKept ==
  ASSUME AvInv, UNCHANGED av
  PROVE  AvInv'
<1>1. UNCHANGED <<res, open, bits, lock, owner, feeder, raced>>
  BY DEF av, player
<1> QED  BY <1>1 DEF AvInv, InTurn, Parts, LanesInv, LaneInv, CloseAwaited, OwnerInv, Mild, Adding,
             Resetting, FirstRound, SecondRound, Togo, Waking, Step, Told

LEMMA AvInvHolds == AvInv => ThreadsEndFirst
<1> SUFFICES ASSUME AvInv, InTurn, NEW l \in Lanes, Orphan(l)
             PROVE  FALSE
  BY DEF ThreadsEndFirst, InTurn
<1> QED  BY DEF AvInv, Parts, LanesInv, LaneInv, Orphan

\* ThreadsEndFirst, for every set of players, length of the queues and number of calls:
\* av_render_reset and av_render_close free the queues of no thread that runs, whatever
\* a decoder starts while it is closed and however the bits of event_group come.
THEOREM ThreadsEndBeforeQueues == Spec => []ThreadsEndFirst
<1>1. Init => AvInv
  BY AvInitInv DEF Init
<1>2. AvInv /\ [Next]_vars => AvInv'
  BY AvNextInv, AvKept DEF Next, vars
<1>3. AvInv => ThreadsEndFirst
  BY AvInvHolds
<1> QED  BY <1>1, <1>2, <1>3, PTL DEF Spec

-----------------------------------------------------------------------------
(* Flushing.  That nothing old is left when av_render_flush returns needs  *)
(* the order of its plan: the invariant says of each step of it which      *)
(* lanes have been told and which are awaited, that a lane that was told   *)
(* has lost its old blocks or will with a message it has, and that no      *)
(* decoder has an old block left to put out once its render is told.       *)

Kinds == {"none", "wake", "frame", "eos"}
Blocks == Kinds \X BOOLEAN
\* The blocks of a lane: an old one is queued or in use, some are no mere wake-ups.
BlocksOf(r) == {r.data[i] : i \in DOMAIN r.data}
OldLane(r) == (\E b \in BlocksOf(r) : OldBlock(b)) \/ (r.run \in {"body", "put"} /\ OldBlock(r.block))
Laden(r) == \E b \in BlocksOf(r) : b[1] # "wake"
BlockTypes ==
  /\ \A l \in Lanes : res[l].data \in Seq(Blocks) /\ res[l].block \in Blocks
  /\ feeder.kind \in Kinds

\* The plan of a flush from its end: when each lane is told, and when it is awaited.
FlushTurn == [adec |-> 8, vdec |-> 6, arender |-> 4, vrender |-> 3]
AwaitTurn == [adec |-> 7, vdec |-> 5, arender |-> 2, vrender |-> 2]
FlushPlanned(i) ==
  CASE i = 1           -> <<"flushed">>
    [] i \in {2, 5, 7} -> <<"await">>
    [] OTHER           -> <<"tell", CHOOSE l \in Lanes : FlushTurn[l] = i, "FLUSH">>
FlushAwaited(l) == <<l, "flush">> \in owner.await
FlushTold(l) == Told(l, FlushTurn[l])
Draining ==
  owner.op = "flush" =>
    /\ Togo \in 1..8
    /\ \A i \in 1..Togo - 1 : FromEnd(owner.todo, i) = FlushPlanned(i)
    /\ Step = FlushPlanned(Togo) \/ (Waking /\ FlushPlanned(Togo)[1] = "tell")
    /\ lock # "owner" => Togo = 8 /\ ~Waking
    /\ \A l \in Lanes : FlushAwaited(l) => FlushTold(l) /\ Togo >= AwaitTurn[l]

\* What the other calls do not do.
PauseTodos ==
  {<<"tell", l, m>> : l \in Lanes, m \in {"PAUSE", "RESUME"}} \cup {<<"wake", l>> : l \in Lanes}
  \cup {<<"return">>}
Pausing == owner.op \in {"pause", "resume"} => owner.todo \in Seq(PauseTodos)
AddsOne ==
  owner.op = "add" =>
    /\ owner.await \subseteq {<<l, "close">> : l \in Decoders}
    /\ Step[1] = "tell" => Step[2] \in Decoders

\* A lane that was told has yet to answer: it is awaited, or it is the audio render beside
\* a video render, which alone is awaited.
Due(l) ==
  /\ owner.op = "flush" /\ FlushTold(l) /\ res[l].thread
  /\ FlushAwaited(l) \/ (l = "arender" /\ res["vrender"].thread)
ToFlush(l) == \E i \in 1..Len(res[l].msgs) : res[l].msgs[i] = "FLUSH"
\* FLUSH is the last message of a lane whose answer is due, its bit is the answer, and a
\* lane that was told holds old blocks only until it takes that message.
Flushes == \A l \in Lanes :
  /\ \A i \in 1..Len(res[l].msgs) : res[l].msgs[i] = "FLUSH" => i = Len(res[l].msgs) /\ Due(l)
  /\ <<l, "flush">> \in bits => Due(l) /\ ~OldLane(res[l]) /\ ~ToFlush(l)
  /\ owner.op = "flush" /\ FlushTold(l) => ~OldLane(res[l]) \/ ToFlush(l)
\* Outside a reset a thread that has ended has left nothing behind, and a decoder that
\* puts out a block has a render that takes it.
Gone == \A l \in Lanes :
  res[l].run = "off" /\ Laden(res[l]) => owner.op = "reset" /\ l \notin Decoders
Going == \A l \in Decoders :
  res[l].run = "put" => owner.op = "reset" \/ res[Render[StreamOf[l]]].run # "off"

FParts == BlockTypes /\ Draining /\ Pausing /\ AddsOne /\ Flushes /\ Gone /\ Going /\ ~unflushed
FlushInv == raced = {} => Parts /\ FParts

\* What taking, adding and passing blocks does to a queue.
LEMMA BlocksAdded ==
  ASSUME NEW s \in Seq(Blocks), NEW b \in Blocks, NEW r, r.data = Append(s, b)
  PROVE  r.data \in Seq(Blocks) /\ BlocksOf(r) = {s[i] : i \in DOMAIN s} \cup {b}
<1>1. /\ r.data \in Seq(Blocks) /\ Len(r.data) = Len(s) + 1 /\ Len(s) \in Nat
      /\ r.data[Len(s) + 1] = b /\ \A i \in 1..Len(s) : r.data[i] = s[i]
  BY AppendProperties, LenProperties
<1>2. DOMAIN s = 1..Len(s) /\ DOMAIN r.data = 1..Len(s) + 1
  BY <1>1
<1>3. \A i \in 1..Len(s) + 1 : i \in 1..Len(s) \/ i = Len(s) + 1
  BY <1>1
<1>4. Len(s) + 1 \in 1..Len(s) + 1 /\ \A i \in 1..Len(s) : i \in 1..Len(s) + 1
  BY <1>1
<1> QED  BY <1>1, <1>2, <1>3, <1>4 DEF BlocksOf

LEMMA BlocksTaken ==
  ASSUME NEW s \in Seq(Blocks), s # <<>>
  PROVE  /\ Tail(s) \in Seq(Blocks) /\ Head(s) \in {s[i] : i \in DOMAIN s} /\ Head(s) \in Blocks
         /\ {Tail(s)[i] : i \in DOMAIN Tail(s)} \subseteq {s[i] : i \in DOMAIN s}
<1>1. /\ Tail(s) \in Seq(Blocks) /\ Len(Tail(s)) = Len(s) - 1 /\ Head(s) = s[1] /\ Head(s) \in Blocks
      /\ \A i \in 1..Len(s) - 1 : Tail(s)[i] = s[i + 1]
  BY TailOf
<1>2. Len(s) \in Nat \ {0} /\ DOMAIN s = 1..Len(s) /\ DOMAIN Tail(s) = 1..Len(s) - 1
  BY <1>1, LenProperties
<1>3. 1 \in 1..Len(s) /\ \A i \in 1..Len(s) - 1 : i + 1 \in 1..Len(s)
  BY <1>2
<1> QED  BY <1>1, <1>2, <1>3

LEMMA NoBlocks ==
  ASSUME NEW r, r.data = <<>>
  PROVE  r.data \in Seq(Blocks) /\ BlocksOf(r) = {} /\ ~Laden(r)
BY DEF BlocksOf, Laden

\* A step of a lane adds no block to it, ends no thread and takes no message.
Rises(r, o) ==
  /\ DOMAIN r = DOMAIN Res0 /\ r.msgs = o.msgs /\ (o.thread => r.thread)
  /\ r.run = "off" => o.run = "off"
  /\ r.data \in Seq(Blocks) /\ r.block \in Blocks /\ BlocksOf(r) \subseteq BlocksOf(o)
  /\ r.run \in {"body", "put"} => r.block \in BlocksOf(o) \/ (r.block = o.block /\ o.run \in {"body", "put"})

Whole(r) == DOMAIN r = DOMAIN Res0 /\ r.data \in Seq(Blocks) /\ r.block \in Blocks

LEMMA RisesSame == ASSUME NEW r, Whole(r)  PROVE Rises(r, r)
BY DEF Rises, Whole

LEMMA RisesChain == ASSUME NEW r, NEW o, NEW p, Rises(r, o), Rises(o, p)  PROVE Rises(r, p)
BY DEF Rises

LEMMA RisesWhole == ASSUME NEW r, NEW o, Rises(r, o)  PROVE Whole(r)
BY DEF Rises, Whole

LEMMA RisesOld == ASSUME NEW r, NEW o, Rises(r, o)  PROVE (OldLane(r) => OldLane(o)) /\ (Laden(r) => Laden(o))
BY DEF Rises, OldLane, Laden

LEMMA RisesRun ==
  ASSUME NEW r, Whole(r), NEW x, x \in {"recv", "read"} \/ (x = "put" /\ r.run = "body")
  PROVE  Rises([r EXCEPT !.run = x], r) /\ [r EXCEPT !.run = x].run = x
BY FieldsOf DEF Rises, Whole, BlocksOf

LEMMA RisesWritten ==
  ASSUME NEW r, Whole(r), NEW s
  PROVE  Rises(Written(r, s), r) /\ Written(r, s).run = r.run /\ Written(r, s).block = r.block
BY FieldsOf DEF Rises, Whole, BlocksOf, Written

LEMMA RisesPaused ==
  ASSUME NEW r, Whole(r), NEW x
  PROVE  Rises(PausedIf(r, x), r) /\ PausedIf(r, x).run = r.run /\ PausedIf(r, x).block = r.block
BY FieldsOf DEF Rises, Whole, BlocksOf, PausedIf

LEMMA RisesPopped ==
  ASSUME NEW r, Whole(r)
  PROVE  Rises(Popped(r), r) /\ Popped(r).run = r.run /\ Popped(r).block = r.block
<1> DEFINE t == IF r.data = <<>> THEN r.data ELSE Tail(r.data)
<1>1. t \in Seq(Blocks) /\ {t[i] : i \in DOMAIN t} \subseteq BlocksOf(r)
  BY BlocksTaken DEF Whole, BlocksOf
<1>2. Popped(r) = [r EXCEPT !.data = t]
  BY FieldsOf DEF Popped, Whole
<1> HIDE DEF t
<1>3. /\ DOMAIN Popped(r) = DOMAIN Res0 /\ Popped(r).data = t /\ Popped(r).msgs = r.msgs
      /\ Popped(r).thread = r.thread /\ Popped(r).run = r.run /\ Popped(r).block = r.block
  BY <1>2, FieldsOf DEF Whole
<1>4. BlocksOf(Popped(r)) \subseteq BlocksOf(r)
  BY <1>1, <1>3 DEF BlocksOf
<1> QED  BY <1>1, <1>3, <1>4 DEF Rises, Whole

LEMMA RisesCreated ==
  ASSUME NEW r, Whole(r)
  PROVE  LET c == create_thread_res(r) IN Rises(c, r) /\ c.run = "recv" /\ c.thread
BY FieldsOf DEF Rises, Whole, BlocksOf, create_thread_res

LEMMA RisesDone ==
  ASSUME NEW l, NEW r, Whole(r), ~(r.block[1] = "eos" /\ set.quit_when_eos)
  PROVE  Rises(Done(l, r), r) /\ Done(l, r).run = "recv"
<1> DEFINE p == Popped(r)
           a == [p EXCEPT !.run = "recv"]
           c == [p EXCEPT !.paused = TRUE, !.run = "recv"]
<1>1. Rises(p, r) /\ p.run = r.run /\ p.block = r.block
  BY RisesPopped
<1>2. Whole(p)
  BY <1>1, RisesWhole
<1> HIDE DEF p
<1>3. Rises(a, p) /\ a.run = "recv"
  BY <1>2, RisesRun
<1>4. Rises(c, p) /\ c.run = "recv"
  BY <1>2, FieldsOf DEF Rises, Whole, BlocksOf
<1> HIDE DEF a, c
<1>5. Done(l, r) = a \/ Done(l, r) = c
  <2> DEFINE b == [p EXCEPT !.thread = FALSE, !.run = "exit"]
  <2>1. Done(l, r) = IF r.block[1] # "eos" THEN a ELSE IF set.quit_when_eos THEN b ELSE c
    BY DEF Done, a, b, c, p
  <2> HIDE DEF b
  <2> QED  BY <2>1
<1> QED  BY <1>1, <1>3, <1>4, <1>5, RisesChain

OwnerKept == owner' = owner /\ (lock' = "owner" <=> lock = "owner")
PlanParts == Draining /\ Pausing /\ AddsOne

LEMMA PlanKept == ASSUME PlanParts, OwnerKept  PROVE PlanParts'
BY DEF PlanParts, Draining, Pausing, AddsOne, OwnerKept, FlushAwaited, FlushTold, Told, Togo, Waking, Step

\* Whoever has told a render has both decoders drained.
LEMMA DecodersDrained ==
  ASSUME Draining, Flushes, owner.op = "flush", NEW l \in Lanes \ Decoders, FlushTold(l), NEW d \in Decoders
  PROVE  ~OldLane(res[d])
<1>1. Togo \in 1..4
  BY DEF Draining, FlushTold, Told, FlushTurn, Lanes, Decoders
<1>2. d \in Lanes /\ AwaitTurn[d] > 4 /\ FlushTurn[d] > 4 /\ d # "arender"
  BY DEF Decoders, Lanes, AwaitTurn, FlushTurn
<1>3. FlushTold(d) /\ ~FlushAwaited(d)
  BY <1>1, <1>2 DEF Draining, FlushTold, Told, AwaitTurn, FlushTurn, Decoders
<1>4. ~ToFlush(d)
  BY <1>2, <1>3 DEF Flushes, Due, ToFlush
<1> QED  BY <1>2, <1>3, <1>4 DEF Flushes

DecoderOf(l) == Decoder[StreamOf[l]]

LEMMA FlushMove ==
  ASSUME FParts, OwnerKept, unflushed' = unflushed,
         \A l \in Lanes : <<l, "flush">> \in bits' => <<l, "flush">> \in bits,
         \A l \in Lanes : res'[l].msgs = res[l].msgs /\ (res[l].thread => res'[l].thread),
         \A l \in Lanes : OldLane(res'[l]) =>
            OldLane(res[l]) \/ (l \notin Decoders /\ OldLane(res[DecoderOf(l)])),
         BlockTypes', Gone', Going'
  PROVE  FParts'
<1>1. PlanParts'
  BY PlanKept DEF FParts, PlanParts
<1>2. \A l \in Lanes : (FlushTold(l)' <=> FlushTold(l)) /\ (FlushAwaited(l)' <=> FlushAwaited(l))
  BY DEF OwnerKept, FlushTold, FlushAwaited, Told, Togo, Waking, Step
<1>3. "vrender" \in Lanes /\ owner' = owner
  BY DEF Lanes, OwnerKept
<1>4. \A l \in Lanes : (Due(l) => Due(l)') /\ (ToFlush(l)' <=> ToFlush(l))
  BY <1>2, <1>3 DEF Due, ToFlush
<1>5. ASSUME NEW l \in Lanes, owner.op = "flush", FlushTold(l), OldLane(res'[l])
      PROVE  OldLane(res[l])
  <2>1. CASE l \notin Decoders
    <3>1. DecoderOf(l) \in Decoders
      BY <2>1 DEF DecoderOf, Decoder, StreamOf, Lanes, Decoders
    <3>2. ~OldLane(res[DecoderOf(l)])
      BY <1>5, <2>1, <3>1, DecodersDrained DEF FParts
    <3> QED  BY <1>5, <3>2
  <2>2. CASE l \in Decoders
    BY <2>2, <1>5
  <2> QED  BY <2>1, <2>2
<1>6. Flushes'
  <2> SUFFICES ASSUME NEW l \in Lanes
               PROVE  Flushes!(l)'
    BY DEF Flushes
  <2>1. Flushes!(l)
    BY DEF FParts, Flushes
  <2>2. <<l, "flush">> \in bits => owner.op = "flush" /\ FlushTold(l)
    BY <2>1 DEF Due
  <2> QED  BY <2>1, <2>2, <1>2, <1>3, <1>4, <1>5
<1> QED  BY <1>1, <1>6 DEF FParts, PlanParts

\* Steps that only move what is there.
LEMMA RiseMove ==
  ASSUME FParts, OwnerKept, unflushed' = unflushed, bits' = bits, feeder'.kind \in Kinds,
         \A l \in Lanes : Rises(res'[l], res[l]),
         \A l \in Decoders : res'[l].run = "put" => res[l].run = "put" \/ res'[Render[StreamOf[l]]].run # "off"
  PROVE  FParts'
<1>1. \A l \in Lanes : (OldLane(res'[l]) => OldLane(res[l])) /\ (Laden(res'[l]) => Laden(res[l]))
  BY RisesOld
<1>2. BlockTypes'
  BY DEF BlockTypes, Rises
<1>3. Gone'
  BY <1>1 DEF FParts, Gone, Rises, OwnerKept
<1>4. \A l \in Decoders : l \in Lanes /\ Render[StreamOf[l]] \in Lanes
  BY DEF Decoders, Lanes, Render, StreamOf
<1>5. Going'
  BY <1>4 DEF FParts, Going, Rises, OwnerKept
<1>6. \A l \in Lanes : res'[l].msgs = res[l].msgs /\ (res[l].thread => res'[l].thread)
  BY DEF Rises
<1> QED  BY <1>1, <1>2, <1>3, <1>5, <1>6, FlushMove

LEMMA WholeLanes == ASSUME Parts, FParts  PROVE DOMAIN res = Lanes /\ \A l \in Lanes : Whole(res[l])
BY DEF Parts, LanesInv, LaneInv, FParts, BlockTypes, Whole

\* One lane rises, the others stand.
LEMMA OneRises ==
  ASSUME Parts, FParts, OwnerKept, unflushed' = unflushed, bits' = bits, feeder'.kind \in Kinds,
         NEW l \in Lanes, NEW r, Rises(r, res[l]), r.run # "put", res' = [res EXCEPT ![l] = r]
  PROVE  FParts'
<1>1. DOMAIN res = Lanes /\ \A k \in Lanes : Whole(res[k])
  BY WholeLanes
<1>2. res'[l] = r /\ \A k \in Lanes \ {l} : res'[k] = res[k]
  BY <1>1
<1>3. \A k \in Lanes : Rises(res'[k], res[k])
  BY <1>1, <1>2, RisesSame
<1>4. \A k \in Decoders : res'[k].run = "put" => res[k].run = "put"
  BY <1>2 DEF Decoders, Lanes
<1> QED  BY <1>3, <1>4, RiseMove

LEMMA ReadFlush ==
  ASSUME Parts, FParts, NEW l \in Lanes, NoMessage(l) \/ Read(l)
  PROVE  FParts'
<1>0. DOMAIN res = Lanes /\ Whole(res[l])
  BY WholeLanes
<1>1. OwnerKept /\ unflushed' = unflushed /\ bits' = bits /\ feeder'.kind \in Kinds
  BY DEF NoMessage, Read, player, OwnerKept, FParts, BlockTypes
<1>2. CASE NoMessage(l)
  <2> DEFINE r == [res[l] EXCEPT !.run = "read"]
  <2>1. res' = [res EXCEPT ![l] = r]
    BY <1>2, <1>0 DEF NoMessage
  <2>2. Rises(r, res[l]) /\ r.run # "put"
    BY <1>0, RisesRun
  <2> HIDE DEF r
  <2> QED  BY <1>1, <2>1, <2>2, OneRises
<1>3. CASE Read(l)
  <2> DEFINE b == Head(res[l].data)
             r == [res[l] EXCEPT !.block = b, !.run = "body"]
  <2>1. res' = [res EXCEPT ![l] = r]
    BY <1>3, <1>0 DEF Read
  <2>2. b \in BlocksOf(res[l]) /\ b \in Blocks
    BY <1>0, <1>3, BlocksTaken DEF Read, Whole, BlocksOf
  <2> HIDE DEF b
  <2>3. Rises(r, res[l]) /\ r.run # "put"
    BY <1>0, <2>2, FieldsOf DEF Rises, Whole, BlocksOf
  <2> HIDE DEF r
  <2> QED  BY <1>1, <2>1, <2>3, OneRises
<1> QED  BY <1>2, <1>3

LEMMA RenderFlush ==
  ASSUME Parts, FParts, NEW l \in Lanes \ Decoders, RenderBody(l)
  PROVE  FParts'
<1> DEFINE s == StreamOf[l]
           r == IF Kind(l) = "wake" THEN res[l] ELSE Written(res[l], s)
           p == IF r.paused THEN r ELSE Popped(r)
           x == [p EXCEPT !.run = "recv"]
           y == [res[l] EXCEPT !.run = "recv"]
           h == Kind(l) # "wake" /\ Halts(s)
           P(o) == PausedIf(o, h)
<1>0. DOMAIN res = Lanes /\ Whole(res[l]) /\ \A k \in Lanes : Whole(res[k])
  BY WholeLanes
<1>1. OwnerKept /\ unflushed' = unflushed /\ bits' = bits /\ feeder'.kind \in Kinds
  BY DEF RenderBody, OwnerKept, FParts, BlockTypes
<1>2. Rises(r, res[l])
  BY <1>0, RisesWritten, RisesSame
<1>3. Whole(r)
  BY <1>2, RisesWhole
<1> HIDE DEF r
<1>4. Rises(p, r)
  BY <1>3, RisesPopped, RisesSame
<1>5. Whole(p)
  BY <1>4, RisesWhole
<1> HIDE DEF p
<1>6. Rises(x, p) /\ x.run = "recv" /\ Rises(y, res[l]) /\ y.run = "recv"
  BY <1>0, <1>5, RisesRun
<1>7. res' = [res EXCEPT ![l] = y] \/ res' = [res EXCEPT ![l] = x, !["vdec"] = P(@)]
  <2>1. res' = [res EXCEPT ![l].run = "recv"] => res' = [res EXCEPT ![l] = y]
    BY <1>0
  <2> QED  BY <2>1 DEF RenderBody, p, r
<1> HIDE DEF x, y
<1>8. Rises(x, res[l])
  BY <1>2, <1>4, <1>6, RisesChain
<1>9. x.run # "put" /\ y.run # "put" /\ Rises(y, res[l])
  BY <1>6
<1>10. CASE res' = [res EXCEPT ![l] = y]
  BY <1>1, <1>9, <1>10, OneRises
<1>11. CASE res' = [res EXCEPT ![l] = x, !["vdec"] = P(@)]
  <2>1. "vdec" \in Lanes /\ "vdec" # l /\ \A k \in Decoders : k \in Lanes
    BY DEF Lanes, Decoders
  <2>2. Rises(P(res["vdec"]), res["vdec"]) /\ P(res["vdec"]).run = res["vdec"].run
    BY <1>0, <2>1, RisesPaused
  <2> HIDE DEF P, h
  <2>3. /\ res'[l] = x /\ res'["vdec"] = P(res["vdec"])
        /\ \A k \in Lanes \ {l, "vdec"} : res'[k] = res[k]
    BY <1>0, <1>11, <2>1
  <2>4. \A k \in Lanes : Rises(res'[k], res[k]) /\ (res'[k].run = "put" => res[k].run = "put")
    BY <1>0, <1>8, <1>9, <2>2, <2>3, RisesSame
  <2> QED  BY <1>1, <2>1, <2>4, RiseMove
<1> QED  BY <1>7, <1>10, <1>11

LEMMA DecodesNothingFlush ==
  ASSUME Parts, FParts, NEW l \in Lanes, DecodesNothing(l), InTurn'
  PROVE  FParts'
<1>0. DOMAIN res = Lanes /\ Whole(res[l])
  BY WholeLanes
<1>1. OwnerKept /\ unflushed' = unflushed /\ bits' = bits /\ feeder'.kind \in Kinds
      /\ Quits(l) /\ res' = [res EXCEPT ![l] = Done(l, res[l])]
  BY <1>0 DEF DecodesNothing, OwnerKept, FParts, BlockTypes
<1>2. Rises(Done(l, res[l]), res[l]) /\ Done(l, res[l]).run = "recv"
  BY <1>0, <1>1, NoQuit, RisesDone DEF Kind
<1> QED  BY <1>1, <1>2, OneRises

\* A lane with a block more.
LEMMA WithBlock ==
  ASSUME NEW o, Whole(o), NEW b \in Blocks
  PROVE  LET r == [o EXCEPT !.data = Append(@, b)]
         IN  /\ Whole(r) /\ r.msgs = o.msgs /\ r.thread = o.thread /\ r.run = o.run /\ r.block = o.block
             /\ BlocksOf(r) = BlocksOf(o) \cup {b}
<1> DEFINE r == [o EXCEPT !.data = Append(@, b)]
<1>1. /\ DOMAIN r = DOMAIN Res0 /\ r.data = Append(o.data, b) /\ r.msgs = o.msgs /\ r.thread = o.thread
      /\ r.run = o.run /\ r.block = o.block
  BY FieldsOf DEF Whole
<1> HIDE DEF r
<1>2. r.data \in Seq(Blocks) /\ BlocksOf(r) = {o.data[i] : i \in DOMAIN o.data} \cup {b}
  BY <1>1, BlocksAdded DEF Whole
<1> QED  BY <1>1, <1>2 DEF Whole, BlocksOf, r

LEMMA PutsFlush ==
  ASSUME Parts, FParts, NEW l \in Lanes, Puts(l), InTurn'
  PROVE  FParts'
<1> DEFINE d == Render[StreamOf[l]]
           b == res[l].block
           r == [res[d] EXCEPT !.data = Append(@, b)]
           n == Done(l, res[l])
<1>0. DOMAIN res = Lanes /\ \A k \in Lanes : Whole(res[k])
  BY WholeLanes
<1>1. /\ d \in Lanes \ Decoders /\ d # l /\ l \in Decoders /\ DecoderOf(d) = l
      /\ \A k \in Decoders \ {l} : Render[StreamOf[k]] # d
  BY DEF Puts, Decoders, Render, StreamOf, Lanes, DecoderOf, Decoder
<1>2. OwnerKept /\ unflushed' = unflushed /\ bits' = bits /\ feeder'.kind \in Kinds
      /\ Quits(l) /\ res' = [res EXCEPT ![d] = r, ![l] = n] /\ res[l].run = "put"
  BY <1>0, <1>1 DEF Puts, OwnerKept, FParts, BlockTypes
<1>3. Rises(n, res[l]) /\ n.run = "recv"
  BY <1>0, <1>2, NoQuit, RisesDone DEF Kind
<1>4. b \in Blocks /\ /\ Whole(r) /\ r.msgs = res[d].msgs /\ r.thread = res[d].thread /\ r.run = res[d].run
                      /\ r.block = res[d].block /\ BlocksOf(r) = BlocksOf(res[d]) \cup {b}
  <2>1. b \in Blocks /\ Whole(res[d])
    BY <1>0, <1>1 DEF Whole
  <2> HIDE DEF b, d
  <2> QED  BY <2>1, WithBlock
<1> HIDE DEF n, r
<1>5. /\ res'[d] = r /\ res'[l] = n
      /\ \A k \in Lanes \ {l, d} : res'[k] = res[k]
  <2> HIDE DEF d
  <2> QED  BY <1>0, <1>1, <1>2
<1>6. OldLane(res[l]) \/ ~OldBlock(b)
  BY <1>2 DEF OldLane
<1> HIDE DEF b, d
<1>7. OldLane(r) => OldLane(res[d]) \/ OldLane(res[l])
  BY <1>4, <1>6 DEF OldLane
<1>8. \A k \in Lanes : OldLane(res'[k]) =>
            OldLane(res[k]) \/ (k \notin Decoders /\ OldLane(res[DecoderOf(k)]))
  <2>1. OldLane(n) => OldLane(res[l])
    BY <1>3, RisesOld
  <2> QED  BY <2>1, <1>1, <1>5, <1>7
<1>9. \A k \in Lanes : Whole(res'[k]) /\ res'[k].msgs = res[k].msgs /\ (res[k].thread => res'[k].thread)
                       /\ (res'[k].run = "off" => res[k].run = "off") /\ (k # d => (Laden(res'[k]) => Laden(res[k])))
  <2>1. Whole(n) /\ n.msgs = res[l].msgs /\ (res[l].thread => n.thread) /\ (Laden(n) => Laden(res[l]))
    BY <1>3, RisesWhole, RisesOld DEF Rises
  <2> QED  BY <2>1, <1>0, <1>3, <1>4, <1>5
<1>10. BlockTypes'
  BY <1>2, <1>9 DEF BlockTypes, Whole
<1>11. Gone'
  <2>1. res[d].run = "off" => owner.op = "reset"
    BY <1>1, <1>2 DEF FParts, Going, d
  <2>2. owner' = owner /\ d \notin Decoders
    BY <1>1, <1>2 DEF OwnerKept
  <2> QED  BY <1>9, <2>1, <2>2 DEF FParts, Gone
<1>12. Going'
  <2>1. \A k \in Decoders : k \in Lanes /\ Render[StreamOf[k]] \in Lanes
    BY DEF Decoders, Lanes, Render, StreamOf
  <2>2. \A k \in Decoders : res'[k].run = "put" => res[k].run = "put"
    BY <2>1, <1>1, <1>3, <1>5
  <2>3. owner' = owner
    BY <1>2 DEF OwnerKept
  <2> QED  BY <1>9, <2>1, <2>2, <2>3 DEF FParts, Going
<1> QED  BY <1>2, <1>8, <1>9, <1>10, <1>11, <1>12, FlushMove

LEMMA PutDataFlush ==
  ASSUME Parts, FParts, PutData, raced' = {}
  PROVE  FParts'
<1> DEFINE l == feeder.lane
           b == <<feeder.kind, FALSE>>
           r == [res[l] EXCEPT !.data = Append(@, b)]
<1>0. DOMAIN res = Lanes /\ (\A k \in Lanes : Whole(res[k])) /\ l \in Lanes /\ feeder.kind \in Kinds
      /\ DOMAIN feeder = {"at", "lane", "kind"}
  BY WholeLanes DEF Parts, OwnerInv, FParts, BlockTypes
<1>1. /\ unflushed' = unflushed /\ bits' = bits /\ owner' = owner
      /\ res' = [res EXCEPT ![l] = r] /\ feeder' = [feeder EXCEPT !.at = "out"]
      /\ lock' = (IF feeder.at = "into" THEN "none" ELSE lock) /\ res[l].thread
  BY DEF PutData
<1>2. OwnerKept /\ feeder'.kind \in Kinds
  BY <1>0, <1>1 DEF OwnerKept, Parts, OwnerInv
<1>3. b \in Blocks /\ ~OldBlock(b)
  BY <1>0 DEF Blocks, OldBlock
<1>4. /\ Whole(r) /\ r.msgs = res[l].msgs /\ r.thread = res[l].thread /\ r.run = res[l].run
      /\ r.block = res[l].block /\ BlocksOf(r) = BlocksOf(res[l]) \cup {b}
  <2>1. b \in Blocks /\ Whole(res[l])
    BY <1>0, <1>3
  <2> HIDE DEF b, l
  <2> QED  BY <2>1, WithBlock
<1> HIDE DEF r, l, b
<1>5. res'[l] = r /\ \A k \in Lanes \ {l} : res'[k] = res[k]
  BY <1>0, <1>1
<1>6. OldLane(r) => OldLane(res[l])
  BY <1>3, <1>4 DEF OldLane
<1>7. \A k \in Lanes : OldLane(res'[k]) => OldLane(res[k])
  BY <1>5, <1>6
<1>8. \A k \in Lanes : Whole(res'[k]) /\ res'[k].msgs = res[k].msgs /\ (res[k].thread => res'[k].thread)
                       /\ res'[k].run = res[k].run
  BY <1>0, <1>4, <1>5
<1>9. BlockTypes'
  BY <1>2, <1>8 DEF BlockTypes, Whole
<1>10. Gone'
  <2>1. res[l].run # "off"
    BY <1>0, <1>1 DEF Parts, LanesInv, LaneInv, AtWork
  <2> QED  BY <1>1, <1>5, <1>8, <2>1 DEF FParts, Gone
<1>11. Going'
  <2>1. \A k \in Decoders : k \in Lanes /\ Render[StreamOf[k]] \in Lanes
    BY DEF Decoders, Lanes, Render, StreamOf
  <2> QED  BY <1>1, <1>8, <2>1 DEF FParts, Going
<1> QED  BY <1>1, <1>2, <1>7, <1>8, <1>9, <1>10, <1>11, FlushMove

LEMMA ReachedRises ==
  ASSUME Parts, FParts, NEW s
  PROVE  LET rs == av_render_frame_reached(res, s)
         IN  DOMAIN rs = Lanes /\ (\A k \in Lanes : Rises(rs[k], res[k])) /\ \A k \in Lanes \ {"arender"} : rs[k] = res[k]
<1> DEFINE rs == av_render_frame_reached(res, s)
           c == create_thread_res(res["arender"])
<1>0. DOMAIN res = Lanes /\ (\A k \in Lanes : Whole(res[k])) /\ "arender" \in Lanes
  BY WholeLanes DEF Lanes
<1>1. Rises(c, res["arender"])
  BY <1>0, RisesCreated
<1>2. rs = res \/ rs = [res EXCEPT !["arender"] = c]
  BY FrameReaches
<1> HIDE DEF rs, c
<1>3. CASE rs = res
  BY <1>0, <1>3, RisesSame DEF rs
<1>4. CASE rs = [res EXCEPT !["arender"] = c]
  <2>1. DOMAIN rs = Lanes /\ rs["arender"] = c /\ \A k \in Lanes \ {"arender"} : rs[k] = res[k]
    BY <1>0, <1>4
  <2>2. \A k \in Lanes : Rises(rs[k], res[k])
    BY <1>0, <1>1, <2>1, RisesSame
  <2> QED  BY <2>1, <2>2 DEF rs
<1> QED  BY <1>2, <1>3, <1>4

LEMMA DecodesFlush ==
  ASSUME Parts, FParts, NEW l \in Lanes, Decodes(l), InTurn'
  PROVE  FParts'
<1> DEFINE s  == StreamOf[l]
           d  == Render[s]
           rs == av_render_frame_reached(res, s)
<1>0. DOMAIN res = Lanes /\ \A k \in Lanes : Whole(res[k])
  BY WholeLanes
<1>1. d \in Lanes /\ d # l /\ l # "arender" /\ l \in Decoders /\ \A k \in Decoders : k \in Lanes /\ k # d
  BY DEF Decodes, Decoders, Render, StreamOf, Lanes
<1>2. OwnerKept /\ unflushed' = unflushed /\ bits' = bits /\ feeder'.kind \in Kinds /\ res[l].run = "body"
  BY DEF Decodes, OwnerKept, FParts, BlockTypes
<1>3. DOMAIN rs = Lanes /\ (\A k \in Lanes : Rises(rs[k], res[k])) /\ rs[l] = res[l]
  BY <1>1, ReachedRises
<1>4. CASE rs[d].thread
  <2> DEFINE r == [res[l] EXCEPT !.run = "put"]
  <2>1. res' = [rs EXCEPT ![l].run = "put"]
    BY <1>4 DEF Decodes
  <2>2. Rises(r, res[l])
    BY <1>0, <1>2, RisesRun
  <2>3. res' = [rs EXCEPT ![l] = r]
    <3> HIDE DEF rs, d, s
    <3> QED  BY <2>1, <1>3
  <2> HIDE DEF r, rs
  <2>4. res'[l] = r /\ \A k \in Lanes \ {l} : res'[k] = rs[k]
    BY <2>3, <1>3
  <2>5. \A k \in Lanes : Rises(res'[k], res[k])
    BY <2>2, <2>4, <1>3
  <2>6. res'[d].run # "off"
    <3>1. CASE res[d].thread
      <4>1. res[d].run # "off"
        BY <1>1, <3>1 DEF Parts, LanesInv, LaneInv, AtWork
      <4> QED  BY <4>1, <2>5, <1>1 DEF Rises
    <3>2. CASE ~res[d].thread
      <4>1. rs = [res EXCEPT !["arender"] = create_thread_res(res["arender"])]
        BY <1>4, <3>2, FrameReaches DEF rs
      <4>2. d = "arender"
        <5> DEFINE c == create_thread_res(res["arender"])
        <5> HIDE DEF c
        <5>1. rs = [res EXCEPT !["arender"] = c]
          BY <4>1 DEF c
        <5> HIDE DEF d
        <5> QED  BY <5>1, <1>4, <3>2, <1>0, <1>1
      <4>3. create_thread_res(res["arender"]).run = "recv"
        BY <1>0, <1>1, <4>2, RisesCreated
      <4>4. rs[d] = create_thread_res(res["arender"])
        BY <4>1, <4>2, <1>0, <1>1
      <4> QED  BY <4>2, <4>3, <4>4, <2>4, <1>1
    <3> QED  BY <3>1, <3>2
  <2>7. \A k \in Decoders : res'[k].run = "put" => res[k].run = "put" \/ res'[Render[StreamOf[k]]].run # "off"
    <3>1. \A k \in Decoders \ {l} : res'[k] = res[k]
      <4>1. \A k \in Decoders \ {l} : k \in Lanes \ {"arender"}
        BY DEF Decoders, Lanes
      <4>2. \A k \in Lanes \ {"arender"} : rs[k] = res[k]
        BY ReachedRises DEF rs
      <4> QED  BY <4>1, <4>2, <2>4
    <3> QED  BY <3>1, <2>6
  <2> QED  BY <1>2, <2>5, <2>7, RiseMove
<1>5. CASE ~rs[d].thread
  <2> DEFINE i == PausedIf(res[l], Halts(s))
             w == Written(rs[d], s)
             n == Done(l, i)
             W(x) == Written(x, s)
             D(x) == Done(l, PausedIf(x, Halts(s)))
  <2>1. Quits(l) /\ res' = [rs EXCEPT ![d] = W(@), ![l] = D(@)]
    BY <1>5 DEF Decodes
  <2>2. Rises(i, res[l]) /\ i.block = res[l].block
    BY <1>0, RisesPaused
  <2>3. Rises(n, i) /\ n.run = "recv"
    <3>1. ~(i.block[1] = "eos" /\ set.quit_when_eos)
      BY <2>1, <2>2, NoQuit DEF Kind
    <3>2. Whole(i)
      BY <2>2, RisesWhole
    <3> HIDE DEF i
    <3> QED  BY <3>1, <3>2, RisesDone
  <2>4. Rises(w, rs[d]) /\ w.run = rs[d].run
    <3>1. Whole(rs[d])
      BY <1>1, <1>3, RisesWhole
    <3> HIDE DEF rs, d, s
    <3> QED  BY <3>1, RisesWritten
  <2>5. res'[d] = w /\ res'[l] = n /\ \A k \in Lanes \ {l, d} : res'[k] = rs[k]
    <3>1. w = W(rs[d]) /\ n = D(rs[l])
      BY <1>3
    <3> HIDE DEF w, n, W, D, s, d, rs
    <3> QED  BY <2>1, <3>1, <1>1, <1>3
  <2>6. Rises(n, res[l])
    BY <2>2, <2>3, RisesChain
  <2>7. Rises(w, res[d])
    <3> HIDE DEF w, rs, d
    <3> QED  BY <2>4, <1>1, <1>3, RisesChain
  <2> HIDE DEF w, n, rs, d, i
  <2>8. \A k \in Lanes : Rises(res'[k], res[k])
    BY <2>5, <2>6, <2>7, <1>3
  <2>9. \A k \in Decoders : res'[k].run = "put" => res[k].run = "put"
    <3>1. \A k \in Decoders \ {l} : res'[k] = res[k]
      <4>1. \A k \in Decoders \ {l} : k \in Lanes \ {"arender"}
        BY DEF Decoders, Lanes
      <4>2. \A k \in Lanes \ {"arender"} : rs[k] = res[k]
        BY ReachedRises DEF rs
      <4> QED  BY <4>1, <4>2, <2>5, <1>1
    <3> QED  BY <3>1, <2>3, <2>5
  <2> QED  BY <1>2, <2>8, <2>9, RiseMove
<1> QED  BY <1>4, <1>5

LEMMA AddDataFlush ==
  ASSUME Parts, FParts, AddData
  PROVE  FParts'
<1>1. PICK s \in open, kind \in {"frame", "eos"} :
        LET l == Decoder[s]  d == Render[s]  rs == av_render_frame_reached(res, s)
        IN  \/ UNCHANGED <<res, lock>> /\ feeder' = [at |-> "put", lane |-> l, kind |-> kind]
            \/ rs[d].thread /\ feeder' = [at |-> "into", lane |-> d, kind |-> kind] /\ lock' = "feeder" /\ res' = rs
            \/ ~rs[d].thread /\ res' = [rs EXCEPT ![d] = Written(@, s), ![l] = PausedIf(@, Halts(s))]
               /\ UNCHANGED <<feeder, lock>>
  BY DEF AddData
<1> DEFINE l == Decoder[s]
           d  == Render[s]
           rs == av_render_frame_reached(res, s)
<1>2. /\ owner' = owner /\ bits' = bits /\ lock = "none" /\ unflushed' = unflushed /\ s \in Streams
      /\ DOMAIN feeder = {"at", "lane", "kind"} /\ feeder.kind \in Kinds
  BY DEF AddData, Parts, OwnerInv, FParts, BlockTypes
<1>0. DOMAIN res = Lanes /\ \A k \in Lanes : Whole(res[k])
  BY WholeLanes
<1>3. DOMAIN rs = Lanes /\ (\A k \in Lanes : Rises(rs[k], res[k])) /\ d \in Lanes /\ d \notin Decoders
      /\ l \in Decoders /\ \A k \in Lanes \ {"arender"} : rs[k] = res[k]
  BY <1>2, ReachedRises DEF Render, Decoder, Streams, Lanes, Decoders
<1> HIDE DEF l, d, rs
<1>4. OwnerKept
  BY <1>1, <1>2 DEF OwnerKept
<1>5. feeder'.kind \in Kinds
  <2>1. kind \in Kinds /\ \A x, y, z : [at |-> x, lane |-> y, kind |-> z].kind = z
    BY DEF Kinds
  <2> QED  BY <2>1, <1>1, <1>2
<1>6. \A k \in Decoders : k \in Lanes \ {"arender"}
  BY DEF Decoders, Lanes
<1>7. (\A k \in Lanes : Rises(res'[k], res[k])) /\ \A k \in Decoders : res'[k].run = res[k].run
  <2>1. CASE res' = res
    BY <2>1, <1>0, RisesSame
  <2>2. CASE res' = rs
    BY <2>2, <1>3, <1>6
  <2> DEFINE W(x) == Written(x, s)
             P(x) == PausedIf(x, Halts(s))
  <2>3. CASE res' = [rs EXCEPT ![d] = W(@), ![l] = P(@)]
    <3> DEFINE w == W(rs[d])
               pw == P(rs[l])
    <3>1. Rises(w, rs[d])
      BY <1>3, RisesWhole, RisesWritten
    <3>2. Rises(w, res[d])
      BY <3>1, <1>3, RisesChain
    <3>4. l \in Lanes /\ rs[l] = res[l]
      BY <1>3, <1>6
    <3>5. Rises(pw, res[l]) /\ pw.run = res[l].run
      BY <3>4, <1>0, RisesPaused
    <3> HIDE DEF W, P
    <3>3. res'[d] = w /\ res'[l] = pw /\ \A k \in Lanes \ {d, l} : res'[k] = rs[k]
      BY <2>3, <3>4, <1>3 DEF w, pw
    <3> HIDE DEF w, pw
    <3> QED  BY <3>2, <3>3, <3>5, <1>3, <1>6
  <2>4. res' = res \/ res' = rs \/ res' = [rs EXCEPT ![d] = W(@), ![l] = P(@)]
    BY <1>1 DEF rs, d, l
  <2> QED  BY <2>1, <2>2, <2>3, <2>4
<1> QED  BY <1>2, <1>4, <1>5, <1>7, RiseMove

LEMMA ProceedSame ==
  ASSUME NEW r, DOMAIN r = DOMAIN Res0
  PROVE  Proceed(r).data = r.data /\ Proceed(r).block = r.block
<1> DEFINE x == IF r.paused THEN "recv" ELSE "read"
<1>1. Proceed(r) = [r EXCEPT !.run = x]
  BY DEF Proceed
<1> HIDE DEF x
<1> QED  BY <1>1, FieldsOf

\* What a message does to the lane that takes it.
LEMMA GotMessageDoes ==
  ASSUME Parts, NEW l \in Lanes, GotMessage(l)
  PROVE  LET m == Head(res[l].msgs)  t == Tail(res[l].msgs)
         IN  /\ UNCHANGED <<owner, lock, feeder, unflushed>>
             /\ bits' = IF m = "FLUSH" THEN bits \cup {<<l, "flush">>} ELSE bits
             /\ DOMAIN res' = Lanes /\ \A k \in Lanes \ {l} : res'[k] = res[k]
             /\ res[l].thread /\ m \in Messages /\ m = res[l].msgs[1] /\ Len(res[l].msgs) \in Nat \ {0}
             /\ Len(t) = Len(res[l].msgs) - 1 /\ \A i \in 1..Len(t) : t[i] = res[l].msgs[i + 1]
             /\ res'[l].msgs = t /\ res'[l].run \in {"recv", "read", "exit"} /\ res'[l].block = res[l].block
             /\ res'[l].data = IF m = "FLUSH" THEN << >> ELSE res[l].data
             /\ m # "CLOSE" => res'[l].thread
<1> DEFINE m == Head(res[l].msgs)
           t == Tail(res[l].msgs)
           r == [res[l] EXCEPT !.msgs = t]
           closed == [r EXCEPT !.thread = FALSE, !.run = "exit"]
           emptied == [r EXCEPT !.data = << >>, !.flushing = FALSE]
           stopped1 == [r EXCEPT !.paused = TRUE]
           resumed == [r EXCEPT !.paused = FALSE]
<1>1. /\ DOMAIN res[l] = DOMAIN Res0 /\ DOMAIN res = Lanes /\ res[l].run = "recv" /\ LaneInv(l)
      /\ res[l].msgs \in Seq(Messages) /\ res[l].msgs # <<>>
  BY DEF Parts, LanesInv, LaneInv, GotMessage
<1>2. /\ UNCHANGED <<owner, lock, feeder, unflushed>>
      /\ bits' = IF m = "FLUSH" THEN bits \cup {<<l, "flush">>} ELSE bits
      /\ res' = [res EXCEPT ![l] =
              CASE m = "CLOSE"  -> closed
                [] m = "FLUSH"  -> Proceed(emptied)
                [] m = "PAUSE"  -> stopped1
                [] m = "RESUME" -> Proceed(resumed)]
  BY DEF GotMessage
<1>3. /\ Len(t) = Len(res[l].msgs) - 1 /\ m = res[l].msgs[1] /\ m \in Messages
      /\ \A i \in 1..Len(t) : t[i] = res[l].msgs[i + 1]
      /\ Len(res[l].msgs) \in Nat \ {0}
  BY <1>1, TailOf
<1>4. res[l].thread
  BY <1>1 DEF LaneInv
<1>5. /\ DOMAIN r = DOMAIN Res0 /\ r.thread = res[l].thread /\ r.msgs = t /\ r.run = "recv"
      /\ r.data = res[l].data /\ r.block = res[l].block
  BY <1>1, FieldsOf
<1> HIDE DEF r
<1>6. closed.msgs = t /\ closed.run = "exit" /\ closed.data = r.data /\ closed.block = r.block
  BY <1>5, FieldsOf
<1>7. /\ DOMAIN emptied = DOMAIN Res0 /\ emptied.msgs = t /\ emptied.data = <<>> /\ emptied.block = r.block
      /\ emptied.thread = r.thread
  BY <1>5, FieldsOf
<1>8. /\ DOMAIN resumed = DOMAIN Res0 /\ resumed.msgs = t /\ resumed.data = r.data /\ resumed.block = r.block
      /\ resumed.thread = r.thread
  BY <1>5, FieldsOf
<1>9. /\ stopped1.msgs = t /\ stopped1.run = "recv" /\ stopped1.data = r.data /\ stopped1.block = r.block
      /\ stopped1.thread = r.thread
  BY <1>5, FieldsOf
<1> HIDE DEF t, m, closed, emptied, stopped1, resumed
<1>10. LET p == Proceed(emptied) IN
       p.msgs = t /\ p.run \in {"recv", "read"} /\ p.data = <<>> /\ p.block = r.block /\ p.thread = r.thread
  BY <1>7, ProceedKin, ProceedSame DEF Kin
<1>11. LET p == Proceed(resumed) IN
       p.msgs = t /\ p.run \in {"recv", "read"} /\ p.data = r.data /\ p.block = r.block /\ p.thread = r.thread
  BY <1>8, ProceedKin, ProceedSame DEF Kin
<1>12. /\ DOMAIN res' = Lanes /\ \A k \in Lanes \ {l} : res'[k] = res[k]
       /\ m = "CLOSE" => res'[l] = closed
       /\ m = "FLUSH" => res'[l] = Proceed(emptied)
       /\ m \in {"PAUSE", "RESUME"} => res'[l] \in {stopped1, Proceed(resumed)}
  BY <1>1, <1>2 DEF Messages
<1>13. /\ res'[l].msgs = t /\ res'[l].run \in {"recv", "read", "exit"} /\ res'[l].block = res[l].block
       /\ res'[l].data = IF m = "FLUSH" THEN << >> ELSE res[l].data
       /\ m # "CLOSE" => res'[l].thread
  <2>1. CASE m = "CLOSE"
    BY <2>1, <1>5, <1>6, <1>12
  <2>2. CASE m = "FLUSH"
    BY <2>2, <1>4, <1>5, <1>10, <1>12
  <2>3. CASE m \in {"PAUSE", "RESUME"}
    BY <2>3, <1>4, <1>5, <1>9, <1>11, <1>12
  <2> QED  BY <2>1, <2>2, <2>3, <1>3 DEF Messages
<1> QED  BY <1>2, <1>3, <1>4, <1>12, <1>13 DEF m, t

LEMMA GotMessageFlush ==
  ASSUME Parts, FParts, NEW l \in Lanes, GotMessage(l), LanesInv'
  PROVE  FParts'
<1> DEFINE m == Head(res[l].msgs)
           t == Tail(res[l].msgs)
<1>1. /\ UNCHANGED <<owner, lock, feeder, unflushed>>
      /\ bits' = IF m = "FLUSH" THEN bits \cup {<<l, "flush">>} ELSE bits
      /\ DOMAIN res' = Lanes /\ \A k \in Lanes \ {l} : res'[k] = res[k]
      /\ res[l].thread /\ m \in Messages /\ m = res[l].msgs[1] /\ Len(res[l].msgs) \in Nat \ {0}
      /\ Len(t) = Len(res[l].msgs) - 1 /\ \A i \in 1..Len(t) : t[i] = res[l].msgs[i + 1]
      /\ res'[l].msgs = t /\ res'[l].run \in {"recv", "read", "exit"} /\ res'[l].block = res[l].block
      /\ res'[l].data = IF m = "FLUSH" THEN << >> ELSE res[l].data
      /\ m # "CLOSE" => res'[l].thread
  BY GotMessageDoes
<1> HIDE DEF m, t
<1>2. OwnerKept
  BY <1>1 DEF OwnerKept
<1>3. PlanParts'
  BY <1>2, PlanKept DEF FParts, PlanParts
<1>4. \A k \in Lanes : (FlushTold(k)' <=> FlushTold(k)) /\ (FlushAwaited(k)' <=> FlushAwaited(k))
  BY <1>1 DEF FlushTold, FlushAwaited, Told, Togo, Waking, Step
<1>5. 1 \in 1..Len(res[l].msgs)
  BY <1>1
<1>6. owner.op = "flush" => m # "CLOSE"
  <2>1. m = "CLOSE" => CloseAwaited(l)
    BY <1>1, <1>5 DEF Parts, LanesInv, LaneInv
  <2> QED  BY <2>1 DEF Parts, Mild
<1>7. \A k \in Lanes : owner.op = "flush" /\ res[k].thread => res'[k].thread
  BY <1>1, <1>6
<1>8. \A k \in Lanes : Due(k) => Due(k)'
  <2>1. "vrender" \in Lanes
    BY DEF Lanes
  <2> QED  BY <2>1, <1>1, <1>4, <1>7 DEF Due
<1>9. \A k \in Lanes \ {l} : Flushes!(k)'
  <2>1. ASSUME NEW k \in Lanes \ {l}
        PROVE  Flushes!(k)'
    <3>1. res'[k] = res[k] /\ owner' = owner /\ (<<k, "flush">> \in bits' <=> <<k, "flush">> \in bits)
      BY <1>1
    <3>2. Flushes!(k)
      BY DEF FParts, Flushes
    <3>3. ToFlush(k)' <=> ToFlush(k)
      BY <3>1 DEF ToFlush
    <3> QED  BY <3>1, <3>2, <3>3, <1>4, <1>8
  <2> QED  BY <2>1
<1>10. Flushes!(l)
  BY DEF FParts, Flushes
<1>11. Flushes!(l)'
  <2>1. CASE m = "FLUSH"
    <3>1. Len(res[l].msgs) = 1 /\ Due(l)
      BY <1>1, <1>5, <1>10, <2>1
    <3>2. Len(t) = 0 /\ ~ToFlush(l)'
      BY <1>1, <3>1 DEF ToFlush
    <3>3. ~OldLane(res'[l])
      BY <1>1, <2>1, NoBlocks DEF OldLane
    <3>4. Due(l)'
      BY <3>1, <1>8
    <3>5. \A i \in 1..Len(res'[l].msgs) : FALSE
      BY <1>1, <3>2
    <3> QED  BY <3>2, <3>3, <3>4, <3>5
  <2>2. CASE m # "FLUSH"
    <3>1. \A i \in 1..Len(t) : t[i] = "FLUSH" => i = Len(t) /\ Due(l)
      BY <1>1, <1>10
    <3>2. ToFlush(l)' <=> ToFlush(l)
      <4>1. ASSUME NEW i \in 1..Len(res[l].msgs), res[l].msgs[i] = "FLUSH"
            PROVE  \E j \in 1..Len(t) : t[j] = "FLUSH"
        <5>1. i # 1 /\ i - 1 \in 1..Len(t)
          BY <1>1, <2>2, <4>1
        <5>2. t[i - 1] = res[l].msgs[(i - 1) + 1] /\ (i - 1) + 1 = i
          BY <1>1, <5>1
        <5> QED  BY <4>1, <5>1, <5>2
      <4>2. ASSUME NEW i \in 1..Len(t), t[i] = "FLUSH"
            PROVE  \E j \in 1..Len(res[l].msgs) : res[l].msgs[j] = "FLUSH"
        <5>1. i + 1 \in 1..Len(res[l].msgs) /\ res[l].msgs[i + 1] = "FLUSH"
          BY <1>1, <4>2
        <5> QED  BY <5>1
      <4> QED  BY <4>1, <4>2, <1>1 DEF ToFlush
    <3>3. OldLane(res'[l]) => OldLane(res[l])
      BY <1>1, <2>2 DEF OldLane, BlocksOf
    <3>4. bits' = bits /\ owner' = owner
      BY <1>1, <2>2
    <3>5. \A i \in 1..Len(res'[l].msgs) : res'[l].msgs[i] = "FLUSH" => i = Len(res'[l].msgs) /\ Due(l)'
      BY <3>1, <1>1, <1>8
    <3>6. owner.op = "flush" /\ FlushTold(l) => ~OldLane(res'[l]) \/ ToFlush(l)'
      <4>1. CASE OldLane(res[l])
        BY <4>1, <1>10, <3>2
      <4>2. CASE ~OldLane(res[l])
        BY <4>2, <3>3
      <4> QED  BY <4>1, <4>2
    <3> QED  BY <1>4, <1>8, <1>10, <3>2, <3>3, <3>4, <3>5, <3>6
  <2> QED  BY <2>1, <2>2
<1>12. Flushes'
  BY <1>9, <1>11 DEF Flushes
<1>13. \A k \in Lanes : Whole(res'[k]) /\ (Laden(res'[k]) => Laden(res[k]))
  <2>1. Whole(res[l]) /\ DOMAIN res'[l] = DOMAIN Res0 /\ \A k \in Lanes : Whole(res[k])
    BY WholeLanes DEF LanesInv, LaneInv, Res0
  <2>2. Whole(res'[l]) /\ (Laden(res'[l]) => Laden(res[l]))
    <3>1. CASE m = "FLUSH"
      BY <2>1, <3>1, <1>1, NoBlocks DEF Whole
    <3>2. CASE m # "FLUSH"
      BY <2>1, <3>2, <1>1 DEF Whole, Laden, BlocksOf
    <3> QED  BY <3>1, <3>2
  <2> QED  BY <2>1, <2>2, <1>1
<1>14. BlockTypes'
  BY <1>1, <1>13 DEF BlockTypes, Whole, FParts
<1>15. Gone'
  BY <1>1, <1>13 DEF FParts, Gone
<1>16. Going'
  <2>1. \A k \in Decoders : k \in Lanes /\ Render[StreamOf[k]] \in Lanes
    BY DEF Decoders, Lanes, Render, StreamOf
  <2> QED  BY <1>1, <2>1 DEF FParts, Going
<1> QED  BY <1>1, <1>3, <1>12, <1>14, <1>15, <1>16 DEF FParts, PlanParts

LEMMA ThreadExitFlush ==
  ASSUME Parts, FParts, NEW l \in Lanes, ThreadExit(l)
  PROVE  FParts'
<1> DEFINE r == [res[l] EXCEPT !.data = << >>, !.run = "off"]
<1>0. DOMAIN res = Lanes /\ \A k \in Lanes : Whole(res[k])
  BY WholeLanes
<1>1. /\ owner' = owner /\ lock' = lock /\ feeder' = feeder /\ unflushed' = unflushed
      /\ bits' = bits \cup {<<l, "close">>} /\ res' = [res EXCEPT ![l] = r] /\ res[l].run = "exit"
  BY <1>0 DEF ThreadExit
<1>2. /\ Whole(r) /\ r.data = <<>> /\ r.run = "off" /\ r.msgs = res[l].msgs /\ r.thread = res[l].thread
  <2>1. /\ r.data = <<>> /\ r.run = "off" /\ r.msgs = res[l].msgs /\ r.thread = res[l].thread
        /\ r.block = res[l].block /\ DOMAIN r = DOMAIN Res0
    BY <1>0, FieldsOf DEF Whole
  <2> HIDE DEF r
  <2> QED  BY <2>1, <1>0, NoBlocks DEF Whole
<1> HIDE DEF r
<1>3. res'[l] = r /\ \A k \in Lanes \ {l} : res'[k] = res[k]
  BY <1>0, <1>1
<1>4. ~OldLane(r) /\ ~Laden(r)
  BY <1>2, NoBlocks DEF OldLane
<1>5. CloseAwaited(l)
  BY <1>1 DEF Parts, LanesInv, LaneInv
<1>6. l \notin Decoders => owner.op = "reset"
  <2> SUFFICES ASSUME l \notin Decoders
               PROVE  owner.op = "reset"
    OBVIOUS
  <2>1. owner.op # "none"
    BY <1>5 DEF Parts, OwnerInv, CloseAwaited
  <2>2. owner.op \notin {"pause", "resume", "flush"}
    BY <1>5 DEF Parts, Mild
  <2>3. owner.op # "add"
    BY <1>5 DEF FParts, AddsOne, CloseAwaited
  <2> QED  BY <2>1, <2>2, <2>3 DEF Parts, OwnerInv
<1>7. BlockTypes'
  BY <1>0, <1>1, <1>2, <1>3 DEF BlockTypes, Whole, FParts
<1>8. Gone'
  BY <1>1, <1>3, <1>4 DEF FParts, Gone
<1>9. Going'
  <2>1. \A k \in Decoders : k \in Lanes /\ Render[StreamOf[k]] \in Lanes \ Decoders
    BY DEF Decoders, Lanes, Render, StreamOf
  <2> QED  BY <1>1, <1>2, <1>3, <1>6, <2>1 DEF FParts, Going
<1>10. OwnerKept
  BY <1>1 DEF OwnerKept
<1>11. \A k \in Lanes : res'[k].msgs = res[k].msgs /\ (res[k].thread => res'[k].thread)
                        /\ (OldLane(res'[k]) => OldLane(res[k]))
  BY <1>2, <1>3, <1>4
<1>12. \A k \in Lanes : <<k, "flush">> \in bits' => <<k, "flush">> \in bits
  BY <1>1
<1> QED  BY <1>1, <1>7, <1>8, <1>9, <1>10, <1>11, <1>12, FlushMove

\* The plan of a flush, and what the other calls plan.
LEMMA FlushPlannedSteps ==
  /\ FlushPlanned(1) = <<"flushed">> /\ FlushPlanned(2) = <<"await">> /\ FlushPlanned(5) = <<"await">>
  /\ FlushPlanned(7) = <<"await">> /\ FlushPlanned(8) = <<"tell", "adec", "FLUSH">>
  /\ FlushPlanned(6) = <<"tell", "vdec", "FLUSH">> /\ FlushPlanned(4) = <<"tell", "arender", "FLUSH">>
  /\ FlushPlanned(3) = <<"tell", "vrender", "FLUSH">>
<1> DEFINE Who(i) == CHOOSE l \in Lanes : FlushTurn[l] = i
<1>1. ASSUME NEW i \in {3, 4, 6, 8}
      PROVE  FlushPlanned(i) = <<"tell", Who(i), "FLUSH">>
  BY DEF FlushPlanned
<1>2. FlushTurn["adec"] = 8 /\ FlushTurn["vdec"] = 6 /\ FlushTurn["arender"] = 4 /\ FlushTurn["vrender"] = 3
  BY DEF FlushTurn
<1>3. "adec" \in Lanes /\ \A l \in Lanes : FlushTurn[l] = 8 <=> l = "adec"
  BY <1>2 DEF Lanes
<1>4. "vdec" \in Lanes /\ \A l \in Lanes : FlushTurn[l] = 6 <=> l = "vdec"
  BY <1>2 DEF Lanes
<1>5. "arender" \in Lanes /\ \A l \in Lanes : FlushTurn[l] = 4 <=> l = "arender"
  BY <1>2 DEF Lanes
<1>6. "vrender" \in Lanes /\ \A l \in Lanes : FlushTurn[l] = 3 <=> l = "vrender"
  BY <1>2 DEF Lanes
<1>7. Who(8) = "adec"  BY <1>3
<1>8. Who(6) = "vdec"  BY <1>4
<1>9. Who(4) = "arender"  BY <1>5
<1>10. Who(3) = "vrender"  BY <1>6
<1>11. /\ FlushPlanned(1) = <<"flushed">> /\ FlushPlanned(2) = <<"await">> /\ FlushPlanned(5) = <<"await">>
       /\ FlushPlanned(7) = <<"await">>
  BY DEF FlushPlanned
<1> HIDE DEF Who
<1> QED  BY <1>1, <1>7, <1>8, <1>9, <1>10, <1>11

LEMMA FlushPlan ==
  Len(FlushSteps) = 8 /\ \A i \in 1..8 : FromEnd(FlushSteps, i) = FlushPlanned(i)
<1> DEFINE a  == Tells("FLUSH", <<"adec">>)
           v  == Tells("FLUSH", <<"vdec">>)
           r  == Tells("FLUSH", <<"arender", "vrender">>)
           w  == <<<<"await">>>>
           e  == <<<<"await">>, <<"flushed">>>>
           x2 == a \o w
           x3 == x2 \o v
           x4 == x3 \o w
           x6 == x4 \o r
<1>1. "FLUSH" \in Messages /\ {"adec", "vdec", "arender", "vrender"} \subseteq Lanes
  BY DEF Messages, Lanes
<1>2. a \in Seq(OwnerTodos) /\ Len(a) = 1 /\ a[1] = <<"tell", "adec", "FLUSH">>
  <2> DEFINE d == <<"adec">>
  <2>1. d \in Seq(Lanes) /\ Len(d) = 1 /\ d[1] = "adec"
    BY <1>1
  <2>2. a = Tells("FLUSH", d)
    OBVIOUS
  <2> HIDE DEF d, a
  <2> QED  BY <2>1, <2>2, <1>1, TellsSteps
<1>3. v \in Seq(OwnerTodos) /\ Len(v) = 1 /\ v[1] = <<"tell", "vdec", "FLUSH">>
  <2> DEFINE d == <<"vdec">>
  <2>1. d \in Seq(Lanes) /\ Len(d) = 1 /\ d[1] = "vdec"
    BY <1>1
  <2>2. v = Tells("FLUSH", d)
    OBVIOUS
  <2> HIDE DEF d, v
  <2> QED  BY <2>1, <2>2, <1>1, TellsSteps
<1>4. r \in Seq(OwnerTodos) /\ Len(r) = 2 /\ r[1] = <<"tell", "arender", "FLUSH">> /\ r[2] = <<"tell", "vrender", "FLUSH">>
  <2> DEFINE d == <<"arender", "vrender">>
  <2>1. d \in Seq(Lanes) /\ Len(d) = 2 /\ d[1] = "arender" /\ d[2] = "vrender"
    BY <1>1
  <2>2. r = Tells("FLUSH", d)
    OBVIOUS
  <2> HIDE DEF d, r
  <2> QED  BY <2>1, <2>2, <1>1, TellsSteps
<1>5. w \in Seq(OwnerTodos) /\ Len(w) = 1 /\ w[1] = <<"await">>
  BY DEF OwnerTodos
<1>6. e \in Seq(OwnerTodos) /\ Len(e) = 2 /\ e[1] = <<"await">> /\ e[2] = <<"flushed">>
  BY DEF OwnerTodos
<1>7. FlushSteps = x6 \o e
  BY DEF FlushSteps
<1> HIDE DEF a, v, r, w, e
<1>8. x2 \in Seq(OwnerTodos) /\ Len(x2) = 2 /\ x2[1] = a[1] /\ x2[2] = w[1]
  <2>1. /\ x2 \in Seq(OwnerTodos) /\ Len(x2) = Len(a) + Len(w)
        /\ \A i \in 1..Len(a) + Len(w) : x2[i] = IF i <= Len(a) THEN a[i] ELSE w[i - Len(a)]
    BY <1>2, <1>5, JoinedSteps
  <2> HIDE DEF x2
  <2> QED  BY <2>1, <1>2, <1>5
<1> HIDE DEF x2
<1>9. x3 \in Seq(OwnerTodos) /\ Len(x3) = 3 /\ x3[1] = a[1] /\ x3[2] = w[1] /\ x3[3] = v[1]
  <2>1. /\ x3 \in Seq(OwnerTodos) /\ Len(x3) = Len(x2) + Len(v)
        /\ \A i \in 1..Len(x2) + Len(v) : x3[i] = IF i <= Len(x2) THEN x2[i] ELSE v[i - Len(x2)]
    BY <1>8, <1>3, JoinedSteps
  <2> HIDE DEF x3
  <2> QED  BY <2>1, <1>3, <1>8
<1> HIDE DEF x3
<1>10. x4 \in Seq(OwnerTodos) /\ Len(x4) = 4 /\ x4[1] = a[1] /\ x4[2] = w[1] /\ x4[3] = v[1] /\ x4[4] = w[1]
  <2>1. /\ x4 \in Seq(OwnerTodos) /\ Len(x4) = Len(x3) + Len(w)
        /\ \A i \in 1..Len(x3) + Len(w) : x4[i] = IF i <= Len(x3) THEN x3[i] ELSE w[i - Len(x3)]
    BY <1>9, <1>5, JoinedSteps
  <2> HIDE DEF x4
  <2> QED  BY <2>1, <1>5, <1>9
<1> HIDE DEF x4
<1>11. /\ x6 \in Seq(OwnerTodos) /\ Len(x6) = 6 /\ x6[1] = a[1] /\ x6[2] = w[1] /\ x6[3] = v[1] /\ x6[4] = w[1]
       /\ x6[5] = r[1] /\ x6[6] = r[2]
  <2>1. /\ x6 \in Seq(OwnerTodos) /\ Len(x6) = Len(x4) + Len(r)
        /\ \A i \in 1..Len(x4) + Len(r) : x6[i] = IF i <= Len(x4) THEN x4[i] ELSE r[i - Len(x4)]
    BY <1>10, <1>4, JoinedSteps
  <2> HIDE DEF x6
  <2> QED  BY <2>1, <1>4, <1>10
<1> HIDE DEF x6
<1>12. Len(FlushSteps) = 8 /\ \A i \in 1..8 : FlushSteps[i] = IF i <= 6 THEN x6[i] ELSE e[i - 6]
  <2>1. /\ Len(x6 \o e) = Len(x6) + Len(e)
        /\ \A i \in 1..Len(x6) + Len(e) : (x6 \o e)[i] = IF i <= Len(x6) THEN x6[i] ELSE e[i - Len(x6)]
    BY <1>11, <1>6, JoinedSteps
  <2> QED  BY <2>1, <1>6, <1>7, <1>11
<1>13. /\ FlushSteps[1] = a[1] /\ FlushSteps[2] = w[1] /\ FlushSteps[3] = v[1] /\ FlushSteps[4] = w[1]
       /\ FlushSteps[5] = r[1] /\ FlushSteps[6] = r[2] /\ FlushSteps[7] = e[1] /\ FlushSteps[8] = e[2]
  BY <1>11, <1>12
<1>14. ASSUME NEW i \in 1..8
       PROVE  FlushSteps[9 - i] = FlushPlanned(i)
  <2>1. i \in {1, 2, 3, 4, 5, 6, 7, 8}
    OBVIOUS
  <2>2. /\ FlushSteps[8] = FlushPlanned(1) /\ FlushSteps[7] = FlushPlanned(2) /\ FlushSteps[6] = FlushPlanned(3)
        /\ FlushSteps[5] = FlushPlanned(4)
    BY <1>4, <1>6, <1>13, FlushPlannedSteps
  <2>3. /\ FlushSteps[4] = FlushPlanned(5) /\ FlushSteps[3] = FlushPlanned(6) /\ FlushSteps[2] = FlushPlanned(7)
        /\ FlushSteps[1] = FlushPlanned(8)
    BY <1>2, <1>3, <1>5, <1>13, FlushPlannedSteps
  <2> QED  BY <2>1, <2>2, <2>3
<1>15. \A i \in 1..8 : FromEnd(FlushSteps, i) = FlushSteps[9 - i]
  BY <1>12 DEF FromEnd
<1> QED  BY <1>12, <1>14, <1>15

LEMMA PausePlans == PauseSteps \in Seq(PauseTodos) /\ ResumeSteps \in Seq(PauseTodos)
<1>1. ASSUME NEW m \in {"PAUSE", "RESUME"}, NEW lanes \in Seq(Lanes)
      PROVE  Tells(m, lanes) \in Seq(PauseTodos)
  <2>1. \A i \in 1..Len(lanes) : <<"tell", lanes[i], m>> \in PauseTodos
    BY DEF PauseTodos
  <2>2. Len(lanes) \in Nat
    OBVIOUS
  <2> QED  BY <2>1, <2>2 DEF Tells
<1>2. \A s, t : s \in Seq(PauseTodos) /\ t \in Seq(PauseTodos) => s \o t \in Seq(PauseTodos)
  BY ConcatProperties
<1>3. <<<<"return">>>> \in Seq(PauseTodos)
  BY DEF PauseTodos
<1>4. /\ <<"adec", "vdec", "arender", "vrender">> \in Seq(Lanes)
      /\ <<"arender", "vrender", "adec", "vdec">> \in Seq(Lanes)
  BY DEF Lanes
<1>5. Tells("PAUSE", <<"adec", "vdec", "arender", "vrender">>) \in Seq(PauseTodos)
  BY <1>1, <1>4
<1>6. Tells("RESUME", <<"arender", "vrender", "adec", "vdec">>) \in Seq(PauseTodos)
  BY <1>1, <1>4
<1>7. PauseSteps \in Seq(PauseTodos)
  BY <1>2, <1>3, <1>5 DEF PauseSteps
<1>8. ResumeSteps \in Seq(PauseTodos)
  BY <1>2, <1>3, <1>6 DEF ResumeSteps
<1> QED  BY <1>7, <1>8

\* What a flush is at.
LEMMA FlushHas ==
  ASSUME Parts, Draining, Step[1] # "none", owner.op = "flush"
  PROVE  /\ Togo \in 1..8 /\ Step[1] \in {"tell", "wake", "await", "flushed"}
         /\ Step[1] \in {"tell", "wake"} => Togo \in {3, 4, 6, 8}
         /\ Step[1] = "tell" => /\ Step[3] = "FLUSH" /\ Step[2] \in Lanes /\ FlushTurn[Step[2]] = Togo
         /\ Step[1] = "await" => Togo \in {2, 5, 7}
         /\ Step[1] = "flushed" => Togo = 1
         /\ Waking <=> Step[1] = "wake"
<1>1. Togo \in 1..8 /\ (Step = FlushPlanned(Togo) \/ (Step[1] = "wake" /\ FlushPlanned(Togo)[1] = "tell"))
  BY DEF Draining, Waking
<1>2. Togo \in {1, 2, 3, 4, 5, 6, 7, 8}
  BY <1>1
<1>3. \A x : <<"tell", x, "FLUSH">>[1] = "tell" /\ <<"tell", x, "FLUSH">>[2] = x /\ <<"tell", x, "FLUSH">>[3] = "FLUSH"
  OBVIOUS
<1>4. <<"await">>[1] = "await" /\ <<"flushed">>[1] = "flushed"
  OBVIOUS
<1>5. FlushTurn["adec"] = 8 /\ FlushTurn["vdec"] = 6 /\ FlushTurn["arender"] = 4 /\ FlushTurn["vrender"] = 3
  BY DEF FlushTurn
<1>6. {"adec", "vdec", "arender", "vrender"} \subseteq Lanes
  BY DEF Lanes
<1>7. CASE Togo = 1  BY <1>7, <1>1, <1>4, FlushPlannedSteps DEF Waking
<1>8. CASE Togo \in {2, 5, 7}  BY <1>8, <1>1, <1>4, FlushPlannedSteps DEF Waking
<1>9. CASE Togo = 3  BY <1>9, <1>1, <1>3, <1>5, <1>6, FlushPlannedSteps DEF Waking
<1>10. CASE Togo = 4  BY <1>10, <1>1, <1>3, <1>5, <1>6, FlushPlannedSteps DEF Waking
<1>11. CASE Togo = 6  BY <1>11, <1>1, <1>3, <1>5, <1>6, FlushPlannedSteps DEF Waking
<1>12. CASE Togo = 8  BY <1>12, <1>1, <1>3, <1>5, <1>6, FlushPlannedSteps DEF Waking
<1> QED  BY <1>2, <1>7, <1>8, <1>9, <1>10, <1>11, <1>12

LEMMA PauseHas ==
  ASSUME Parts, Pausing, Step[1] # "none", owner.op \in {"pause", "resume"}
  PROVE  /\ Step[1] \in {"tell", "wake", "return"}
         /\ Step[1] = "tell" => Step[3] \in {"PAUSE", "RESUME"}
         /\ owner'.todo = Rest => owner'.todo \in Seq(PauseTodos)
         /\ \A l \in Lanes : owner'.todo = <<<<"wake", l>>>> \o Rest => owner'.todo \in Seq(PauseTodos)
<1>1. owner.todo \in Seq(PauseTodos) /\ owner.todo # <<>> /\ Step = Head(owner.todo)
  BY StepOf DEF Pausing
<1>2. Step \in PauseTodos /\ Tail(owner.todo) \in Seq(PauseTodos)
  BY <1>1, RestOf
<1>3. \A st \in PauseTodos : st[1] \in {"tell", "wake", "return"} /\ (st[1] = "tell" => st[3] \in {"PAUSE", "RESUME"})
  BY DEF PauseTodos
<1>4. ASSUME NEW l \in Lanes
      PROVE  <<<<"wake", l>>>> \o Rest \in Seq(PauseTodos)
  <2>1. <<"wake", l>> \in PauseTodos
    BY DEF PauseTodos
  <2>2. <<<<"wake", l>>>> \o Tail(owner.todo) \in Seq(PauseTodos)
    BY <1>1, <2>1, WokenOf
  <2> QED  BY <2>2 DEF Rest
<1> QED  BY <1>2, <1>3, <1>4 DEF Rest

\* A flush that has taken a step, and one that wakes the thread it told.
LEMMA RestDraining ==
  ASSUME Parts, Draining, Step[1] \in {"tell", "wake", "await"}, owner'.todo = Rest, owner.op = "flush",
         lock' = "owner", owner'.await = {} \/ (owner'.await = owner.await /\ Step[1] # "await")
  PROVE  /\ Draining' /\ Togo' = Togo - 1
         /\ \A l \in Lanes : FlushTold(l)' <=> FlushTold(l) \/ (Step[1] = "tell" /\ l = Step[2])
<1>0. Step[1] # "none"
  OBVIOUS
<1>1. /\ Togo \in 2..8 /\ (Step[1] = "tell" => FlushTurn[Step[2]] = Togo) /\ (Waking <=> Step[1] = "wake")
      /\ Step[1] = "await" => Togo \in {2, 5, 7}
      /\ Step[1] # "await" => Togo \in {3, 4, 6, 8}
  <2>1. Togo # 1
    BY <1>0, FlushHas
  <2> QED  BY <1>0, <2>1, FlushHas
<1>2. Togo' = Togo - 1 /\ (\A i \in 1..Togo - 1 : FromEnd(owner'.todo, i) = FlushPlanned(i))
      /\ Step' = FlushPlanned(Togo - 1)
  <2>1. \A i \in 1..Togo - 1 : FromEnd(owner.todo, i) = FlushPlanned(i)
    BY DEF Draining
  <2>2. /\ Togo' = Togo - 1
        /\ \A i \in 1..Togo - 1 : FromEnd(owner'.todo, i) = FromEnd(owner.todo, i)
        /\ Step' = FromEnd(owner.todo, Togo - 1)
    BY <1>0, <1>1, RestShape
  <2> QED  BY <1>1, <2>1, <2>2
<1>3. ~Waking'
  <2>1. Togo - 1 \in {1, 2, 3, 4, 5, 6, 7}
    BY <1>1
  <2>2. \A x : <<"tell", x, "FLUSH">>[1] = "tell" /\ <<"await">>[1] = "await" /\ <<"flushed">>[1] = "flushed"
    OBVIOUS
  <2>3. FlushPlanned(Togo - 1)[1] # "wake"
    BY <2>1, <2>2, FlushPlannedSteps
  <2> QED  BY <1>2, <2>3 DEF Waking
<1>4. FlushTurn["adec"] = 8 /\ FlushTurn["vdec"] = 6 /\ FlushTurn["arender"] = 4 /\ FlushTurn["vrender"] = 3
      /\ AwaitTurn["adec"] = 7 /\ AwaitTurn["vdec"] = 5 /\ AwaitTurn["arender"] = 2 /\ AwaitTurn["vrender"] = 2
  BY DEF FlushTurn, AwaitTurn
<1>5. \A l \in Lanes : FlushTold(l)' <=> FlushTold(l) \/ (Step[1] = "tell" /\ l = Step[2])
  <2>1. ASSUME NEW l \in Lanes
        PROVE  FlushTold(l)' <=> FlushTold(l) \/ (Step[1] = "tell" /\ l = Step[2])
    <3>1. FlushTold(l)' <=> Togo <= FlushTurn[l]
      BY <1>1, <1>2, <1>3, <1>4 DEF FlushTold, Told, Lanes
    <3>2. FlushTold(l) <=> Togo < FlushTurn[l] \/ (Togo = FlushTurn[l] /\ Step[1] = "wake")
      BY <1>1 DEF FlushTold, Told
    <3>3. Step[1] = "tell" => (l = Step[2] <=> Togo = FlushTurn[l])
      BY <1>0, <1>4, FlushHas DEF Lanes
    <3>4. Step[1] = "await" => Togo # FlushTurn[l]
      BY <1>1, <1>4 DEF Lanes
    <3>5. FlushTurn[l] \in Nat
      BY <1>4 DEF Lanes
    <3> QED  BY <1>1, <3>1, <3>2, <3>3, <3>4, <3>5
  <2> QED  BY <2>1
<1>6. \A l \in Lanes : FlushAwaited(l)' => FlushTold(l)' /\ Togo' >= AwaitTurn[l]
  <2>1. ASSUME NEW l \in Lanes, FlushAwaited(l)'
        PROVE  FlushTold(l)' /\ Togo' >= AwaitTurn[l]
    <3>1. FlushAwaited(l) /\ Togo \in {3, 4, 6, 8}
      BY <1>1, <2>1 DEF FlushAwaited
    <3>2. FlushTold(l) /\ Togo >= AwaitTurn[l]
      BY <3>1 DEF Draining
    <3>3. Togo - 1 >= AwaitTurn[l]
      BY <3>1, <3>2, <1>4 DEF Lanes
    <3> QED  BY <1>2, <1>5, <3>2, <3>3
  <2> QED  BY <2>1
<1>7. Draining'
  <2>1. Togo' \in 1..8
    BY <1>1, <1>2
  <2> QED  BY <1>2, <1>3, <1>6, <2>1 DEF Draining
<1> QED  BY <1>2, <1>5, <1>7

LEMMA WokenDraining ==
  ASSUME Parts, Draining, Step[1] = "tell", NEW l \in Lanes, l = Step[2], owner'.todo = <<<<"wake", l>>>> \o Rest,
         owner.op = "flush", lock' = "owner", owner'.await = {<<l, "flush">>}
  PROVE  /\ Draining' /\ Togo' = Togo /\ Togo \in {3, 4, 6, 8} /\ FlushTurn[l] = Togo /\ ~FlushTold(l)
         /\ \A k \in Lanes : FlushTold(k)' <=> FlushTold(k) \/ k = l
         /\ \A k \in Lanes : FlushAwaited(k)' <=> k = l
<1>0. Step[1] # "none"
  OBVIOUS
<1>1. Togo \in {3, 4, 6, 8} /\ FlushTurn[l] = Togo /\ ~Waking
  BY <1>0, FlushHas
<1>2. /\ Togo' = Togo /\ Waking' /\ \A i \in 1..Togo - 1 : FromEnd(owner'.todo, i) = FromEnd(owner.todo, i)
  BY <1>0, WokenShape
<1>3. \A i \in 1..Togo - 1 : FromEnd(owner'.todo, i) = FlushPlanned(i)
  BY <1>2 DEF Draining
<1>4. FlushPlanned(Togo)[1] = "tell"
  <2>1. \A x : <<"tell", x, "FLUSH">>[1] = "tell"
    OBVIOUS
  <2> QED  BY <1>1, <2>1, FlushPlannedSteps
<1>5. FlushTurn["adec"] = 8 /\ FlushTurn["vdec"] = 6 /\ FlushTurn["arender"] = 4 /\ FlushTurn["vrender"] = 3
      /\ AwaitTurn["adec"] = 7 /\ AwaitTurn["vdec"] = 5 /\ AwaitTurn["arender"] = 2 /\ AwaitTurn["vrender"] = 2
  BY DEF FlushTurn, AwaitTurn
<1>6. ~FlushTold(l) /\ \A k \in Lanes : FlushTold(k)' <=> FlushTold(k) \/ k = l
  <2>1. \A k \in Lanes : FlushTurn[k] = FlushTurn[l] <=> k = l
    BY <1>5 DEF Lanes
  <2> QED  BY <1>1, <1>2, <2>1 DEF FlushTold, Told
<1>7. \A k \in Lanes : FlushAwaited(k)' <=> k = l
  BY DEF FlushAwaited
<1>8. Togo >= AwaitTurn[l]
  BY <1>1, <1>5 DEF Lanes
<1>9. Draining'
  <2>1. Togo' \in 1..8
    BY <1>1, <1>2
  <2> QED  BY <1>2, <1>3, <1>4, <1>6, <1>7, <1>8, <2>1 DEF Draining
<1> QED  BY <1>1, <1>2, <1>6, <1>7, <1>9

NoFlushLeft == \A l \in Lanes : ~ToFlush(l) /\ <<l, "flush">> \notin bits

LEMMA NothingDue == ASSUME Flushes, \A l \in Lanes : ~Due(l)  PROVE NoFlushLeft
BY DEF Flushes, NoFlushLeft, ToFlush

LEMMA NothingLeft ==
  ASSUME NoFlushLeft', owner'.op = "flush" => \A l \in Lanes : ~FlushTold(l)'
  PROVE  Flushes'
BY DEF Flushes, NoFlushLeft, ToFlush

LEMMA SameLeft ==
  ASSUME NoFlushLeft, bits' \subseteq bits, \A l \in Lanes : res'[l].msgs = res[l].msgs
  PROVE  NoFlushLeft'
BY DEF NoFlushLeft, ToFlush

\* A step of the owner leaves the threads where they are and their queues as empty.
Calm(r, o) ==
  Whole(r) /\ (r.run = "off" => o.run = "off") /\ (r.run = "put" => o.run = "put") /\ (Laden(r) => Laden(o))

LEMMA CalmMove ==
  ASSUME FParts, \A l \in Lanes : Calm(res'[l], res[l]), feeder'.kind \in Kinds,
         owner'.op = owner.op \/ owner.op # "reset"
  PROVE  BlockTypes' /\ Gone' /\ Going'
<1>1. BlockTypes'
  BY DEF BlockTypes, Calm, Whole
<1>2. Gone'
  BY DEF FParts, Gone, Calm
<1>3. \A l \in Decoders : l \in Lanes /\ Render[StreamOf[l]] \in Lanes
  BY DEF Decoders, Lanes, Render, StreamOf
<1>4. Going'
  BY <1>3 DEF FParts, Going, Calm
<1> QED  BY <1>1, <1>2, <1>4

LEMMA CalmSame == ASSUME Parts, FParts, res' = res  PROVE \A l \in Lanes : Calm(res'[l], res[l])
BY WholeLanes DEF Calm

LEMMA CallFlush ==
  ASSUME Parts, FParts, Call
  PROVE  FParts'
<1>1. /\ owner.op = "none" /\ lock # "owner" /\ owner.await = {}
      /\ DOMAIN owner = {"op", "todo", "await", "got"}
  BY DEF Parts, OwnerInv, Call
<1>2. /\ lock' = lock /\ feeder' = feeder /\ bits' = bits /\ res' = res /\ unflushed' = unflushed
      /\ DOMAIN owner' = DOMAIN owner /\ owner'.await = owner.await
      /\ \/ owner'.op = "add" /\ \E s \in Streams : owner'.todo = AddSteps(s)
         \/ owner'.op = "pause" /\ owner'.todo = PauseSteps
         \/ owner'.op = "resume" /\ owner'.todo = ResumeSteps
         \/ owner'.op = "flush" /\ owner'.todo = FlushSteps
         \/ owner'.op = "reset" /\ owner'.todo = ResetSteps
  BY <1>1 DEF Call
<1>3. BlockTypes' /\ Gone' /\ Going'
  <2>1. \A l \in Lanes : Calm(res'[l], res[l])
    BY <1>2, CalmSame
  <2>2. feeder'.kind \in Kinds
    BY <1>2 DEF FParts, BlockTypes
  <2> QED  BY <1>1, <2>1, <2>2, CalmMove
<1>4. NoFlushLeft'
  <2>1. NoFlushLeft
    BY <1>1, NothingDue DEF FParts, Due
  <2> QED  BY <1>2, <2>1, SameLeft
<1>5. Draining' /\ (owner'.op = "flush" => \A l \in Lanes : ~FlushTold(l)')
  <2> SUFFICES ASSUME owner'.op = "flush"
               PROVE  Draining' /\ \A l \in Lanes : ~FlushTold(l)'
    BY DEF Draining
  <2>1. owner'.todo = FlushSteps
    BY <1>2
  <2>2. Togo' = 8 /\ \A i \in 1..8 : FromEnd(owner'.todo, i) = FlushPlanned(i)
    BY <2>1, FlushPlan DEF Togo
  <2>3. Step' = FlushPlanned(8)
    <3>1. owner'.todo \in Seq(MildTodos) /\ owner'.todo # <<>>
      <4>1. owner'.todo \in Seq(MildTodos)
        BY <2>1, MildPlans
      <4>2. Len(owner'.todo) # 0
        BY <2>1, FlushPlan
      <4>3. Len(<<>>) = 0
        OBVIOUS
      <4>4. owner'.todo # <<>>
        BY <4>2, <4>3
      <4> QED  BY <4>1, <4>4
    <3>2. Head(owner'.todo) = FromEnd(owner'.todo, Len(owner'.todo))
      BY <3>1, RestOf
    <3> QED  BY <2>2, <3>1, <3>2 DEF Step, Togo
  <2>4. ~Waking'
    <3>1. <<"tell", "adec", "FLUSH">>[1] = "tell"
      OBVIOUS
    <3> QED  BY <2>3, <3>1, FlushPlannedSteps DEF Waking
  <2>5. \A l \in Lanes : ~FlushTold(l)'
    BY <2>2, <2>4 DEF FlushTold, Told, FlushTurn, Lanes
  <2>6. \A l \in Lanes : ~FlushAwaited(l)'
    BY <1>1, <1>2 DEF FlushAwaited
  <2>7. Togo' \in 1..8 /\ \A i \in 1..Togo' - 1 : FromEnd(owner'.todo, i) = FlushPlanned(i)
    BY <2>2
  <2> QED  BY <2>2, <2>3, <2>4, <2>5, <2>6, <2>7 DEF Draining
<1>6. Flushes'
  BY <1>4, <1>5, NothingLeft
<1>7. Pausing'
  BY <1>2, PausePlans DEF Pausing
<1>8. AddsOne'
  <2> SUFFICES ASSUME owner'.op = "add"
               PROVE  owner'.await = {} /\ (Step[1] = "tell" => Step[2] \in Decoders)'
    BY DEF AddsOne
  <2>1. PICK s \in Streams : owner'.todo = AddSteps(s)
    BY <1>2
  <2>2. Len(owner'.todo) = 3 /\ owner'.todo[1] = <<"tell", Decoder[s], "CLOSE">> /\ owner'.todo \in Seq(OwnerTodos)
    BY <2>1, AddPlan
  <2>3. Head(owner'.todo) = owner'.todo[1] /\ owner'.todo # <<>>
    BY <2>2
  <2>4. Step'[2] = Decoder[s]
    BY <2>2, <2>3 DEF Step
  <2> QED  BY <1>1, <1>2, <2>4 DEF Decoder, Decoders, Streams
<1> QED  BY <1>2, <1>3, <1>5, <1>6, <1>7, <1>8 DEF FParts

LEMMA AgedBlocks ==
  ASSUME NEW r, Whole(r)
  PROVE  Calm(Aged(r), r) /\ Aged(r).msgs = r.msgs
<1> DEFINE d == [i \in DOMAIN r.data |-> <<r.data[i][1], TRUE>>]
           b == <<r.block[1], r.run \in {"body", "put"}>>
<1>1. Aged(r) = [r EXCEPT !.data = d, !.block = b]
  BY DEF Aged
<1>2. \A x \in Blocks : x[1] \in Kinds
  BY DEF Blocks
<1>3. \A k \in Kinds, f \in BOOLEAN : <<k, f>> \in Blocks /\ <<k, f>>[1] = k
  BY DEF Blocks
<1>4. b \in Blocks
  <2>1. r.block[1] \in Kinds /\ (r.run \in {"body", "put"}) \in BOOLEAN
    BY <1>2 DEF Whole
  <2> QED  BY <2>1, <1>3
<1>5. d \in Seq(Blocks) /\ DOMAIN d = DOMAIN r.data /\ \A i \in DOMAIN r.data : d[i][1] = r.data[i][1]
  <2>1. r.data \in Seq(Blocks) /\ Len(r.data) \in Nat /\ DOMAIN r.data = 1..Len(r.data)
    BY LenProperties DEF Whole
  <2>2. \A i \in 1..Len(r.data) : r.data[i] \in Blocks
    BY <2>1
  <2>3. \A i \in DOMAIN r.data : <<r.data[i][1], TRUE>> \in Blocks /\ <<r.data[i][1], TRUE>>[1] = r.data[i][1]
    BY <1>2, <1>3, <2>1, <2>2
  <2>4. DOMAIN d = DOMAIN r.data /\ \A i \in DOMAIN r.data : d[i] = <<r.data[i][1], TRUE>>
    OBVIOUS
  <2>5. d = [i \in DOMAIN r.data |-> d[i]]
    BY <2>4
  <2> HIDE DEF d
  <2>6. d = [i \in 1..Len(r.data) |-> d[i]] /\ \A i \in 1..Len(r.data) : d[i] \in Blocks
    BY <2>1, <2>3, <2>4, <2>5
  <2>7. d \in Seq(Blocks)
    BY <2>1, <2>6
  <2>8. ASSUME NEW i \in DOMAIN r.data
        PROVE  d[i][1] = r.data[i][1]
    <3>1. d[i] = <<r.data[i][1], TRUE>>
      BY <2>4
    <3>2. \A x, y : <<x, y>>[1] = x
      OBVIOUS
    <3> QED  BY <3>1, <3>2
  <2> QED  BY <2>4, <2>7, <2>8
<1> HIDE DEF d, b
<1>6. /\ DOMAIN Aged(r) = DOMAIN Res0 /\ Aged(r).data = d /\ Aged(r).block = b /\ Aged(r).run = r.run
      /\ Aged(r).msgs = r.msgs
  BY <1>1, FieldsOf DEF Whole
<1>7. Laden(Aged(r)) => Laden(r)
  BY <1>5, <1>6 DEF Laden, BlocksOf
<1> QED  BY <1>4, <1>5, <1>6, <1>7 DEF Calm, Whole

LEMMA TakeLockFlush ==
  ASSUME Parts, FParts, TakeLock
  PROVE  FParts'
<1>1. /\ owner.op # "none" /\ lock = "none" /\ lock' = "owner"
      /\ UNCHANGED <<bits, owner, feeder, unflushed>>
      /\ res' = IF owner.op = "flush" THEN [l \in Lanes |-> Aged(res[l])] ELSE res
  BY DEF TakeLock
<1>2. DOMAIN res = Lanes /\ \A l \in Lanes : Whole(res[l])
  BY WholeLanes
<1>3. \A l \in Lanes : Calm(res'[l], res[l]) /\ res'[l].msgs = res[l].msgs
  <2>1. CASE owner.op = "flush"
    BY <1>1, <1>2, <2>1, AgedBlocks
  <2>2. CASE owner.op # "flush"
    BY <1>1, <1>2, <2>2 DEF Calm
  <2> QED  BY <2>1, <2>2
<1>4. BlockTypes' /\ Gone' /\ Going'
  <2>1. feeder'.kind \in Kinds /\ owner'.op = owner.op /\ \A l \in Lanes : Calm(res'[l], res[l])
    BY <1>1, <1>3 DEF FParts, BlockTypes
  <2> QED  BY <2>1, CalmMove
<1>5. owner.op = "flush" => \A l \in Lanes : ~FlushTold(l)
  <2> SUFFICES ASSUME owner.op = "flush"
               PROVE  \A l \in Lanes : ~FlushTold(l)
    OBVIOUS
  <2>1. Togo = 8 /\ ~Waking
    BY <1>1 DEF FParts, Draining
  <2> QED  BY <2>1 DEF FlushTold, Told, FlushTurn, Lanes
<1>6. NoFlushLeft
  BY <1>5, NothingDue DEF FParts, Due
<1>7. NoFlushLeft'
  BY <1>1, <1>3, <1>6, SameLeft
<1>8. /\ Togo' = Togo /\ Waking' = Waking /\ Step' = Step
      /\ \A l \in Lanes : (FlushTold(l)' <=> FlushTold(l)) /\ (FlushAwaited(l)' <=> FlushAwaited(l))
  BY <1>1 DEF Togo, Waking, Step, FlushTold, Told, FlushAwaited
<1>9. Flushes'
  BY <1>1, <1>5, <1>7, <1>8, NothingLeft
<1>10. Draining' /\ Pausing' /\ AddsOne'
  BY <1>1, <1>8 DEF FParts, Draining, Pausing, AddsOne
<1> QED  BY <1>1, <1>4, <1>9, <1>10 DEF FParts

\* The step a stream that is added is at once its decoder has been told.
LEMMA RestAddsOne ==
  ASSUME Parts, AddsOne, Step[1] \in {"tell", "wake", "await", "join"}, owner'.todo = Rest, owner.op = "add",
         owner'.await \subseteq {<<l, "close">> : l \in Decoders}
  PROVE  AddsOne'
<1>0. Step[1] # "none" /\ \A x : <<"await">>[1] = "await"
  OBVIOUS
<1>1. Togo \in {2, 3}
  BY <1>0, AddingHas
<1>2. Step' = FromEnd(owner.todo, Togo - 1)
  BY <1>0, <1>1, RestShape
<1>3. Step'[1] # "tell"
  BY <1>0, <1>1, <1>2 DEF Parts, Adding
<1> QED  BY <1>3 DEF AddsOne

LEMMA WakeFlush ==
  ASSUME Parts, FParts, Wake
  PROVE  FParts'
<1> DEFINE w == Step[2]
           b == <<"wake", FALSE>>
           r == [res[w] EXCEPT !.data = <<b>>]
<1>1. /\ lock = "owner" /\ lock' = lock /\ Step[1] = "wake" /\ owner' = [owner EXCEPT !.todo = Rest]
      /\ UNCHANGED <<bits, feeder, unflushed>>
      /\ res' = IF res[w].data = << >> THEN [res EXCEPT ![w].data = <<b>>] ELSE res
  BY DEF Wake, NoLanes
<1>2. w \in Lanes /\ Step[1] # "none"
  BY <1>1, StepOf, TodoKinds
<1>3. DOMAIN owner = {"op", "todo", "await", "got"}
  BY DEF Parts, OwnerInv
<1>4. DOMAIN owner' = DOMAIN owner /\ owner'.op = owner.op /\ owner'.await = owner.await /\ owner'.todo = Rest
  BY <1>1, <1>3
<1>5. DOMAIN res = Lanes /\ \A l \in Lanes : Whole(res[l])
  BY WholeLanes
<1>6. /\ Whole(r) /\ r.msgs = res[w].msgs /\ r.thread = res[w].thread /\ r.run = res[w].run /\ r.block = res[w].block
      /\ BlocksOf(r) = {b}
  <2>1. /\ r.msgs = res[w].msgs /\ r.thread = res[w].thread /\ r.run = res[w].run /\ r.block = res[w].block
        /\ DOMAIN r = DOMAIN Res0 /\ r.data = <<b>>
    BY <1>2, <1>5, FieldsOf DEF Whole
  <2>2. b \in Blocks
    BY DEF Blocks, Kinds
  <2> HIDE DEF b, r, w
  <2>3. <<b>> \in Seq(Blocks) /\ DOMAIN <<b>> = {1} /\ <<b>>[1] = b
    BY <2>2
  <2>4. r.data \in Seq(Blocks) /\ BlocksOf(r) = {b}
    BY <2>1, <2>3 DEF BlocksOf
  <2> QED  BY <2>1, <2>4, <1>2, <1>5 DEF Whole
<1>7. res' = res \/ res' = [res EXCEPT ![w] = r]
  <2> HIDE DEF w, b
  <2> QED  BY <1>1
<1>8. ~OldBlock(b) /\ b[1] = "wake"
  BY DEF OldBlock
<1> HIDE DEF w, b, r
<1>9. ~Laden(r) /\ (OldLane(r) => OldLane(res[w]))
  BY <1>6, <1>8 DEF Laden, OldLane
<1>10. \A l \in Lanes : /\ Calm(res'[l], res[l]) /\ res'[l].msgs = res[l].msgs /\ res'[l].thread = res[l].thread
                        /\ (OldLane(res'[l]) => OldLane(res[l]))
  <2>1. CASE res' = res
    BY <2>1, <1>5 DEF Calm
  <2>2. CASE res' = [res EXCEPT ![w] = r]
    BY <2>2, <1>2, <1>5, <1>6, <1>9 DEF Calm
  <2> QED  BY <1>7, <2>1, <2>2
<1>11. BlockTypes' /\ Gone' /\ Going'
  <2>1. feeder'.kind \in Kinds /\ \A l \in Lanes : Calm(res'[l], res[l])
    BY <1>1, <1>10 DEF FParts, BlockTypes
  <2> QED  BY <2>1, <1>4, CalmMove
<1>12. CASE owner.op = "flush"
  <2>1. Draining' /\ \A l \in Lanes : FlushTold(l)' <=> FlushTold(l)
    <3>1. Step[1] \in {"tell", "wake", "await"} /\ lock' = "owner" /\ Step[1] # "await" /\ Step[1] # "tell" /\ Draining
      BY <1>1 DEF FParts
    <3>2. Draining' /\ \A l \in Lanes : FlushTold(l)' <=> FlushTold(l) \/ (Step[1] = "tell" /\ l = Step[2])
      BY <1>4, <1>12, <3>1, RestDraining
    <3> QED  BY <3>1, <3>2
  <2>2. \A l \in Lanes : FlushAwaited(l)' <=> FlushAwaited(l)
    BY <1>4 DEF FlushAwaited
  <2>3. \A l \in Lanes : (Due(l)' <=> Due(l)) /\ (ToFlush(l)' <=> ToFlush(l))
    <3>1. "vrender" \in Lanes
      BY DEF Lanes
    <3> QED  BY <1>4, <1>10, <2>1, <2>2, <3>1 DEF Due, ToFlush
  <2>4. Flushes'
    <3> SUFFICES ASSUME NEW l \in Lanes
                 PROVE  Flushes!(l)'
      BY DEF Flushes
    <3>1. Flushes!(l)
      BY DEF FParts, Flushes
    <3>2. res'[l].msgs = res[l].msgs /\ (OldLane(res'[l]) => OldLane(res[l])) /\ bits' = bits
      BY <1>1, <1>10
    <3> QED  BY <3>1, <3>2, <1>4, <2>1, <2>3
  <2>5. Pausing' /\ AddsOne'
    BY <1>4, <1>12 DEF Pausing, AddsOne
  <2> QED  BY <1>1, <1>11, <2>1, <2>4, <2>5 DEF FParts
<1>13. CASE owner.op # "flush"
  <2>1. NoFlushLeft
    BY <1>13, NothingDue DEF FParts, Due
  <2>2. NoFlushLeft'
    BY <1>1, <1>10, <2>1, SameLeft
  <2>3. Flushes' /\ Draining'
    BY <1>4, <1>13, <2>2, NothingLeft DEF Draining
  <2>4. Pausing'
    BY <1>2, <1>4, PauseHas DEF FParts, Pausing
  <2>5. AddsOne'
    <3> SUFFICES ASSUME owner.op = "add"
                 PROVE  AddsOne'
      BY <1>4 DEF AddsOne
    <3>1. owner'.await \subseteq {<<l, "close">> : l \in Decoders}
      BY <1>4 DEF FParts, AddsOne
    <3> QED  BY <1>1, <1>4, <3>1, RestAddsOne DEF FParts
  <2> QED  BY <1>1, <1>11, <2>3, <2>4, <2>5 DEF FParts
<1> QED  BY <1>12, <1>13

\* What is awaited has been flushed.
LEMMA AwaitedFlush ==
  ASSUME Parts, FParts, Awaited
  PROVE  FParts'
<1>1. /\ lock = "owner" /\ lock' = lock /\ Step[1] \in {"await", "join"} /\ Step[1] # "none"
      /\ owner.await \subseteq bits /\ bits' = bits \ owner.await
      /\ UNCHANGED <<res, feeder, unflushed>>
  BY DEF Awaited
<1>2. DOMAIN owner = {"op", "todo", "await", "got"}
  BY DEF Parts, OwnerInv
<1>3. /\ owner'.op = owner.op /\ owner'.await = {}
      /\ owner'.todo = IF Step[1] = "join" /\ owner.await = {} THEN <<<<"free">>>> ELSE Rest
  BY <1>2 DEF Awaited
<1>4. BlockTypes' /\ Gone' /\ Going'
  <2>1. feeder'.kind \in Kinds /\ \A l \in Lanes : Calm(res'[l], res[l])
    BY <1>1, CalmSame DEF FParts, BlockTypes
  <2> QED  BY <2>1, <1>3, CalmMove
<1>5. CASE owner.op = "flush"
  <2>1. Step[1] = "await" /\ owner'.todo = Rest
    BY <1>1, <1>3, <1>5, FlushHas DEF FParts
  <2>2. Draining' /\ \A l \in Lanes : FlushTold(l)' <=> FlushTold(l)
    <3>1. Step[1] \in {"tell", "wake", "await"} /\ lock' = "owner" /\ Step[1] # "tell" /\ Draining
      BY <1>1, <2>1 DEF FParts
    <3>2. Draining' /\ \A l \in Lanes : FlushTold(l)' <=> FlushTold(l) \/ (Step[1] = "tell" /\ l = Step[2])
      BY <1>3, <1>5, <2>1, <3>1, RestDraining
    <3> QED  BY <3>1, <3>2
  <2>3. \A l \in Lanes : ToFlush(l)' <=> ToFlush(l)
    BY <1>1 DEF ToFlush
  <2>4. ASSUME NEW l \in Lanes, ToFlush(l) \/ <<l, "flush">> \in bits'
        PROVE  Due(l)'
    <3>1. Flushes!(l)
      BY DEF FParts, Flushes
    <3>2. Due(l)
      BY <1>1, <2>4, <3>1 DEF ToFlush
    <3>3. ~FlushAwaited(l)
      <4>1. FlushAwaited(l) => <<l, "flush">> \in bits /\ <<l, "flush">> \notin bits'
        BY <1>1 DEF FlushAwaited
      <4> QED  BY <4>1, <3>1, <2>4
    <3> QED  BY <1>1, <1>3, <2>2, <3>2, <3>3 DEF Due
  <2>5. Flushes'
    <3> SUFFICES ASSUME NEW l \in Lanes
                 PROVE  Flushes!(l)'
      BY DEF Flushes
    <3>1. Flushes!(l)
      BY DEF FParts, Flushes
    <3>2. \A i \in 1..Len(res[l].msgs) : res[l].msgs[i] = "FLUSH" => ToFlush(l)
      BY DEF ToFlush
    <3>3. <<l, "flush">> \in bits' => <<l, "flush">> \in bits
      BY <1>1
    <3> QED  BY <1>1, <1>3, <2>2, <2>3, <2>4, <3>1, <3>2, <3>3
  <2>6. Pausing' /\ AddsOne'
    BY <1>3, <1>5 DEF Pausing, AddsOne
  <2> QED  BY <1>1, <1>4, <2>2, <2>5, <2>6 DEF FParts
<1>6. CASE owner.op # "flush"
  <2>1. NoFlushLeft
    BY <1>6, NothingDue DEF FParts, Due
  <2>2. NoFlushLeft'
    <3>1. bits' \subseteq bits
      BY <1>1
    <3> QED  BY <1>1, <2>1, <3>1, SameLeft
  <2>3. Flushes' /\ Draining'
    BY <1>3, <1>6, <2>2, NothingLeft DEF Draining
  <2>4. Pausing'
    <3>1. owner.op \notin {"pause", "resume"}
      BY <1>1, PauseHas DEF FParts
    <3> QED  BY <1>3, <3>1 DEF Pausing
  <2>5. AddsOne'
    <3> SUFFICES ASSUME owner.op = "add"
                 PROVE  AddsOne'
      BY <1>3 DEF AddsOne
    <3>1. Step[1] # "join"
      <4>1. <<"await">>[1] = "await"
        OBVIOUS
      <4> QED  BY <1>1, <4>1, AddingHas
    <3>2. owner'.await \subseteq {<<l, "close">> : l \in Decoders} /\ owner'.todo = Rest
      BY <1>3, <3>1
    <3> QED  BY <1>1, <3>2, RestAddsOne DEF FParts
  <2> QED  BY <1>1, <1>4, <2>3, <2>4, <2>5 DEF FParts
<1> QED  BY <1>5, <1>6

\* The call that is at hand, told by its step.
LEMMA WhoseStep ==
  ASSUME Parts, FParts, Step[1] \in {"return", "add", "flushed", "free"}
  PROVE  /\ Step[1] = "return" => owner.op \in {"pause", "resume"}
         /\ Step[1] = "add" => owner.op = "add"
         /\ Step[1] = "flushed" => owner.op = "flush" /\ Togo = 1
         /\ Step[1] = "free" => owner.op = "reset" /\ Togo = 1
<1>1. Step[1] # "none" /\ <<"await">>[1] = "await"
  OBVIOUS
<1>2. owner.op \in {"add", "pause", "resume", "flush", "reset"}
  BY <1>1, StepOf DEF Parts, OwnerInv
<1>3. owner.op = "add" => Step[1] = "add"
  BY <1>1, AddingHas
<1>4. owner.op \in {"pause", "resume"} => Step[1] = "return"
  BY <1>1, PauseHas DEF FParts
<1>5. owner.op = "flush" => Step[1] = "flushed" /\ Togo = 1
  BY <1>1, FlushHas DEF FParts
<1>6. owner.op = "reset" => Step[1] = "free" /\ Togo = 1
  BY <1>1, ResettingHas
<1> QED  BY <1>2, <1>3, <1>4, <1>5, <1>6

\* A call that returns leaves no flush behind.
LEMMA ReturnFlush ==
  ASSUME FParts, Return, NoFlushLeft', BlockTypes', Gone', Going', ~unflushed'
  PROVE  FParts'
<1>1. owner'.op = "none"
  BY DEF Return
<1>2. Draining' /\ Pausing' /\ AddsOne'
  BY <1>1 DEF Draining, Pausing, AddsOne
<1>3. Flushes'
  BY <1>1, NothingLeft
<1> QED  BY <1>2, <1>3 DEF FParts

LEMMA ReturnsFlush ==
  ASSUME Parts, FParts, Returns
  PROVE  FParts'
<1>1. /\ Return /\ Step[1] = "return" /\ UNCHANGED <<res, bits, feeder, unflushed>>
  BY DEF Returns
<1>2. owner.op \in {"pause", "resume"}
  BY <1>1, WhoseStep
<1>3. BlockTypes' /\ Gone' /\ Going'
  <2>1. feeder'.kind \in Kinds /\ \A l \in Lanes : Calm(res'[l], res[l])
    BY <1>1, CalmSame DEF FParts, BlockTypes
  <2> QED  BY <2>1, <1>2, CalmMove
<1>4. NoFlushLeft
  BY <1>2, NothingDue DEF FParts, Due
<1>5. NoFlushLeft'
  BY <1>1, <1>4, SameLeft
<1> QED  BY <1>1, <1>3, <1>5, ReturnFlush DEF FParts

LEMMA AddFlush ==
  ASSUME Parts, FParts, Add
  PROVE  FParts'
<1> DEFINE s == Step[2]
           l == Decoder[s]
           v == s = "video" /\ "vrender" \in set.lanes /\ ~res["vrender"].thread
           opened == [res EXCEPT ![l] = IF l \in set.lanes THEN create_thread_res(@) ELSE @,
                                 !["vrender"] = IF v THEN create_thread_res(@) ELSE @]
<1>1. /\ Return /\ Step[1] = "add" /\ UNCHANGED <<bits, feeder, unflushed>> /\ (res' = res \/ res' = opened)
  BY DEF Add
<1>2. owner.op = "add"
  BY <1>1, WhoseStep
<1>3. s \in Streams /\ l \in Decoders
  BY <1>1, StepOf, TodoKinds DEF Streams, Decoder, Decoders
<1>4. DOMAIN res = Lanes /\ \A k \in Lanes : Whole(res[k])
  BY WholeLanes
<1>5. \A k \in Lanes : res'[k] = res[k] \/ res'[k] = create_thread_res(res[k])
  <2>1. l \in Lanes /\ "vrender" \in Lanes /\ l # "vrender"
    BY <1>3 DEF Lanes, Decoders
  <2>2. CASE res' = opened
    <3> HIDE DEF l, v
    <3> QED  BY <2>1, <2>2, <1>4
  <2> QED  BY <1>1, <2>2
<1>6. \A k \in Lanes : Calm(res'[k], res[k]) /\ res'[k].msgs = res[k].msgs
  <2>1. ASSUME NEW k \in Lanes
        PROVE  Calm(res'[k], res[k]) /\ res'[k].msgs = res[k].msgs
    <3> DEFINE c == create_thread_res(res[k])
    <3>1. Rises(c, res[k]) /\ c.run = "recv"
      BY <1>4, RisesCreated
    <3> HIDE DEF c
    <3>2. Calm(c, res[k]) /\ c.msgs = res[k].msgs
      BY <3>1, RisesWhole, RisesOld DEF Calm, Rises
    <3>3. Calm(res[k], res[k])
      BY <1>4 DEF Calm
    <3> QED  BY <1>5, <3>2, <3>3 DEF c
  <2> QED  BY <2>1
<1>7. BlockTypes' /\ Gone' /\ Going'
  <2>1. feeder'.kind \in Kinds /\ \A k \in Lanes : Calm(res'[k], res[k])
    BY <1>1, <1>6 DEF FParts, BlockTypes
  <2> QED  BY <2>1, <1>2, CalmMove
<1>8. NoFlushLeft
  BY <1>2, NothingDue DEF FParts, Due
<1>9. NoFlushLeft'
  BY <1>1, <1>6, <1>8, SameLeft
<1> QED  BY <1>1, <1>7, <1>9, ReturnFlush DEF FParts

\* With one render thread the flush has been answered by every thread it told.
LEMMA FlushedFlush ==
  ASSUME Parts, FParts, Flushed, raced' = {}
  PROVE  FParts'
<1>1. /\ Return /\ Step[1] = "flushed" /\ UNCHANGED <<res, bits, feeder>>
      /\ unflushed' = (unflushed \/ Old)
      /\ ~(res["arender"].thread /\ res["vrender"].thread)
  BY DEF Flushed
<1>2. owner.op = "flush" /\ Togo = 1
  BY <1>1, WhoseStep
<1>3. BlockTypes' /\ Gone' /\ Going'
  <2>1. feeder'.kind \in Kinds /\ \A l \in Lanes : Calm(res'[l], res[l])
    BY <1>1, CalmSame DEF FParts, BlockTypes
  <2> QED  BY <2>1, <1>2, CalmMove
<1>4. \A l \in Lanes : FlushTold(l) /\ ~FlushAwaited(l)
  <2>1. \A l \in Lanes : 1 < FlushTurn[l] /\ ~(1 >= AwaitTurn[l])
    BY DEF FlushTurn, AwaitTurn, Lanes
  <2> QED  BY <1>2, <2>1 DEF FlushTold, Told, FParts, Draining
<1>5. \A l \in Lanes : ~Due(l)
  BY <1>1, <1>4 DEF Due
<1>6. NoFlushLeft
  BY <1>5, NothingDue DEF FParts
<1>7. \A l \in Lanes : ~OldLane(res[l])
  BY <1>2, <1>4, <1>6 DEF FParts, Flushes, NoFlushLeft
<1>8. ~Old
  BY <1>7 DEF Old, OldLane, BlocksOf
<1>9. NoFlushLeft'
  BY <1>1, <1>6, SameLeft
<1> QED  BY <1>1, <1>3, <1>8, <1>9, ReturnFlush DEF FParts

LEMMA FreeFlush ==
  ASSUME Parts, FParts, Free
  PROVE  FParts'
<1>1. /\ Return /\ Step[1] = "free" /\ bits' = bits /\ unflushed' = unflushed
      /\ res' = [l \in Lanes |-> [Res0 EXCEPT !.run = res[l].run]]
      /\ feeder' = [feeder EXCEPT !.at = "out"]
  BY DEF Free
<1>2. owner.op = "reset" /\ Togo = 1
  BY <1>1, WhoseStep
<1>3. \A l \in Lanes : res'[l] = Res0
  <2>1. \A l \in Lanes : res[l].run = "off"
    BY <1>2 DEF Parts, SecondRound
  <2>2. [Res0 EXCEPT !.run = "off"] = Res0
    BY DEF Res0
  <2> QED  BY <1>1, <2>1, <2>2
<1>4. /\ Res0.data = <<>> /\ Res0.run = "off" /\ Res0.block \in Blocks /\ Res0.msgs = <<>> /\ ~Laden(Res0)
      /\ Res0.data \in Seq(Blocks)
  <2>1. Res0.data = <<>> /\ Res0.run = "off" /\ Res0.block = <<"none", FALSE>> /\ Res0.msgs = <<>>
    BY DEF Res0
  <2>2. <<"none", FALSE>> \in Blocks
    BY DEF Blocks, Kinds
  <2>3. ~Laden(Res0) /\ Res0.data \in Seq(Blocks)
    BY <2>1, NoBlocks
  <2> QED  BY <2>1, <2>2, <2>3
<1>5. feeder'.kind \in Kinds
  <2>1. DOMAIN feeder = {"at", "lane", "kind"} /\ feeder.kind \in Kinds
    BY DEF Parts, OwnerInv, FParts, BlockTypes
  <2> QED  BY <1>1, <2>1
<1>6. BlockTypes' /\ Gone' /\ Going'
  <2>1. \A l \in Decoders : l \in Lanes
    BY DEF Decoders, Lanes
  <2> QED  BY <1>3, <1>4, <1>5, <2>1 DEF BlockTypes, Gone, Going
<1>7. NoFlushLeft
  BY <1>2, NothingDue DEF FParts, Due
<1>8. NoFlushLeft'
  <2>1. \A l \in Lanes : res'[l].msgs = <<>>
    BY <1>3, <1>4
  <2>2. \A i \in 1..Len(<<>>) : FALSE
    OBVIOUS
  <2>3. \A l \in Lanes : ~ToFlush(l)'
    BY <2>1, <2>2 DEF ToFlush
  <2> QED  BY <1>1, <1>7, <2>3 DEF NoFlushLeft
<1> QED  BY <1>1, <1>6, <1>8, ReturnFlush DEF FParts

\* What telling a thread does to the blocks: a decoder that is flushed has its render's emptied.
LEMMA TellBlocks ==
  ASSUME Parts, FParts, Tell
  PROVE  /\ unflushed' = unflushed
         /\ \A k \in Lanes : res'[k].block = res[k].block /\ (res'[k].data = res[k].data \/ res'[k].data = <<>>)
         /\ Spared(Step[2], Step[3]) => res' = res /\ owner'.todo = Rest /\ owner'.await = owner.await
         /\ ~Spared(Step[2], Step[3]) => owner'.todo # Rest
<1> DEFINE l == Step[2]
           m == Step[3]
           d == Render[StreamOf[l]]
           r == [res[l] EXCEPT !.msgs = Append(@, m), !.flushing = @ \/ m = "FLUSH"]
           told == [res EXCEPT ![l] = r]
           f == [told[d] EXCEPT !.flushing = TRUE, !.data = << >>]
<1>1. Step[1] = "tell" /\ NoLanes /\ l \in Lanes /\ m \in Messages /\ Step[1] # "none"
  BY StepOf, TodoKinds DEF Tell
<1>2. DOMAIN owner = {"op", "todo", "await", "got"} /\ DOMAIN res = Lanes /\ \A k \in Lanes : DOMAIN res[k] = DOMAIN Res0
  BY DEF Parts, OwnerInv, LanesInv, LaneInv
<1>3. d \in Lanes
  BY <1>1 DEF Lanes, Render, StreamOf
<1>4. CASE Spared(l, m)
  <2>1. owner' = [owner EXCEPT !.todo = Rest] /\ res' = res
    BY <1>4 DEF Tell
  <2> QED  BY <2>1, <1>1, <1>2, <1>4 DEF NoLanes
<1>5. CASE ~Spared(l, m)
  <2>1. told = [res EXCEPT ![l].msgs = Append(@, m), ![l].flushing = @ \/ m = "FLUSH"]
    BY <1>1, <1>2, FieldsOf
  <2>2. res' = told \/ res' = [told EXCEPT ![d].flushing = TRUE, ![d].data = << >>]
    BY <2>1, <1>5 DEF Tell
  <2>3. r.data = res[l].data /\ r.block = res[l].block /\ DOMAIN r = DOMAIN Res0
    BY <1>1, <1>2, FieldsOf
  <2>4. DOMAIN told = Lanes
    BY <1>2
  <2>5. [told EXCEPT ![d].flushing = TRUE, ![d].data = << >>] = [told EXCEPT ![d] = f]
    <3> HIDE DEF told, d
    <3> QED  BY <1>3, <2>4
  <2>6. \A k \in Lanes : told[k].data = res[k].data /\ told[k].block = res[k].block /\ DOMAIN told[k] = DOMAIN Res0
    <3> HIDE DEF r
    <3>1. told[l] = r /\ \A k \in Lanes : k # l => told[k] = res[k]
      BY <1>1, <1>2
    <3> HIDE DEF told
    <3> QED  BY <3>1, <2>3, <1>2
  <2> HIDE DEF told, r
  <2>7. f.data = <<>> /\ f.block = told[d].block
    BY <1>3, <2>6, FieldsOf
  <2> HIDE DEF f
  <2>8. \A k \in Lanes : res'[k].block = res[k].block /\ (res'[k].data = res[k].data \/ res'[k].data = <<>>)
    <3>1. CASE res' = told
      BY <3>1, <2>6
    <3>2. CASE res' = [told EXCEPT ![d] = f]
      <4>1. res'[d] = f /\ \A k \in Lanes : k # d => res'[k] = told[k]
        BY <3>2, <1>3, <2>4
      <4> QED  BY <4>1, <2>6, <2>7
    <3> QED  BY <2>2, <2>5, <3>1, <3>2
  <2>9. owner'.todo # Rest
    <3>1. owner'.todo = <<<<"wake", l>>>> \o Rest
      <4> DEFINE a == CASE m = "CLOSE" -> owner.await \cup {<<l, "close">>}
                        [] m = "FLUSH" -> {<<l, "flush">>}
                        [] OTHER       -> owner.await
      <4>1. owner' = [owner EXCEPT !.todo = <<<<"wake", l>>>> \o Rest, !.await = a]
        BY <1>5 DEF Tell
      <4> HIDE DEF a, l
      <4> QED  BY <4>1, <1>2
    <3>2. Togo' = Togo
      BY <3>1, <1>1, WokenShape
    <3>3. owner'.todo = Rest => Togo' = Togo - 1
      BY <1>1, RestShape
    <3>4. Togo \in Nat
      BY <1>1, StepOf
    <3> QED  BY <3>2, <3>3, <3>4
  <2> QED  BY <1>1, <1>5, <2>8, <2>9 DEF NoLanes
<1> QED  BY <1>4, <1>5

LEMMA TellFlushAt ==
  ASSUME Parts, FParts, Tell, NEW l \in Lanes, l = Step[2]
  PROVE  FParts'
<1> DEFINE m == Step[3]
<1>1. /\ l \in Lanes /\ m \in Messages /\ lock' = "owner" /\ Step[1] = "tell" /\ Step[1] # "none"
      /\ UNCHANGED <<bits, feeder, unflushed>> /\ owner'.op = owner.op
      /\ \/ Spared(l, m) /\ owner'.todo = Rest /\ owner'.await = owner.await /\ res' = res
         \/ /\ res[l].thread /\ owner'.todo = <<<<"wake", l>>>> \o Rest
            /\ owner'.await = CASE m = "CLOSE" -> owner.await \cup {<<l, "close">>}
                                [] m = "FLUSH" -> {<<l, "flush">>}
                                [] OTHER       -> owner.await
            /\ \A k \in Lanes :
                 /\ DOMAIN res'[k] = DOMAIN res[k]
                 /\ res'[k].thread = res[k].thread /\ res'[k].run = res[k].run
                 /\ res'[k].msgs = IF k = l THEN Append(res[k].msgs, m) ELSE res[k].msgs
  <2>1. Step[1] = "tell" /\ Step[1] # "none"
    BY DEF Tell
  <2>2. l \in Lanes /\ m \in Messages /\ lock' = "owner" /\ UNCHANGED <<bits, feeder>> /\ owner'.op = owner.op
    BY TellDoes
  <2>3. unflushed' = unflushed
    BY TellBlocks
  <2> QED  BY <2>1, <2>2, <2>3, TellDoes
<1>2. \A k \in Lanes : res'[k].block = res[k].block /\ (res'[k].data = res[k].data \/ res'[k].data = <<>>)
  BY TellBlocks
<1> HIDE DEF m
<1>3. \A k \in Lanes : Whole(res[k]) /\ res[k].msgs \in Seq(Messages)
  BY WholeLanes DEF Parts, LanesInv, LaneInv
<1>4. \A k \in Lanes : res'[k].run = res[k].run /\ res'[k].thread = res[k].thread /\ DOMAIN res'[k] = DOMAIN res[k]
  BY <1>1
<1>5. \A k \in Lanes : Calm(res'[k], res[k]) /\ (OldLane(res'[k]) => OldLane(res[k]))
  <2>1. ASSUME NEW k \in Lanes
        PROVE  Calm(res'[k], res[k]) /\ (OldLane(res'[k]) => OldLane(res[k]))
    <3>1. CASE res'[k].data = res[k].data
      BY <3>1, <1>2, <1>3, <1>4 DEF Calm, Whole, Laden, OldLane, BlocksOf
    <3>2. CASE res'[k].data = <<>>
      <4>1. res'[k].data \in Seq(Blocks) /\ BlocksOf(res'[k]) = {} /\ ~Laden(res'[k])
        BY <3>2, NoBlocks
      <4> QED  BY <4>1, <1>2, <1>3, <1>4 DEF Calm, Whole, OldLane
    <3> QED  BY <3>1, <3>2, <1>2
  <2> QED  BY <2>1
<1>6. BlockTypes' /\ Gone' /\ Going'
  <2>1. feeder'.kind \in Kinds /\ \A k \in Lanes : Calm(res'[k], res[k])
    BY <1>1, <1>5 DEF FParts, BlockTypes
  <2> QED  BY <2>1, <1>1, CalmMove
<1>7. CASE owner.op = "flush"
  <2>1. m = "FLUSH" /\ FlushTurn[l] = Togo /\ Togo \in {3, 4, 6, 8} /\ ~FlushTold(l) /\ Draining
    <3>1. m = "FLUSH" /\ FlushTurn[l] = Togo /\ Togo \in {3, 4, 6, 8} /\ ~Waking
      BY <1>1, <1>7, FlushHas DEF FParts, m
    <3> QED  BY <3>1 DEF FlushTold, Told, FParts
  <2>2. ~Due(l) /\ ~ToFlush(l) /\ <<l, "flush">> \notin bits
    BY <1>1, <2>1 DEF FParts, Flushes, Due, ToFlush
  <2>3. CASE Spared(l, m) /\ owner'.todo = Rest /\ owner'.await = owner.await /\ res' = res
    <3>1. Draining' /\ \A k \in Lanes : FlushTold(k)' <=> FlushTold(k) \/ k = l
      <4>1. Step[1] \in {"tell", "wake", "await"} /\ Step[1] # "await"
        BY <1>1
      <4>2. Draining' /\ \A k \in Lanes : FlushTold(k)' <=> FlushTold(k) \/ (Step[1] = "tell" /\ k = Step[2])
        BY <1>1, <1>7, <2>1, <2>3, <4>1, RestDraining
      <4> QED  BY <1>1, <4>2
    <3>2. ~res[l].thread
      BY <2>1, <2>3 DEF Spared
    <3>3. res[l].run = "off"
      <4>1. ~CloseAwaited(l) /\ LaneInv(l)
        BY <1>1, <1>7 DEF Parts, Mild, LanesInv
      <4> QED  BY <3>2, <4>1 DEF LaneInv
    <3>4. ~OldLane(res[l])
      <4>1. ~Laden(res[l])
        BY <1>1, <1>7, <3>3 DEF FParts, Gone
      <4> QED  BY <3>3, <4>1 DEF OldLane, Laden, OldBlock
    <3>5. \A k \in Lanes : (FlushAwaited(k)' <=> FlushAwaited(k)) /\ (ToFlush(k)' <=> ToFlush(k))
      BY <2>3 DEF FlushAwaited, ToFlush
    <3>6. \A k \in Lanes : Due(k) => Due(k)'
      BY <1>1, <2>3, <3>1, <3>5 DEF Due
    <3>7. Flushes'
      <4> SUFFICES ASSUME NEW k \in Lanes
                   PROVE  Flushes!(k)'
        BY DEF Flushes
      <4>1. Flushes!(k)
        BY DEF FParts, Flushes
      <4>2. \A i \in 1..Len(res'[k].msgs) : res'[k].msgs[i] = "FLUSH" => i = Len(res'[k].msgs) /\ Due(k)'
        BY <2>3, <3>6, <4>1
      <4>3. <<k, "flush">> \in bits' => Due(k)' /\ ~OldLane(res'[k]) /\ ~ToFlush(k)'
        BY <1>1, <2>3, <3>5, <3>6, <4>1
      <4>4. owner'.op = "flush" /\ FlushTold(k)' => ~OldLane(res'[k]) \/ ToFlush(k)'
        BY <1>1, <2>3, <3>1, <3>4, <3>5, <4>1
      <4> QED  BY <4>2, <4>3, <4>4
    <3>8. Pausing' /\ AddsOne'
      BY <1>1, <1>7 DEF Pausing, AddsOne
    <3> QED  BY <1>1, <1>6, <3>1, <3>7, <3>8 DEF FParts
  <2>4. CASE /\ res[l].thread /\ owner'.todo = <<<<"wake", l>>>> \o Rest /\ owner'.await = {<<l, "flush">>}
             /\ \A k \in Lanes : res'[k].msgs = IF k = l THEN Append(res[k].msgs, m) ELSE res[k].msgs
    <3>1. /\ Draining' /\ \A k \in Lanes : FlushTold(k)' <=> FlushTold(k) \/ k = l
          /\ \A k \in Lanes : FlushAwaited(k)' <=> k = l
      <4> QED  BY <1>1, <1>7, <2>1, <2>4, WokenDraining
    <3>2. ASSUME NEW k \in Lanes, Due(k)
          PROVE  Due(k)'
      <4>1. FlushTold(k)' /\ res'[k].thread
        BY <1>4, <3>1, <3>2 DEF Due
      <4>2. CASE k = "arender" /\ res["vrender"].thread
        <5>1. "vrender" \in Lanes
          BY DEF Lanes
        <5> QED  BY <4>1, <4>2, <5>1, <1>1, <1>4, <1>7 DEF Due
      <4>3. CASE FlushAwaited(k)
        <5>1. Togo >= AwaitTurn[k] /\ FlushTold(k) /\ k # l
          BY <1>7, <2>1, <3>2, <4>3 DEF Draining, Due
        <5>2. /\ FlushTurn["adec"] = 8 /\ FlushTurn["vdec"] = 6 /\ FlushTurn["arender"] = 4 /\ FlushTurn["vrender"] = 3
              /\ AwaitTurn["adec"] = 7 /\ AwaitTurn["vdec"] = 5 /\ AwaitTurn["arender"] = 2 /\ AwaitTurn["vrender"] = 2
          BY DEF FlushTurn, AwaitTurn
        <5>3. Togo <= FlushTurn[k]
          BY <5>1, <5>2, <2>1 DEF FlushTold, Told, Lanes
        <5>4. FlushTurn[k] # FlushTurn[l]
          BY <1>1, <5>1, <5>2 DEF Lanes
        <5>5. k = "arender" /\ l = "vrender"
          BY <1>1, <2>1, <5>1, <5>2, <5>3, <5>4 DEF Lanes
        <5> QED  BY <2>4, <4>2, <5>5
      <4> QED  BY <3>2, <4>2, <4>3 DEF Due
    <3>3. \A k \in Lanes \ {l} : Flushes!(k)'
      <4>1. ASSUME NEW k \in Lanes \ {l}
            PROVE  Flushes!(k)'
        <5>1. Flushes!(k)
          BY DEF FParts, Flushes
        <5>2. res'[k].msgs = res[k].msgs /\ (ToFlush(k)' <=> ToFlush(k)) /\ (OldLane(res'[k]) => OldLane(res[k]))
          BY <1>5, <2>4 DEF ToFlush
        <5>3. (Due(k) => Due(k)') /\ (FlushTold(k)' <=> FlushTold(k)) /\ bits' = bits /\ owner'.op = owner.op
          BY <1>1, <3>1, <3>2
        <5> QED  BY <5>1, <5>2, <5>3
      <4> QED  BY <4>1
    <3>4. Flushes!(l)'
      <4>1. /\ Len(res'[l].msgs) = Len(res[l].msgs) + 1 /\ Len(res[l].msgs) \in Nat
            /\ res'[l].msgs[Len(res[l].msgs) + 1] = m
            /\ \A i \in 1..Len(res[l].msgs) : res'[l].msgs[i] = res[l].msgs[i]
        <5>1. res'[l].msgs = Append(res[l].msgs, m) /\ res[l].msgs \in Seq(Messages)
          BY <1>1, <1>3, <2>4
        <5> QED  BY <1>1, <5>1, AppendedMessage
      <4>2. Due(l)'
        BY <1>1, <1>4, <1>7, <2>4, <3>1 DEF Due
      <4>3. \A i \in 1..Len(res'[l].msgs) : res'[l].msgs[i] = "FLUSH" => i = Len(res'[l].msgs)
        <5>1. \A i \in 1..Len(res[l].msgs) : res[l].msgs[i] # "FLUSH"
          BY <2>2 DEF ToFlush
        <5>2. \A i \in 1..Len(res'[l].msgs) : i \in 1..Len(res[l].msgs) \/ i = Len(res'[l].msgs)
          BY <4>1
        <5> QED  BY <4>1, <5>1, <5>2
      <4>4. ToFlush(l)'
        <5>1. Len(res[l].msgs) + 1 \in 1..Len(res'[l].msgs)
          BY <4>1
        <5> QED  BY <2>1, <4>1, <5>1 DEF ToFlush
      <4>5. <<l, "flush">> \notin bits'
        BY <1>1, <2>2
      <4> QED  BY <4>2, <4>3, <4>4, <4>5
    <3>5. Flushes'
      BY <3>3, <3>4 DEF Flushes
    <3>6. Pausing' /\ AddsOne'
      BY <1>1, <1>7 DEF Pausing, AddsOne
    <3> QED  BY <1>1, <1>6, <3>1, <3>5, <3>6 DEF FParts
  <2> QED  BY <1>1, <2>1, <2>3, <2>4
<1>8. CASE owner.op # "flush"
  <2>1. m # "FLUSH" /\ (owner.op = "add" => l \in Decoders)
    <3>1. owner.op \in {"add", "pause", "resume", "reset"}
      BY <1>1, <1>8, StepOf DEF Parts, OwnerInv
    <3>2. CASE owner.op \in {"pause", "resume"}
      BY <3>2, <1>1, PauseHas DEF FParts, m
    <3>3. CASE owner.op = "add"
      <4>1. m = "CLOSE"
        <5>1. <<"await">>[1] = "await"
          OBVIOUS
        <5> QED  BY <3>3, <5>1, <1>1, AddingHas DEF m
      <4>2. l \in Decoders
        BY <3>3, <1>1 DEF FParts, AddsOne
      <4> QED  BY <4>1, <4>2
    <3>4. CASE owner.op = "reset"
      BY <3>4, <1>1, ResettingHas DEF m
    <3> QED  BY <3>1, <3>2, <3>3, <3>4
  <2>2. NoFlushLeft
    BY <1>8, NothingDue DEF FParts, Due
  <2>3. NoFlushLeft'
    <3>1. ASSUME NEW k \in Lanes
          PROVE  ~ToFlush(k)'
      <4>1. CASE res'[k].msgs = res[k].msgs
        BY <4>1, <2>2 DEF NoFlushLeft, ToFlush
      <4>2. CASE res'[k].msgs = Append(res[k].msgs, m)
        <5>1. /\ Len(res'[k].msgs) = Len(res[k].msgs) + 1 /\ Len(res[k].msgs) \in Nat
              /\ res'[k].msgs[Len(res[k].msgs) + 1] = m
              /\ \A i \in 1..Len(res[k].msgs) : res'[k].msgs[i] = res[k].msgs[i]
          BY <1>1, <1>3, <4>2, AppendedMessage
        <5>2. \A i \in 1..Len(res[k].msgs) : res[k].msgs[i] # "FLUSH"
          BY <2>2 DEF NoFlushLeft, ToFlush
        <5>3. \A i \in 1..Len(res'[k].msgs) : i \in 1..Len(res[k].msgs) \/ i = Len(res[k].msgs) + 1
          BY <5>1
        <5>4. \A i \in 1..Len(res'[k].msgs) : res'[k].msgs[i] # "FLUSH"
          BY <2>1, <5>1, <5>2, <5>3
        <5> QED  BY <5>4 DEF ToFlush
      <4> QED  BY <1>1, <4>1, <4>2
    <3> QED  BY <1>1, <2>2, <3>1 DEF NoFlushLeft
  <2>4. Flushes' /\ Draining'
    BY <1>1, <1>8, <2>3, NothingLeft DEF Draining
  <2>5. owner'.todo = Rest \/ owner'.todo = <<<<"wake", l>>>> \o Rest
    BY <1>1
  <2>6. Pausing'
    BY <1>1, <2>5, PauseHas DEF FParts, Pausing
  <2>7. AddsOne'
    <3> SUFFICES ASSUME owner.op = "add"
                 PROVE  AddsOne'
      BY <1>1 DEF AddsOne
    <3>1. owner'.await \subseteq {<<k, "close">> : k \in Decoders}
      <4>1. owner.await \subseteq {<<k, "close">> : k \in Decoders}
        BY DEF FParts, AddsOne
      <4>2. owner'.await = owner.await \/ owner'.await = owner.await \cup {<<l, "close">>}
        BY <1>1, <2>1
      <4> QED  BY <2>1, <4>1, <4>2
    <3>2. CASE owner'.todo = Rest
      BY <1>1, <3>1, <3>2, RestAddsOne DEF FParts
    <3>3. CASE owner'.todo = <<<<"wake", l>>>> \o Rest
      <4>1. Step'[1] = "wake"
        BY <1>1, <3>3, WokenShape DEF Waking
      <4> QED  BY <3>1, <4>1 DEF AddsOne
    <3> QED  BY <2>5, <3>2, <3>3
  <2> QED  BY <1>1, <1>6, <2>4, <2>6, <2>7 DEF FParts
<1> QED  BY <1>7, <1>8

LEMMA TellFlush ==
  ASSUME Parts, FParts, Tell
  PROVE  FParts'
<1>1. Step[1] = "tell" /\ Step[1] # "none"
  BY DEF Tell
<1>2. Step[2] \in Lanes
  BY <1>1, StepOf, TodoKinds
<1> QED  BY <1>2, TellFlushAt

LEMMA FlushInitInv == AvInit => FlushInv
<1> SUFFICES ASSUME AvInit
             PROVE  Parts /\ FParts
  BY DEF FlushInv
<1>1. /\ res = [l \in Lanes |-> Res0] /\ bits = {} /\ raced = {} /\ unflushed = FALSE
      /\ owner = [op |-> "none", todo |-> << >>, await |-> {}, got |-> {}]
      /\ feeder = [at |-> "out", lane |-> "adec", kind |-> "none"]
  BY DEF AvInit
<1>2. Parts
  BY <1>1, AvInitInv DEF AvInv, InTurn
<1>3. /\ Res0.data = <<>> /\ Res0.run = "off" /\ Res0.block \in Blocks /\ Res0.msgs = <<>> /\ ~Laden(Res0)
      /\ Res0.data \in Seq(Blocks)
  <2>1. Res0.data = <<>> /\ Res0.run = "off" /\ Res0.block = <<"none", FALSE>> /\ Res0.msgs = <<>>
    BY DEF Res0
  <2>2. <<"none", FALSE>> \in Blocks
    BY DEF Blocks, Kinds
  <2>3. ~Laden(Res0) /\ Res0.data \in Seq(Blocks)
    BY <2>1, NoBlocks
  <2> QED  BY <2>1, <2>2, <2>3
<1>4. \A l \in Lanes : res[l] = Res0
  BY <1>1
<1>5. BlockTypes /\ Gone /\ Going
  <2>1. \A l \in Decoders : l \in Lanes
    BY DEF Decoders, Lanes
  <2>2. feeder.kind \in Kinds
    BY <1>1 DEF Kinds
  <2> QED  BY <1>3, <1>4, <2>1, <2>2 DEF BlockTypes, Gone, Going
<1>6. owner.op = "none"
  BY <1>1
<1>7. Flushes
  <2>1. \A i \in 1..Len(<<>>) : FALSE
    OBVIOUS
  <2>2. \A l \in Lanes : res[l].msgs = <<>> /\ <<l, "flush">> \notin bits
    BY <1>1, <1>3, <1>4
  <2> QED  BY <2>1, <2>2, <1>6 DEF Flushes
<1>8. Draining /\ Pausing /\ AddsOne
  BY <1>6 DEF Draining, Pausing, AddsOne
<1> QED  BY <1>1, <1>2, <1>5, <1>7, <1>8 DEF FParts

LEMMA FlushNextInv ==
  ASSUME FlushInv, AvNext
  PROVE  FlushInv'
<1> SUFFICES ASSUME raced' = {}
             PROVE  (Parts /\ FParts)'
  BY DEF FlushInv
<1>1. raced = {} /\ InTurn'
  BY RacedGrows DEF InTurn
<1>2. Parts /\ FParts
  BY <1>1 DEF FlushInv
<1>3. Parts'
  BY <1>1, <1>2, AvNextInv DEF AvInv
<1>4. Call \/ OwnerSteps => FParts'
  BY <1>2, CallFlush, TakeLockFlush, TellFlush, WakeFlush, AwaitedFlush, ReturnsFlush, AddFlush, FlushedFlush,
     FreeFlush
  DEF OwnerSteps
<1>5. AddData \/ PutData => FParts'
  BY <1>2, AddDataFlush, PutDataFlush
<1>6. ASSUME NEW l \in Lanes, LaneSteps(l)
      PROVE  FParts'
  <2>1. NoMessage(l) \/ Read(l) \/ (l \notin Decoders /\ RenderBody(l)) => FParts'
    BY <1>2, ReadFlush, RenderFlush
  <2>2. LanesInv'
    BY <1>3 DEF Parts
  <2>3. GotMessage(l) \/ ThreadExit(l) => FParts'
    BY <1>2, <2>2, GotMessageFlush, ThreadExitFlush
  <2>4. DecodesNothing(l) \/ Decodes(l) \/ Puts(l) => FParts'
    BY <1>1, <1>2, DecodesNothingFlush, DecodesFlush, PutsFlush
  <2> QED  BY <1>6, <2>1, <2>3, <2>4 DEF LaneSteps
<1> QED  BY <1>3, <1>4, <1>5, <1>6 DEF AvNext

LEMMA FlushKept ==
  ASSUME FlushInv, UNCHANGED av
  PROVE  FlushInv'
<1>1. UNCHANGED <<res, open, bits, lock, owner, feeder, raced, unflushed>>
  BY DEF av, player
<1> SUFFICES ASSUME raced' = {}
             PROVE  (Parts /\ FParts)'
  BY DEF FlushInv
<1>2. Parts /\ FParts
  BY <1>1 DEF FlushInv
<1>3. Parts'
  BY <1>1, <1>2 DEF Parts, LanesInv, LaneInv, CloseAwaited, OwnerInv, Mild, Adding,
             Resetting, FirstRound, SecondRound, Togo, Waking, Step, Told
<1>4. OwnerKept
  BY <1>1 DEF OwnerKept
<1>5. BlockTypes' /\ Gone' /\ Going'
  BY <1>1, <1>2 DEF FParts, BlockTypes, Gone, Going
<1>6. FParts'
  BY <1>1, <1>2, <1>4, <1>5, FlushMove
<1> QED  BY <1>3, <1>6

\* FlushLeavesNothing, for every set of players, length of the queues and number of
\* calls: when av_render_flush returns no block that was queued before is left, neither in
\* a queue nor in a thread's hands, although the decoders put out frames while the renders
\* are flushed and the feeder goes on.
THEOREM FlushesLeaveNothing == Spec => []FlushLeavesNothing
<1>1. Init => FlushInv
  BY FlushInitInv DEF Init
<1>2. FlushInv /\ [Next]_vars => FlushInv'
  BY FlushNextInv, FlushKept DEF Next, vars
<1>3. FlushInv => FlushLeavesNothing
  BY DEF FlushInv, FParts, FlushLeavesNothing
<1> QED  BY <1>1, <1>2, <1>3, PTL DEF Spec
=============================================================================
