--------------------------- MODULE PlatformProofs ---------------------------
(***************************************************************************)
(* Proofs about what the applications stand on.  The clock of the pictures *)
(* and the HTTPS client have specifications of their own; the other parts  *)
(* are proved about as parts of MCPlatform's specification, in which one   *)
(* part runs and the rest stands still.  Each has an inductive invariant   *)
(* of its own, and none of them looks at another part.                     *)
(***************************************************************************)
EXTENDS MCPlatform, SequenceTheorems, FiniteSetTheorems, WellFoundedInduction, TLAPS

-----------------------------------------------------------------------------
(* The clock of the pictures: for every queue, tolerance and width of the   *)
(* clock, and whatever the clocks show, resynchronising hides no frame that *)
(* the application wants, as long as the stream does not go back.  No step  *)
(* of the argument looks at a time: what counts is that the frames in the   *)
(* queue come in their order, before those the feeder is to decode.         *)

SyncTypes ==
  /\ frames \in Seq(Int) /\ next \in 0..Wrap - 1 /\ wanted \in Int /\ clock \in Int
  /\ video \in [start_pts : Int, start_time : Int, sent : BOOLEAN]

\* The frame the render thread is at stays in the queue.
Holds == AtFrame => frames # <<>>

Places == 1..Len(frames)
Ordered == \A i, j \in Places : i < j => frames[i] < frames[j]
Before == \A i \in Places : frames[i] < next

\* The clock was started with a frame that came before all that are to come.
Passed ==
  /\ \A i \in Places : video.start_pts < frames[i]
  /\ ~back => video.start_pts < next

Forward ==
  /\ Ordered
  /\ ~back => Before
  /\ video.start_pts <= wanted \/ Passed

SyncInv == SyncTypes /\ Holds /\ (~rewound => Forward) /\ WantedIsShown

\* The position after the last one is the first: the stream goes back there.
LEMMA PlusOne ==
  ASSUME NEW n \in 0..Wrap - 1
  PROVE  Plus(n, 1) \in 0..Wrap - 1 /\ (Plus(n, 1) < n \/ Plus(n, 1) = n + 1)
<1>1. Wrap \in Nat /\ Wrap > 1
  BY SyncAssumption
<1>2. CASE n = Wrap - 1
  <2>1. Plus(n, 1) = Wrap % Wrap
    BY <1>1, <1>2 DEF Plus
  <2>2. Wrap % Wrap = 0
    BY <1>1
  <2> QED  BY <1>1, <1>2, <2>1, <2>2
<1>3. CASE n # Wrap - 1
  <2>1. n + 1 \in 0..Wrap - 1
    BY <1>1, <1>3
  <2>2. \A m \in 0..Wrap - 1 : m % Wrap = m
    BY <1>1
  <2> QED  BY <2>1, <2>2 DEF Plus
<1> QED  BY <1>2, <1>3

LEMMA InitSyncInv == SyncInit => SyncInv
<1> SUFFICES ASSUME SyncInit  PROVE SyncInv
  OBVIOUS
<1>1. /\ frames = <<>> /\ next = 0 /\ wanted = 0 /\ clock = 0 /\ wake = None
      /\ video = [start_pts |-> 0, start_time |-> 0, sent |-> FALSE]
      /\ back = FALSE /\ missed = FALSE
  BY DEF SyncInit
<1>2. SyncTypes /\ Holds /\ Places = {}
  BY <1>1, SyncAssumption DEF SyncTypes, Holds, AtFrame, Places
<1>3. Forward
  BY <1>1, <1>2 DEF Forward, Ordered, Before
<1> QED  BY <1>1, <1>2, <1>3 DEF SyncInv, WantedIsShown

-----------------------------------------------------------------------------
(* The render thread takes frames from the front *)

\* The rest of an ordered queue is ordered, and later than what was taken.
LEMMA TailForward ==
  ASSUME SyncTypes, frames # <<>>, frames' = Tail(frames)
  PROVE  /\ frames' \in Seq(Int) /\ Head(frames) \in Int
         /\ \A i \in Places' : i + 1 \in Places /\ frames'[i] = frames[i + 1]
         /\ 1 \in Places /\ Head(frames) = frames[1]
BY DEF SyncTypes, Places

\* A frame that is not shown (or is shown without the clock) leaves the rest as
\* it was.
LEMMA TakenForward ==
  ASSUME SyncTypes, Forward, frames # <<>>, frames' = Tail(frames),
         UNCHANGED <<video, wanted, next, back>>
  PROVE  Forward'
<1>1. \A i \in Places' : i + 1 \in Places /\ frames'[i] = frames[i + 1]
  BY TailForward
<1>2. \A i, j \in Places' : i < j => i + 1 < j + 1
  BY DEF Places
<1>3. Ordered'
  BY <1>1, <1>2 DEF Forward, Ordered
<1>4. (~back => Before)'
  BY <1>1 DEF Forward, Before
<1>5. (video.start_pts <= wanted \/ Passed)'
  BY <1>1 DEF Forward, Passed
<1> QED  BY <1>3, <1>4, <1>5 DEF Forward

\* The frame the clock is started with is before the rest.
LEMMA StartedForward ==
  ASSUME SyncTypes, Forward, frames # <<>>, frames' = Tail(frames), video' = Started,
         UNCHANGED <<wanted, next, back>>
  PROVE  Forward'
<1>1. CASE video.sent
  BY <1>1, TakenForward DEF Started
<1>2. CASE ~video.sent
  <2>1. /\ \A i \in Places' : i + 1 \in Places /\ frames'[i] = frames[i + 1]
        /\ 1 \in Places /\ Head(frames) = frames[1]
    BY TailForward
  <2>2. /\ \A i, j \in Places' : i < j => i + 1 < j + 1
        /\ \A i \in Places' : 1 < i + 1
    BY DEF Places
  <2>3. video'.start_pts = Head(frames)
    BY <1>2 DEF Started
  <2>4. Ordered' /\ (~back => Before)'
    BY <2>1, <2>2 DEF Forward, Ordered, Before
  <2>5. Passed'
    <3>1. \A i \in Places' : Head(frames) < frames'[i]
      BY <2>1, <2>2 DEF Forward, Ordered
    <3>2. ~back => Head(frames) < next
      BY <2>1 DEF Forward, Before
    <3> QED  BY <2>3, <3>1, <3>2 DEF Passed
  <2> QED  BY <2>4, <2>5 DEF Forward
<1> QED  BY <1>1, <1>2

-----------------------------------------------------------------------------
(* Every step *)

\* The steps that leave frames, start and feeder alone.
LEMMA UntouchedInv ==
  ASSUME SyncInv, clock' \in Int,
         UNCHANGED <<frames, next, wanted, wake, video, back, rewound, missed>>
  PROVE  SyncInv'
BY DEF SyncInv, SyncTypes, Holds, AtFrame, Places, Ordered, Before, Passed, Forward,
       WantedIsShown

LEMMA TickInv == SyncInv /\ Tick => SyncInv'
BY UntouchedInv DEF SyncInv, SyncTypes, Tick, history

LEMMA AudioPlaysInv == SyncInv /\ AudioPlays => SyncInv'
BY UntouchedInv DEF SyncInv, SyncTypes, AudioPlays, history

\* A frame is decoded, or skipped, after all that are in the queue.
LEMMA DecodeInv == SyncInv /\ (Decode \/ Skip) => SyncInv'
<1> SUFFICES ASSUME SyncInv, Decode \/ Skip
             PROVE  SyncInv'
  OBVIOUS
<1>1. /\ next' = Plus(next, 1) /\ back' = (next' < next) /\ rewound' = (rewound \/ back)
      /\ UNCHANGED <<clock, wake, video, wanted, missed>>
  BY DEF Decode, Skip, Decoded
<1>6. next' \in 0..Wrap - 1 /\ (~back' => next' = next + 1)
  <2>1. next \in 0..Wrap - 1
    BY DEF SyncInv, SyncTypes
  <2> QED  BY <1>1, <2>1, PlusOne
<1>2. frames' = frames \/ frames' = Append(frames, next)
  BY DEF Decode, Skip
<1>3. SyncTypes' /\ Holds'
  <2>1. frames' \in Seq(Int) /\ (frames # <<>> => frames' # <<>>)
    BY <1>2, SyncAssumption DEF SyncInv, SyncTypes
  <2>2. SyncTypes'
    BY <1>1, <1>6, <2>1 DEF SyncInv, SyncTypes
  <2>3. Holds'
    BY <1>1, <2>1 DEF SyncInv, Holds, AtFrame
  <2> QED  BY <2>2, <2>3
<1>4. WantedIsShown'
  BY <1>1 DEF SyncInv, WantedIsShown
<1>5. ASSUME ~rewound'  PROVE Forward'
  <2>1. ~back /\ Ordered /\ Before /\ (video.start_pts <= wanted \/ Passed)
    BY <1>1, <1>5 DEF SyncInv, Forward
  <2>2. \A i \in Places' : (i \in Places /\ frames'[i] = frames[i])
                           \/ (i \notin Places /\ frames'[i] = next)
    BY <1>2 DEF SyncInv, SyncTypes, Places
  <2>3. \A i, j \in Places' : i < j /\ j \in Places => i \in Places
    BY <1>2 DEF SyncInv, SyncTypes, Places
  <2>4. \A i, j \in Places' : i \notin Places /\ i < j => FALSE
    BY <1>2 DEF SyncInv, SyncTypes, Places
  <2>5. \A i \in Places : frames[i] \in Int
    BY DEF SyncInv, SyncTypes, Places
  <2>6. next \in Int /\ video.start_pts \in Int
    BY SyncAssumption DEF SyncInv, SyncTypes
  <2>7. Ordered'
    BY <2>1, <2>2, <2>3, <2>4 DEF Ordered, Before
  <2>8. ASSUME ~back'  PROVE Before'
    BY <1>6, <2>1, <2>2, <2>5, <2>6, <2>8 DEF Before
  <2>9. (video.start_pts <= wanted \/ Passed)'
    <3>1. CASE video.start_pts <= wanted
      BY <1>1, <3>1
    <3>2. CASE Passed
      <4>1. \A i \in Places' : video.start_pts < frames'[i]
        BY <2>1, <2>2, <3>2 DEF Passed
      <4>2. ~back' => video.start_pts < next'
        BY <1>6, <2>1, <2>6, <3>2 DEF Passed
      <4> QED  BY <1>1, <4>1, <4>2 DEF Passed
    <3> QED  BY <2>1, <3>1, <3>2
  <2> QED  BY <2>7, <2>8, <2>9 DEF Forward
<1> QED  BY <1>3, <1>4, <1>5 DEF SyncInv

\* Taken and not compared: a frame below a start that the clock was started with
\* is none of those that came after it.
LEMMA PassesOverInv == SyncInv /\ PassesOver => SyncInv'
<1> SUFFICES ASSUME SyncInv, PassesOver
             PROVE  SyncInv'
  OBVIOUS
<1>1. /\ frames # <<>> /\ frames' = Tail(frames) /\ Head(frames) < video.start_pts
      /\ missed' = (missed \/ (Head(frames) >= wanted /\ ~rewound))
      /\ ~AtFrame' /\ UNCHANGED <<clock, next, video, wanted, back, rewound>>
  BY DEF PassesOver, TakesFrame, RenderStep, AtFrame
<1>2. SyncTypes' /\ Holds' /\ (~rewound => Forward)'
  BY <1>1, TailForward, TakenForward DEF SyncInv, SyncTypes, Holds
<1>3. ASSUME Head(frames) >= wanted, ~rewound  PROVE FALSE
  <2>1. Head(frames) \in Int /\ 1 \in Places /\ Head(frames) = frames[1]
    BY <1>1, TailForward DEF SyncInv
  <2>2. video.start_pts \in Int /\ wanted \in Int
    BY DEF SyncInv, SyncTypes
  <2>3. ~(video.start_pts <= wanted)
    BY <1>1, <1>3, <2>1, <2>2
  <2>4. Passed
    BY <1>3, <2>3 DEF SyncInv, Forward
  <2> QED  BY <1>1, <2>1, <2>2, <2>4 DEF Passed
<1>4. WantedIsShown'
  BY <1>1, <1>3 DEF SyncInv, WantedIsShown
<1> QED  BY <1>2, <1>4 DEF SyncInv

LEMMA ShowsAtOnceInv == SyncInv /\ ShowsAtOnce => SyncInv'
<1> SUFFICES ASSUME SyncInv, ShowsAtOnce
             PROVE  SyncInv'
  OBVIOUS
<1>1. /\ frames # <<>> /\ frames' = Tail(frames)
      /\ ~AtFrame' /\ UNCHANGED <<clock, next, video, wanted, back, rewound, missed>>
  BY DEF ShowsAtOnce, TakesFrame, RenderStep, AtFrame
<1>2. SyncTypes' /\ Holds' /\ (~rewound => Forward)'
  BY <1>1, TailForward, TakenForward DEF SyncInv, SyncTypes, Holds
<1> QED  BY <1>1, <1>2 DEF SyncInv, WantedIsShown

\* Losing the synchronisation moves nothing yet.
LEMMA ComparesInv == SyncInv /\ Compares => SyncInv'
<1> SUFFICES ASSUME SyncInv, Compares
             PROVE  SyncInv'
  OBVIOUS
<1>1. frames # <<>> /\ UNCHANGED <<frames, clock, next, wanted, back, rewound, missed>>
  BY DEF Compares, TakesFrame, RenderStep
<1>2. video' = video \/ video' = [video EXCEPT !.sent = FALSE]
  BY DEF Compares
<1>3. video' \in [start_pts : Int, start_time : Int, sent : BOOLEAN]
      /\ video'.start_pts = video.start_pts
  BY <1>2 DEF SyncInv, SyncTypes
<1> QED
  BY <1>1, <1>3
     DEF SyncInv, SyncTypes, Holds, Places, Ordered, Before, Passed, Forward, WantedIsShown

LEMMA ShowsInv == SyncInv /\ Shows => SyncInv'
<1> SUFFICES ASSUME SyncInv, Shows
             PROVE  SyncInv'
  OBVIOUS
<1>1. /\ frames # <<>> /\ frames' = Tail(frames) /\ video' = Started
      /\ ~AtFrame' /\ UNCHANGED <<clock, next, wanted, back, rewound, missed>>
  BY DEF SyncInv, Holds, Shows, RenderStep, GoesOn, AtFrame
<1>2. frames' \in Seq(Int) /\ Head(frames) \in Int
  BY <1>1, TailForward DEF SyncInv
<1>3. SyncTypes' /\ Holds'
  BY <1>1, <1>2 DEF SyncInv, SyncTypes, Holds, Started
<1>4. (~rewound => Forward)'
  BY <1>1, StartedForward DEF SyncInv
<1> QED  BY <1>1, <1>3, <1>4 DEF SyncInv, WantedIsShown

\* The owner empties the queue.
LEMMA FlushAnsweredInv == SyncInv /\ FlushAnswered => SyncInv'
<1> SUFFICES ASSUME SyncInv, FlushAnswered
             PROVE  SyncInv'
  OBVIOUS
<1>1. ~AtFrame' /\ frames' = <<>>
      /\ UNCHANGED <<clock, next, wake, video, wanted, back, rewound, missed>>
  BY DEF FlushAnswered, history, AtFrame
<1>2. SyncTypes' /\ Holds' /\ WantedIsShown' /\ Places' = {}
  BY <1>1 DEF SyncInv, SyncTypes, Holds, Places, WantedIsShown
<1>3. Forward => Forward'
  BY <1>1, <1>2 DEF Forward, Ordered, Before, Passed
<1> QED  BY <1>1, <1>2, <1>3 DEF SyncInv

\* The feeder goes on later, or it has gone back.
LEMMA FlushEndsInv == ASSUME NEW p \in 0..Wrap - 1  PROVE SyncInv /\ FlushEnds(p) => SyncInv'
<1> SUFFICES ASSUME SyncInv, FlushEnds(p)
             PROVE  SyncInv'
  OBVIOUS
<1>1. /\ video' = [video EXCEPT !.sent = FALSE] /\ next' = p
      /\ back' = (back \/ p < next)
      /\ UNCHANGED <<frames, clock, wake, wanted, rewound, missed>>
  BY DEF FlushEnds
<1>2. ~back' => ~back /\ ~(p < next)
  BY <1>1, Zenon
<1>3. SyncTypes' /\ Holds' /\ WantedIsShown' /\ video'.start_pts = video.start_pts
  BY <1>1 DEF SyncInv, SyncTypes, Holds, AtFrame, WantedIsShown
<1>4. ASSUME ~rewound'  PROVE Forward'
  <2>1. Forward
    BY <1>1, <1>4 DEF SyncInv
  <2>2. \A i \in Places : frames[i] \in Int
    BY DEF SyncInv, SyncTypes, Places
  <2>3. /\ next \in Int /\ video.start_pts \in Int /\ p \in Int
        /\ Places' = Places /\ frames' = frames /\ wanted' = wanted
    BY <1>1, SyncAssumption DEF SyncInv, SyncTypes, Places
  <2>4. ~back' => ~back /\ next <= p
    BY <1>2, <2>3
  <2>5. Ordered'
    BY <1>1, <2>1, <2>3 DEF Forward, Ordered
  <2>6. (~back => Before)'
    <3> SUFFICES ASSUME ~back'  PROVE Before'
      OBVIOUS
    <3> QED  BY <1>1, <2>1, <2>2, <2>3, <2>4 DEF Forward, Before
  <2>7. (video.start_pts <= wanted \/ Passed)'
    <3>1. CASE video.start_pts <= wanted
      BY <1>3, <2>3, <3>1
    <3>2. CASE Passed
      BY <1>1, <1>3, <2>3, <2>4, <3>2 DEF Passed
    <3> QED  BY <2>1, <3>1, <3>2 DEF Forward
  <2> QED  BY <2>5, <2>6, <2>7 DEF Forward
<1> QED  BY <1>3, <1>4 DEF SyncInv

\* A start that is set with nothing under way makes a stream that went back one
\* that goes on.
LEMMA SetStartInv == ASSUME NEW p \in 0..Wrap - 1  PROVE SyncInv /\ SetStart(p) => SyncInv'
<1> SUFFICES ASSUME SyncInv, SetStart(p)
             PROVE  SyncInv'
  OBVIOUS
<1>1. /\ video' = [video EXCEPT !.start_pts = p] /\ wanted' = p
      /\ back' = (back /\ frames # <<>>) /\ rewound' = (rewound /\ frames # <<>>)
      /\ UNCHANGED <<frames, clock, next, wake, missed>>
  BY DEF SetStart
<1>2. SyncTypes' /\ Holds' /\ WantedIsShown' /\ video'.start_pts <= wanted'
  BY <1>1, SyncAssumption DEF SyncInv, SyncTypes, Holds, AtFrame, WantedIsShown
<1>3. ASSUME ~rewound'  PROVE (Ordered /\ (~back => Before))'
  <2>1. Places' = Places /\ (frames = <<>> => Places = {})
    BY <1>1 DEF Places
  <2>2. CASE frames = <<>>
    BY <1>1, <2>1, <2>2 DEF Ordered, Before
  <2>3. CASE frames # <<>>
    <3>1. Forward
      BY <1>1, <1>3, <2>3 DEF SyncInv
    <3> QED  BY <1>1, <2>1, <2>3, <3>1 DEF Forward, Ordered, Before
  <2> QED  BY <2>2, <2>3
<1> QED  BY <1>2, <1>3 DEF SyncInv, Forward

-----------------------------------------------------------------------------

LEMMA NextSyncInv == SyncInv /\ [SyncNext]_sync => SyncInv'
<1> SUFFICES ASSUME SyncInv, [SyncNext]_sync
             PROVE  SyncInv'
  OBVIOUS
<1>1. CASE Tick \/ AudioPlays
  BY <1>1, TickInv, AudioPlaysInv
<1>2. CASE Decode \/ Skip
  BY <1>2, DecodeInv
<1>3. CASE PassesOver \/ ShowsAtOnce \/ Compares \/ Shows
  BY <1>3, PassesOverInv, ShowsAtOnceInv, ComparesInv, ShowsInv
<1>4. CASE FlushAnswered
  BY <1>4, FlushAnsweredInv
<1>5. ASSUME NEW p \in Positions, FlushEnds(p) \/ SetStart(p)
      PROVE  SyncInv'
  <2>1. p \in 0..Wrap - 1
    BY SyncAssumption
  <2> QED  BY <1>5, <2>1, FlushEndsInv, SetStartInv
<1>6. CASE UNCHANGED sync
  BY <1>6, UntouchedInv DEF SyncInv, SyncTypes, sync, history
<1> QED  BY <1>1, <1>2, <1>3, <1>4, <1>5, <1>6 DEF SyncNext

\* WantedIsShown, for every tolerance, queue and wrap of the clock: the start that
\* video_sync_control_before_render moves hides no frame the application wants, as
\* long as the stream does not go back, and after it went back from the next start
\* that is set with no frame on its way.
THEOREM WantedFramesShown == SyncSpec => []WantedIsShown
<1>1. SyncInit => SyncInv
  BY InitSyncInv
<1>2. SyncInv /\ [SyncNext]_sync => SyncInv'
  BY NextSyncInv
<1>3. SyncInv => WantedIsShown
  BY DEF SyncInv
<1> QED  BY <1>1, <1>2, <1>3, PTL DEF SyncSpec

-----------------------------------------------------------------------------
(* The HTTPS client: for bodies cut into pieces of any size, any number of  *)
(* redirections and buffers that may fail to grow, a caller is given the    *)
(* body of the answer under way.  The argument is that the buffer holds     *)
(* what came, and that its size and its data part company only after a      *)
(* redirection that had a body of its own.                                  *)

HttpsTypes ==
  /\ info.data \in Seq(Int) /\ info.fill_size \in Nat /\ info.size \in Nat
  /\ DOMAIN info = {"data", "fill_size", "size", "location"}
  /\ info = [f \in DOMAIN info |-> info[f]]
  /\ answer \in Seq(Int) /\ units \in Int

\* The buffer is filled with what came of this answer.
Filled == info.fill_size = Len(info.data)
Follows == at \in {"header", "body"} /\ ~starved => info.data = answer

\* A buffer with a size was filled for this answer, or for one before it; while it
\* is empty, for one before it.
Sized ==
  /\ at \in {"header", "body", "done"} /\ info.size > 0 => answer # <<>> \/ stale
  /\ at = "retry" /\ info.size > 0 => stale
  /\ at \in {"header", "body"} /\ info.data = <<>> /\ info.size > 0 => stale

HttpsInv == HttpsTypes /\ (~broken => Filled /\ Follows /\ Sized) /\ BodyIsTheAnswer

LEMMA InitHttpsInv == HttpsInit => HttpsInv
BY DEF HttpsInit, HttpsInv, Empty, NULL, HttpsTypes, Filled, Follows, Sized, BodyIsTheAnswer

-----------------------------------------------------------------------------
(* The request *)

LEMMA AdvanceInv ==
  ASSUME NEW r  PROVE HttpsInv /\ ~broken /\ https_request_advance(r) => HttpsInv'
BY DEF HttpsInv, https_request_advance, Empty, NULL, HttpsTypes, Filled, Follows, Sized,
       BodyIsTheAnswer

\* The buffer is given up before each answer.
LEMMA PerformInv == HttpsInv /\ ~broken /\ Perform => HttpsInv'
<1> SUFFICES ASSUME HttpsInv, ~broken, Perform
             PROVE  HttpsInv'
  OBVIOUS
<1>1. /\ at = "retry" /\ at' = "header" /\ answer' = <<>> /\ ~broken'
      /\ UNCHANGED <<units, stale>>
      /\ info' = [info EXCEPT !.data = <<>>, !.fill_size = 0, !.location = FALSE]
  BY DEF Perform, RETRY_PERFORM, NULL
<1>2. /\ info'.data = <<>> /\ info'.fill_size = 0 /\ info'.size = info.size
      /\ DOMAIN info' = {"data", "fill_size", "size", "location"}
      /\ info' = [f \in DOMAIN info' |-> info'[f]]
  BY <1>1 DEF HttpsInv, HttpsTypes
<1> QED
  BY <1>1, <1>2 DEF HttpsInv, HttpsTypes, Filled, Follows, Sized, BodyIsTheAnswer

-----------------------------------------------------------------------------
(* The answer *)

LEMMA HeaderInv == HttpsInv /\ ~broken /\ Header => HttpsInv'
<1> SUFFICES ASSUME HttpsInv, ~broken, Header
             PROVE  HttpsInv'
  OBVIOUS
<1>1. /\ at = "header" /\ at' = "body"
      /\ UNCHANGED <<answer, units, starved, stale, broken>>
      /\ \E b : info' = [info EXCEPT !.location = b]
  BY DEF Header
<1>2. /\ info'.data = info.data /\ info'.fill_size = info.fill_size
      /\ info'.size = info.size
      /\ DOMAIN info' = {"data", "fill_size", "size", "location"}
      /\ info' = [f \in DOMAIN info' |-> info'[f]]
  BY <1>1 DEF HttpsInv, HttpsTypes
<1> QED
  BY <1>1, <1>2 DEF HttpsInv, HttpsTypes, Filled, Follows, Sized, BodyIsTheAnswer

\* What a piece is appended to.
LEMMA PieceAppended ==
  ASSUME NEW n \in Nat \ {0}, HttpsTypes, Filled
  PROVE  /\ Piece(n) \in Seq(Int) /\ Len(Piece(n)) = n
         /\ answer \o Piece(n) \in Seq(Int) \ {<<>>}
         /\ Copied(n, info.data) = info.data \o Piece(n)
         /\ Copied(n, info.data) \in Seq(Int) \ {<<>>}
         /\ Len(Copied(n, info.data)) = Need(n)
<1>1. Piece(n) \in Seq(Int) /\ Len(Piece(n)) = n
  <2>1. units \in Int
    BY DEF HttpsTypes
  <2>2. Piece(n) = [i \in 1..n |-> units + i]
    BY DEF Piece
  <2>3. [i \in 1..n |-> units + i] \in [1..n -> Int]
    BY <2>1
  <2> HIDE DEF Piece
  <2>4. Piece(n) \in [1..n -> Int] /\ DOMAIN Piece(n) = 1..n
    BY <2>2, <2>3
  <2> QED  BY <2>4
<1>2. SubSeq(info.data, 1, info.fill_size) = info.data
  BY SubSeqFull DEF HttpsTypes, Filled
<1>3. Copied(n, info.data) = info.data \o Piece(n)
  BY <1>2 DEF Copied
<1>4. /\ info.data \o Piece(n) \in Seq(Int)
      /\ Len(info.data \o Piece(n)) = Len(info.data) + Len(Piece(n))
  <2>1. info.data \in Seq(Int)
    BY DEF HttpsTypes
  <2> QED  BY <1>1, <2>1, ConcatProperties
<1>5. /\ answer \o Piece(n) \in Seq(Int)
      /\ Len(answer \o Piece(n)) = Len(answer) + Len(Piece(n))
  <2>1. answer \in Seq(Int)
    BY DEF HttpsTypes
  <2> QED  BY <1>1, <2>1, ConcatProperties
<1>6. Len(info.data) + n # 0 /\ Len(answer) + n # 0 /\ Len(<<>>) = 0
  BY <1>1 DEF HttpsTypes
<1> QED  BY <1>1, <1>3, <1>4, <1>5, <1>6 DEF Filled, Need

\* A piece that the buffer takes.
LEMMA DataInv ==
  ASSUME NEW n \in Nat \ {0}  PROVE HttpsInv /\ ~broken /\ Data(n) => HttpsInv'
<1> SUFFICES ASSUME HttpsInv, ~broken, Data(n)
             PROVE  HttpsInv'
  OBVIOUS
<1>1. /\ at = "body" /\ at' = "body" /\ answer' = answer \o Piece(n)
      /\ units' = units + n /\ UNCHANGED <<starved, stale, broken>>
      /\ info' = [info EXCEPT !.data = Copied(n, info.data),
                              !.size = IF Need(n) > @ THEN Need(n) ELSE @,
                              !.fill_size = Need(n)]
  BY DEF Data, Comes
<1>2. /\ info'.data = Copied(n, info.data) /\ info'.fill_size = Need(n)
      /\ info'.size \in {Need(n), info.size}
      /\ DOMAIN info' = {"data", "fill_size", "size", "location"}
      /\ info' = [f \in DOMAIN info' |-> info'[f]]
  BY <1>1 DEF HttpsInv, HttpsTypes
<1>3. Need(n) \in Nat
  BY DEF HttpsInv, HttpsTypes, Need
<1>4. /\ Copied(n, info.data) = info.data \o Piece(n)
      /\ Copied(n, info.data) \in Seq(Int) \ {<<>>}
      /\ Len(Copied(n, info.data)) = Need(n)
      /\ answer' \in Seq(Int) \ {<<>>}
  BY <1>1, PieceAppended DEF HttpsInv
<1>5. HttpsTypes' /\ Filled'
  BY <1>1, <1>2, <1>3, <1>4 DEF HttpsInv, HttpsTypes, Filled
<1>6. Follows'
  BY <1>1, <1>2, <1>4 DEF HttpsInv, Follows
<1>7. Sized' /\ BodyIsTheAnswer'
  BY <1>1, <1>2, <1>4 DEF HttpsInv, Sized, BodyIsTheAnswer
<1> QED  BY <1>5, <1>6, <1>7 DEF HttpsInv

\* A buffer that could not grow has no size left that could be taken for room.
LEMMA DataFailsInv ==
  ASSUME NEW n \in Nat \ {0}  PROVE HttpsInv /\ ~broken /\ DataFails(n) => HttpsInv'
<1> SUFFICES ASSUME HttpsInv, ~broken, DataFails(n)
             PROVE  HttpsInv'
  OBVIOUS
<1>1. /\ at' = "body" /\ answer' = answer \o Piece(n) /\ units' = units + n
      /\ starved' = TRUE /\ UNCHANGED <<stale, broken>>
      /\ info' = [Empty EXCEPT !.location = info.location]
  BY DEF DataFails, Comes
<1>2. /\ info'.data = <<>> /\ info'.fill_size = 0 /\ info'.size = 0
      /\ DOMAIN info' = {"data", "fill_size", "size", "location"}
      /\ info' = [f \in DOMAIN info' |-> info'[f]]
  BY <1>1 DEF Empty, NULL
<1>3. answer' \in Seq(Int) /\ units' \in Int
  <2>1. answer' \in Seq(Int)
    BY <1>1, PieceAppended DEF HttpsInv
  <2> QED  BY <1>1, <2>1 DEF HttpsInv, HttpsTypes
<1>4. HttpsTypes' /\ Filled'
  BY <1>2, <1>3 DEF HttpsTypes, Filled
<1>5. Follows'
  BY <1>1 DEF Follows
<1>6. Sized' /\ BodyIsTheAnswer'
  BY <1>1, <1>2 DEF HttpsInv, Sized, BodyIsTheAnswer
<1> QED  BY <1>4, <1>5, <1>6 DEF HttpsInv

\* NULL is written to only with a size that an answer before this one left.
LEMMA DataLostInv ==
  ASSUME NEW n \in Nat \ {0}  PROVE HttpsInv /\ ~broken /\ DataLost(n) => HttpsInv'
<1> SUFFICES ASSUME HttpsInv, ~broken, DataLost(n)
             PROVE  HttpsInv'
  OBVIOUS
<1>1. /\ at = "body" /\ at' = "body" /\ answer' = answer \o Piece(n)
      /\ units' = units + n /\ Need(n) <= info.size /\ info.data = <<>>
      /\ UNCHANGED <<info, starved, stale>>
  BY DEF DataLost, Comes, NULL
<1>2. info.size > 0
  BY <1>1 DEF HttpsInv, HttpsTypes, Need
<1>3. stale
  BY <1>1, <1>2 DEF HttpsInv, Sized
<1>4. HttpsTypes'
  <2>1. answer' \in Seq(Int)
    BY <1>1, PieceAppended DEF HttpsInv
  <2>2. HttpsTypes /\ info' = info /\ units' = units + n
    BY <1>1 DEF HttpsInv
  <2>3. units' \in Int
    BY <2>2 DEF HttpsTypes
  <2> QED  BY <2>1, <2>2, <2>3 DEF HttpsTypes
<1>5. BodyIsTheAnswer' /\ broken'
  BY <1>1, <1>3 DEF DataLost, BodyIsTheAnswer
<1> QED  BY <1>4, <1>5 DEF HttpsInv

LEMMA FinishInv == HttpsInv /\ ~broken /\ Finish => HttpsInv'
<1> SUFFICES ASSUME HttpsInv, ~broken, Finish
             PROVE  HttpsInv'
  OBVIOUS
<1>1. /\ at = "body" /\ at' = "done"
      /\ got' = IF info.fill_size > 0 THEN info.data ELSE <<>>
      /\ UNCHANGED <<info, answer, units, starved, stale, broken>>
  BY DEF Finish, NULL
<1>2. got' = info.data
  BY <1>1 DEF HttpsInv, HttpsTypes, Filled
<1> QED
  BY <1>1, <1>2 DEF HttpsInv, HttpsTypes, Filled, Follows, Sized, BodyIsTheAnswer

LEMMA FailsInv == HttpsInv /\ ~broken /\ Fails => HttpsInv'
BY DEF HttpsInv, Fails, HttpsTypes, Filled, Follows, Sized, BodyIsTheAnswer

-----------------------------------------------------------------------------
(* After the answer *)

\* What is left in the buffer is of an answer that had a body.
LEMMA RedirectInv == HttpsInv /\ ~broken /\ Redirect => HttpsInv'
<1> SUFFICES ASSUME HttpsInv, ~broken, Redirect
             PROVE  HttpsInv'
  OBVIOUS
<1>1. /\ at = "done" /\ at' = "retry" /\ stale' = (stale \/ answer # <<>>)
      /\ UNCHANGED <<info, answer, units, starved, broken>>
  BY DEF Redirect, Result
<1>2. info.size > 0 => stale'
  BY <1>1, Zenon DEF HttpsInv, Sized
<1> QED
  BY <1>1, <1>2 DEF HttpsInv, HttpsTypes, Filled, Follows, Sized, BodyIsTheAnswer

LEMMA EndsInv == HttpsInv /\ ~broken /\ (Refused \/ Succeeds) => HttpsInv'
BY DEF HttpsInv, Refused, Succeeds, Result, HttpsTypes, Filled, Follows, Sized, BodyIsTheAnswer

-----------------------------------------------------------------------------

LEMMA NextHttpsInv ==
  ASSUME Pieces \subseteq Nat \ {0}  PROVE HttpsInv /\ [HttpsNext]_https => HttpsInv'
<1> SUFFICES ASSUME HttpsInv, [HttpsNext]_https
             PROVE  HttpsInv'
  OBVIOUS
<1>1. ASSUME ~broken, NEW r \in Requests, https_request_advance(r)
      PROVE  HttpsInv'
  BY <1>1, AdvanceInv
<1>2. CASE ~broken /\ (Perform \/ Header \/ Finish)
  BY <1>2, PerformInv, HeaderInv, FinishInv
<1>3. CASE ~broken /\ (Fails \/ Redirect \/ Refused \/ Succeeds)
  BY <1>3, FailsInv, RedirectInv, EndsInv
<1>4. ASSUME ~broken, NEW n \in Pieces, Data(n) \/ DataFails(n) \/ DataLost(n)
      PROVE  HttpsInv'
  BY <1>4, DataInv, DataFailsInv, DataLostInv
<1>5. CASE UNCHANGED https
  BY <1>5 DEF https, HttpsInv, HttpsTypes, Filled, Follows, Sized, BodyIsTheAnswer
<1> QED  BY <1>1, <1>2, <1>3, <1>4, <1>5 DEF HttpsNext

\* BodyIsTheAnswer, for bodies cut anyhow and for any number of redirections: what
\* _http_event_handler hands over is the answer under way, and a kept size is taken
\* for room only after a redirection with a body.
THEOREM CallersGetTheAnswer == HttpsSpec => []BodyIsTheAnswer
<1>1. HttpsInit => HttpsInv
  BY InitHttpsInv
<1>2. HttpsInv /\ [HttpsNext]_https => HttpsInv'
  BY NextHttpsInv, HttpsAssumption
<1>3. HttpsInv => BodyIsTheAnswer
  BY DEF HttpsInv
<1> QED  BY <1>1, <1>2, <1>3, PTL DEF HttpsSpec

-----------------------------------------------------------------------------
(* The MQTT bridge *)

\* What is left of a start, and of a stop, after each step.
FromStarted == <<"started", "unconnected", "client_start", "task">>
FromUnconnected == <<"unconnected", "client_start", "task">>
FromClientStart == <<"client_start", "task">>
FromTask == <<"task">>
ToUnconnected == <<"unconnected", "client_stop", "destroy", "null">>
ToClientStop == <<"client_stop", "destroy", "null">>
ToDestroy == <<"destroy", "null">>
ToNull == <<"null">>

\* The client and the flag, at every step of the event task.
Made == s_client \in Clients /\ alive = {s_client}
Phase ==
  \/ todo \in {<<>>, M!StartSteps} /\ alive = {} /\ running = {} /\ ~s_started
  \/ todo = FromStarted /\ Made /\ running = {} /\ ~s_started
  \/ todo \in {FromUnconnected, FromClientStart} /\ Made /\ running = {} /\ s_started
  \/ todo \in {<<>>, FromTask, M!StopSteps} /\ Made /\ running = {s_client} /\ s_started
  \/ todo \in {ToUnconnected, ToClientStop} /\ Made /\ running = {s_client} /\ ~s_started
  \/ todo = ToDestroy /\ Made /\ running = {} /\ ~s_started
  \/ todo = ToNull /\ alive = {} /\ running = {} /\ ~s_started

BridgeTypes ==
  /\ events \in Seq({"START", "GOT_IP", "DISCONNECTED"})
  /\ s_started \in BOOLEAN
  /\ place \in [M!Publishers -> {"none", "loop", "use", "sleep"}]
  /\ held = [p \in M!Publishers |-> held[p]]

\* The flag is up for a bridge that is started, or for one that is being stopped
\* and has not cleared it yet.
Flagged == s_connected /\ "connected_late" \notin strange => s_started \/ todo = ToUnconnected

Safely ==
  \A p \in M!Publishers : place[p] = "use" /\ held[p] \notin alive =>
    strange \cap {"caught", "connected_late"} # {}

Busy(p) == place[p] # "none"
Alone == "renewed" \notin strange => \A p, q \in Clients : Busy(p) /\ Busy(q) => p = q

Aware == "reconfigured" \notin strange => told = network_connected

BridgeInv == BridgeTypes /\ Phase /\ Flagged /\ Safely /\ Alone /\ Aware

LEMMA BridgeStepsTaken ==
  /\ M!StartSteps # <<>> /\ Head(M!StartSteps) = "init" /\ Tail(M!StartSteps) = FromStarted
  /\ FromStarted # <<>> /\ Head(FromStarted) = "started"
  /\ Tail(FromStarted) = FromUnconnected
  /\ FromUnconnected # <<>> /\ Head(FromUnconnected) = "unconnected"
  /\ Tail(FromUnconnected) = FromClientStart
  /\ FromClientStart # <<>> /\ Head(FromClientStart) = "client_start"
  /\ Tail(FromClientStart) = FromTask
  /\ FromTask # <<>> /\ Head(FromTask) = "task" /\ Tail(FromTask) = <<>>
  /\ M!StopSteps # <<>> /\ Head(M!StopSteps) = "stopped" /\ Tail(M!StopSteps) = ToUnconnected
  /\ ToUnconnected # <<>> /\ Head(ToUnconnected) = "unconnected"
  /\ Tail(ToUnconnected) = ToClientStop
  /\ ToClientStop # <<>> /\ Head(ToClientStop) = "client_stop" /\ Tail(ToClientStop) = ToDestroy
  /\ ToDestroy # <<>> /\ Head(ToDestroy) = "destroy" /\ Tail(ToDestroy) = ToNull
  /\ ToNull # <<>> /\ Head(ToNull) = "null" /\ Tail(ToNull) = <<>>
BY DEF M!StartSteps, M!StopSteps, FromStarted, FromUnconnected, FromClientStart, FromTask,
       ToUnconnected, ToClientStop, ToDestroy, ToNull

LEMMA InitBridgeInv == M!BridgeInit => BridgeInv
<1> SUFFICES ASSUME M!BridgeInit
             PROVE  BridgeInv
  OBVIOUS
<1>1. /\ place = [p \in M!Publishers |-> IF p = 0 THEN "loop" ELSE "none"]
      /\ held = [p \in M!Publishers |-> 0]
      /\ todo = <<>> /\ alive = {} /\ running = {} /\ s_started = FALSE
      /\ events = <<"START">> /\ s_connected = FALSE /\ told = FALSE /\ network_connected = FALSE
  BY DEF M!BridgeInit, M!Main
<1>2. \A p \in Clients : place[p] = "none"
  BY <1>1, ClientsAssumption DEF M!Publishers
<1>3. BridgeTypes /\ Safely
  <2>1. events \in Seq({"START", "GOT_IP", "DISCONNECTED"})
    BY <1>1
  <2>2. \A p \in M!Publishers : place[p] \in {"loop", "none"} /\ held[p] = 0
    BY <1>1
  <2> QED  BY <1>1, <2>1, <2>2 DEF BridgeTypes, Safely
<1> QED
  BY <1>1, <1>2, <1>3 DEF BridgeInv, Phase, Flagged, Alone, Busy, Aware

\* Which client there is at a step of the event task.
LEMMA AtStep ==
  ASSUME Phase
  PROVE  /\ M!Step("init") => todo = M!StartSteps
         /\ M!Step("started") => todo = FromStarted
         /\ M!Step("unconnected") => todo \in {FromUnconnected, ToUnconnected}
         /\ M!Step("client_start") => todo = FromClientStart
         /\ M!Step("task") => todo = FromTask
         /\ M!Step("stopped") => todo = M!StopSteps
         /\ M!Step("client_stop") => todo = ToClientStop
         /\ M!Step("destroy") => todo = ToDestroy
         /\ M!Step("null") => todo = ToNull
BY BridgeStepsTaken DEF Phase, M!Step

\* Which steps are to come tells where the event task is.
LEMMA StepsDiffer ==
  /\ M!StartSteps \notin {<<>>, FromStarted, FromUnconnected, FromClientStart, FromTask}
  /\ FromStarted \notin {<<>>, FromUnconnected, FromClientStart, FromTask}
  /\ FromUnconnected \notin {<<>>, FromClientStart, FromTask, ToUnconnected}
  /\ FromClientStart \notin {<<>>, FromTask}
  /\ M!StopSteps \notin {<<>>, ToUnconnected, ToClientStop, ToDestroy, ToNull}
  /\ ToUnconnected \notin {<<>>, ToClientStop, ToDestroy, ToNull}
  /\ ToClientStop \notin {<<>>, ToDestroy, ToNull}
  /\ ToDestroy \notin {<<>>, ToNull}
BY DEF M!StartSteps, M!StopSteps, FromStarted, FromUnconnected, FromClientStart, FromTask,
       ToUnconnected, ToClientStop, ToDestroy, ToNull

\* The steps that leave the client, the event task's steps and the publishers alone.
LEMMA ElsewhereInv ==
  ASSUME BridgeInv, Aware', events' \in Seq({"START", "GOT_IP", "DISCONNECTED"}), strange \subseteq strange',
         UNCHANGED <<s_client, s_started, s_connected, alive, running, todo, place, held>>
  PROVE  BridgeInv'
<1>1. \A x : x \notin strange' => x \notin strange
  OBVIOUS
<1>2. BridgeTypes' /\ Phase'
  BY DEF BridgeInv, BridgeTypes, Phase, Made
<1>3. Flagged' /\ Alone'
  BY <1>1 DEF BridgeInv, Flagged, Alone, Busy
<1>4. Safely'
  BY DEF BridgeInv, Safely
<1> QED  BY <1>2, <1>3, <1>4 DEF BridgeInv

LEMMA DriverInv ==
  BridgeInv /\ (M!Joined \/ M!LinkLost \/ M!network_connect_wifi) => BridgeInv'
<1> SUFFICES ASSUME BridgeInv, M!Joined \/ M!LinkLost \/ M!network_connect_wifi
             PROVE  BridgeInv'
  OBVIOUS
<1>1. /\ UNCHANGED <<s_client, s_started, s_connected, alive, running, todo, place, held, told>>
      /\ strange \subseteq strange'
      /\ "reconfigured" \notin strange' =>
           strange' = strange /\ network_connected' = network_connected
  BY DEF M!Joined, M!LinkLost, M!Post, M!network_connect_wifi, M!client_vars, M!publishers
<1>2. Aware'
  BY <1>1 DEF BridgeInv, Aware
<1>3. events' \in Seq({"START", "GOT_IP", "DISCONNECTED"})
  <2>1. events \in Seq({"START", "GOT_IP", "DISCONNECTED"})
    BY DEF BridgeInv, BridgeTypes
  <2>2. CASE M!Joined \/ M!LinkLost
    BY <2>1, <2>2 DEF M!Joined, M!LinkLost, M!Post
  <2>3. CASE M!network_connect_wifi
    <3>1. events' \in {events \o <<"DISCONNECTED", "START">>, events \o <<"START">>}
      BY <2>3 DEF M!network_connect_wifi
    <3>2. /\ <<"DISCONNECTED", "START">> \in Seq({"START", "GOT_IP", "DISCONNECTED"})
          /\ <<"START">> \in Seq({"START", "GOT_IP", "DISCONNECTED"})
      OBVIOUS
    <3> QED  BY <2>1, <3>1, <3>2, ConcatProperties
  <2> QED  BY <2>2, <2>3
<1> QED  BY <1>1, <1>2, <1>3, ElsewhereInv

\* The callback hears of every change but those of the console.
LEMMA EventHandlerInv == BridgeInv /\ M!event_handler => BridgeInv'
<1> SUFFICES ASSUME BridgeInv, M!event_handler
             PROVE  BridgeInv'
  OBVIOUS
<1>1. /\ todo = <<>>
      /\ UNCHANGED <<s_client, s_started, s_connected, alive, running, place, held, strange>>
      /\ \/ UNCHANGED <<network_connected, told, todo>>
         \/ M!network_set_connected(FALSE)
         \/ M!network_set_connected(TRUE)
      /\ events' \in Seq({"START", "GOT_IP", "DISCONNECTED"})
  <2>1. events # <<>> /\ events' = Tail(events) /\ todo = <<>>
        /\ UNCHANGED <<s_client, s_started, s_connected, alive, running, place, held, strange>>
    BY DEF M!event_handler, M!client_vars, M!publishers
  <2>2. Head(events) \in {"START", "GOT_IP", "DISCONNECTED"}
        /\ events' \in Seq({"START", "GOT_IP", "DISCONNECTED"})
    BY <2>1 DEF BridgeInv, BridgeTypes
  <2>3. CASE Head(events) = "START"
    BY <2>1, <2>2, <2>3 DEF M!event_handler
  <2>4. CASE Head(events) = "DISCONNECTED"
    BY <2>1, <2>2, <2>4 DEF M!event_handler
  <2>5. CASE Head(events) = "GOT_IP"
    BY <2>1, <2>2, <2>5 DEF M!event_handler
  <2> QED  BY <2>2, <2>3, <2>4, <2>5
<1>2. \/ todo' = <<>>
      \/ todo' = M!StartSteps /\ ~s_started
      \/ todo' = M!StopSteps /\ s_started
  BY <1>1 DEF M!network_set_connected
<1>3. Aware'
  <2>1. ASSUME NEW c, M!network_set_connected(c)
        PROVE  UNCHANGED <<network_connected, told>> \/ told' = network_connected'
    BY <2>1 DEF M!network_set_connected
  <2>2. UNCHANGED <<network_connected, told>> \/ told' = network_connected'
    BY <1>1, <2>1
  <2> QED  BY <1>1, <2>2 DEF BridgeInv, Aware
<1>4. \/ alive = {} /\ running = {} /\ ~s_started
      \/ Made /\ running = {s_client} /\ s_started
  BY <1>1, BridgeStepsTaken, StepsDiffer DEF BridgeInv, Phase, ToNull, ToUnconnected,
     ToDestroy, ToClientStop, FromStarted, FromUnconnected, FromClientStart, FromTask
<1>5. Phase'
  BY <1>1, <1>2, <1>4 DEF Phase, Made
<1>6. Flagged'
  BY <1>1, StepsDiffer DEF BridgeInv, Flagged
<1>7. BridgeTypes' /\ Safely' /\ Alone'
  BY <1>1 DEF BridgeInv, BridgeTypes, Safely, Alone, Busy
<1> QED  BY <1>3, <1>5, <1>6, <1>7 DEF BridgeInv

-----------------------------------------------------------------------------
(* mqtt_bridge_start and mqtt_bridge_stop *)

\* What the steps have in common: the network is none of their business.
LEMMA StepKeeps ==
  ASSUME BridgeInv, UNCHANGED <<told, network_connected>>, strange \subseteq strange'
  PROVE  Aware'
BY DEF BridgeInv, Aware

\* A step that leaves the publishers and the objects alone.
LEMMA PublishersKeep ==
  ASSUME BridgeInv, UNCHANGED <<place, held, strange>>, s_started' \in BOOLEAN,
         alive \subseteq alive', UNCHANGED events
  PROVE  BridgeTypes' /\ Safely' /\ Alone'
BY DEF BridgeInv, BridgeTypes, Safely, Alone, Busy

LEMMA InitClientInv == BridgeInv /\ M!InitClient => BridgeInv'
<1> SUFFICES ASSUME BridgeInv, M!InitClient
             PROVE  BridgeInv'
  OBVIOUS
<1>1. /\ todo = M!StartSteps
      /\ UNCHANGED <<s_started, s_connected, running, place, held, strange, told,
                     events, network_connected>>
      /\ \/ s_client' \in Clients \ alive /\ alive' = alive \cup {s_client'}
            /\ todo' = FromStarted
         \/ todo' = <<>> /\ alive' = alive
  BY AtStep, BridgeStepsTaken DEF BridgeInv, M!InitClient, M!network_vars, M!publishers, M!Goes
<1>2. alive = {} /\ running = {} /\ ~s_started
  BY <1>1, StepsDiffer DEF BridgeInv, Phase, ToNull, ToUnconnected, ToDestroy, ToClientStop,
     FromTask, M!StartSteps, M!StopSteps
<1>3. Phase'
  BY <1>1, <1>2 DEF Phase, Made
<1>4. Flagged'
  <2>1. todo # ToUnconnected
    BY <1>1 DEF M!StartSteps, ToUnconnected
  <2> QED  BY <1>1, <1>2, <2>1 DEF BridgeInv, Flagged
<1>5. BridgeTypes' /\ Safely' /\ Alone'
  BY <1>1, PublishersKeep DEF BridgeInv, BridgeTypes
<1>6. Aware'
  BY <1>1, StepKeeps
<1> QED  BY <1>3, <1>4, <1>5, <1>6 DEF BridgeInv

\* The steps of a start or a stop that only set a flag, or that start or stop the
\* client.
LEMMA FlagInv ==
  ASSUME BridgeInv, todo' = Tail(todo), UNCHANGED <<events, told, network_connected>>,
         M!Started \/ M!Stopped \/ M!Unconnected \/ M!ClientStart \/ M!ClientStop
  PROVE  BridgeInv'
<1>1. UNCHANGED <<s_client, alive, place, held, strange>>
  BY DEF M!Started, M!Stopped, M!Unconnected, M!ClientStart, M!ClientStop, M!publishers
<1>2. s_started' \in BOOLEAN
  BY DEF BridgeInv, BridgeTypes, M!Started, M!Stopped, M!Unconnected, M!ClientStart, M!ClientStop
<1>3. BridgeTypes' /\ Safely' /\ Alone' /\ Aware'
  BY <1>1, <1>2, PublishersKeep, StepKeeps
<1>4. CASE M!Started
  <2>1. /\ todo = FromStarted /\ todo' = FromUnconnected /\ s_started'
        /\ UNCHANGED running
    BY <1>1, <1>4, AtStep, BridgeStepsTaken DEF BridgeInv, M!Started
  <2>2. Made /\ running = {}
    BY <2>1, StepsDiffer DEF BridgeInv, Phase, ToNull, ToUnconnected, ToDestroy, ToClientStop,
       FromStarted, M!StopSteps
  <2>3. Phase' /\ Flagged'
    BY <1>1, <2>1, <2>2 DEF Phase, Made, Flagged
  <2> QED  BY <1>3, <2>3 DEF BridgeInv
<1>5. CASE M!Stopped
  <2>1. /\ todo = M!StopSteps /\ todo' = ToUnconnected /\ ~s_started'
        /\ UNCHANGED running
    BY <1>1, <1>5, AtStep, BridgeStepsTaken DEF BridgeInv, M!Stopped
  <2>2. Made /\ running = {s_client}
    BY <2>1, StepsDiffer DEF BridgeInv, Phase, FromStarted, FromUnconnected, FromClientStart,
       FromTask, M!StopSteps, M!StartSteps
  <2>3. Phase' /\ Flagged'
    BY <1>1, <2>1, <2>2 DEF Phase, Made, Flagged
  <2> QED  BY <1>3, <2>3 DEF BridgeInv
<1>6. CASE M!Unconnected
  <2>1. /\ \/ todo = FromUnconnected /\ todo' = FromClientStart
           \/ todo = ToUnconnected /\ todo' = ToClientStop
        /\ ~s_connected' /\ UNCHANGED <<running, s_started>>
    BY <1>1, <1>6, AtStep, BridgeStepsTaken DEF BridgeInv, M!Unconnected
  <2>2. \/ todo = FromUnconnected /\ Made /\ running = {} /\ s_started
        \/ todo = ToUnconnected /\ Made /\ running = {s_client} /\ ~s_started
    <3>1. todo = FromUnconnected => Made /\ running = {} /\ s_started
      BY StepsDiffer DEF BridgeInv, Phase, FromUnconnected, M!StopSteps, ToUnconnected, ToNull,
         ToDestroy, ToClientStop
    <3>2. todo = ToUnconnected => Made /\ running = {s_client} /\ ~s_started
      BY StepsDiffer DEF BridgeInv, Phase, FromStarted, FromUnconnected, FromClientStart,
         FromTask, M!StartSteps, ToUnconnected
    <3> QED  BY <2>1, <3>1, <3>2
  <2>3. ~(FromUnconnected = ToUnconnected)
    BY StepsDiffer
  <2>4. Phase'
    BY <1>1, <2>1, <2>2, <2>3 DEF Phase, Made
  <2>5. Flagged'
    BY <2>1 DEF Flagged
  <2> QED  BY <1>3, <2>4, <2>5 DEF BridgeInv
<1>7. CASE M!ClientStart
  <2>1. /\ todo = FromClientStart /\ todo' = FromTask
        /\ running' = running \cup {s_client} /\ UNCHANGED s_started
    BY <1>1, <1>7, AtStep, BridgeStepsTaken DEF BridgeInv, M!ClientStart
  <2>2. Made /\ running = {} /\ s_started
    BY <2>1, StepsDiffer DEF BridgeInv, Phase, ToNull, ToUnconnected, ToDestroy, ToClientStop,
       FromClientStart, M!StopSteps
  <2>3. Phase' /\ Flagged'
    BY <1>1, <2>1, <2>2 DEF Phase, Made, Flagged
  <2> QED  BY <1>3, <2>3 DEF BridgeInv
<1>8. CASE M!ClientStop
  <2>1. /\ todo = ToClientStop /\ todo' = ToDestroy
        /\ running' = running \ {s_client} /\ UNCHANGED <<s_started, s_connected>>
    BY <1>1, <1>8, AtStep, BridgeStepsTaken DEF BridgeInv, M!ClientStop
  <2>2. Made /\ running = {s_client} /\ ~s_started
    BY <2>1, StepsDiffer DEF BridgeInv, Phase, FromStarted, FromUnconnected, FromClientStart,
       FromTask, M!StartSteps, ToClientStop
  <2>3. Phase'
    BY <1>1, <2>1, <2>2 DEF Phase, Made
  <2>4. Flagged'
    BY <1>1, <2>1, <2>2, StepsDiffer DEF BridgeInv, Flagged
  <2> QED  BY <1>3, <2>3, <2>4 DEF BridgeInv
<1> QED  BY <1>4, <1>5, <1>6, <1>7, <1>8

\* A publisher is made while another runs, or is the only one.
LEMMA PublisherTaskInv ==
  ASSUME BridgeInv, M!PublisherTask, todo' = Tail(todo),
         UNCHANGED <<events, told, network_connected>>
  PROVE  BridgeInv'
<1>1. /\ todo = FromTask /\ todo' = <<>>
      /\ place' = [place EXCEPT ![s_client] = "loop"]
      /\ UNCHANGED <<s_client, s_started, s_connected, alive, running, held>>
      /\ strange' = IF \E p \in Clients : place[p] # "none" THEN strange \cup {"renewed"}
                    ELSE strange
  BY AtStep, BridgeStepsTaken DEF BridgeInv, M!PublisherTask, M!client_vars
<1>2. Made /\ running = {s_client} /\ s_started
  BY <1>1, StepsDiffer DEF BridgeInv, Phase, ToNull, ToUnconnected, ToDestroy, ToClientStop,
     FromTask, M!StopSteps
<1>3. /\ \A x : x \notin strange' => x \notin strange
      /\ "connected_late" \in strange' => "connected_late" \in strange
      /\ strange \subseteq strange'
  BY <1>1
<1>4. Phase' /\ Flagged'
  BY <1>1, <1>2, <1>3 DEF Phase, Made, Flagged
<1>5. /\ BridgeTypes' /\ s_client \in M!Publishers
      /\ \A p \in M!Publishers : place'[p] = IF p = s_client THEN "loop" ELSE place[p]
  BY <1>1, <1>2 DEF BridgeInv, BridgeTypes, Made, M!Publishers
<1>6. Safely'
  <2>1. ASSUME NEW p \in M!Publishers, place'[p] = "use", held'[p] \notin alive'
        PROVE  strange' \cap {"caught", "connected_late"} # {}
    <3>1. place[p] = "use" /\ held[p] \notin alive
      BY <1>1, <1>5, <2>1
    <3> QED  BY <1>3, <3>1 DEF BridgeInv, Safely
  <2> QED  BY <2>1 DEF Safely
<1>7. Alone'
  <2>1. ASSUME "renewed" \notin strange'
        PROVE  \A p \in Clients : place'[p] # "none" => p = s_client
    BY <1>1, <1>5, <2>1 DEF M!Publishers
  <2> QED  BY <2>1 DEF Alone, Busy
<1>8. Aware'
  BY <1>3, StepKeeps
<1> QED  BY <1>4, <1>5, <1>6, <1>7, <1>8 DEF BridgeInv

\* A client that is destroyed is used by nobody, or somebody is caught.
LEMMA DestroyInv ==
  ASSUME BridgeInv, M!Destroy, todo' = Tail(todo),
         UNCHANGED <<events, told, network_connected>>
  PROVE  BridgeInv'
<1>1. /\ todo = ToDestroy /\ todo' = ToNull /\ alive' = alive \ {s_client}
      /\ UNCHANGED <<s_client, s_started, s_connected, running, place, held>>
      /\ strange' = IF \E p \in M!Publishers : place[p] = "use" THEN strange \cup {"caught"}
                    ELSE strange
  BY AtStep, BridgeStepsTaken DEF BridgeInv, M!Destroy, M!publishers
<1>2. Made /\ running = {} /\ ~s_started
  BY <1>1, StepsDiffer DEF BridgeInv, Phase, FromStarted, FromUnconnected, FromClientStart,
     FromTask, M!StartSteps, ToDestroy
<1>3. /\ \A x : x \notin strange' => x \notin strange
      /\ strange \subseteq strange'
  BY <1>1
<1>4. Phase'
  BY <1>1, <1>2 DEF Phase, Made
<1>5. Flagged'
  <2>1. todo # ToUnconnected
    BY <1>1, StepsDiffer
  <2>2. "connected_late" \notin strange' => "connected_late" \notin strange
    BY <1>3
  <2> QED  BY <1>1, <1>2, <2>1, <2>2 DEF BridgeInv, Flagged
<1>6. BridgeTypes'
  BY <1>1 DEF BridgeInv, BridgeTypes
<1>7. Alone'
  BY <1>1, <1>3 DEF BridgeInv, Alone, Busy
<1>8. Safely'
  BY <1>1 DEF Safely
<1>9. Aware'
  BY <1>3, StepKeeps
<1> QED  BY <1>4, <1>5, <1>6, <1>7, <1>8, <1>9 DEF BridgeInv

LEMMA NoClientInv ==
  ASSUME BridgeInv, M!NoClient, todo' = Tail(todo),
         UNCHANGED <<events, told, network_connected>>
  PROVE  BridgeInv'
<1>1. /\ todo = ToNull /\ todo' = <<>>
      /\ UNCHANGED <<s_started, s_connected, alive, running, place, held, strange>>
  BY AtStep, BridgeStepsTaken DEF BridgeInv, M!NoClient, M!publishers
<1>2. alive = {} /\ running = {} /\ ~s_started
  BY <1>1, StepsDiffer DEF BridgeInv, Phase, FromStarted, FromUnconnected, FromClientStart,
     FromTask, M!StartSteps, ToNull
<1>3. Phase'
  BY <1>1, <1>2 DEF Phase
<1>4. Flagged'
  BY <1>1, StepsDiffer DEF BridgeInv, Flagged
<1>5. BridgeTypes' /\ Safely' /\ Alone' /\ Aware'
  <2>1. s_started' \in BOOLEAN
    BY <1>1 DEF BridgeInv, BridgeTypes
  <2> QED  BY <1>1, <2>1, PublishersKeep, StepKeeps
<1> QED  BY <1>3, <1>4, <1>5 DEF BridgeInv

LEMMA BridgeStepInv == BridgeInv /\ M!BridgeStep => BridgeInv'
<1> SUFFICES ASSUME BridgeInv, M!BridgeStep, ~M!InitClient
             PROVE  BridgeInv'
  BY InitClientInv
<1>1. /\ todo' = Tail(todo) /\ UNCHANGED <<events, told, network_connected>>
  BY DEF M!BridgeStep, M!Goes, M!network_vars
<1>2. CASE M!Started \/ M!Stopped \/ M!Unconnected \/ M!ClientStart \/ M!ClientStop
  BY <1>1, <1>2, FlagInv
<1>3. CASE M!PublisherTask \/ M!Destroy \/ M!NoClient
  BY <1>1, <1>3, PublisherTaskInv, DestroyInv, NoClientInv
<1> QED  BY <1>2, <1>3 DEF M!BridgeStep

-----------------------------------------------------------------------------
(* The client's task and the publishers *)

\* A client connects while it is started, or late.
LEMMA MqttEventInv ==
  ASSUME NEW connected \in BOOLEAN, BridgeInv, M!mqtt_event_handler(connected)
  PROVE  BridgeInv'
<1>1. /\ running # {} /\ s_connected' = connected
      /\ UNCHANGED <<s_client, s_started, alive, running, place, held, todo, events, told,
                     network_connected>>
      /\ strange' = IF connected /\ M!Step("client_stop") THEN strange \cup {"connected_late"}
                    ELSE strange
  BY DEF M!mqtt_event_handler, M!network_vars, M!publishers
<1>2. /\ \A x : x \notin strange' => x \notin strange
      /\ strange \subseteq strange'
      /\ "renewed" \in strange' => "renewed" \in strange
  BY <1>1
<1>3. BridgeTypes' /\ Phase'
  BY <1>1 DEF BridgeInv, BridgeTypes, Phase, Made
<1>4. Flagged'
  <2>1. todo = ToClientStop => M!Step("client_stop")
    BY BridgeStepsTaken DEF M!Step
  <2>2. s_started \/ todo \in {ToUnconnected, ToClientStop}
    BY <1>1 DEF BridgeInv, Phase
  <2>3. CASE connected /\ todo = ToClientStop
    BY <1>1, <2>1, <2>3 DEF Flagged
  <2>4. CASE ~connected
    BY <1>1, <2>4 DEF Flagged
  <2> QED  BY <1>1, <2>2, <2>3, <2>4 DEF Flagged
<1>5. Safely'
  BY <1>1, <1>2 DEF BridgeInv, Safely
<1>6. Alone' /\ Aware'
  BY <1>1, <1>2, StepKeeps DEF BridgeInv, Alone, Busy
<1> QED  BY <1>3, <1>4, <1>5, <1>6 DEF BridgeInv

\* A publisher reads a client that exists, unless one connected late.
LEMMA LookInv ==
  ASSUME NEW p \in M!Publishers, BridgeInv, M!Look(p)
  PROVE  BridgeInv'
<1>1. /\ place[p] = "loop"
      /\ UNCHANGED <<s_client, s_started, s_connected, alive, running, todo, strange, events,
                     told, network_connected>>
  BY DEF M!Look, M!network_vars, M!client_vars
<1>2. \/ \E a \in {"none", "sleep"} : place' = [place EXCEPT ![p] = a] /\ UNCHANGED held
      \/ /\ p = 0 \/ s_started
         /\ s_connected /\ place' = [place EXCEPT ![p] = "use"]
         /\ held' = [held EXCEPT ![p] = s_client]
  BY DEF M!Look, M!Main
<1>3. Phase' /\ Flagged'
  BY <1>1 DEF BridgeInv, Phase, Made, Flagged
<1>4. Aware'
  BY <1>1, StepKeeps
<1>5. s_connected /\ "connected_late" \notin strange => s_client \in alive
  <2>1. s_connected /\ "connected_late" \notin strange => s_started \/ todo = ToUnconnected
    BY DEF BridgeInv, Flagged
  <2>2. s_started \/ todo = ToUnconnected => Made
    BY StepsDiffer DEF BridgeInv, Phase, FromStarted, ToUnconnected, M!StartSteps
  <2> QED  BY <2>1, <2>2 DEF Made
<1>6. /\ BridgeTypes'
      /\ \A q \in M!Publishers \ {p} : place'[q] = place[q] /\ held'[q] = held[q]
      /\ place'[p] \in {"none", "sleep", "use"}
      /\ place'[p] = "use" => s_connected /\ held'[p] = s_client
  <2>1. CASE \E a \in {"none", "sleep"} : place' = [place EXCEPT ![p] = a] /\ UNCHANGED held
    BY <1>1, <2>1 DEF BridgeInv, BridgeTypes
  <2>2. CASE /\ s_connected /\ place' = [place EXCEPT ![p] = "use"]
             /\ held' = [held EXCEPT ![p] = s_client]
    BY <1>1, <2>2 DEF BridgeInv, BridgeTypes
  <2> QED  BY <1>2, <2>1, <2>2
<1>7. Safely'
  <2>1. ASSUME NEW q \in M!Publishers, place'[q] = "use", held'[q] \notin alive,
               "connected_late" \notin strange
        PROVE  "caught" \in strange
    <3>1. q # p
      BY <1>5, <1>6, <2>1
    <3>2. strange \cap {"caught", "connected_late"} # {}
      BY <1>6, <2>1, <3>1 DEF BridgeInv, Safely
    <3> QED  BY <2>1, <3>2
  <2> QED  BY <1>1, <2>1 DEF Safely
<1>8. Alone'
  <2>1. \A q \in Clients : place'[q] # "none" => place[q] # "none"
    BY <1>1, <1>6 DEF M!Publishers
  <2> QED  BY <1>1, <2>1 DEF BridgeInv, Alone, Busy
<1> QED  BY <1>3, <1>4, <1>6, <1>7, <1>8 DEF BridgeInv

LEMMA PublishInv ==
  ASSUME NEW p \in M!Publishers, BridgeInv, M!Publish(p) \/ M!Wake(p)
  PROVE  BridgeInv'
<1>1. /\ UNCHANGED <<s_client, s_started, s_connected, alive, running, todo, strange, events,
                     told, network_connected, held>>
      /\ place[p] # "none"
      /\ \E a \in {"sleep", "loop"} : place' = [place EXCEPT ![p] = a]
  BY DEF M!Publish, M!Wake, M!network_vars, M!client_vars
<1>2. /\ BridgeTypes' /\ place'[p] \in {"sleep", "loop"}
      /\ \A q \in M!Publishers \ {p} : place'[q] = place[q]
  BY <1>1 DEF BridgeInv, BridgeTypes
<1>3. Phase' /\ Flagged'
  BY <1>1 DEF BridgeInv, Phase, Made, Flagged
<1>4. Safely'
  BY <1>1, <1>2 DEF BridgeInv, Safely
<1>5. Alone'
  <2>1. \A q \in Clients : place'[q] # "none" => place[q] # "none"
    BY <1>1, <1>2 DEF M!Publishers
  <2> QED  BY <1>1, <2>1 DEF BridgeInv, Alone, Busy
<1>6. Aware'
  BY <1>1, StepKeeps
<1> QED  BY <1>2, <1>3, <1>4, <1>5, <1>6 DEF BridgeInv

-----------------------------------------------------------------------------

LEMMA NextBridgeInv == BridgeInv /\ M!BridgeNext => BridgeInv'
<1> SUFFICES ASSUME BridgeInv, M!BridgeNext
             PROVE  BridgeInv'
  OBVIOUS
<1>1. CASE M!Joined \/ M!LinkLost \/ M!network_connect_wifi
  BY <1>1, DriverInv
<1>2. CASE M!event_handler \/ M!BridgeStep
  BY <1>2, EventHandlerInv, BridgeStepInv
<1>3. ASSUME NEW connected \in BOOLEAN, M!mqtt_event_handler(connected)
      PROVE  BridgeInv'
  BY <1>3, MqttEventInv
<1>4. ASSUME NEW p \in M!Publishers, M!Look(p) \/ M!Publish(p) \/ M!Wake(p)
      PROVE  BridgeInv'
  BY <1>4, LookInv, PublishInv
<1> QED  BY <1>1, <1>2, <1>3, <1>4 DEF M!BridgeNext

LEMMA BridgeKept == BridgeInv /\ UNCHANGED bridge_vars => BridgeInv'
BY DEF bridge_vars, BridgeInv, BridgeTypes, Phase, Made, Flagged, Safely, Alone, Busy, Aware

LEMMA BridgeInvHolds == BridgeInv => BridgeIsWhole
<1> SUFFICES ASSUME BridgeInv
             PROVE  BridgeIsWhole
  OBVIOUS
<1>1. \A p \in M!Publishers : place[p] = "use" /\ held[p] \notin alive =>
        strange \cap {"caught", "connected_late"} # {}
  BY DEF BridgeInv, Safely
<1>2. s_connected /\ todo = <<>> /\ "connected_late" \notin strange => s_started
  BY StepsDiffer DEF BridgeInv, Flagged
<1>3. "renewed" \notin strange =>
        \A p, q \in Clients : place[p] # "none" /\ place[q] # "none" => p = q
  BY DEF BridgeInv, Alone, Busy
<1>4. "reconfigured" \notin strange => told = network_connected
  BY DEF BridgeInv, Aware
<1> QED  BY <1>1, <1>2, <1>3, <1>4 DEF BridgeIsWhole, M!BridgeIsWhole

\* BridgeIsWhole, for every set of clients and any number of changes of the link: in
\* whatever order mqtt_bridge_start and mqtt_bridge_stop, the client's own task and the
\* publishers run, nobody publishes on a destroyed client outside the named orders.
THEOREM BridgeStaysWhole == Spec => []BridgeIsWhole
<1>1. Init => BridgeInv
  BY InitBridgeInv DEF Init
<1>2. BridgeInv /\ [Next]_vars => BridgeInv'
  BY NextBridgeInv, BridgeKept DEF Next, vars
<1>3. BridgeInv => BridgeIsWhole
  BY BridgeInvHolds
<1> QED  BY <1>1, <1>2, <1>3, PTL DEF Spec

-----------------------------------------------------------------------------
(* The history of the memory tracing *)

HisTypes ==
  /\ his \in [wp : H!Slices, n : 0..SAVE_SLICE_NUM, cache_filled : 0..cache_size - 1,
              save_cache : [H!Slices -> Seq(Int)], running : BOOLEAN, stopping : BOOLEAN]
  /\ saver \in [at : {"born", "look", "seen", "write", "count", "rest", "leave", "ended"},
                head : H!Slices]
  /\ left \in Nat /\ written \in Nat /\ file \in Seq(Int)

\* The slice k before the one at w, and what k slices hold.
Slot(w, k) == IF k <= w THEN w - k ELSE w + SAVE_SLICE_NUM - k
Volume(k) == k * cache_size

\* What is in the full slices, in the slice at wp and in the file: where one ends the
\* next begins.
InSlices ==
  \A k \in 1..his.n :
    LET s == his.save_cache[Slot(his.wp, k)]
    IN  /\ Len(s) = cache_size
        /\ \A i \in 1..cache_size : s[i] = written - his.cache_filled - Volume(k) + i
InLast ==
  LET s == his.save_cache[his.wp]
  IN  /\ Len(s) >= his.cache_filled
      /\ \A i \in 1..his.cache_filled : s[i] = written - his.cache_filled + i
InFile == \A i \in 1..Len(file) : file[i] = i

\* The slice that was written is counted a step later.
Unsaved == IF saver.at = "count" THEN his.n - 1 ELSE his.n
Saved ==
  Len(file) = IF saver.at \in {"leave", "ended"} THEN written
              ELSE written - his.cache_filled - Volume(Unsaved)

\* The thread writes the oldest slice, and leaves only when it is told to and nothing is
\* left.
SaverRuns ==
  /\ saver.at \in {"write", "count"} => his.n > 0 /\ saver.head = Slot(his.wp, his.n)
  /\ saver.at \in {"rest", "leave", "ended"} => his.n = 0 /\ stop # "no"
  /\ his.stopping => stop # "no"
  /\ saver.at \notin {"born", "ended"} => his.running

Stopped ==
  /\ stop # "no" => left = 0 /\ saver.at # "born"
  /\ stop = "freed" => saver.at = "ended"
  /\ ~damaged

Kept == HisTypes /\ InSlices /\ InLast /\ InFile /\ Saved /\ SaverRuns /\ Stopped

\* Once a slice has been passed over nobody writes the ring any more: what the file has,
\* and the open slice, come in order all the same.
InOrder == \A i \in DOMAIN file : \A j \in 1..i - 1 : file[j] < file[i]
Holed ==
  /\ HisTypes /\ InLast
  /\ stop # "no" /\ left = 0 /\ ~damaged /\ saver.at \in {"rest", "leave", "ended"}
  /\ saver.at = "rest" => InFile /\ Len(file) <= written - his.cache_filled
  /\ saver.at # "rest" => InOrder

HisInv == (gap = {} => Kept) /\ (gap = {"slice"} => Holed)

-----------------------------------------------------------------------------
(* The ring *)

LEMMA SlotsOfRing ==
  ASSUME NEW w \in H!Slices
  PROVE  /\ \A k \in 0..SAVE_SLICE_NUM : Slot(w, k) \in H!Slices
         /\ \A k \in 1..SAVE_SLICE_NUM - 1 : Slot(w, k) # w
         /\ \A k \in 0..SAVE_SLICE_NUM :
              (w + SAVE_SLICE_NUM - k) % SAVE_SLICE_NUM = Slot(w, k)
<1>1. SAVE_SLICE_NUM \in Nat \ {0} /\ w \in 0..SAVE_SLICE_NUM - 1
  BY HistoryAssumption DEF H!Slices
<1>2. \A k \in 0..SAVE_SLICE_NUM : Slot(w, k) \in H!Slices
  BY <1>1 DEF Slot, H!Slices
<1>3. \A k \in 1..SAVE_SLICE_NUM - 1 : Slot(w, k) # w
  BY <1>1 DEF Slot
<1>4. ASSUME NEW k \in 0..SAVE_SLICE_NUM
      PROVE  (w + SAVE_SLICE_NUM - k) % SAVE_SLICE_NUM = Slot(w, k)
  BY <1>1, Z3 DEF Slot
<1> QED  BY <1>2, <1>3, <1>4

\* Once wp has gone on, what was k before it is k + 1 before it.
LEMMA SlotGoesOn ==
  ASSUME NEW w \in H!Slices
  PROVE  LET next_w == (w + 1) % SAVE_SLICE_NUM
         IN  /\ next_w \in H!Slices /\ Slot(next_w, 1) = w
             /\ \A k \in 1..SAVE_SLICE_NUM - 1 : Slot(next_w, k + 1) = Slot(w, k)
<1>1. SAVE_SLICE_NUM \in Nat \ {0} /\ w \in 0..SAVE_SLICE_NUM - 1
  BY HistoryAssumption DEF H!Slices
<1>2. (w + 1) % SAVE_SLICE_NUM = IF w + 1 = SAVE_SLICE_NUM THEN 0 ELSE w + 1
  BY <1>1, Z3
<1> QED  BY <1>1, <1>2 DEF Slot, H!Slices

LEMMA Volumes ==
  /\ Volume(0) = 0 /\ Volume(1) = cache_size
  /\ \A k \in Nat : Volume(k) \in Nat /\ Volume(k + 1) = Volume(k) + cache_size
<1>1. cache_size \in Nat
  BY HistoryAssumption
<1> QED  BY <1>1 DEF Volume

\* What his_write appends goes on where the slice ends.
LEMMA AppendedUnits ==
  ASSUME NEW s \in Seq(Int), NEW filled \in 0..Len(s), NEW fill \in Nat, NEW u \in Int,
         \A i \in 1..filled : s[i] = u - filled + i
  PROVE  LET t == SubSeq(s, 1, filled) \o [i \in 1..fill |-> u + i]
         IN  /\ t \in Seq(Int) /\ Len(t) = filled + fill
             /\ \A i \in 1..filled + fill : t[i] = u - filled + i
<1> DEFINE a == SubSeq(s, 1, filled)
           b == [i \in 1..fill |-> u + i]
<1>1. /\ a \in Seq(Int) /\ Len(a) = filled
      /\ \A i \in 1..filled : a[i] = s[i]
  BY SubSeqProperties
<1>2. b \in Seq(Int) /\ Len(b) = fill /\ \A i \in 1..fill : b[i] = u + i
  <2>1. b \in [1..fill -> Int] /\ DOMAIN b = 1..fill
    OBVIOUS
  <2>2. \A i \in 1..fill : b[i] = u + i
    OBVIOUS
  <2> HIDE DEF b
  <2> QED  BY <2>1, <2>2
<1> HIDE DEF a, b
<1>3. /\ a \o b \in Seq(Int) /\ Len(a \o b) = filled + fill
      /\ \A i \in 1..filled + fill : (a \o b)[i] = IF i <= filled THEN a[i] ELSE b[i - filled]
  BY <1>1, <1>2, ConcatProperties
<1>4. \A i \in 1..filled + fill : (a \o b)[i] = u - filled + i
  <2>1. ASSUME NEW i \in 1..filled + fill, i <= filled
        PROVE  (a \o b)[i] = u - filled + i
    <3>1. i \in 1..filled
      BY <2>1
    <3> QED  BY <1>1, <1>3, <2>1, <3>1
  <2>2. ASSUME NEW i \in 1..filled + fill, ~(i <= filled)
        PROVE  (a \o b)[i] = u - filled + i
    <3>1. i - filled \in 1..fill
      BY <2>2
    <3>2. (a \o b)[i] = u + (i - filled)
      BY <1>2, <1>3, <2>2, <3>1
    <3> QED  BY <3>2
  <2> QED  BY <2>1, <2>2
<1> QED  BY <1>3, <1>4 DEF a, b

-----------------------------------------------------------------------------
(* The recording task *)

LEMMA InitHisInv == H!HisInit => HisInv
<1> SUFFICES ASSUME H!HisInit
             PROVE  HisInv
  OBVIOUS
<1>1. /\ his.wp = 0 /\ his.n = 0 /\ his.cache_filled = 0 /\ his.stopping = FALSE
      /\ his.save_cache = [i \in H!Slices |-> <<>>]
      /\ saver = [at |-> "born", head |-> 0]
      /\ left = 0 /\ written = 0 /\ file = <<>> /\ stop = "no" /\ gap = {}
      /\ damaged = FALSE
  BY DEF H!HisInit
<1>2. 0 \in H!Slices
  BY HistoryAssumption DEF H!Slices
<1>3. HisTypes
  <2>1. [i \in H!Slices |-> <<>>] \in [H!Slices -> Seq(Int)]
    OBVIOUS
  <2>2. 0 \in 0..SAVE_SLICE_NUM /\ 0 \in 0..cache_size - 1
    BY HistoryAssumption
  <2>3. his \in [wp : H!Slices, n : 0..SAVE_SLICE_NUM, cache_filled : 0..cache_size - 1,
              save_cache : [H!Slices -> Seq(Int)], running : BOOLEAN, stopping : BOOLEAN]
    BY <1>2, <2>1, <2>2 DEF H!HisInit
  <2>4. file \in Seq(Int) /\ left \in Nat /\ written \in Nat
    BY <1>1
  <2> QED  BY <1>1, <1>2, <2>3, <2>4 DEF HisTypes
<1>4. InSlices /\ InFile /\ SaverRuns /\ Stopped
  BY <1>1 DEF InSlices, InFile, SaverRuns, Stopped
<1>5. InLast
  BY <1>1, <1>2 DEF InLast
<1>6. Saved
  BY <1>1, Volumes DEF Saved, Unsaved
<1> QED  BY <1>1, <1>3, <1>4, <1>5, <1>6 DEF HisInv, Kept

\* A record is taken while the history runs; one that comes later is a gap.
LEMMA AddInv ==
  ASSUME HisInv, NEW size \in RecordSizes, H!media_lib_add_mem_his(size)
  PROVE  HisInv'
<1>1. UNCHANGED <<his, saver, written, file, stop>> /\ size \in Nat
  BY HistoryAssumption DEF H!media_lib_add_mem_his
<1>2. CASE stop = "no"
  <2>1. gap' = gap /\ left' = size /\ UNCHANGED damaged
    BY <1>2 DEF H!media_lib_add_mem_his, H!Freed
  <2>2. gap = {} => Kept'
    BY <1>1, <1>2, <2>1 DEF HisInv, Kept, HisTypes, InSlices, InLast, InFile, Saved, Unsaved,
       SaverRuns, Stopped
  <2>3. gap # {"slice"}
    BY <1>2 DEF HisInv, Holed
  <2> QED  BY <2>1, <2>2, <2>3 DEF HisInv
<1>3. CASE stop # "no"
  <2>1. "record" \in gap'
    BY <1>3 DEF H!media_lib_add_mem_his
  <2> QED  BY <2>1 DEF HisInv
<1> QED  BY <1>2, <1>3

\* What fits goes into the slice at wp; a slice that is full is one of those to save.
LEMMA HisWriteInv ==
  ASSUME Kept, gap = {}, H!his_write
  PROVE  Kept'
<1> DEFINE room == cache_size - his.cache_filled
           fill == IF room > left THEN left ELSE room
           s == his.save_cache[his.wp]
           t == SubSeq(s, 1, his.cache_filled) \o [i \in 1..fill |-> written + i]
<1>1. /\ his.wp \in H!Slices /\ his.n \in 0..SAVE_SLICE_NUM
      /\ his.cache_filled \in 0..cache_size - 1
      /\ his.save_cache \in [H!Slices -> Seq(Int)] /\ left \in Nat /\ written \in Nat
      /\ cache_size \in Nat \ {0} /\ SAVE_SLICE_NUM \in Nat \ {0}
  BY HistoryAssumption DEF Kept, HisTypes
<1>2. left > 0 /\ stop = "no"
  BY <1>1 DEF Kept, Stopped, H!his_write
<1>3. /\ his.n < SAVE_SLICE_NUM /\ his' = H!Filled(fill) /\ left' = left - fill
      /\ written' = written + fill /\ UNCHANGED <<saver, file, stop, gap, damaged>>
  BY <1>2 DEF H!his_write, H!Freed
<1>4. fill \in Nat \ {0} /\ his.cache_filled + fill <= cache_size /\ fill <= left
  BY <1>1, <1>2
<1>5. /\ s \in Seq(Int) /\ his.cache_filled \in 0..Len(s)
      /\ \A i \in 1..his.cache_filled : s[i] = written - his.cache_filled + i
  BY <1>1 DEF Kept, InLast
<1>6. /\ t \in Seq(Int) /\ Len(t) = his.cache_filled + fill
      /\ \A i \in 1..his.cache_filled + fill : t[i] = written - his.cache_filled + i
  <2> HIDE DEF s, fill
  <2>1. fill \in Nat
    BY <1>4
  <2>2. written \in Int
    BY <1>1
  <2> QED  BY <1>5, <2>1, <2>2, AppendedUnits
<1> HIDE DEF t
<1>7. /\ his'.save_cache = [his.save_cache EXCEPT ![his.wp] = t]
      /\ his'.running = his.running /\ his'.stopping = his.stopping
      /\ his' = [wp |-> his'.wp, n |-> his'.n, cache_filled |-> his'.cache_filled,
                 save_cache |-> his'.save_cache, running |-> his.running,
                 stopping |-> his.stopping]
      /\ IF his.cache_filled + fill < cache_size
           THEN his'.wp = his.wp /\ his'.n = his.n
                /\ his'.cache_filled = his.cache_filled + fill
           ELSE his'.wp = (his.wp + 1) % SAVE_SLICE_NUM /\ his'.n = his.n + 1
                /\ his'.cache_filled = 0
  BY <1>3 DEF H!Filled, H!Append_, t, Kept, HisTypes
<1> HIDE DEF s, fill
<1>8. /\ his'.save_cache \in [H!Slices -> Seq(Int)]
      /\ his'.save_cache[his.wp] = t
      /\ \A k \in 1..his.n : his'.save_cache[Slot(his.wp, k)] = his.save_cache[Slot(his.wp, k)]
  <2>1. \A k \in 1..his.n : Slot(his.wp, k) \in H!Slices /\ Slot(his.wp, k) # his.wp
    <3>1. \A k \in 1..his.n : k \in 1..SAVE_SLICE_NUM - 1 /\ k \in 0..SAVE_SLICE_NUM
      BY <1>1, <1>3
    <3> QED  BY <1>1, <3>1, SlotsOfRing
  <2> QED  BY <1>1, <1>6, <1>7, <2>1
<1>9. InFile' /\ Stopped'
  BY <1>1, <1>2, <1>3 DEF Kept, InFile, Stopped
<1>10. CASE his.cache_filled + fill < cache_size
  <2>1. his'.wp = his.wp /\ his'.n = his.n /\ his'.cache_filled = his.cache_filled + fill
    BY <1>7, <1>10
  <2>2. written' - his'.cache_filled = written - his.cache_filled
    BY <1>1, <1>3, <1>4, <2>1
  <2>3. HisTypes'
    <3>1. his'.cache_filled \in 0..cache_size - 1
      BY <1>1, <1>4, <1>10, <2>1
    <3>2. left' \in Nat /\ written' \in Nat
      BY <1>1, <1>3, <1>4
    <3>3. his.running \in BOOLEAN /\ his.stopping \in BOOLEAN
      BY DEF Kept, HisTypes
    <3> QED  BY <1>1, <1>3, <1>7, <1>8, <2>1, <3>1, <3>2, <3>3 DEF Kept, HisTypes
  <2>4. InSlices'
    BY <1>8, <2>1, <2>2 DEF Kept, InSlices
  <2>5. InLast'
    BY <1>6, <1>8, <2>1, <2>2 DEF InLast
  <2>6. Saved' /\ SaverRuns'
    <3>1. written' - his'.cache_filled - Volume(Unsaved') =
          written - his.cache_filled - Volume(Unsaved)
      BY <1>3, <2>1, <2>2 DEF Unsaved
    <3>2. saver.at \notin {"leave", "ended"}
      BY <1>2 DEF Kept, SaverRuns
    <3>3. Saved'
      BY <1>3, <3>1, <3>2 DEF Kept, Saved
    <3> QED  BY <1>3, <1>7, <2>1, <3>3 DEF Kept, SaverRuns
  <2> QED  BY <1>9, <2>3, <2>4, <2>5, <2>6 DEF Kept
<1>11. CASE ~(his.cache_filled + fill < cache_size)
  <2>1. /\ his'.wp = (his.wp + 1) % SAVE_SLICE_NUM /\ his'.n = his.n + 1
        /\ his'.cache_filled = 0
    BY <1>7, <1>11
  <2>2. /\ his.cache_filled + fill = cache_size
        /\ written' = written - his.cache_filled + cache_size /\ written' \in Nat
    <3>1. his.cache_filled + fill = cache_size
      BY <1>1, <1>4, <1>11
    <3>2. written' = written + fill
      BY <1>3
    <3> QED  BY <1>1, <1>4, <3>1, <3>2
  <2>3. /\ his'.wp \in H!Slices /\ Slot(his'.wp, 1) = his.wp
        /\ \A k \in 1..his.n : Slot(his'.wp, k + 1) = Slot(his.wp, k)
    BY <1>1, <1>3, <2>1, SlotGoesOn
  <2>4. HisTypes'
    <3>1. his'.n \in 0..SAVE_SLICE_NUM /\ his'.cache_filled \in 0..cache_size - 1
      BY <1>1, <1>3, <2>1
    <3>2. left' \in Nat /\ written' \in Nat
      BY <1>1, <1>3, <1>4
    <3>3. his.running \in BOOLEAN /\ his.stopping \in BOOLEAN
      BY DEF Kept, HisTypes
    <3> QED  BY <1>1, <1>3, <1>7, <1>8, <2>3, <3>1, <3>2, <3>3 DEF Kept, HisTypes
  <2>5. InSlices'
    <3> SUFFICES ASSUME NEW k \in 1..his'.n
                 PROVE  /\ Len(his'.save_cache[Slot(his'.wp, k)]) = cache_size
                        /\ \A i \in 1..cache_size :
                             his'.save_cache[Slot(his'.wp, k)][i]
                             = written' - his'.cache_filled - Volume(k) + i
      BY DEF InSlices
    <3>0. written' - his'.cache_filled = written'
      BY <2>1, <2>2
    <3>1. CASE k = 1
      <4>1. his'.save_cache[Slot(his'.wp, k)] = t
        BY <1>8, <2>3, <3>1
      <4>2. \A i \in 1..cache_size : t[i] = written - his.cache_filled + i
        BY <1>6, <2>2
      <4>0. Volume(k) = cache_size
        BY <3>1, Volumes
      <4>3. written' - his'.cache_filled - Volume(k) = written - his.cache_filled
        BY <1>1, <2>2, <3>0, <4>0
      <4> QED  BY <1>6, <2>2, <4>1, <4>2, <4>3
    <3>2. CASE k # 1
      <4> DEFINE j == k - 1
      <4>1. j \in 1..his.n /\ k = j + 1
        BY <1>1, <2>1, <3>2
      <4> HIDE DEF j
      <4>2. his'.save_cache[Slot(his'.wp, k)] = his.save_cache[Slot(his.wp, j)]
        BY <1>8, <2>3, <4>1
      <4>3. Volume(k) = Volume(j) + cache_size /\ Volume(j) \in Nat
        BY <4>1, Volumes
      <4>5. written' - his'.cache_filled - Volume(k) = written - his.cache_filled - Volume(j)
        BY <1>1, <2>2, <3>0, <4>3
      <4>4. /\ Len(his.save_cache[Slot(his.wp, j)]) = cache_size
            /\ \A i \in 1..cache_size :
                 his.save_cache[Slot(his.wp, j)][i] = written - his.cache_filled - Volume(j) + i
        BY <4>1 DEF Kept, InSlices
      <4> QED  BY <4>2, <4>4, <4>5
    <3> QED  BY <3>1, <3>2
  <2>6. InLast'
    BY <1>8, <2>1, <2>3 DEF InLast
  <2>7. Saved'
    <3>1. saver.at \notin {"leave", "ended"}
      BY <1>2 DEF Kept, SaverRuns
    <3>2. Unsaved \in Nat /\ Unsaved' = Unsaved + 1
      BY <1>1, <1>3, <2>1 DEF Kept, SaverRuns, Unsaved
    <3>3. Volume(Unsaved') = Volume(Unsaved) + cache_size /\ Volume(Unsaved) \in Nat
      BY <3>2, Volumes
    <3>4. written' - his'.cache_filled - Volume(Unsaved') =
          written - his.cache_filled - Volume(Unsaved)
      BY <1>1, <2>1, <2>2, <3>3
    <3> QED  BY <1>3, <3>1, <3>4 DEF Kept, Saved
  <2>8. SaverRuns'
    <3>1. saver.at \in {"write", "count"} => Slot(his'.wp, his'.n) = Slot(his.wp, his.n)
      BY <1>1, <2>1, <2>3 DEF Kept, SaverRuns
    <3>2. saver.at \notin {"rest", "leave", "ended"}
      BY <1>2 DEF Kept, SaverRuns
    <3> QED  BY <1>1, <1>3, <1>7, <2>1, <3>1, <3>2 DEF Kept, SaverRuns
  <2> QED  BY <1>9, <2>4, <2>5, <2>6, <2>7, <2>8 DEF Kept
<1> QED  BY <1>10, <1>11

-----------------------------------------------------------------------------
(* save_thread *)

\* The thread runs before the history can be stopped, unless there is a gap.
LEMMA SaveThreadInv ==
  ASSUME Kept, gap = {}, H!save_thread
  PROVE  Kept'
<1>1. saver.at = "born" /\ stop = "no"
  BY DEF H!save_thread, H!Saver, Kept, Stopped
<1>2. /\ his' = [his EXCEPT !.running = TRUE] /\ saver' = [saver EXCEPT !.at = "look"]
      /\ UNCHANGED <<left, written, file, stop, gap, damaged>>
  BY <1>1 DEF H!save_thread, H!To, H!Freed
<1>3. /\ his'.wp = his.wp /\ his'.n = his.n /\ his'.cache_filled = his.cache_filled
      /\ his'.save_cache = his.save_cache /\ his'.stopping = his.stopping /\ his'.running
      /\ saver'.at = "look"
  BY <1>2 DEF Kept, HisTypes
<1>4. HisTypes'
  BY <1>2 DEF Kept, HisTypes
<1>5. InSlices' /\ InLast' /\ InFile'
  BY <1>2, <1>3 DEF Kept, InSlices, InLast, InFile
<1>6. Saved'
  BY <1>1, <1>2, <1>3 DEF Kept, Saved, Unsaved
<1>7. SaverRuns' /\ Stopped'
  BY <1>1, <1>2, <1>3 DEF Kept, SaverRuns, Stopped
<1> QED  BY <1>4, <1>5, <1>6, <1>7 DEF Kept

\* The steps of the thread that leave the ring and the file alone.
LEMMA LookHisInv ==
  ASSUME Kept, gap = {}, H!Look
  PROVE  Kept'
<1>1. /\ saver.at = "look" /\ UNCHANGED <<his, left, written, file, stop, gap, damaged>>
      /\ \/ /\ his.n > 0
            /\ saver' = [at |-> "write",
                         head |-> (his.wp + SAVE_SLICE_NUM - his.n) % SAVE_SLICE_NUM]
         \/ saver' = [saver EXCEPT !.at = "seen"]
  BY DEF H!Look, H!Saver, H!To
<1>2. /\ his.wp \in H!Slices /\ his.n \in 0..SAVE_SLICE_NUM
      /\ saver.head \in H!Slices /\ DOMAIN saver = {"at", "head"}
  BY DEF Kept, HisTypes
<1>3. /\ Slot(his.wp, his.n) \in H!Slices
      /\ (his.wp + SAVE_SLICE_NUM - his.n) % SAVE_SLICE_NUM = Slot(his.wp, his.n)
  BY <1>2, SlotsOfRing
<1>4. \/ his.n > 0 /\ saver' = [at |-> "write", head |-> Slot(his.wp, his.n)]
      \/ saver' = [saver EXCEPT !.at = "seen"]
  BY <1>1, <1>3
<1>5. HisTypes'
  <2>1. saver' \in [at : {"born", "look", "seen", "write", "count", "rest", "leave", "ended"},
                    head : H!Slices]
    <3>1. CASE saver' = [at |-> "write", head |-> Slot(his.wp, his.n)]
      BY <1>3, <3>1
    <3>2. CASE saver' = [saver EXCEPT !.at = "seen"]
      BY <3>2 DEF Kept, HisTypes
    <3> QED  BY <1>4, <3>1, <3>2
  <2> QED  BY <1>1, <2>1 DEF Kept, HisTypes
<1>6. saver'.at \in {"write", "seen"}
  BY <1>2, <1>4
<1>7. InSlices' /\ InLast' /\ InFile'
  BY <1>1 DEF Kept, InSlices, InLast, InFile
<1>8. Saved'
  BY <1>1, <1>6 DEF Kept, Saved, Unsaved
<1>9. SaverRuns'
  BY <1>1, <1>2, <1>4 DEF Kept, SaverRuns
<1>10. Stopped'
  BY <1>1, <1>6 DEF Kept, Stopped
<1> QED  BY <1>5, <1>7, <1>8, <1>9, <1>10 DEF Kept

\* The thread leaves with nothing in the slices, or passes over those that are full.
LEMMA LookStoppingInv ==
  ASSUME Kept, gap = {}, H!LookStopping
  PROVE  HisInv'
<1>1. /\ saver.at = "seen" /\ UNCHANGED <<his, left, written, file, stop, damaged>>
      /\ IF his.stopping
           THEN saver' = [saver EXCEPT !.at = "rest"]
                /\ gap' = gap \cup {g \in {"slice"} : his.n > 0}
           ELSE saver' = [saver EXCEPT !.at = "look"] /\ gap' = gap
  BY DEF H!LookStopping, H!Saver, H!To
<1>2. saver'.at = IF his.stopping THEN "rest" ELSE "look"
  BY <1>1 DEF Kept, HisTypes
<1>3. HisTypes' /\ InSlices' /\ InLast' /\ InFile' /\ Stopped'
  BY <1>1, <1>2 DEF Kept, HisTypes, InSlices, InLast, InFile, Stopped
<1>4. Saved'
  BY <1>1, <1>2 DEF Kept, Saved, Unsaved
<1>5. his.n \in Nat /\ his.cache_filled \in Nat /\ written \in Nat
  BY HistoryAssumption DEF Kept, HisTypes
<1>6. CASE his.stopping /\ his.n > 0
  <2>1. gap' = {"slice"} /\ saver'.at = "rest" /\ stop' # "no" /\ left' = 0 /\ ~damaged'
    BY <1>1, <1>2, <1>6 DEF Kept, SaverRuns, Stopped
  <2>2. Len(file) = written - his.cache_filled - Volume(his.n) /\ Volume(his.n) \in Nat
    BY <1>1, <1>5, Volumes DEF Kept, Saved, Unsaved
  <2>3. Len(file') <= written' - his'.cache_filled
    BY <1>1, <1>5, <2>2
  <2>4. Holed'
    BY <1>3, <2>1, <2>3 DEF Holed
  <2> QED  BY <2>1, <2>4 DEF HisInv
<1>7. CASE ~(his.stopping /\ his.n > 0)
  <2>1. gap' = {}
    BY <1>1, <1>7
  <2>2. SaverRuns'
    BY <1>1, <1>2, <1>5, <1>7 DEF Kept, SaverRuns
  <2> QED  BY <1>3, <1>4, <2>1, <2>2 DEF HisInv, Kept
<1> QED  BY <1>6, <1>7

\* The oldest slice goes on where the file ends.
LEMMA FileGrows ==
  ASSUME NEW f \in Seq(Int), NEW s \in Seq(Int), \A i \in 1..Len(f) : f[i] = i,
         \A i \in 1..Len(s) : s[i] = Len(f) + i
  PROVE  /\ f \o s \in Seq(Int) /\ Len(f \o s) = Len(f) + Len(s)
         /\ \A i \in 1..Len(f \o s) : (f \o s)[i] = i
<1>1. /\ f \o s \in Seq(Int) /\ Len(f \o s) = Len(f) + Len(s)
      /\ \A i \in 1..Len(f) + Len(s) : (f \o s)[i] = IF i <= Len(f) THEN f[i] ELSE s[i - Len(f)]
  BY ConcatProperties
<1>2. ASSUME NEW i \in 1..Len(f) + Len(s)
      PROVE  (f \o s)[i] = i
  <2>1. Len(f) \in Nat /\ Len(s) \in Nat
    OBVIOUS
  <2>2. CASE i <= Len(f)
    <3>1. i \in 1..Len(f)
      BY <2>1, <2>2
    <3> QED  BY <1>1, <2>2, <3>1
  <2>3. CASE ~(i <= Len(f))
    <3>1. i - Len(f) \in 1..Len(s)
      BY <2>1, <2>3
    <3>2. (f \o s)[i] = Len(f) + (i - Len(f))
      BY <1>1, <2>3, <3>1
    <3> QED  BY <2>1, <3>2
  <2> QED  BY <2>2, <2>3
<1> QED  BY <1>1, <1>2

LEMMA WriteInv ==
  ASSUME Kept, gap = {}, H!Write
  PROVE  Kept'
<1> DEFINE s == his.save_cache[saver.head]
<1>1. /\ saver.at = "write" /\ file' = file \o s
      /\ saver' = [saver EXCEPT !.at = "count"]
      /\ UNCHANGED <<his, left, written, stop, gap, damaged>>
  BY DEF H!Write, H!Saver, H!To
<1>2. /\ his.n \in 1..SAVE_SLICE_NUM /\ saver.head = Slot(his.wp, his.n)
      /\ saver.head \in H!Slices /\ his.save_cache \in [H!Slices -> Seq(Int)]
      /\ written \in Nat /\ his.cache_filled \in Nat /\ file \in Seq(Int)
      /\ cache_size \in Nat
  BY <1>1, HistoryAssumption DEF Kept, HisTypes, SaverRuns
<1>3. /\ s \in Seq(Int) /\ Len(s) = cache_size
      /\ \A i \in 1..cache_size : s[i] = written - his.cache_filled - Volume(his.n) + i
  BY <1>2 DEF Kept, InSlices
<1>4. Len(file) = written - his.cache_filled - Volume(his.n)
  BY <1>1 DEF Kept, Saved, Unsaved
<1> HIDE DEF s
<1>5. /\ file' \in Seq(Int) /\ Len(file') = Len(file) + cache_size
      /\ \A i \in 1..Len(file') : file'[i] = i
  <2>1. \A i \in 1..Len(s) : s[i] = Len(file) + i
    BY <1>3, <1>4
  <2>2. \A i \in 1..Len(file) : file[i] = i
    BY DEF Kept, InFile
  <2> QED  BY <1>1, <1>2, <1>3, <2>1, <2>2, FileGrows
<1>6. saver'.at = "count" /\ saver'.head = saver.head
  BY <1>1 DEF Kept, HisTypes
<1>7. HisTypes'
  BY <1>1, <1>5 DEF Kept, HisTypes
<1>8. InSlices' /\ InLast' /\ InFile'
  BY <1>1, <1>5 DEF Kept, InSlices, InLast, InFile
<1>9. Saved'
  <2> DEFINE j == his.n - 1
  <2>1. j \in Nat /\ his.n = j + 1
    BY <1>2
  <2> HIDE DEF j
  <2>2. Volume(his.n) = Volume(j) + cache_size /\ Volume(j) \in Nat
    BY <2>1, Volumes
  <2>3. Len(file') = written - his.cache_filled - Volume(j)
    BY <1>2, <1>4, <1>5, <2>2
  <2>4. Unsaved' = j
    BY <1>1, <1>2, <1>6, <2>1 DEF Unsaved
  <2> QED  BY <1>1, <1>6, <2>3, <2>4 DEF Saved
<1>10. SaverRuns' /\ Stopped'
  BY <1>1, <1>6 DEF Kept, SaverRuns, Stopped
<1> QED  BY <1>7, <1>8, <1>9, <1>10 DEF Kept

\* What was written is counted: it is none of the full slices any more.
LEMMA CountInv ==
  ASSUME Kept, gap = {}, H!Count
  PROVE  Kept'
<1>1. /\ saver.at = "count" /\ his' = [his EXCEPT !.n = @ - 1]
      /\ saver' = [saver EXCEPT !.at = "look"]
      /\ UNCHANGED <<left, written, file, stop, gap, damaged>>
  BY DEF H!Count, H!Saver, H!To
<1>2. his.n \in 1..SAVE_SLICE_NUM
  BY <1>1 DEF Kept, HisTypes, SaverRuns
<1>3. /\ his'.wp = his.wp /\ his'.n = his.n - 1 /\ his'.cache_filled = his.cache_filled
      /\ his'.save_cache = his.save_cache /\ his'.stopping = his.stopping
      /\ his'.running = his.running /\ saver'.at = "look"
  BY <1>1 DEF Kept, HisTypes
<1>4. HisTypes'
  <2>1. his.n - 1 \in 0..SAVE_SLICE_NUM
    BY <1>2, HistoryAssumption
  <2> QED  BY <1>1, <2>1 DEF Kept, HisTypes
<1>5. InSlices'
  <2>1. \A k \in 1..his'.n : k \in 1..his.n
    BY <1>2, <1>3
  <2> QED  BY <1>1, <1>3, <2>1 DEF Kept, InSlices
<1>6. InLast' /\ InFile'
  BY <1>1, <1>3 DEF Kept, InLast, InFile
<1>7. Saved'
  BY <1>1, <1>3 DEF Kept, Saved, Unsaved
<1>8. SaverRuns' /\ Stopped'
  BY <1>1, <1>3 DEF Kept, SaverRuns, Stopped
<1> QED  BY <1>4, <1>5, <1>6, <1>7, <1>8 DEF Kept

\* The slice at wp follows the last full one.
LEMMA WriteRestInv ==
  ASSUME Kept, gap = {}, H!WriteRest
  PROVE  Kept'
<1> DEFINE s == SubSeq(his.save_cache[his.wp], 1, his.cache_filled)
<1>1. /\ saver.at = "rest" /\ saver' = [saver EXCEPT !.at = "leave"]
      /\ file' = IF his.cache_filled > 0 THEN file \o s ELSE file
      /\ UNCHANGED <<his, left, written, stop, gap, damaged>>
  BY DEF H!WriteRest, H!Saver, H!To
<1>2. /\ his.n = 0 /\ stop # "no" /\ file \in Seq(Int) /\ written \in Nat
      /\ his.wp \in H!Slices /\ his.cache_filled \in Nat
      /\ his.save_cache[his.wp] \in Seq(Int)
  BY <1>1, HistoryAssumption DEF Kept, HisTypes, SaverRuns
<1>3. Len(file) = written - his.cache_filled
  BY <1>1, <1>2, Volumes DEF Kept, Saved, Unsaved
<1>4. /\ s \in Seq(Int) /\ Len(s) = his.cache_filled
      /\ \A i \in 1..his.cache_filled : s[i] = Len(file) + i
  <2>1. /\ Len(his.save_cache[his.wp]) >= his.cache_filled
        /\ \A i \in 1..his.cache_filled : his.save_cache[his.wp][i] = Len(file) + i
    BY <1>3 DEF Kept, InLast
  <2> QED  BY <1>2, <2>1, SubSeqProperties
<1> HIDE DEF s
<1>5. /\ file' \in Seq(Int) /\ Len(file') = written
      /\ \A i \in 1..Len(file') : file'[i] = i
  <2>1. \A i \in 1..Len(file) : file[i] = i
    BY DEF Kept, InFile
  <2>2. CASE his.cache_filled > 0
    <3>1. /\ file \o s \in Seq(Int) /\ Len(file \o s) = Len(file) + his.cache_filled
          /\ \A i \in 1..Len(file \o s) : (file \o s)[i] = i
      BY <1>2, <1>4, <2>1, FileGrows
    <3> QED  BY <1>1, <1>2, <1>3, <2>2, <3>1
  <2>3. CASE ~(his.cache_filled > 0)
    BY <1>1, <1>2, <1>3, <2>1, <2>3
  <2> QED  BY <2>2, <2>3
<1>6. saver'.at = "leave"
  BY <1>1 DEF Kept, HisTypes
<1>7. HisTypes'
  BY <1>1, <1>5 DEF Kept, HisTypes
<1>8. InSlices' /\ InLast' /\ InFile'
  BY <1>1, <1>5 DEF Kept, InSlices, InLast, InFile
<1>9. Saved'
  BY <1>1, <1>5, <1>6 DEF Saved
<1>10. SaverRuns' /\ Stopped'
  BY <1>1, <1>2, <1>6 DEF Kept, SaverRuns, Stopped
<1> QED  BY <1>7, <1>8, <1>9, <1>10 DEF Kept

LEMMA LeaveInv ==
  ASSUME Kept, gap = {}, H!Leave
  PROVE  Kept'
<1>1. /\ saver.at = "leave" /\ saver' = [saver EXCEPT !.at = "ended"]
      /\ his' = [his EXCEPT !.stopping = FALSE, !.running = FALSE]
      /\ UNCHANGED <<left, written, file, stop, gap, damaged>>
  BY DEF H!Leave, H!Saver, H!To
<1>2. /\ his'.wp = his.wp /\ his'.n = his.n /\ his'.cache_filled = his.cache_filled
      /\ his'.save_cache = his.save_cache /\ ~his'.stopping
      /\ saver'.at = "ended"
  BY <1>1 DEF Kept, HisTypes
<1>3. HisTypes'
  BY <1>1 DEF Kept, HisTypes
<1>4. InSlices' /\ InLast' /\ InFile'
  BY <1>1, <1>2 DEF Kept, InSlices, InLast, InFile
<1>5. Saved'
  BY <1>1, <1>2 DEF Kept, Saved
<1>6. SaverRuns' /\ Stopped'
  BY <1>1, <1>2 DEF Kept, SaverRuns, Stopped
<1> QED  BY <1>3, <1>4, <1>5, <1>6 DEF Kept

\* What is left of the open slice goes into the file after the hole.
LEMMA HoledGoesOn ==
  ASSUME HisInv, gap = {"slice"}, gap' = gap, H!HisNext
  PROVE  Holed'
<1>1. /\ HisTypes /\ InLast /\ stop # "no" /\ left = 0 /\ ~damaged
      /\ saver.at \in {"rest", "leave", "ended"}
  BY DEF HisInv, Holed
<1>2. CASE H!WriteRest
  <2> DEFINE s == SubSeq(his.save_cache[his.wp], 1, his.cache_filled)
             l == Len(file)
             f == file'
  <2>1. /\ saver.at = "rest" /\ saver' = [saver EXCEPT !.at = "leave"]
        /\ file' = IF his.cache_filled > 0 THEN file \o s ELSE file
        /\ UNCHANGED <<his, left, written, stop, damaged>>
    BY <1>2 DEF H!WriteRest, H!Saver, H!To
  <2>2. /\ file \in Seq(Int) /\ written \in Nat /\ his.cache_filled \in Nat
        /\ his.save_cache[his.wp] \in Seq(Int) /\ l \in Nat
        /\ l <= written - his.cache_filled /\ \A i \in 1..l : file[i] = i
    BY <2>1, HistoryAssumption DEF HisInv, Holed, HisTypes, InFile
  <2>3. /\ s \in Seq(Int) /\ Len(s) = his.cache_filled
        /\ \A i \in 1..his.cache_filled : s[i] = written - his.cache_filled + i
    <3>1. /\ Len(his.save_cache[his.wp]) >= his.cache_filled
          /\ \A i \in 1..his.cache_filled :
               his.save_cache[his.wp][i] = written - his.cache_filled + i
      BY <1>1 DEF InLast
    <3> QED  BY <2>2, <3>1, SubSeqProperties
  <2>4. /\ file \o s \in Seq(Int) /\ Len(file \o s) = l + Len(s)
        /\ \A i \in 1..l + Len(s) : (file \o s)[i] = IF i <= l THEN file[i] ELSE s[i - l]
    BY <2>2, <2>3, ConcatProperties
  <2> HIDE DEF s, l
  <2>5. /\ f \in Seq(Int) /\ Len(f) \in l..l + his.cache_filled
        /\ \A i \in 1..Len(f) : f[i] = IF i <= l THEN i ELSE written - his.cache_filled + (i - l)
    <3>1. CASE his.cache_filled > 0
      <4>1. f = file \o s /\ Len(f) = l + his.cache_filled
        BY <2>1, <2>3, <2>4, <3>1
      <4>2. ASSUME NEW i \in 1..Len(f)
            PROVE  f[i] = IF i <= l THEN i ELSE written - his.cache_filled + (i - l)
        <5>1. CASE i <= l
          <6>1. i \in 1..l
            BY <2>2, <5>1
          <6> QED  BY <2>2, <2>3, <2>4, <4>1, <5>1, <6>1
        <5>2. CASE ~(i <= l)
          <6>1. i - l \in 1..his.cache_filled
            BY <2>2, <4>1, <5>2
          <6> QED  BY <2>3, <2>4, <4>1, <5>2, <6>1
        <5> QED  BY <5>1, <5>2
      <4> QED  BY <2>2, <2>4, <4>1, <4>2
    <3>2. CASE ~(his.cache_filled > 0)
      <4>1. f = file /\ Len(f) = l /\ l \in l..l + his.cache_filled
        BY <2>1, <2>2, <3>2 DEF l
      <4> QED  BY <2>2, <4>1
    <3> QED  BY <3>1, <3>2
  <2>6. InOrder'
    <3> SUFFICES ASSUME NEW i \in DOMAIN f, NEW j \in 1..i - 1
                 PROVE  f[j] < f[i]
      BY DEF InOrder
    <3> HIDE DEF f
    <3>0. DOMAIN f = 1..Len(f) /\ Len(f) \in Nat
      BY <2>5
    <3>1. i \in 1..Len(f) /\ j \in 1..Len(f) /\ j < i
      BY <3>0
    <3>2. /\ f[i] = IF i <= l THEN i ELSE written - his.cache_filled + (i - l)
          /\ f[j] = IF j <= l THEN j ELSE written - his.cache_filled + (j - l)
      BY <2>5, <3>1
    <3> QED  BY <2>2, <3>1, <3>2
  <2>7. saver'.at = "leave" /\ HisTypes' /\ InLast'
    BY <1>1, <2>1, <2>5 DEF HisTypes, InLast
  <2> QED  BY <1>1, <2>1, <2>6, <2>7 DEF Holed
<1>3. CASE H!Leave
  <2>1. /\ saver.at = "leave" /\ saver' = [saver EXCEPT !.at = "ended"]
        /\ his' = [his EXCEPT !.stopping = FALSE, !.running = FALSE]
        /\ UNCHANGED <<left, written, file, stop, damaged>>
    BY <1>3 DEF H!Leave, H!Saver, H!To
  <2>2. /\ saver'.at = "ended" /\ HisTypes' /\ InLast'
    BY <1>1, <2>1 DEF HisTypes, InLast
  <2> QED  BY <1>1, <2>1, <2>2 DEF HisInv, Holed, InOrder
<1>4. CASE H!media_lib_stop_mem_his
  <2>1. stop' = "freed" /\ UNCHANGED <<his, saver, left, written, file, damaged>>
    BY <1>1, <1>4 DEF H!media_lib_stop_mem_his
  <2> QED  BY <1>1, <2>1 DEF HisInv, Holed, HisTypes, InLast, InFile, InOrder
<1>5. ~(\E size \in RecordSizes : H!media_lib_add_mem_his(size))
  <2>1. ASSUME NEW size \in RecordSizes, H!media_lib_add_mem_his(size)
        PROVE  FALSE
    <3>1. "record" \in gap'
      BY <1>1, <2>1 DEF H!media_lib_add_mem_his
    <3> QED  BY <3>1
  <2> QED  BY <2>1
<1>6. ~H!his_write /\ ~H!save_thread /\ ~H!Look /\ ~H!LookStopping /\ ~H!Write /\ ~H!Count
  BY <1>1 DEF H!his_write, H!save_thread, H!Look, H!LookStopping, H!Write, H!Count, H!Saver
<1> QED  BY <1>2, <1>3, <1>4, <1>5, <1>6 DEF H!HisNext

\* The slices are freed when the thread has left.
LEMMA StopHisInv ==
  ASSUME gap = {}, HisInv, gap' = {}, H!media_lib_stop_mem_his
  PROVE  Kept'
<1>2. Kept /\ UNCHANGED <<saver, left, written, file, damaged>>
  BY DEF HisInv, H!media_lib_stop_mem_his
<1>3. CASE /\ stop = "no" /\ stop' = "waits" /\ his' = [his EXCEPT !.stopping = TRUE]
           /\ ~(left > 0) /\ saver.at # "born"
  <2>1. /\ his'.wp = his.wp /\ his'.n = his.n /\ his'.cache_filled = his.cache_filled
        /\ his'.save_cache = his.save_cache /\ his'.running = his.running
    BY <1>2, <1>3 DEF Kept, HisTypes
  <2>2. HisTypes'
    BY <1>2, <1>3 DEF Kept, HisTypes
  <2>3. InSlices' /\ InLast' /\ InFile'
    BY <1>2, <2>1 DEF Kept, InSlices, InLast, InFile
  <2>4. Saved'
    BY <1>2, <2>1 DEF Kept, Saved, Unsaved
  <2>5. left = 0
    BY <1>2, <1>3 DEF Kept, HisTypes
  <2>6. SaverRuns' /\ Stopped'
    BY <1>2, <1>3, <2>1, <2>5 DEF Kept, SaverRuns, Stopped
  <2> QED  BY <2>2, <2>3, <2>4, <2>6 DEF Kept
<1>4. CASE stop = "waits" /\ ~his.running /\ stop' = "freed" /\ UNCHANGED his
  <2>1. saver.at = "ended"
    BY <1>2, <1>4 DEF Kept, SaverRuns, Stopped
  <2>2. HisTypes' /\ InSlices' /\ InLast' /\ InFile' /\ Saved'
    BY <1>2, <1>4 DEF Kept, HisTypes, InSlices, InLast, InFile, Saved, Unsaved
  <2>3. SaverRuns' /\ Stopped'
    BY <1>2, <1>4, <2>1 DEF Kept, SaverRuns, Stopped
  <2> QED  BY <2>2, <2>3 DEF Kept
<1> QED  BY <1>3, <1>4 DEF H!media_lib_stop_mem_his, H!Saver

-----------------------------------------------------------------------------

LEMMA NextHisInv == HisInv /\ H!HisNext => HisInv'
<1> SUFFICES ASSUME HisInv, H!HisNext
             PROVE  HisInv'
  OBVIOUS
<1>1. ASSUME NEW size \in RecordSizes, H!media_lib_add_mem_his(size)
      PROVE  HisInv'
  BY <1>1, AddInv
<1>2. gap \subseteq gap'
  BY DEF H!HisNext, H!media_lib_add_mem_his, H!his_write, H!save_thread, H!Look,
     H!LookStopping, H!Write, H!Count, H!WriteRest, H!Leave, H!media_lib_stop_mem_his
<1>3. CASE gap = {}
  <2>1. Kept
    BY <1>3 DEF HisInv
  <2>2. CASE H!LookStopping
    BY <1>3, <2>1, <2>2, LookStoppingInv
  <2>3. CASE H!his_write \/ H!save_thread \/ H!Look \/ H!Write \/ H!Count \/ H!WriteRest \/ H!Leave
    <3>1. gap' = {}
      BY <1>3, <2>3 DEF H!his_write, H!save_thread, H!Look, H!Write, H!Count, H!WriteRest, H!Leave
    <3>2. Kept'
      BY <1>3, <2>1, <2>3, HisWriteInv, SaveThreadInv, LookHisInv, WriteInv, CountInv,
         WriteRestInv, LeaveInv
    <3> QED  BY <3>1, <3>2 DEF HisInv
  <2>4. CASE H!media_lib_stop_mem_his
    <3>1. gap' # {"slice"}
      BY <1>3, <2>4 DEF H!media_lib_stop_mem_his
    <3>2. gap' = {} => Kept'
      BY <1>3, <2>4, StopHisInv
    <3> QED  BY <3>1, <3>2 DEF HisInv
  <2> QED  BY <1>1, <2>2, <2>3, <2>4 DEF H!HisNext
<1>4. CASE gap = {"slice"} /\ gap' = gap
  BY <1>4, HoledGoesOn DEF HisInv
<1>5. CASE gap # {} /\ ~(gap = {"slice"} /\ gap' = gap)
  <2>1. gap' # {}
    BY <1>2, <1>5
  <2>2. gap' # {"slice"}
    BY <1>2, <1>5
  <2> QED  BY <2>1, <2>2 DEF HisInv
<1> QED  BY <1>3, <1>4, <1>5

LEMMA HisKept == HisInv /\ UNCHANGED his_vars => HisInv'
BY DEF his_vars, HisInv, Kept, HisTypes, InSlices, InLast, InFile, Saved, Unsaved, SaverRuns,
       Stopped, Holed, InOrder

LEMMA HisInvHolds == HisInv => FileIsWhole
<1> SUFFICES ASSUME HisInv
             PROVE  FileIsWhole
  OBVIOUS
<1>1. ASSUME gap = {}
      PROVE  /\ \A i \in DOMAIN file : file[i] = i
             /\ stop = "freed" => Len(file) = written /\ ~damaged
  <2>1. \A i \in DOMAIN file : file[i] = i
    BY <1>1 DEF HisInv, Kept, HisTypes, InFile
  <2>2. stop = "freed" => Len(file) = written /\ ~damaged
    BY <1>1 DEF HisInv, Kept, Saved, Stopped
  <2> QED  BY <2>1, <2>2
<1>2. ASSUME gap = {"slice"}
      PROVE  (\A i \in DOMAIN file : \A j \in 1..i - 1 : file[j] < file[i]) /\ ~damaged
  <2>1. CASE saver.at # "rest"
    BY <1>2, <2>1 DEF HisInv, Holed, InOrder
  <2>2. CASE saver.at = "rest"
    <3>1. file \in Seq(Int) /\ (\A i \in 1..Len(file) : file[i] = i) /\ ~damaged
      BY <1>2, <2>2 DEF HisInv, Holed, HisTypes, InFile
    <3> QED  BY <3>1
  <2> QED  BY <2>1, <2>2
<1> QED  BY <1>1, <1>2 DEF FileIsWhole, H!FileIsWhole, H!Freed

\* FileIsWhole, for any number and size of slices, records of any size and any pace of
\* the thread: what media_lib_add_mem_his takes is in the file in its order, none
\* missing and none twice, unless the history is stopped within a record or before
\* save_thread has run; a slice that save_thread passes over leaves it in order.
THEOREM FileStaysWhole == Spec => []FileIsWhole
<1>1. Init => HisInv
  BY InitHisInv DEF Init
<1>2. HisInv /\ [Next]_vars => HisInv'
  BY NextHisInv, HisKept DEF Next, vars
<1>3. HisInv => FileIsWhole
  BY HisInvHolds
<1> QED  BY <1>1, <1>2, <1>3, PTL DEF Spec

-----------------------------------------------------------------------------
(* The page *)

\* What the argument looks at.
Fields == {"mqttClient", "heartbeatTimer", "janus", "connectable", "subscriberHandle"}

WebTypes ==
  /\ Fields \subseteq DOMAIN page /\ page.mqttClient \in Links \cup {0}
  /\ DOMAIN link = Links /\ DOMAIN session = Sessions
  /\ DOMAIN handle = Handles
  /\ \A h \in Handles : DOMAIN handle[h] = {"state", "of"}
  /\ odd \subseteq W!Odd

Beats == "late_close" \notin odd /\ W!Online => page.heartbeatTimer

\* The page has one session at most, and cannot connect while there is one.
OneSession ==
  "early_destroy" \notin odd =>
    /\ page.janus \in Sessions \cup {0}
    /\ \A s \in Sessions : session[s] \in {"creating", "live"} => s = page.janus /\ ~page.connectable
    /\ \A s \in asked : s \in Sessions /\ session[s] = "live"

\* A subscriber is of a session that was created; the one that is on is the page's.
OneSubscriber ==
  /\ \A h \in Handles :
       \/ handle[h].of = 0
       \/ handle[h].of \in Sessions /\ session[handle[h].of] \notin {"none", "creating"}
  /\ odd \cap {"listed_twice", "early_destroy"} = {} =>
       /\ \A h \in Handles : handle[h].state = "on" /\ W!Live(handle[h].of) =>
                               h = page.subscriberHandle
       /\ \A g, h \in Handles : W!Receiving(g) /\ W!Receiving(h) => g = h

WebInv == WebTypes /\ Beats /\ OneSession /\ OneSubscriber

\* Of the page, what a function of it leaves as it was.
LEMMA PageFunctions ==
  ASSUME NEW p, Fields \subseteq DOMAIN p
  PROVE  /\ Fields \subseteq DOMAIN W!Cleaned(p) /\ W!Cleaned(p).mqttClient = p.mqttClient
         /\ W!Cleaned(p).heartbeatTimer = p.heartbeatTimer
         /\ W!Cleaned(p).janus = p.janus /\ W!Cleaned(p).connectable = p.connectable
         /\ W!Cleaned(p).subscriberHandle = 0
         /\ Fields \subseteq DOMAIN W!Reset(p) /\ W!Reset(p).mqttClient = p.mqttClient
         /\ W!Reset(p).heartbeatTimer = p.heartbeatTimer
         /\ W!Reset(p).janus = 0 /\ W!Reset(p).connectable = TRUE
         /\ W!Reset(p).subscriberHandle = 0
         /\ Fields \subseteq DOMAIN W!Detach(p) /\ W!Detach(p).mqttClient = p.mqttClient
         /\ W!Detach(p).heartbeatTimer = p.heartbeatTimer
         /\ W!Detach(p).janus = p.janus /\ W!Detach(p).connectable = p.connectable
         /\ W!Detach(p).subscriberHandle = 0
<1>1. /\ DOMAIN W!Cleaned(p) = DOMAIN p /\ W!Cleaned(p).mqttClient = p.mqttClient
      /\ W!Cleaned(p).heartbeatTimer = p.heartbeatTimer
      /\ W!Cleaned(p).janus = p.janus /\ W!Cleaned(p).connectable = p.connectable
      /\ W!Cleaned(p).subscriberHandle = 0
  BY DEF W!Cleaned, Fields
<1>2. Fields \subseteq DOMAIN W!Cleaned(p)
  BY <1>1
<1>3. /\ DOMAIN W!Reset(p) = DOMAIN W!Cleaned(p)
      /\ W!Reset(p).mqttClient = W!Cleaned(p).mqttClient
      /\ W!Reset(p).heartbeatTimer = W!Cleaned(p).heartbeatTimer
      /\ W!Reset(p).janus = 0 /\ W!Reset(p).connectable = TRUE
      /\ W!Reset(p).subscriberHandle = W!Cleaned(p).subscriberHandle
  BY <1>2 DEF W!Reset, Fields
<1>4. W!Detach(p) = W!Cleaned(p) \/ (W!Detach(p) = p /\ p.subscriberHandle = 0)
  BY DEF W!Detach
<1> QED  BY <1>1, <1>2, <1>3, <1>4

LEMMA InitWebInv == W!WebInit => WebInv
<1> SUFFICES ASSUME W!WebInit
             PROVE  WebInv
  OBVIOUS
<1>1. /\ Fields \subseteq DOMAIN page /\ page.mqttClient = 0 /\ page.janus = 0
      /\ link = [c \in Links |-> "none"] /\ session = [s \in Sessions |-> "none"]
      /\ handle = [h \in Handles |-> [state |-> "none", of |-> 0]]
      /\ asked = {} /\ odd = {}
  BY DEF W!WebInit, Fields
<1>2. \A h \in Handles : handle[h].state = "none" /\ handle[h].of = 0
  BY <1>1
<1>3. WebTypes
  BY <1>1 DEF WebTypes
<1>4. Beats /\ OneSession
  BY <1>1 DEF Beats, W!Online, OneSession
<1>5. OneSubscriber
  BY <1>2 DEF OneSubscriber, W!Receiving
<1> QED  BY <1>3, <1>4, <1>5 DEF WebInv

\* An object that is off or none receives nothing, and nothing comes over a session
\* that is not live.
LEMMA Alive ==
  ASSUME WebInv, odd = {}
  PROVE  /\ \A h \in Handles : W!Receiving(h) =>
              handle[h].of \in Sessions /\ session[handle[h].of] = "live"
              /\ handle[h].of = page.janus
         /\ \A h \in Handles : handle[h].state = "on" /\ W!Live(handle[h].of) =>
              h = page.subscriberHandle
         /\ \A g, h \in Handles : W!Receiving(g) /\ W!Receiving(h) => g = h
<1>1. \A h \in Handles : W!Receiving(h) =>
        handle[h].of \in Sessions /\ session[handle[h].of] = "live"
  BY DEF WebInv, OneSubscriber, W!Receiving, W!Live
<1> QED  BY <1>1 DEF WebInv, OneSession, OneSubscriber

-----------------------------------------------------------------------------
(* What a step leaves alone *)

Untuned ==
  /\ UNCHANGED link /\ Fields \subseteq DOMAIN page'
  /\ page'.mqttClient = page.mqttClient /\ page'.heartbeatTimer = page.heartbeatTimer
Unjoined == UNCHANGED <<session, asked>> /\ page'.janus = page.janus
            /\ page'.connectable = page.connectable
Unseen == UNCHANGED <<session, handle>> /\ page'.subscriberHandle = page.subscriberHandle

LEMMA UntunedInv ==
  ASSUME WebInv, Untuned, odd \subseteq odd'
  PROVE  Beats'
BY DEF WebInv, Beats, Untuned, W!Online

LEMMA UnjoinedInv ==
  ASSUME WebInv, Unjoined, odd \subseteq odd'
  PROVE  OneSession'
BY DEF WebInv, OneSession, Unjoined

LEMMA UnseenInv ==
  ASSUME WebInv, Unseen, odd \subseteq odd'
  PROVE  OneSubscriber'
<1>1. odd' \cap {"listed_twice", "early_destroy"} = {} =>
        odd \cap {"listed_twice", "early_destroy"} = {}
  OBVIOUS
<1> QED  BY <1>1 DEF WebInv, OneSubscriber, Unseen, W!Receiving, W!Live

\* The types, but for those of the page and of the order that was met.
LEMMA UntunedTypes ==
  ASSUME WebInv, Untuned, DOMAIN session' = Sessions, odd' \subseteq W!Odd,
         DOMAIN handle' = Handles, \A h \in Handles : DOMAIN handle'[h] = {"state", "of"}
  PROVE  WebTypes'
BY DEF WebInv, WebTypes, Untuned

LEMMA UnseenTypes ==
  ASSUME WebInv, Untuned, UNCHANGED handle, DOMAIN session' = Sessions, odd' \subseteq W!Odd
  PROVE  WebTypes'
BY UntunedTypes DEF WebInv, WebTypes

-----------------------------------------------------------------------------
(* The functions of the page that a step may call *)

\* destroySession
LEMMA DestroySessionInv ==
  ASSUME WebInv, odd = {}, NEW p, W!destroySession(p), Fields \subseteq DOMAIN p,
         p.janus = page.janus, p.connectable = page.connectable,
         p.subscriberHandle = page.subscriberHandle,
         UNCHANGED <<session, handle>>
  PROVE  /\ OneSession' /\ OneSubscriber' /\ odd' \subseteq W!Odd
         /\ Fields \subseteq DOMAIN page' /\ page'.mqttClient = p.mqttClient
         /\ page'.heartbeatTimer = p.heartbeatTimer
<1>1. /\ odd' \subseteq W!Odd
      /\ Fields \subseteq DOMAIN page' /\ page'.mqttClient = p.mqttClient
      /\ page'.heartbeatTimer = p.heartbeatTimer
  <2>1. page' = [p EXCEPT !.statsTimer = FALSE] \/ page' = W!Reset(p)
    BY DEF W!destroySession
  <2>2. odd' = odd \/ odd' = odd \cup {"early_destroy"}
    BY DEF W!destroySession
  <2>3. odd' \subseteq W!Odd
    BY <2>2 DEF W!Odd
  <2>4. CASE page' = [p EXCEPT !.statsTimer = FALSE]
    BY <2>3, <2>4 DEF Fields
  <2>5. CASE page' = W!Reset(p)
    BY <2>3, <2>5, PageFunctions
  <2> QED  BY <2>1, <2>4, <2>5
<1>2. CASE W!Live(p.janus)
  <2>1. /\ page'.janus = page.janus /\ page'.connectable = page.connectable
        /\ page'.subscriberHandle = page.subscriberHandle
        /\ asked' = asked \cup {page.janus} /\ odd' = odd
    BY <1>2 DEF W!destroySession, Fields
  <2>2. OneSubscriber'
    BY <2>1, UnseenInv DEF Unseen
  <2>3. page.janus \in Sessions /\ session[page.janus] = "live"
    BY <1>2 DEF WebInv, OneSession, W!Live
  <2>4. OneSession'
    BY <2>1, <2>3 DEF WebInv, OneSession
  <2> QED  BY <1>1, <2>2, <2>4
<1>3. CASE ~W!Live(p.janus)
  <2>1. /\ page' = W!Reset(p) /\ asked' = asked
        /\ odd' = IF page.janus # 0 /\ session[page.janus] = "creating"
                    THEN {"early_destroy"} ELSE {}
    BY <1>3 DEF W!destroySession
  <2>2. "early_destroy" \notin odd' =>
          \A s \in Sessions : session[s] \notin {"creating", "live"}
    BY <1>3, <2>1, PageAssumption DEF WebInv, OneSession, W!Live
  <2>3. OneSession'
    BY <2>1, <2>2, PageFunctions DEF WebInv, OneSession
  <2>4. OneSubscriber'
    <3>1. \A h \in Handles : ~W!Receiving(h)
      BY <1>3, Alive, PageAssumption DEF W!Live
    <3> QED  BY <3>1 DEF WebInv, OneSubscriber, W!Receiving, W!Live
  <2> QED  BY <1>1, <2>3, <2>4
<1> QED  BY <1>2, <1>3

\* connect: nothing was alive, and the new session is the page's.
LEMMA ConnectInv ==
  ASSUME WebInv, odd = {}, NEW p, W!connect(p), Fields \subseteq DOMAIN p,
         p.mqttClient = page.mqttClient, p.heartbeatTimer = page.heartbeatTimer,
         p.subscriberHandle = page.subscriberHandle,
         \A s \in Sessions : session[s] \notin {"creating", "live"},
         UNCHANGED <<link, handle, asked, odd>>
  PROVE  WebInv'
<1>1. PICK s \in Sessions :
        /\ session[s] = "none" /\ session' = [session EXCEPT ![s] = "creating"]
        /\ page' = [p EXCEPT !.janus = s, !.connectable = FALSE]
  BY DEF W!connect
<1>2. /\ Fields \subseteq DOMAIN page' /\ page'.mqttClient = page.mqttClient
      /\ page'.heartbeatTimer = page.heartbeatTimer
      /\ page'.subscriberHandle = page.subscriberHandle
      /\ page'.janus = s /\ page'.connectable = FALSE
  BY <1>1 DEF Fields
<1>3. /\ DOMAIN session' = Sessions /\ session'[s] = "creating"
      /\ \A r \in Sessions \ {s} : session'[r] = session[r]
  BY <1>1 DEF WebInv, WebTypes
<1>4. WebTypes'
  <2>1. Untuned /\ odd' \subseteq W!Odd
    BY <1>2 DEF Untuned
  <2> QED  BY <1>3, <2>1, UnseenTypes
<1>5. Beats'
  BY <1>2, UntunedInv DEF Untuned
<1>6. OneSession'
  <2>1. asked = {}
    BY DEF WebInv, OneSession
  <2> QED  BY <1>2, <1>3, <2>1 DEF OneSession
<1>7. OneSubscriber'
  <2>1. \A h \in Handles :
          \/ handle[h].of = 0
          \/ handle[h].of \in Sessions \ {s} /\ session[handle[h].of] \notin {"none", "creating"}
    BY <1>1 DEF WebInv, OneSubscriber
  <2>2. \A h \in Handles : ~W!Live(handle[h].of)'
    BY <1>3, <2>1 DEF W!Live
  <2>3. \A h \in Handles : ~W!Receiving(h)'
    BY <2>2 DEF W!Receiving
  <2> QED  BY <1>3, <2>1, <2>2, <2>3 DEF OneSubscriber
<1> QED  BY <1>4, <1>5, <1>6, <1>7 DEF WebInv

-----------------------------------------------------------------------------
(* MQTT *)

LEMMA MqttConnectInv == WebInv /\ W!mqttConnect => WebInv'
<1> SUFFICES ASSUME WebInv, W!mqttConnect
             PROVE  WebInv'
  OBVIOUS
<1>1. PICK c \in Links :
        /\ link' = [W!Ended(page) EXCEPT ![c] = "connecting"]
        /\ page' = [page EXCEPT !.mqttClient = c]
        /\ UNCHANGED <<session, handle, asked, odd>>
  BY DEF W!mqttConnect, W!Janus
<1>2. DOMAIN W!Ended(page) = Links
  BY DEF WebInv, WebTypes, W!Ended
<1>3. DOMAIN link' = Links /\ link'[c] = "connecting"
  BY <1>1, <1>2
<1>4. /\ Fields \subseteq DOMAIN page' /\ page'.mqttClient = c
      /\ page'.janus = page.janus /\ page'.connectable = page.connectable
      /\ page'.subscriberHandle = page.subscriberHandle
  BY <1>1 DEF WebInv, WebTypes, Fields
<1>5. WebTypes'
  BY <1>1, <1>3, <1>4 DEF WebInv, WebTypes
<1>6. Beats'
  BY <1>3, <1>4 DEF Beats, W!Online
<1>7. OneSession' /\ OneSubscriber'
  BY <1>1, <1>4, UnjoinedInv, UnseenInv DEF Unjoined, Unseen
<1> QED  BY <1>5, <1>6, <1>7 DEF WebInv

LEMMA MqttDisconnectInv == WebInv /\ W!mqttDisconnect => WebInv'
<1> SUFFICES ASSUME WebInv, W!mqttDisconnect
             PROVE  WebInv'
  OBVIOUS
<1>1. /\ link' = W!Ended(page)
      /\ page' = [page EXCEPT !.mqttClient = 0, !.heartbeatTimer = FALSE]
      /\ UNCHANGED <<session, handle, asked, odd>>
  BY DEF W!mqttDisconnect, W!Janus
<1>2. DOMAIN link' = Links
  BY <1>1 DEF WebInv, WebTypes, W!Ended
<1>3. /\ Fields \subseteq DOMAIN page' /\ page'.mqttClient = 0
      /\ page'.janus = page.janus /\ page'.connectable = page.connectable
      /\ page'.subscriberHandle = page.subscriberHandle
  BY <1>1 DEF WebInv, WebTypes, Fields
<1>4. WebTypes'
  BY <1>1, <1>2, <1>3 DEF WebInv, WebTypes
<1>5. Beats'
  BY <1>3 DEF Beats, W!Online
<1>6. OneSession' /\ OneSubscriber'
  BY <1>1, <1>3, UnjoinedInv, UnseenInv DEF Unjoined, Unseen
<1> QED  BY <1>4, <1>5, <1>6 DEF WebInv

LEMMA OnConnectInv == ASSUME NEW c \in Links  PROVE WebInv /\ W!OnConnect(c) => WebInv'
<1> SUFFICES ASSUME WebInv, W!OnConnect(c)
             PROVE  WebInv'
  OBVIOUS
<1>1. /\ link' = [link EXCEPT ![c] = "online"]
      /\ page' = [page EXCEPT !.pendingWebrtcOpen = TRUE, !.heartbeatTimer = TRUE]
      /\ UNCHANGED <<session, handle, asked, odd>>
  BY DEF W!OnConnect, W!Janus
<1>2. /\ Fields \subseteq DOMAIN page' /\ page'.mqttClient = page.mqttClient
      /\ page'.heartbeatTimer
      /\ page'.janus = page.janus /\ page'.connectable = page.connectable
      /\ page'.subscriberHandle = page.subscriberHandle
  BY <1>1 DEF WebInv, WebTypes, Fields
<1>3. WebTypes'
  BY <1>1, <1>2 DEF WebInv, WebTypes
<1>4. Beats'
  BY <1>2 DEF Beats
<1>5. OneSession' /\ OneSubscriber'
  BY <1>1, <1>2, UnjoinedInv, UnseenInv DEF Unjoined, Unseen
<1> QED  BY <1>3, <1>4, <1>5 DEF WebInv

\* The client that closes is the page's, or the page's is not online, or it is late.
LEMMA OnCloseInv ==
  ASSUME NEW c \in Links  PROVE WebInv /\ odd = {} /\ W!OnClose(c) => WebInv'
<1> SUFFICES ASSUME WebInv, odd = {}, W!OnClose(c)
             PROVE  WebInv'
  OBVIOUS
<1> DEFINE p == [page EXCEPT !.pendingWebrtcOpen = FALSE, !.heartbeatTimer = FALSE]
           late == page.mqttClient # c /\ page.mqttClient # 0 /\ link[page.mqttClient] = "online"
<1>1. /\ \E l \in {"closed", "connecting"} : link' = [link EXCEPT ![c] = l]
      /\ UNCHANGED <<session, handle>>
      /\ \/ page' = p /\ asked' = asked /\ odd' = IF late THEN {"late_close"} ELSE {}
         \/ ~late /\ W!destroySession(p)
  BY DEF W!OnClose
<1>2. /\ Fields \subseteq DOMAIN p /\ p.mqttClient = page.mqttClient
      /\ p.heartbeatTimer = FALSE /\ p.janus = page.janus
      /\ p.connectable = page.connectable /\ p.subscriberHandle = page.subscriberHandle
  BY DEF WebInv, WebTypes, Fields
<1> HIDE DEF p
<1>3. /\ DOMAIN link' = Links
      /\ ~late /\ page.mqttClient # 0 => link'[page.mqttClient] # "online"
  BY <1>1 DEF WebInv, WebTypes
<1>4. ASSUME Fields \subseteq DOMAIN page', page'.mqttClient = page.mqttClient,
             ~late \/ "late_close" \in odd', odd' \subseteq W!Odd
      PROVE  WebTypes' /\ Beats'
  <2>1. WebTypes'
    BY <1>1, <1>3, <1>4 DEF WebInv, WebTypes
  <2>2. Beats'
    BY <1>3, <1>4 DEF Beats, W!Online
  <2> QED  BY <2>1, <2>2
<1>5. CASE page' = p /\ asked' = asked /\ odd' = IF late THEN {"late_close"} ELSE {}
  <2>1. WebTypes' /\ Beats'
    BY <1>2, <1>4, <1>5 DEF W!Odd
  <2>2. OneSession' /\ OneSubscriber'
    BY <1>1, <1>2, <1>5, UnjoinedInv, UnseenInv DEF Unjoined, Unseen
  <2> QED  BY <2>1, <2>2 DEF WebInv
<1>6. CASE ~late /\ W!destroySession(p)
  <2>1. /\ OneSession' /\ OneSubscriber' /\ odd' \subseteq W!Odd
        /\ Fields \subseteq DOMAIN page' /\ page'.mqttClient = p.mqttClient
    BY <1>1, <1>2, <1>6, DestroySessionInv
  <2>2. WebTypes' /\ Beats'
    BY <1>2, <1>4, <1>6, <2>1
  <2> QED  BY <2>1, <2>2 DEF WebInv
<1> QED  BY <1>1, <1>5, <1>6

LEMMA OnReadyInv ==
  ASSUME NEW c \in Links  PROVE WebInv /\ odd = {} /\ W!OnReady(c) => WebInv'
<1> SUFFICES ASSUME WebInv, odd = {}, W!OnReady(c)
             PROVE  WebInv'
  OBVIOUS
<1> DEFINE p == [page EXCEPT !.pendingWebrtcOpen = FALSE]
<1>1. /\ UNCHANGED <<link, handle, asked, odd>>
      /\ \/ page.janus = 0 /\ W!connect(p)
         \/ page' = p /\ UNCHANGED session
  BY DEF W!OnReady
<1>2. /\ Fields \subseteq DOMAIN p /\ p.mqttClient = page.mqttClient
      /\ p.heartbeatTimer = page.heartbeatTimer /\ p.janus = page.janus
      /\ p.connectable = page.connectable /\ p.subscriberHandle = page.subscriberHandle
  BY DEF WebInv, WebTypes, Fields
<1> HIDE DEF p
<1>3. CASE page.janus = 0 /\ W!connect(p)
  <2>1. \A s \in Sessions : session[s] \notin {"creating", "live"}
    BY <1>3, PageAssumption DEF WebInv, OneSession
  <2> QED  BY <1>1, <1>2, <1>3, <2>1, ConnectInv
<1>4. CASE page' = p /\ UNCHANGED session
  <2>1. Untuned /\ Unjoined /\ Unseen
    BY <1>1, <1>2, <1>4 DEF Untuned, Unjoined, Unseen
  <2>2. WebTypes'
    BY <1>1, <1>4, <2>1, UnseenTypes DEF WebInv, WebTypes
  <2> QED  BY <1>1, <2>1, <2>2, UntunedInv, UnjoinedInv, UnseenInv DEF WebInv
<1> QED  BY <1>1, <1>3, <1>4

-----------------------------------------------------------------------------
(* The buttons, and the Janus session *)

LEMMA ClickedInv ==
  WebInv /\ odd = {} /\ (W!ConnectClicked \/ W!DisconnectClicked) => WebInv'
<1> SUFFICES ASSUME WebInv, odd = {}, W!ConnectClicked \/ W!DisconnectClicked
             PROVE  WebInv'
  OBVIOUS
<1>1. Fields \subseteq DOMAIN page
  BY DEF WebInv, WebTypes
<1>2. CASE W!ConnectClicked
  <2>1. /\ page.connectable /\ W!connect(page) /\ UNCHANGED <<link, handle, asked, odd>>
    BY <1>2 DEF W!ConnectClicked
  <2>2. \A s \in Sessions : session[s] \notin {"creating", "live"}
    BY <2>1 DEF WebInv, OneSession
  <2> QED  BY <1>1, <2>1, <2>2, ConnectInv
<1>3. CASE W!DisconnectClicked
  <2>1. /\ W!destroySession(page) /\ UNCHANGED <<link, session, handle>>
    BY <1>3 DEF W!DisconnectClicked
  <2>2. /\ OneSession' /\ OneSubscriber' /\ odd' \subseteq W!Odd
        /\ Fields \subseteq DOMAIN page' /\ page'.mqttClient = page.mqttClient
        /\ page'.heartbeatTimer = page.heartbeatTimer
    BY <1>1, <2>1, DestroySessionInv
  <2>3. Untuned
    BY <2>1, <2>2 DEF Untuned
  <2>4. WebTypes' /\ Beats'
    BY <2>1, <2>2, <2>3, UntunedInv, UnseenTypes DEF WebInv, WebTypes
  <2> QED  BY <2>2, <2>4 DEF WebInv
<1> QED  BY <1>2, <1>3

LEMMA SessionCreatedInv ==
  ASSUME NEW s \in Sessions  PROVE WebInv /\ odd = {} /\ W!SessionCreated(s) => WebInv'
<1> SUFFICES ASSUME WebInv, odd = {}, W!SessionCreated(s)
             PROVE  WebInv'
  OBVIOUS
<1>1. /\ session[s] = "creating" /\ session' = [session EXCEPT ![s] = "live"]
      /\ UNCHANGED <<page, link, handle, asked, odd>>
  BY DEF W!SessionCreated
<1>2. /\ DOMAIN session' = Sessions /\ session'[s] = "live"
      /\ \A r \in Sessions \ {s} : session'[r] = session[r]
  BY <1>1 DEF WebInv, WebTypes
<1>3. Untuned
  BY <1>1 DEF WebInv, WebTypes, Untuned
<1>4. WebTypes' /\ Beats'
  BY <1>1, <1>2, <1>3, UntunedInv, UnseenTypes DEF WebInv, WebTypes
<1>5. OneSession'
  <2>1. s = page.janus /\ ~page.connectable
    BY <1>1 DEF WebInv, OneSession
  <2> QED  BY <1>1, <1>2, <2>1 DEF WebInv, OneSession
<1>6. OneSubscriber'
  <2>1. \A h \in Handles : \/ handle[h].of = 0
                           \/ /\ handle[h].of \in Sessions \ {s}
                              /\ session[handle[h].of] \notin {"none", "creating"}
    BY <1>1 DEF WebInv, OneSubscriber
  <2>2. \A h \in Handles : W!Live(handle[h].of)' = W!Live(handle[h].of)
    BY <1>1, <1>2, <2>1 DEF W!Live
  <2>3. \A h \in Handles : W!Receiving(h)' = W!Receiving(h)
    BY <1>1, <2>2 DEF W!Receiving
  <2> QED  BY <1>1, <1>2, <2>1, <2>2, <2>3 DEF WebInv, OneSubscriber
<1> QED  BY <1>4, <1>5, <1>6 DEF WebInv

\* A session that is gone was the only one: then nothing is alive.
LEMMA SessionGone ==
  ASSUME NEW s \in Sessions, WebInv, odd = {}, session[s] \in {"creating", "live"},
         session' = [session EXCEPT ![s] = "dead"], asked' = asked \ {s},
         page'.janus \in Sessions \cup {0}, Untuned, UNCHANGED <<handle, odd>>
  PROVE  WebInv'
<1>1. /\ DOMAIN session' = Sessions /\ session'[s] = "dead"
      /\ \A r \in Sessions \ {s} : session'[r] = session[r]
  BY DEF WebInv, WebTypes
<1>2. WebTypes' /\ Beats'
  BY <1>1, UntunedInv, UnseenTypes DEF WebInv, WebTypes
<1>3. \A r \in Sessions : session'[r] \notin {"creating", "live"}
  BY <1>1 DEF WebInv, OneSession
<1>4. OneSession'
  BY <1>3 DEF WebInv, OneSession
<1>5. OneSubscriber'
  <2>1. \A h \in Handles : \/ handle[h].of = 0
                           \/ /\ handle[h].of \in Sessions
                              /\ session'[handle[h].of] \notin {"none", "creating"}
    BY <1>1 DEF WebInv, OneSubscriber
  <2>2. \A h \in Handles : ~W!Live(handle[h].of)'
    BY <1>3, <2>1 DEF W!Live
  <2>3. \A h \in Handles : ~W!Receiving(h)'
    BY <2>2 DEF W!Receiving
  <2> QED  BY <2>1, <2>2, <2>3 DEF OneSubscriber
<1> QED  BY <1>2, <1>4, <1>5 DEF WebInv

LEMMA SessionEndsInv ==
  ASSUME NEW s \in Sessions
  PROVE  WebInv /\ odd = {} /\ (W!SessionFails(s) \/ W!SessionDestroyed(s)) => WebInv'
<1> SUFFICES ASSUME WebInv, odd = {}, W!SessionFails(s) \/ W!SessionDestroyed(s)
             PROVE  WebInv'
  OBVIOUS
<1>1. /\ session' = [session EXCEPT ![s] = "dead"] /\ asked' = asked \ {s}
      /\ UNCHANGED <<handle, odd, link>>
  BY DEF W!SessionFails, W!SessionDestroyed
<1>2. session[s] \in {"creating", "live"}
  BY DEF W!SessionFails, W!SessionDestroyed, WebInv, OneSession
<1>3. page' = [page EXCEPT !.connectable = TRUE] \/ page' = W!Reset(page)
  BY DEF W!SessionFails, W!SessionDestroyed
<1>4. Fields \subseteq DOMAIN page /\ page.janus \in Sessions \cup {0}
  BY DEF WebInv, WebTypes, OneSession
<1>5. CASE page' = [page EXCEPT !.connectable = TRUE]
  <2>1. Untuned /\ page'.janus = page.janus
    BY <1>1, <1>4, <1>5 DEF Untuned, Fields
  <2> QED  BY <1>1, <1>2, <1>4, <2>1, SessionGone
<1>6. CASE page' = W!Reset(page)
  <2>1. Untuned /\ page'.janus = 0
    BY <1>1, <1>4, <1>6, PageFunctions DEF Untuned
  <2> QED  BY <1>1, <1>2, <2>1, SessionGone
<1> QED  BY <1>3, <1>5, <1>6

-----------------------------------------------------------------------------
(* The manager and the subscribers *)

\* A step that only looks, or sets what the argument does not look at.
LEMMA LookingInv ==
  ASSUME WebInv, Untuned, Unjoined, Unseen, UNCHANGED odd
  PROVE  WebInv'
<1>1. WebTypes'
  BY UnseenTypes DEF WebInv, WebTypes, Unseen
<1> QED  BY <1>1, UntunedInv, UnjoinedInv, UnseenInv DEF WebInv

LEMMA LooksInv ==
  \/ \E s \in Sessions : W!ManagerAttached(s)
  \/ \E f \in W!Feeds \cup {0} : W!Published(f)
  \/ \E h \in Handles : W!Track(h)
  \/ W!SampleStarts \/ W!VideoCame
  => (WebInv => WebInv')
<1> SUFFICES ASSUME WebInv,
                    \/ \E s \in Sessions : W!ManagerAttached(s)
                    \/ \E f \in W!Feeds \cup {0} : W!Published(f)
                    \/ \E h \in Handles : W!Track(h)
                    \/ W!SampleStarts \/ W!VideoCame
             PROVE  WebInv'
  OBVIOUS
<1>1. /\ UNCHANGED <<link, session, handle, asked, odd>>
      /\ \/ \E s : page' = [page EXCEPT !.managerHandle = s]
         \/ page' = page
         \/ page' = [page EXCEPT !.seen = TRUE, !.window = FALSE, !.stallCount = 0,
                                 !.statsTimer = TRUE]
         \/ page' = [page EXCEPT !.seen = TRUE]
  BY DEF W!ManagerAttached, W!Published, W!Track, W!SampleStarts, W!VideoCame, W!Janus
<1>2. Untuned /\ Unjoined /\ Unseen
  <2>1. Fields \subseteq DOMAIN page
    BY DEF WebInv, WebTypes
  <2> QED  BY <1>1, <2>1 DEF Untuned, Unjoined, Unseen, Fields
<1> QED  BY <1>1, <1>2, LookingInv

\* What detaching does to the handles: the one that was on is off.
LEMMA DetachedHandles ==
  ASSUME WebInv, odd = {}, NEW p, p.subscriberHandle = page.subscriberHandle
  PROVE  LET hs == W!Detached(handle, p)
         IN  /\ DOMAIN hs = Handles
             /\ \A h \in Handles : /\ DOMAIN hs[h] = {"state", "of"}
                                   /\ hs[h].of = handle[h].of
                                   /\ hs[h].state \in {handle[h].state, "off"}
             /\ \A h \in Handles : hs[h].state = "on" => ~W!Live(handle[h].of)
<1>1. /\ DOMAIN handle = Handles
      /\ \A h \in Handles : DOMAIN handle[h] = {"state", "of"}
  BY DEF WebInv, WebTypes
<1>2. \A h \in Handles : handle[h].state = "on" /\ W!Live(handle[h].of) =>
        h = page.subscriberHandle
  BY Alive
<1>3. CASE page.subscriberHandle = 0
  BY <1>1, <1>2, <1>3, PageAssumption DEF W!Detached
<1>4. CASE page.subscriberHandle # 0
  <2> DEFINE hs == W!Detached(handle, p)
  <2>1. hs = [handle EXCEPT ![page.subscriberHandle].state = "off"]
    BY <1>4 DEF W!Detached
  <2> HIDE DEF hs
  <2>2. /\ DOMAIN hs = Handles
        /\ \A h \in Handles \ {page.subscriberHandle} : hs[h] = handle[h]
    BY <1>1, <2>1
  <2>3. ASSUME NEW h \in Handles, h = page.subscriberHandle
        PROVE  DOMAIN hs[h] = {"state", "of"} /\ hs[h].of = handle[h].of /\ hs[h].state = "off"
    BY <1>1, <2>1, <2>3
  <2>4. \A h \in Handles : /\ DOMAIN hs[h] = {"state", "of"}
                           /\ hs[h].of = handle[h].of
                           /\ hs[h].state \in {handle[h].state, "off"}
    BY <1>1, <2>2, <2>3
  <2>5. \A h \in Handles : hs[h].state = "on" => ~W!Live(handle[h].of)
    BY <1>2, <2>2, <2>3
  <2> QED  BY <2>2, <2>4, <2>5 DEF hs
<1> QED  BY <1>3, <1>4

\* A step that turns handles off, with those that are on still the page's.
LEMMA TurnedOffInv ==
  ASSUME WebInv, odd = {}, UNCHANGED <<session, odd>>,
         \A h \in Handles : /\ handle'[h].of = handle[h].of
                            /\ handle'[h].state \in {handle[h].state, "off"},
         \A h \in Handles : handle'[h].state = "on" /\ W!Live(handle[h].of) =>
                              h = page'.subscriberHandle
  PROVE  OneSubscriber'
<1>1. \A h \in Handles : W!Live(handle[h].of)' = W!Live(handle[h].of)
  BY DEF W!Live
<1>2. \A h \in Handles : W!Receiving(h)' => W!Receiving(h)
  BY <1>1 DEF W!Receiving
<1> QED  BY <1>1, <1>2 DEF WebInv, OneSubscriber

\* The end of the steps that touch the handles only.
LEMMA HandlesInv ==
  ASSUME WebInv, Untuned, UNCHANGED <<session, asked>>, page'.janus = page.janus,
         page'.connectable = page.connectable,
         odd \subseteq odd', odd' \subseteq W!Odd, DOMAIN handle' = Handles,
         \A h \in Handles : DOMAIN handle'[h] = {"state", "of"},
         OneSubscriber'
  PROVE  WebInv'
<1>1. Unjoined /\ DOMAIN session' = Sessions
  BY DEF Unjoined, WebInv, WebTypes
<1> QED  BY <1>1, UntunedTypes, UntunedInv, UnjoinedInv DEF WebInv

\* attachSubscriber after the old subscriber is detached: one comes for one.
LEMMA ListAnsweredInv ==
  ASSUME NEW s \in Sessions  PROVE WebInv /\ odd = {} /\ W!ListAnswered(s) => WebInv'
<1> SUFFICES ASSUME WebInv, odd = {}, W!ListAnswered(s)
             PROVE  WebInv'
  OBVIOUS
<1> DEFINE hs == W!Detached(handle, page)
           p == W!Detach(page)
<1>1. /\ UNCHANGED <<link, session, asked>>
      /\ \/ page' = [page EXCEPT !.selectedFeedId = 0] /\ UNCHANGED <<handle, odd>>
         \/ UNCHANGED <<page, handle, odd>>
         \/ /\ W!attachSubscriber(hs, p)
            /\ odd' = IF W!Attaching THEN {"listed_twice"} ELSE {}
  BY DEF W!ListAnswered
<1>2. Fields \subseteq DOMAIN page
  BY DEF WebInv, WebTypes
<1>3. CASE \/ page' = [page EXCEPT !.selectedFeedId = 0] /\ UNCHANGED <<handle, odd>>
           \/ UNCHANGED <<page, handle, odd>>
  <2>1. Untuned /\ Unjoined /\ Unseen
    BY <1>1, <1>2, <1>3 DEF Untuned, Unjoined, Unseen, Fields
  <2> QED  BY <1>3, <2>1, LookingInv
<1>4. CASE /\ W!attachSubscriber(hs, p)
           /\ odd' = IF W!Attaching THEN {"listed_twice"} ELSE {}
  <2>1. /\ Fields \subseteq DOMAIN p /\ p.mqttClient = page.mqttClient
        /\ p.heartbeatTimer = page.heartbeatTimer /\ p.janus = page.janus
        /\ p.connectable = page.connectable /\ p.subscriberHandle = 0
    BY <1>2, PageFunctions
  <2>2. /\ DOMAIN hs = Handles
        /\ \A h \in Handles : /\ DOMAIN hs[h] = {"state", "of"}
                              /\ hs[h].of = handle[h].of
                              /\ hs[h].state \in {handle[h].state, "off"}
        /\ \A h \in Handles : hs[h].state = "on" => ~W!Live(handle[h].of)
    BY DetachedHandles
  <2> HIDE DEF hs, p
  <2>3. odd \subseteq odd' /\ odd' \subseteq W!Odd
    BY <1>4 DEF W!Odd
  <2>4. \E f : page' = [p EXCEPT !.selectedFeedId = f]
    BY <1>4 DEF W!attachSubscriber
  <2>5. /\ Fields \subseteq DOMAIN page' /\ page'.mqttClient = page.mqttClient
        /\ page'.heartbeatTimer = page.heartbeatTimer /\ page'.janus = page.janus
        /\ page'.connectable = page.connectable /\ page'.subscriberHandle = 0
    BY <2>1, <2>4 DEF Fields
  <2>6. Untuned
    BY <1>1, <2>5 DEF Untuned
  <2>7. CASE W!Live(p.janus)
    <3>1. PICK h \in Handles :
            /\ hs[h].state = "none"
            /\ handle' = [hs EXCEPT ![h] = [state |-> "attaching", of |-> p.janus]]
      BY <1>4, <2>7 DEF W!attachSubscriber
    <3>2. /\ DOMAIN handle' = Handles
          /\ handle'[h] = [state |-> "attaching", of |-> page.janus]
          /\ \A g \in Handles \ {h} : handle'[g] = hs[g]
      BY <2>1, <2>2, <3>1
    <3>3. \A g \in Handles : DOMAIN handle'[g] = {"state", "of"}
      BY <2>2, <3>2
    <3>4. page.janus \in Sessions /\ session[page.janus] = "live"
      BY <2>1, <2>7 DEF WebInv, OneSession, W!Live
    <3>5. OneSubscriber'
      <4>1. \A g \in Handles :
              \/ handle'[g].of = 0
              \/ handle'[g].of \in Sessions /\ session'[handle'[g].of] \notin {"none", "creating"}
        BY <1>1, <2>2, <3>2, <3>4 DEF WebInv, OneSubscriber
      <4>2. ASSUME NEW g \in Handles, odd' \cap {"listed_twice", "early_destroy"} = {},
                   handle'[g].state \in {"attaching", "on"}, W!Live(handle[g].of)
            PROVE  g = h
        <5>1. ~(handle[g].state = "attaching")
          BY <1>4, <4>2 DEF W!Attaching
        <5>2. g # h => handle'[g].state = hs[g].state
          BY <3>2
        <5> QED  BY <2>2, <4>2, <5>1, <5>2
      <4>3. \A g \in Handles : g # h => (W!Live(handle[g].of)' = W!Live(handle[g].of))
        BY <1>1, <2>2, <3>2 DEF W!Live
      <4>4. odd' \cap {"listed_twice", "early_destroy"} = {} =>
              \A g \in Handles : W!Receiving(g)' => g = h
        BY <4>2, <4>3 DEF W!Receiving
      <4>5. odd' \cap {"listed_twice", "early_destroy"} = {} =>
              \A g \in Handles : (handle[g].state = "on" /\ W!Live(handle[g].of))' => g = h
        BY <4>2, <4>3
      <4> QED  BY <3>2, <4>1, <4>4, <4>5 DEF OneSubscriber
    <3> QED  BY <1>1, <2>3, <2>5, <2>6, <3>2, <3>3, <3>5, HandlesInv
  <2>8. CASE ~W!Live(p.janus)
    <3>1. handle' = hs
      BY <1>4, <2>8 DEF W!attachSubscriber
    <3>2. \A h \in Handles : ~W!Receiving(h)
      BY <2>1, <2>8, Alive, PageAssumption DEF W!Live
    <3>3. OneSubscriber'
      <4>1. \A h \in Handles : W!Live(handle[h].of)' = W!Live(handle[h].of)
        BY <1>1, <2>2, <3>1 DEF W!Live
      <4>2. \A h \in Handles : ~W!Receiving(h)'
        BY <2>2, <3>1, <3>2, <4>1 DEF W!Receiving
      <4>3. \A h \in Handles : ~(handle[h].state = "on" /\ W!Live(handle[h].of))'
        BY <2>2, <3>1, <4>1
      <4> QED  BY <1>1, <2>2, <3>1, <4>2, <4>3 DEF WebInv, OneSubscriber
    <3> QED  BY <1>1, <2>2, <2>3, <2>5, <2>6, <3>1, <3>3, HandlesInv
  <2> QED  BY <2>7, <2>8
<1> QED  BY <1>1, <1>3, <1>4

\* The one that attaches is the one that is on; a failure turns it off.
LEMMA SubscriberAttachedInv ==
  ASSUME NEW h \in Handles  PROVE WebInv /\ odd = {} /\ W!SubscriberAttached(h) => WebInv'
<1> SUFFICES ASSUME WebInv, odd = {}, W!SubscriberAttached(h)
             PROVE  WebInv'
  OBVIOUS
<1>1. /\ handle[h].state = "attaching" /\ W!Live(handle[h].of)
      /\ UNCHANGED <<link, session, asked, odd>>
      /\ \/ /\ handle' = [handle EXCEPT ![h].state = "on"]
            /\ page' = [page EXCEPT !.subscriberHandle = h]
         \/ /\ handle' = [handle EXCEPT ![h].state = "off"]
            /\ page' = [page EXCEPT !.selectedFeedId = 0]
  BY DEF W!SubscriberAttached
<1>2. /\ DOMAIN handle = Handles
      /\ \A g \in Handles : DOMAIN handle[g] = {"state", "of"}
      /\ Fields \subseteq DOMAIN page /\ odd \subseteq W!Odd
  BY DEF WebInv, WebTypes
<1>3. /\ DOMAIN handle' = Handles
      /\ \A g \in Handles : DOMAIN handle'[g] = {"state", "of"} /\ handle'[g].of = handle[g].of
      /\ \A g \in Handles \ {h} : handle'[g] = handle[g]
      /\ handle'[h].state \in {"on", "off"}
  BY <1>1, <1>2
<1>4. Untuned /\ page'.janus = page.janus /\ page'.connectable = page.connectable
  BY <1>1, <1>2 DEF Untuned, Fields
<1>5. \A g \in Handles : W!Receiving(g) => g = h
  BY <1>1, Alive DEF W!Receiving
<1>6. OneSubscriber'
  <2>1. \A g \in Handles : W!Live(handle[g].of)' = W!Live(handle[g].of)
    BY <1>1, <1>3 DEF W!Live
  <2>2. \A g \in Handles : W!Receiving(g)' => g = h
    BY <1>3, <1>5, <2>1 DEF W!Receiving
  <2>3. handle'[h].state = "on" => page'.subscriberHandle = h
    BY <1>1, <1>2 DEF Fields
  <2>4. \A g \in Handles : (handle[g].state = "on" /\ W!Live(handle[g].of))' =>
          g = page'.subscriberHandle
    BY <1>3, <1>5, <2>1, <2>3 DEF W!Receiving
  <2> QED  BY <1>1, <1>3, <2>2, <2>4 DEF WebInv, OneSubscriber
<1> QED  BY <1>1, <1>2, <1>3, <1>4, <1>6, HandlesInv

\* The page's own subscriber is given up.
LEMMA GivenUpInv ==
  ASSUME WebInv, odd = {}, NEW p, p.subscriberHandle = page.subscriberHandle,
         handle' = W!Detached(handle, p), page'.subscriberHandle = 0,
         Untuned, page'.janus = page.janus, page'.connectable = page.connectable,
         UNCHANGED <<session, asked, odd>>
  PROVE  WebInv'
<1>1. /\ DOMAIN handle' = Handles
      /\ \A h \in Handles : /\ DOMAIN handle'[h] = {"state", "of"}
                            /\ handle'[h].of = handle[h].of
                            /\ handle'[h].state \in {handle[h].state, "off"}
      /\ \A h \in Handles : handle'[h].state = "on" => ~W!Live(handle[h].of)
  BY DetachedHandles
<1>2. OneSubscriber'
  BY <1>1, TurnedOffInv
<1>3. odd' \subseteq W!Odd
  OBVIOUS
<1> QED  BY <1>1, <1>2, <1>3, HandlesInv

LEMMA NoSuchFeedInv ==
  ASSUME NEW h \in Handles  PROVE WebInv /\ odd = {} /\ W!NoSuchFeed(h) => WebInv'
<1> SUFFICES ASSUME WebInv, odd = {}, W!NoSuchFeed(h)
             PROVE  WebInv'
  OBVIOUS
<1>1. /\ handle' = W!Detached(handle, page)
      /\ page' = [W!Detach(page) EXCEPT !.selectedFeedId = 0]
      /\ UNCHANGED <<link, session, asked, odd>>
  BY DEF W!NoSuchFeed
<1>2. Fields \subseteq DOMAIN page
  BY DEF WebInv, WebTypes
<1>3. /\ Untuned /\ page'.subscriberHandle = 0
      /\ page'.janus = page.janus /\ page'.connectable = page.connectable
  BY <1>1, <1>2, PageFunctions DEF Untuned, Fields
<1> QED  BY <1>1, <1>3, GivenUpInv

\* The one that is hung up is the page's.
LEMMA HungUpInv ==
  ASSUME NEW h \in Handles  PROVE WebInv /\ odd = {} /\ W!HungUp(h) => WebInv'
<1> SUFFICES ASSUME WebInv, odd = {}, W!HungUp(h)
             PROVE  WebInv'
  OBVIOUS
<1>1. /\ handle[h].state = "on" /\ W!Live(handle[h].of)
      /\ handle' = [handle EXCEPT ![h].state = "off"] /\ page' = W!Cleaned(page)
      /\ UNCHANGED <<link, session, asked, odd>>
  BY DEF W!HungUp, W!Subscribed
<1>2. /\ Fields \subseteq DOMAIN page /\ DOMAIN handle = Handles
      /\ \A g \in Handles : DOMAIN handle[g] = {"state", "of"}
  BY DEF WebInv, WebTypes
<1>3. /\ Untuned /\ page'.subscriberHandle = 0
      /\ page'.janus = page.janus /\ page'.connectable = page.connectable
  BY <1>1, <1>2, PageFunctions DEF Untuned
<1>4. h = page.subscriberHandle /\ h # 0
  BY <1>1, Alive, PageAssumption
<1>5. handle' = W!Detached(handle, page)
  BY <1>1, <1>4 DEF W!Detached
<1> QED  BY <1>1, <1>3, <1>5, GivenUpInv

LEMMA StalledInv ==
  ASSUME NEW expired \in BOOLEAN
  PROVE  WebInv /\ odd = {} /\ W!Stalled(expired) => WebInv'
<1> SUFFICES ASSUME WebInv, odd = {}, W!Stalled(expired)
             PROVE  WebInv'
  OBVIOUS
<1>1. \E n : LET p == [page EXCEPT !.window = TRUE, !.stallCount = n]
             IN  \/ /\ handle' = W!Detached(handle, p)
                    /\ page' = [W!Detach(p) EXCEPT !.selectedFeedId = 0, !.seen = TRUE]
                    /\ UNCHANGED <<asked, odd, link, session>>
                 \/ W!destroySession(p) /\ UNCHANGED <<handle, link, session>>
  BY DEF W!Stalled
<1>2. PICK n : LET p == [page EXCEPT !.window = TRUE, !.stallCount = n]
               IN  \/ /\ handle' = W!Detached(handle, p)
                      /\ page' = [W!Detach(p) EXCEPT !.selectedFeedId = 0, !.seen = TRUE]
                      /\ UNCHANGED <<asked, odd, link, session>>
                   \/ W!destroySession(p) /\ UNCHANGED <<handle, link, session>>
  BY <1>1
<1> DEFINE p == [page EXCEPT !.window = TRUE, !.stallCount = n]
<1>3. /\ Fields \subseteq DOMAIN p /\ p.mqttClient = page.mqttClient
      /\ p.heartbeatTimer = page.heartbeatTimer /\ p.janus = page.janus
      /\ p.connectable = page.connectable /\ p.subscriberHandle = page.subscriberHandle
  BY DEF WebInv, WebTypes, Fields
<1>4. \/ /\ handle' = W!Detached(handle, p)
         /\ page' = [W!Detach(p) EXCEPT !.selectedFeedId = 0, !.seen = TRUE]
         /\ UNCHANGED <<asked, odd, link, session>>
      \/ W!destroySession(p) /\ UNCHANGED <<handle, link, session>>
  BY <1>2
<1> HIDE DEF p
<1>5. CASE /\ handle' = W!Detached(handle, p)
           /\ page' = [W!Detach(p) EXCEPT !.selectedFeedId = 0, !.seen = TRUE]
           /\ UNCHANGED <<asked, odd, link, session>>
  <2>1. /\ Untuned /\ page'.subscriberHandle = 0
        /\ page'.janus = page.janus /\ page'.connectable = page.connectable
    BY <1>3, <1>5, PageFunctions DEF Untuned, Fields
  <2> QED  BY <1>3, <1>5, <2>1, GivenUpInv
<1>6. CASE W!destroySession(p) /\ UNCHANGED <<handle, link, session>>
  <2>1. /\ OneSession' /\ OneSubscriber' /\ odd' \subseteq W!Odd
        /\ Fields \subseteq DOMAIN page' /\ page'.mqttClient = page.mqttClient
        /\ page'.heartbeatTimer = page.heartbeatTimer
    BY <1>3, <1>6, DestroySessionInv
  <2>2. Untuned
    BY <1>6, <2>1 DEF Untuned
  <2>3. WebTypes' /\ Beats'
    BY <1>6, <2>1, <2>2, UntunedInv, UnseenTypes DEF WebInv, WebTypes
  <2> QED  BY <2>1, <2>3 DEF WebInv
<1> QED  BY <1>4, <1>5, <1>6

-----------------------------------------------------------------------------

LEMMA NextWebInv == WebInv /\ W!WebNext => WebInv'
<1> SUFFICES ASSUME WebInv, W!WebNext
             PROVE  WebInv'
  OBVIOUS
<1>1. odd = {}
  BY DEF W!WebNext
<1>2. CASE W!mqttConnect \/ W!mqttDisconnect
  BY <1>2, MqttConnectInv, MqttDisconnectInv
<1>3. CASE W!ConnectClicked \/ W!DisconnectClicked
  BY <1>1, <1>3, ClickedInv
<1>4. ASSUME NEW c \in Links, W!OnConnect(c) \/ W!OnClose(c) \/ W!OnReady(c)
      PROVE  WebInv'
  BY <1>1, <1>4, OnConnectInv, OnCloseInv, OnReadyInv
<1>5. ASSUME NEW s \in Sessions,
             W!SessionCreated(s) \/ W!SessionFails(s) \/ W!SessionDestroyed(s)
             \/ W!ListAnswered(s)
      PROVE  WebInv'
  BY <1>1, <1>5, SessionCreatedInv, SessionEndsInv, ListAnsweredInv
<1>6. ASSUME NEW h \in Handles, W!SubscriberAttached(h) \/ W!NoSuchFeed(h) \/ W!HungUp(h)
      PROVE  WebInv'
  BY <1>1, <1>6, SubscriberAttachedInv, NoSuchFeedInv, HungUpInv
<1>7. CASE \/ \E s \in Sessions : W!ManagerAttached(s)
           \/ \E f \in W!Feeds \cup {0} : W!Published(f)
           \/ \E h \in Handles : W!Track(h)
           \/ W!SampleStarts \/ W!VideoCame
  BY <1>7, LooksInv
<1>8. ASSUME NEW expired \in BOOLEAN, W!Stalled(expired)
      PROVE  WebInv'
  BY <1>1, <1>8, StalledInv
<1> QED  BY <1>2, <1>3, <1>4, <1>5, <1>6, <1>7, <1>8 DEF W!WebNext

LEMMA WebKept == WebInv /\ UNCHANGED web_vars => WebInv'
BY DEF web_vars, WebInv, WebTypes, Beats, W!Online, OneSession, OneSubscriber, W!Receiving,
       W!Live

LEMMA WebInvHolds == WebInv => PageIsWhole
<1> SUFFICES ASSUME WebInv
             PROVE  PageIsWhole
  OBVIOUS
<1>1. W!Online /\ "late_close" \notin odd => page.heartbeatTimer
  BY DEF WebInv, Beats
<1>2. "early_destroy" \notin odd =>
        \A s \in Sessions : W!Live(s) => s = page.janus \/ s \in asked
  BY DEF WebInv, OneSession, W!Live
<1>3. odd \cap {"listed_twice", "early_destroy"} = {} =>
        \A g, h \in Handles : W!Receiving(g) /\ W!Receiving(h) => g = h
  BY DEF WebInv, OneSubscriber
<1> QED  BY <1>1, <1>2, <1>3 DEF PageIsWhole, W!PageIsWhole

\* PageIsWhole, for any number of MQTT clients, Janus sessions, subscribers and events:
\* whatever the callbacks of app.js come in, the heartbeat beats while the page is
\* online, no session is left at the gateway and no two subscribers receive the video,
\* outside the named orders.
THEOREM PageStaysWhole == Spec => []PageIsWhole
<1>1. Init => WebInv
  BY InitWebInv DEF Init
<1>2. WebInv /\ [Next]_vars => WebInv'
  BY NextWebInv, WebKept DEF Next, vars
<1>3. WebInv => PageIsWhole
  BY WebInvHolds
<1> QED  BY <1>1, <1>2, <1>3, PTL DEF Spec

-----------------------------------------------------------------------------
(* The board.  codec_init.c is a plan of steps, carried out one by one; the  *)
(* invariant says what the steps left will still do: set up the ports that   *)
(* the codecs stand on, build objects that are not there yet, each once, or  *)
(* delete all there are.                                                     *)

Objects == {"gpio_if", "data_if", "out_ctrl_if", "out_codec_if", "play_dev",
            "data_in_if", "in_ctrl_if", "in_codec_if", "record_dev"}
\* The order in which init_codec builds them.
Rank == [gpio_if |-> 1, data_if |-> 2, out_ctrl_if |-> 3, out_codec_if |-> 4, play_dev |-> 5,
         data_in_if |-> 6, in_ctrl_if |-> 7, in_codec_if |-> 8, record_dev |-> 9]
BoardLines ==
  (UNION {{Boards[n][i] : i \in DOMAIN Boards[n]} : n \in DOMAIN Boards}) \cup {[type |-> "Board"]}
CodecLines ==
  [dir : {"in", "out", "in_out"}, i2c : Int, i2s : Nat, codec : {line.codec : line \in BoardLines}]
InitKinds == {"i2c0", "i2c", "i2s", "new", "dev"}
BoardSteps ==
  [step : {"i2c0", "i2c"}, arg : Int] \cup [step : {"i2s"}, arg : B!Ports]
  \cup [step : {"new", "dev", "delete"}, arg : Objects] \cup [step : {"end", "buses"}, arg : {0}]

\* A codec names ports that are listed, or none.
Named(c, sec) == (c.i2c < sec.i2c \/ c.i2c = 0) /\ (c.i2s < sec.i2s \/ c.i2s = 0)
SectionTypes ==
  /\ DOMAIN section = DOMAIN B!Section0 /\ section.i2c \in 0..2 /\ section.i2s \in 0..2
  /\ section.codec \in Seq(CodecLines) /\ Len(section.codec) <= 2
  /\ \A i \in 1..Len(section.codec) : Named(section.codec[i], section)
  /\ codec \in BOOLEAN /\ lines \in Seq(BoardLines)
  /\ codec => lines = <<>>
  /\ ~codec => steps = <<>> /\ ~res.inited
PortTypes ==
  DOMAIN i2s = B!Ports /\ \A p \in B!Ports : i2s[p].kept \in BOOLEAN /\ (i2s[p].kept => codec)
DeviceTypes ==
  /\ PortTypes
  /\ DOMAIN res = {"inited", "has"} /\ res.inited \in BOOLEAN
  /\ res.has \subseteq Objects /\ live \subseteq Objects
  /\ steps \in Seq(BoardSteps)

LastStep == steps[Len(steps)]
Building ==
  steps # <<>> /\ LastStep.step = "end" =>
    ~res.inited /\ \A i \in 1..Len(steps) - 1 : steps[i].step \in InitKinds
Deleting ==
  steps # <<>> /\ LastStep.step # "end" =>
    LastStep.step = "buses" /\ \A i \in 1..Len(steps) - 1 : steps[i].step = "delete"

\* A port that is kept and whose set-up was called a success.
Ready(p) == i2s[p].kept /\ B!Succeeds(B!Asked(p), i2s[p].set)

\* While init_codec was not called again after a failure.
Builds(x) == x.step \in {"new", "dev"}
Provided ==
  \A dir \in {"in", "out"} : B!has(dir) =>
    \/ Ready(B!Cfg(dir).i2s)
    \/ steps = <<>> /\ ~res.inited
    \/ steps # <<>> /\ LastStep.step = "buses"
    \/ \E i \in 1..Len(steps) : steps[i].step = "i2s" /\ steps[i].arg = B!Cfg(dir).i2s
Unfailed ==
  /\ steps # <<>> \/ res.inited => "failed" \notin lost
  /\ "failed" \notin lost => \A p \in B!Ports : i2s[p].kept => Ready(p)
Fresh ==
  /\ \A i \in 1..Len(steps) : Builds(steps[i]) => steps[i].arg \notin res.has
  /\ \A i, j \in 1..Len(steps) :
       i < j /\ Builds(steps[i]) /\ Builds(steps[j]) => Rank[steps[i].arg] < Rank[steps[j].arg]
HeldOnly ==
  /\ live \subseteq res.has
  /\ steps # <<>> /\ LastStep.step = "buses" => live \subseteq {steps[i].arg : i \in 1..Len(steps) - 1}
OnceTried == "retried" \notin lost => "lost" \notin lost /\ Unfailed /\ Provided /\ Fresh /\ HeldOnly

BoardInv == SectionTypes /\ DeviceTypes /\ Building /\ Deleting /\ OnceTried

-----------------------------------------------------------------------------
\* What holds of an empty plan.
LEMMA NoSteps == <<>> \in Seq(BoardSteps) /\ Len(<<>>) = 0 /\ \A i \in 1..Len(<<>>) : FALSE
OBVIOUS

\* Between the calls little is to be shown.
LEMMA AtRest ==
  ASSUME BoardInv, steps = <<>>, steps' = <<>>, ~res.inited, ~codec, SectionTypes',
         UNCHANGED <<i2s, res, live, lost>>
  PROVE  BoardInv'
<1>0. \A p \in B!Ports : ~i2s'[p].kept
  BY DEF BoardInv, DeviceTypes, PortTypes
<1>1. DeviceTypes' /\ Building' /\ Deleting'
  BY <1>0, NoSteps DEF BoardInv, DeviceTypes, PortTypes, Building, Deleting
<1>2. Provided'
  <2>1. steps' = <<>> /\ ~res'.inited
    OBVIOUS
  <2> QED  BY <2>1 DEF Provided
<1>3. Unfailed' /\ Fresh'
  BY <1>0, NoSteps DEF Unfailed, Fresh
<1>4. (live \subseteq res.has => HeldOnly') /\ (HeldOnly => live \subseteq res.has)
  BY DEF HeldOnly
<1>5. OnceTried'
  BY <1>2, <1>3, <1>4 DEF BoardInv, OnceTried
<1> QED  BY <1>1, <1>5 DEF BoardInv

\* Taking the first of a sequence.
LEMMA BoardTail ==
  ASSUME NEW S, NEW s \in Seq(S), s # <<>>
  PROVE  /\ Tail(s) \in Seq(S) /\ Len(Tail(s)) = Len(s) - 1 /\ Len(s) \in Nat \ {0}
         /\ Head(s) = s[1] /\ Head(s) \in S /\ \A i \in 1..Len(s) - 1 : Tail(s)[i] = s[i + 1]
BY HeadTailProperties, LenProperties

\* A sequence over a set is one over a larger set.
LEMMA WiderSeq ==
  ASSUME NEW S, NEW R, S \subseteq R, NEW s \in Seq(S)
  PROVE  s \in Seq(R)
<1>1. Len(s) \in Nat /\ s = [i \in 1..Len(s) |-> s[i]] /\ \A i \in 1..Len(s) : s[i] \in R
  BY LenProperties
<1> QED  BY <1>1

\* The board's name is looked up, and parsing starts from nothing.
LEMMA TypeStep ==
  ASSUME BoardInv, NEW name \in DOMAIN Boards \cup {"unknown"}, B!set_codec_board_type(name)
  PROVE  BoardInv'
<1>1. /\ lines = <<>> /\ steps = <<>> /\ ~codec /\ ~res.inited /\ section' = B!Section0
      /\ lines' = IF name \in DOMAIN Boards THEN Append(Boards[name], [type |-> "Board"]) ELSE <<>>
      /\ UNCHANGED <<codec, i2c, i2s, res, live, steps, lost>>
  BY DEF B!set_codec_board_type, B!CallStarts, B!Idle, BoardInv, SectionTypes
<1>2. lines' \in Seq(BoardLines)
  <2>1. CASE name \in DOMAIN Boards
    <3>1. Boards[name] \in Seq({Boards[name][i] : i \in DOMAIN Boards[name]})
      BY <2>1, BoardsAssumption
    <3>2. {Boards[name][i] : i \in DOMAIN Boards[name]} \subseteq BoardLines
      BY <2>1, Zenon DEF BoardLines
    <3>3. [type |-> "Board"] \in BoardLines
      BY DEF BoardLines
    <3>5. Boards[name] \in Seq(BoardLines)
      BY <3>1, <3>2, WiderSeq
    <3> QED  BY <1>1, <2>1, <3>3, <3>5
  <2>2. CASE name \notin DOMAIN Boards
    BY <1>1, <2>2
  <2> QED  BY <2>1, <2>2
<1>3. SectionTypes'
  <2>1. /\ DOMAIN section' = DOMAIN B!Section0 /\ section'.i2c = 0 /\ section'.i2s = 0 /\ section'.codec = <<>>
    BY <1>1 DEF B!Section0
  <2>2. <<>> \in Seq(CodecLines) /\ Len(<<>>) = 0 /\ \A i \in 1..Len(<<>>) : FALSE
    OBVIOUS
  <2> QED  BY <1>1, <1>2, <2>1, <2>2 DEF SectionTypes, BoardInv
<1> QED  BY <1>1, <1>3, AtRest

\* A line changes the section, or has it refused.
LEMMA LineMove ==
  ASSUME BoardInv, lines # <<>>, B!ParseStep, codec' = codec,
         \/ section' = B!Section0 /\ lines' = <<>>
         \/ /\ lines' = Tail(lines) /\ DOMAIN section' = DOMAIN section
            /\ section'.i2c \in 0..2 /\ section'.i2c >= section.i2c
            /\ section'.i2s \in 0..2 /\ section'.i2s >= section.i2s
            /\ section'.codec \in Seq(CodecLines) /\ Len(section'.codec) <= 2
            /\ \A i \in 1..Len(section'.codec) :
                 section'.codec[i] \in {section.codec[j] : j \in 1..Len(section.codec)} \/ Named(section'.codec[i], section)
  PROVE  BoardInv'
<1>1. ~codec /\ steps = <<>> /\ ~res.inited /\ UNCHANGED <<i2s, res, live, steps, lost>> /\ lines \in Seq(BoardLines)
  BY DEF BoardInv, SectionTypes, B!ParseStep
<1>2. Tail(lines) \in Seq(BoardLines) /\ <<>> \in Seq(BoardLines)
  BY <1>1, BoardTail
<1>3. SectionTypes'
  <2>1. CASE section' = B!Section0 /\ lines' = <<>>
    <3>1. /\ DOMAIN section' = DOMAIN B!Section0 /\ section'.i2c = 0 /\ section'.i2s = 0 /\ section'.codec = <<>>
      BY <2>1 DEF B!Section0
    <3>2. <<>> \in Seq(CodecLines) /\ Len(<<>>) = 0 /\ \A i \in 1..Len(<<>>) : FALSE
      OBVIOUS
    <3> QED  BY <1>1, <1>2, <2>1, <3>1, <3>2 DEF SectionTypes, BoardInv
  <2>2. CASE ~(section' = B!Section0 /\ lines' = <<>>)
    <3>1. /\ section.i2c \in 0..2 /\ section.i2s \in 0..2 /\ section'.i2c \in 0..2 /\ section'.i2s \in 0..2
          /\ section'.i2c >= section.i2c /\ section'.i2s >= section.i2s
          /\ section.codec \in Seq(CodecLines)
          /\ \A i \in 1..Len(section.codec) : Named(section.codec[i], section)
      BY <2>2 DEF BoardInv, SectionTypes
    <3>2. \A c \in CodecLines : Named(c, section) => Named(c, section')
      BY <3>1 DEF Named, CodecLines
    <3>3. \A i \in 1..Len(section'.codec) : section'.codec[i] \in CodecLines
      BY <2>2
    <3>4. \A j \in 1..Len(section.codec) : section.codec[j] \in CodecLines /\ Named(section.codec[j], section)
      BY <3>1
    <3>5. \A i \in 1..Len(section'.codec) :
            section'.codec[i] \in {section.codec[j] : j \in 1..Len(section.codec)} \/ Named(section'.codec[i], section)
      BY <2>2
    <3>6. \A i \in 1..Len(section'.codec) : Named(section'.codec[i], section)
      BY <3>4, <3>5, Zenon
    <3>7. \A i \in 1..Len(section'.codec) : Named(section'.codec[i], section')
      BY <3>2, <3>3, <3>6, Zenon
    <3>8. /\ DOMAIN section' = DOMAIN B!Section0 /\ lines' \in Seq(BoardLines) /\ ~codec' /\ codec' \in BOOLEAN
          /\ section'.codec \in Seq(CodecLines) /\ Len(section'.codec) <= 2
      BY <1>1, <1>2, <2>2 DEF BoardInv, SectionTypes
    <3>9. steps' = <<>> /\ ~res'.inited
      BY <1>1
    <3> QED  BY <3>1, <3>7, <3>8, <3>9, Zenon DEF SectionTypes
  <2> QED  BY <2>1, <2>2
<1> QED  BY <1>1, <1>3, AtRest

\* The fields of a section.
LEMMA SectionFields ==
  DOMAIN B!Section0 = {"i2c", "i2s", "codec", "sdcard_num", "camera_num", "lcd"}
BY DEF B!Section0

\* The lines that do not name a codec.
LEMMA OtherLines ==
  ASSUME BoardInv,
         B!SectionEnds \/ B!fill_i2c_cfg \/ B!fill_i2s_cfg \/ B!fill_sdcard_cfg \/ B!fill_camera_cfg \/ B!fill_lcd_cfg
  PROVE  BoardInv'
<1>1. /\ section.i2c \in 0..2 /\ section.i2s \in 0..2 /\ section.codec \in Seq(CodecLines) /\ Len(section.codec) <= 2
      /\ DOMAIN section = {"i2c", "i2s", "codec", "sdcard_num", "camera_num", "lcd"}
  BY SectionFields DEF BoardInv, SectionTypes
<1>2. CASE B!SectionEnds
  <2>1. /\ section' = section /\ lines' = <<>> /\ codec' /\ codec' \in BOOLEAN /\ lines # <<>>
        /\ UNCHANGED <<i2s, res, live, steps, lost>>
    BY <1>2 DEF B!SectionEnds, B!ParseStep, B!Parsing
  <2>2. steps = <<>> /\ ~res.inited /\ ~codec
    BY <2>1 DEF BoardInv, SectionTypes
  <2>3. SectionTypes'
    BY <2>1, <2>2 DEF SectionTypes, BoardInv
  <2> QED  BY <2>1, <2>2, <2>3, AtRest
<1>3. CASE ~B!SectionEnds
  <2>1. lines # <<>> /\ B!ParseStep /\ codec' = codec
    BY <1>3 DEF B!fill_i2c_cfg, B!fill_i2s_cfg, B!fill_sdcard_cfg, B!fill_camera_cfg, B!fill_lcd_cfg,
                B!Refused, B!Accepted, B!Parsing
  <2>2. CASE section' = B!Section0 /\ lines' = <<>>
    BY <2>1, <2>2, LineMove
  <2>3. CASE ~(section' = B!Section0 /\ lines' = <<>>)
    <3>1. /\ lines' = Tail(lines)
          /\ \/ section.i2c < 2 /\ section' = [section EXCEPT !.i2c = section.i2c + 1]
             \/ section.i2s < 2 /\ section' = [section EXCEPT !.i2s = section.i2s + 1]
             \/ section' = [section EXCEPT !.sdcard_num = section.sdcard_num + 1]
             \/ section' = [section EXCEPT !.camera_num = section.camera_num + 1]
             \/ section' = [section EXCEPT !.lcd = {[pins |-> B!PinsRead]}]
      BY <1>1, <1>3, <2>3 DEF B!fill_i2c_cfg, B!fill_i2s_cfg, B!fill_sdcard_cfg, B!fill_camera_cfg, B!fill_lcd_cfg,
                B!Refused, B!Accepted, B!MAX_I2C_NUM
    <3>2. /\ DOMAIN section' = DOMAIN section /\ section'.codec = section.codec
          /\ section'.i2c = section.i2c \/ (section.i2c < 2 /\ section'.i2c = section.i2c + 1)
          /\ section'.i2s = section.i2s \/ (section.i2s < 2 /\ section'.i2s = section.i2s + 1)
      BY <1>1, <3>1
    <3>3. /\ section'.i2c \in 0..2 /\ section'.i2c >= section.i2c
          /\ section'.i2s \in 0..2 /\ section'.i2s >= section.i2s
      BY <1>1, <3>2
    <3> QED  BY <1>1, <2>1, <3>1, <3>2, <3>3, LineMove
  <2> QED  BY <2>2, <2>3
<1> QED  BY <1>2, <1>3

\* A codec is accepted if the ports it names are listed.
LEMMA CodecStep ==
  ASSUME BoardInv, B!fill_codec_cfg
  PROVE  BoardInv'
<1>1. lines # <<>> /\ B!ParseStep /\ codec' = codec
  BY DEF B!fill_codec_cfg, B!Refused, B!Accepted, B!Parsing
<1>2. CASE section' = B!Section0 /\ lines' = <<>>
  BY <1>1, <1>2, LineMove
<1>3. CASE ~(section' = B!Section0 /\ lines' = <<>>)
  <2> DEFINE c == B!CodecLine
  <2>1. /\ lines' = Tail(lines) /\ section' = [section EXCEPT !.codec = Append(section.codec, c)]
        /\ B!Line.type \in {"in", "out", "in_out"}
        /\ ~(Len(section.codec) >= 2)
        /\ \A p \in B!Line.i2c : ~(p >= section.i2c)
        /\ \A p \in B!Line.i2s : ~(p >= section.i2s)
    BY <1>3 DEF B!fill_codec_cfg, B!Refused, B!Accepted, B!MAX_CODEC_NUM
  <2>2. /\ section.i2c \in 0..2 /\ section.i2s \in 0..2 /\ section.codec \in Seq(CodecLines)
        /\ DOMAIN section = {"i2c", "i2s", "codec", "sdcard_num", "camera_num", "lcd"}
        /\ lines \in Seq(BoardLines)
    BY SectionFields DEF BoardInv, SectionTypes
  <2>3. B!Line \in BoardLines
    BY <1>1, <2>2, BoardTail DEF B!Line
  <2>4. B!Line.i2c \subseteq Int /\ B!Line.i2s \subseteq Nat
    <3>1. B!Line # [type |-> "Board"]
      BY <2>1
    <3>2. PICK n \in DOMAIN Boards : \E i \in DOMAIN Boards[n] : B!Line = Boards[n][i]
      BY <2>3, <3>1, Zenon DEF BoardLines
    <3>3. PICK i \in DOMAIN Boards[n] : B!Line = Boards[n][i]
      BY <3>2
    <3> QED  BY <2>1, <3>3, BoardsAssumption
  <2>5. /\ B!Port(B!Line.i2c) = 0 \/ B!Port(B!Line.i2c) \in B!Line.i2c
        /\ B!Port(B!Line.i2s) = 0 \/ B!Port(B!Line.i2s) \in B!Line.i2s
    BY DEF B!Port
  <2>6. c.dir = B!Line.type /\ c.i2c = B!Port(B!Line.i2c) /\ c.i2s = B!Port(B!Line.i2s)
    BY DEF B!CodecLine
  <2>7. c \in CodecLines
    <3>1. B!Port(B!Line.i2c) \in Int /\ B!Port(B!Line.i2s) \in Nat
      BY <2>4, <2>5
    <3>2. B!Line.codec \in {line.codec : line \in BoardLines}
      BY <2>3
    <3> QED  BY <2>1, <3>1, <3>2 DEF CodecLines, B!CodecLine
  <2>8. Named(c, section)
    <3> DEFINE p == B!Port(B!Line.i2c)
               q == B!Port(B!Line.i2s)
    <3>0. c.i2c = p /\ c.i2s = q
      BY <2>6
    <3>1. p = 0 \/ (p \in Int /\ ~(p >= section.i2c))
      BY <2>1, <2>4, <2>5
    <3>2. q = 0 \/ (q \in Int /\ ~(q >= section.i2s))
      BY <2>1, <2>4, <2>5
    <3> HIDE DEF p, q, c
    <3> QED  BY <2>2, <3>0, <3>1, <3>2 DEF Named
  <2> HIDE DEF c
  <2>9. /\ DOMAIN section' = DOMAIN section /\ section'.i2c = section.i2c /\ section'.i2s = section.i2s
        /\ section'.codec = Append(section.codec, c)
    BY <2>1, <2>2, SectionFields
  <2>10. /\ section'.codec \in Seq(CodecLines) /\ Len(section'.codec) <= 2
         /\ \A i \in 1..Len(section'.codec) :
              section'.codec[i] \in {section.codec[j] : j \in 1..Len(section.codec)} \/ section'.codec[i] = c
    BY <2>1, <2>2, <2>7, <2>9
  <2> QED  BY <1>1, <2>1, <2>2, <2>8, <2>9, <2>10, LineMove
<1> QED  BY <1>2, <1>3

-----------------------------------------------------------------------------
(* What a plan is put together from. *)

Part(s, a, b) ==
  /\ s \in Seq(BoardSteps)
  /\ \A i \in 1..Len(s) : s[i].step \in InitKinds /\ (Builds(s[i]) => Rank[s[i].arg] \in a..b)
  /\ \A i, j \in 1..Len(s) : i < j /\ Builds(s[i]) /\ Builds(s[j]) => Rank[s[i].arg] < Rank[s[j].arg]
Among(x, s) == \E i \in 1..Len(s) : s[i] = x

\* A part of the plan of init_codec builds objects of the ranks a to b, in their order.
LEMMA PartEmpty == \A a, b : Part(<<>>, a, b)
BY NoSteps DEF Part

LEMMA PartOne ==
  ASSUME NEW k \in InitKinds, NEW x, [step |-> k, arg |-> x] \in BoardSteps, NEW a, NEW b,
         k \in {"new", "dev"} => Rank[x] \in a..b
  PROVE  Part(B!Do(k, x), a, b) /\ Among([step |-> k, arg |-> x], B!Do(k, x))
<1> DEFINE y == [step |-> k, arg |-> x]
<1>1. y.step = k /\ y.arg = x /\ y \in BoardSteps
  OBVIOUS
<1> HIDE DEF y
<1>2. <<y>> \in Seq(BoardSteps) /\ Len(<<y>>) = 1 /\ <<y>>[1] = y
  BY <1>1
<1>3. B!Do(k, x) = <<y>>
  BY DEF B!Do, y
<1>4. Part(<<y>>, a, b)
  BY <1>1, <1>2 DEF Part, Builds
<1>5. Among(y, <<y>>)
  BY <1>2 DEF Among
<1> QED  BY <1>3, <1>4, <1>5 DEF y

\* Two parts make one when the ranks of the first end before those of the second.
LEMMA PartJoin ==
  ASSUME NEW s, NEW t, NEW a \in Int, NEW b \in Int, NEW c \in Int, NEW d \in Int,
         Part(s, a, b), Part(t, c, d), b < c, a <= c, b <= d
  PROVE  Part(s \o t, a, d)
<1> DEFINE m == Len(s)
           n == Len(t)
           u == s \o t
<1>1. /\ s \in Seq(BoardSteps) /\ t \in Seq(BoardSteps) /\ m \in Nat /\ n \in Nat
      /\ u \in Seq(BoardSteps) /\ Len(u) = m + n
      /\ \A i \in 1..m + n : u[i] = IF i <= m THEN s[i] ELSE t[i - m]
  BY ConcatProperties, LenProperties DEF Part
<1>2. \A i \in 1..m : s[i].step \in InitKinds /\ (Builds(s[i]) => Rank[s[i].arg] \in a..b)
  BY DEF Part
<1>3. \A i \in 1..n : t[i].step \in InitKinds /\ (Builds(t[i]) => Rank[t[i].arg] \in c..d)
  BY DEF Part
<1>4. \A i, j \in 1..m : i < j /\ Builds(s[i]) /\ Builds(s[j]) => Rank[s[i].arg] < Rank[s[j].arg]
  BY DEF Part
<1>5. \A i, j \in 1..n : i < j /\ Builds(t[i]) /\ Builds(t[j]) => Rank[t[i].arg] < Rank[t[j].arg]
  BY DEF Part
<1> HIDE DEF m, n, u
<1>6. \A i \in 1..m + n : (i \in 1..m /\ u[i] = s[i]) \/ (i - m \in 1..n /\ u[i] = t[i - m] /\ i > m)
  BY <1>1
<1>7. \A i \in 1..m + n : u[i].step \in InitKinds /\ (Builds(u[i]) => Rank[u[i].arg] \in a..d)
  <2>1. a..b \subseteq a..d /\ c..d \subseteq a..d
    OBVIOUS
  <2> QED  BY <1>2, <1>3, <1>6, <2>1
<1>8. ASSUME NEW i \in 1..m + n, NEW j \in 1..m + n, i < j, Builds(u[i]), Builds(u[j])
      PROVE  Rank[u[i].arg] < Rank[u[j].arg]
  <2>1. CASE i \in 1..m /\ j \in 1..m
    <3>1. u[i] = s[i] /\ u[j] = s[j]
      BY <2>1, <1>1, <1>6
    <3> QED  BY <3>1, <2>1, <1>4, <1>8
  <2>2. CASE i \in 1..m /\ j - m \in 1..n
    <3>1. u[i] = s[i] /\ u[j] = t[j - m]
      BY <2>2, <1>1, <1>6
    <3>2. Rank[u[i].arg] \in a..b /\ Rank[u[j].arg] \in c..d
      BY <3>1, <2>2, <1>2, <1>3, <1>8
    <3> QED  BY <3>2
  <2>3. CASE i - m \in 1..n /\ j - m \in 1..n
    <3>1. u[i] = t[i - m] /\ u[j] = t[j - m] /\ i - m < j - m
      BY <2>3, <1>1, <1>6, <1>8
    <3> QED  BY <3>1, <2>3, <1>5, <1>8
  <2> QED  BY <1>1, <1>6, <1>8, <2>1, <2>2, <2>3
<1>9. Part(u, a, d)
  BY <1>1, <1>7, <1>8 DEF Part
<1> QED  BY <1>9 DEF u

LEMMA AmongJoin ==
  ASSUME NEW s, NEW t, NEW a, NEW b, NEW c, NEW d, Part(s, a, b), Part(t, c, d),
         NEW x, Among(x, s) \/ Among(x, t)
  PROVE  Among(x, s \o t)
<1> DEFINE m == Len(s)
           n == Len(t)
           u == s \o t
<1>1. /\ m \in Nat /\ n \in Nat /\ Len(u) = m + n
      /\ \A i \in 1..m + n : u[i] = IF i <= m THEN s[i] ELSE t[i - m]
  BY ConcatProperties, LenProperties DEF Part
<1> HIDE DEF m, n, u
<1>2. CASE Among(x, s)
  <2>1. PICK i \in 1..m : s[i] = x
    BY <1>2 DEF Among, m
  <2>2. i \in 1..m + n /\ u[i] = x
    BY <2>1, <1>1
  <2> QED  BY <2>2, <1>1 DEF Among, u
<1>3. CASE Among(x, t)
  <2>1. PICK i \in 1..n : t[i] = x
    BY <1>3 DEF Among, n
  <2>2. i + m \in 1..m + n /\ u[i + m] = x
    BY <2>1, <1>1
  <2> QED  BY <2>2, <1>1 DEF Among, u
<1> QED  BY <1>2, <1>3

-----------------------------------------------------------------------------
(* The codec of a direction. *)

\* It exists, and its ports are in range.
LEMMA CfgOf ==
  ASSUME BoardInv, NEW dir \in {"in", "out"}, B!has(dir)
  PROVE  B!Cfg(dir).i2c \in Int /\ B!Cfg(dir).i2s \in B!Ports /\ codec
<1>1. /\ section.i2s \in 0..2 /\ section.codec \in Seq(CodecLines) /\ Len(section.codec) <= 2
      /\ \A i \in 1..Len(section.codec) : Named(section.codec[i], section)
  BY DEF BoardInv, SectionTypes
<1>2. B!Of(dir) # {} /\ codec /\ B!Of(dir) \subseteq 1..Len(section.codec)
  BY <1>1 DEF B!has, B!Of
<1>3. Len(section.codec) \in 0..2
  <2>1. \A q \in Seq(CodecLines) : Len(q) \in Nat
    OBVIOUS
  <2>2. Len(section.codec) \in Nat
    BY <1>1, <2>1, Zenon
  <2>3. \A n \in Nat : n <= 2 => n \in 0..2
    OBVIOUS
  <2> QED  BY <1>1, <2>2, <2>3, Zenon
<1>4. \E k \in B!Of(dir) : \A j \in B!Of(dir) : k <= j
  <2>1. B!Of(dir) \subseteq {1, 2}
    <3>1. \A n \in 0..2 : 1..n \subseteq {1, 2}
      OBVIOUS
    <3> QED  BY <1>2, <1>3, <3>1, Zenon
  <2>2. CASE 1 \in B!Of(dir)
    BY <2>1, <2>2
  <2>3. CASE 1 \notin B!Of(dir)
    BY <1>2, <2>1, <2>3
  <2> QED  BY <2>2, <2>3
<1>5. PICK k \in B!Of(dir) : B!Cfg(dir) = section.codec[k]
  BY <1>4, Zenon DEF B!Cfg
<1>6. section.codec[k] \in CodecLines /\ Named(section.codec[k], section)
  BY <1>1, <1>2, <1>5
<1>7. section.codec[k].i2c \in Int /\ section.codec[k].i2s \in Nat
  BY <1>6 DEF CodecLines
<1>8. section.codec[k].i2s \in B!Ports
  BY <1>1, <1>6, <1>7 DEF Named, B!Ports, B!MAX_I2S_NUM
<1> QED  BY <1>2, <1>5, <1>7, <1>8

\* The codecs change with the section only.
LEMMA SameBoard ==
  ASSUME section' = section, codec' = codec
  PROVE  \A dir \in {"in", "out"} : B!has(dir)' = B!has(dir) /\ B!Cfg(dir)' = B!Cfg(dir)
BY DEF B!has, B!Cfg, B!Of

LEMMA SameReady ==
  ASSUME section' = section, codec' = codec, modes' = modes, i2s' = i2s
  PROVE  \A p : Ready(p)' = Ready(p)
<1>1. \A p : B!Asked(p)' = B!Asked(p)
  BY DEF B!Asked, B!has, B!Cfg, B!Of
<1> QED  BY <1>1 DEF Ready, B!Succeeds

-----------------------------------------------------------------------------
(* init_codec: its plan builds what is not there, each object once. *)

\* The ports of a direction: I2S is among them.
LEMMA BusesPart ==
  ASSUME BoardInv, NEW dir \in {"in", "out"}
  PROVE  /\ Part(B!Buses(dir), 1, 0)
         /\ B!has(dir) => Among([step |-> "i2s", arg |-> B!Cfg(dir).i2s], B!Buses(dir))
<1>1. CASE ~B!has(dir)
  BY <1>1, PartEmpty DEF B!Buses
<1>2. CASE B!has(dir)
  <2> DEFINE x == B!Cfg(dir).i2c
             y == B!Cfg(dir).i2s
  <2>1. x \in Int /\ y \in B!Ports
    BY <1>2, CfgOf
  <2>2. B!Buses(dir) = B!Do("i2c", x) \o B!Do("i2s", y)
    BY <1>2 DEF B!Buses
  <2> HIDE DEF x, y
  <2>3. [step |-> "i2c", arg |-> x] \in BoardSteps /\ [step |-> "i2s", arg |-> y] \in BoardSteps
    BY <2>1 DEF BoardSteps
  <2>4. Part(B!Do("i2c", x), 1, 0)
    BY <2>3, PartOne DEF InitKinds
  <2>5. Part(B!Do("i2s", y), 1, 0) /\ Among([step |-> "i2s", arg |-> y], B!Do("i2s", y))
    BY <2>3, PartOne DEF InitKinds
  <2> DEFINE s == B!Do("i2c", x)
             t == B!Do("i2s", y)
  <2> HIDE DEF s, t
  <2>7. Part(s, 1, 0) /\ Part(t, 1, 0)
    BY <2>4, <2>5 DEF s, t
  <2>8. Part(s \o t, 1, 0)
    BY <2>7, PartJoin
  <2>9. ASSUME NEW z, Among(z, s) \/ Among(z, t)
        PROVE  Among(z, s \o t)
    BY <2>7, <2>9, AmongJoin
  <2>6. Part(B!Buses(dir), 1, 0) /\ Among([step |-> "i2s", arg |-> y], B!Buses(dir))
    BY <2>2, <2>5, <2>8, <2>9, Zenon DEF s, t
  <2> QED  BY <2>6 DEF y
<1> QED  BY <1>1, <1>2

\* A step that builds one object.
LEMMA BuildPart ==
  ASSUME NEW k \in {"new", "dev"}, NEW x \in Objects
  PROVE  Part(B!Do(k, x), Rank[x], Rank[x]) /\ Rank[x] \in 1..9
<1>1. Rank[x] \in 1..9
  BY DEF Rank, Objects
<1>2. [step |-> k, arg |-> x] \in BoardSteps
  BY DEF BoardSteps
<1>3. Rank[x] \in Rank[x]..Rank[x]
  BY <1>1
<1> QED  BY <1>1, <1>2, <1>3, PartOne DEF InitKinds

LEMMA ControlPart ==
  ASSUME NEW dir, NEW x \in Objects
  PROVE  Part(B!Control(dir, x), Rank[x], Rank[x])
BY PartEmpty, BuildPart DEF B!Control

\* Out and in build objects of different ranks.
LEMMA OutPart ==
  IF B!same_codec THEN Part(B!OutSteps, 2, 9) ELSE Part(B!OutSteps, 2, 5)
<1>1. CASE ~B!has("out")
  BY <1>1, PartEmpty DEF B!OutSteps
<1>2. CASE B!has("out")
  <2> DEFINE a == B!Do("new", "data_if")
             b == B!Control("out", "out_ctrl_if")
             c == B!Do("new", "out_codec_if")
             d == B!Do("dev", "play_dev")
             e == IF B!same_codec /\ ~reuse_dev THEN B!Do("dev", "record_dev") ELSE <<>>
  <2>1. Part(a, 2, 2) /\ Part(b, 3, 3) /\ Part(c, 4, 4) /\ Part(d, 5, 5)
    <3>1. /\ Rank["data_if"] = 2 /\ Rank["out_ctrl_if"] = 3 /\ Rank["out_codec_if"] = 4 /\ Rank["play_dev"] = 5
          /\ {"data_if", "out_ctrl_if", "out_codec_if", "play_dev"} \subseteq Objects
      BY DEF Rank, Objects
    <3> QED  BY <3>1, BuildPart, ControlPart
  <2>2. IF B!same_codec THEN Part(e, 6, 9) ELSE e = <<>>
    <3>1. Part(B!Do("dev", "record_dev"), 6, 9)
      <4>1. [step |-> "dev", arg |-> "record_dev"] \in BoardSteps /\ Rank["record_dev"] \in 6..9
        BY DEF BoardSteps, Objects, Rank
      <4> QED  BY <4>1, PartOne DEF InitKinds
    <3> QED  BY <3>1, PartEmpty
  <2>3. B!OutSteps = a \o b \o c \o d \o e
    BY <1>2 DEF B!OutSteps
  <2> HIDE DEF a, b, c, d, e
  <2>4. Part(a \o b, 2, 3)
    BY <2>1, PartJoin
  <2>5. Part(a \o b \o c, 2, 4)
    BY <2>1, <2>4, PartJoin
  <2>6. Part(a \o b \o c \o d, 2, 5)
    BY <2>1, <2>5, PartJoin
  <2>7. CASE B!same_codec
    BY <2>2, <2>3, <2>6, <2>7, PartJoin
  <2>8. CASE ~B!same_codec
    <3>1. Part(e, 6, 5)
      BY <2>2, <2>8, PartEmpty
    <3>2. Part(a \o b \o c \o d \o e, 2, 5) \/ Part(a \o b \o c \o d \o <<>>, 2, 5)
      <4>1. \A q \in Seq(BoardSteps) : q \o <<>> = q
        OBVIOUS
      <4> QED  BY <2>6, <4>1 DEF Part
    <3> QED  BY <2>2, <2>3, <2>8, <3>2
  <2> QED  BY <2>7, <2>8
<1> QED  BY <1>1, <1>2

LEMMA InPart ==
  IF B!same_codec THEN B!InSteps = <<>> ELSE Part(B!InSteps, 6, 9)
<1>1. CASE ~B!has("in") \/ B!same_codec
  BY <1>1, PartEmpty DEF B!InSteps
<1>2. CASE ~(~B!has("in") \/ B!same_codec)
  <2> DEFINE a == IF B!same_i2s THEN <<>> ELSE B!Do("new", "data_in_if")
             b == B!Control("in", "in_ctrl_if")
             c == B!Do("new", "in_codec_if")
             d == B!Do("dev", "record_dev")
  <2>1. Part(a, 6, 6) /\ Part(b, 7, 7) /\ Part(c, 8, 8) /\ Part(d, 9, 9)
    <3>1. /\ Rank["data_in_if"] = 6 /\ Rank["in_ctrl_if"] = 7 /\ Rank["in_codec_if"] = 8 /\ Rank["record_dev"] = 9
          /\ {"data_in_if", "in_ctrl_if", "in_codec_if", "record_dev"} \subseteq Objects
      BY DEF Rank, Objects
    <3>2. Part(B!Do("new", "data_in_if"), 6, 6)
      BY <3>1, BuildPart
    <3>3. Part(a, 6, 6)
      BY <3>2, PartEmpty
    <3> QED  BY <3>1, <3>3, BuildPart, ControlPart
  <2>2. B!InSteps = a \o b \o c \o d
    BY <1>2 DEF B!InSteps
  <2> HIDE DEF a, b, c, d
  <2>3. Part(a \o b, 6, 7)
    BY <2>1, PartJoin
  <2>4. Part(a \o b \o c, 6, 8)
    BY <2>1, <2>3, PartJoin
  <2>5. Part(a \o b \o c \o d, 6, 9)
    BY <2>1, <2>4, PartJoin
  <2> QED  BY <1>2, <2>2, <2>5
<1> QED  BY <1>1, <1>2

\* The whole plan, but for its end.
Plan ==
  B!Do("i2c0", 0) \o B!Buses("out") \o B!Buses("in") \o B!Do("new", "gpio_if") \o B!OutSteps \o B!InSteps

LEMMA PlanPart ==
  ASSUME BoardInv
  PROVE  /\ Part(Plan, 1, 9)
         /\ \A dir \in {"in", "out"} : B!has(dir) => Among([step |-> "i2s", arg |-> B!Cfg(dir).i2s], Plan)
<1> DEFINE a == B!Do("i2c0", 0)
           b == B!Buses("out")
           c == B!Buses("in")
           d == B!Do("new", "gpio_if")
           e == B!OutSteps
           f == B!InSteps
           out == [step |-> "i2s", arg |-> B!Cfg("out").i2s]
           inn == [step |-> "i2s", arg |-> B!Cfg("in").i2s]
<1>1. Part(a, 1, 0)
  <2>1. [step |-> "i2c0", arg |-> 0] \in BoardSteps
    BY DEF BoardSteps
  <2> QED  BY <2>1, PartOne DEF InitKinds
<1>2. Part(b, 1, 0) /\ (B!has("out") => Among(out, b))
  BY BusesPart
<1>3. Part(c, 1, 0) /\ (B!has("in") => Among(inn, c))
  BY BusesPart
<1>4. Part(d, 1, 1)
  <2>1. Rank["gpio_if"] = 1 /\ "gpio_if" \in Objects
    BY DEF Rank, Objects
  <2> QED  BY <2>1, BuildPart
<1>5. PICK r \in {5, 9} : Part(e, 2, r) /\ Part(f, r + 1, 9)
  <2>1. B!same_codec => Part(e, 2, 9) /\ Part(f, 10, 9)
    BY OutPart, InPart, PartEmpty
  <2>2. ~B!same_codec => Part(e, 2, 5) /\ Part(f, 6, 9)
    BY OutPart, InPart
  <2>3. 5 + 1 = 6 /\ 9 + 1 = 10
    OBVIOUS
  <2> QED  BY <2>1, <2>2, <2>3
<1>6. Plan = a \o b \o c \o d \o e \o f
  BY DEF Plan
<1> HIDE DEF a, b, c, d, e, f, out, inn
<1> DEFINE t == a \o b
<1>7. Part(t, 1, 0) /\ \A x : Among(x, a) \/ Among(x, b) => Among(x, t)
  <2>1. Part(t, 1, 0)
    BY <1>1, <1>2, PartJoin
  <2>2. ASSUME NEW x, Among(x, a) \/ Among(x, b)
        PROVE  Among(x, t)
    BY <2>2, <1>1, <1>2, AmongJoin
  <2> QED  BY <2>1, <2>2
<1> HIDE DEF t
<1> DEFINE u == t \o c
<1>8. Part(u, 1, 0) /\ \A x : Among(x, t) \/ Among(x, c) => Among(x, u)
  <2>1. Part(u, 1, 0)
    BY <1>7, <1>3, PartJoin
  <2>2. ASSUME NEW x, Among(x, t) \/ Among(x, c)
        PROVE  Among(x, u)
    BY <2>2, <1>7, <1>3, AmongJoin
  <2> QED  BY <2>1, <2>2
<1> HIDE DEF u
<1> DEFINE v == u \o d
<1>9. Part(v, 1, 1) /\ \A x : Among(x, u) \/ Among(x, d) => Among(x, v)
  <2>1. Part(v, 1, 1)
    BY <1>8, <1>4, PartJoin
  <2>2. ASSUME NEW x, Among(x, u) \/ Among(x, d)
        PROVE  Among(x, v)
    BY <2>2, <1>8, <1>4, AmongJoin
  <2> QED  BY <2>1, <2>2
<1> HIDE DEF v
<1> DEFINE w == v \o e
<1>10. Part(w, 1, r) /\ \A x : Among(x, v) \/ Among(x, e) => Among(x, w)
  <2>1. Part(w, 1, r)
    BY <1>9, <1>5, PartJoin
  <2>2. ASSUME NEW x, Among(x, v) \/ Among(x, e)
        PROVE  Among(x, w)
    BY <2>2, <1>9, <1>5, AmongJoin
  <2> QED  BY <2>1, <2>2
<1> HIDE DEF w
<1> DEFINE p == w \o f
<1>11. Part(p, 1, 9) /\ \A x : Among(x, w) \/ Among(x, f) => Among(x, p)
  <2>1. Part(p, 1, 9)
    BY <1>10, <1>5, PartJoin
  <2>2. ASSUME NEW x, Among(x, w) \/ Among(x, f)
        PROVE  Among(x, p)
    BY <2>2, <1>10, <1>5, AmongJoin
  <2> QED  BY <2>1, <2>2
<1> HIDE DEF p
<1>12. Plan = p
  BY <1>6 DEF p, w, v, u, t
<1>13. (B!has("out") => Among(out, Plan)) /\ (B!has("in") => Among(inn, Plan))
  BY <1>2, <1>3, <1>7, <1>8, <1>9, <1>10, <1>11, <1>12, Zenon
<1> QED  BY <1>11, <1>12, <1>13 DEF out, inn

\* init_codec starts on nothing, or is called again after a failure.
LEMMA InitStarts ==
  ASSUME BoardInv, B!init_codec
  PROVE  BoardInv'
<1>1. /\ lines = <<>> /\ steps = <<>> /\ ~res.inited /\ UNCHANGED <<section, codec, lines, modes, i2s, res, live>>
      /\ B!has("out") \/ B!has("in")
      /\ lost' = IF res.has # {} \/ "failed" \in lost THEN lost \cup {"retried"} ELSE lost
  BY DEF B!init_codec, B!CallStarts, B!Idle
<1>2. codec
  BY <1>1, CfgOf
<1> DEFINE p == Plan
           end == [step |-> "end", arg |-> 0]
           n == Len(p)
<1>3. /\ Part(p, 1, 9)
      /\ \A dir \in {"in", "out"} : B!has(dir) => Among([step |-> "i2s", arg |-> B!Cfg(dir).i2s], p)
  BY PlanPart
<1>4. steps' = p \o <<end>>
  BY DEF B!init_codec, Plan, B!Do
<1>5. end \in BoardSteps /\ end.step = "end" /\ ~Builds(end)
  BY DEF BoardSteps, Builds
<1> HIDE DEF p, end
<1>6. p \in Seq(BoardSteps) /\ <<end>> \in Seq(BoardSteps) /\ n \in Nat /\ Len(<<end>>) = 1 /\ <<end>>[1] = end
  BY <1>3, <1>5, LenProperties DEF Part
<1>7. /\ steps' \in Seq(BoardSteps) /\ Len(steps') = n + 1 /\ steps'[n + 1] = end
      /\ \A i \in 1..n : steps'[i] = p[i]
  BY <1>4, <1>6, ConcatProperties
<1> HIDE DEF n
<1>8. steps' # <<>> /\ LastStep' = end
  <2>1. LastStep' = steps'[Len(steps')]
    BY DEF LastStep
  <2> QED  BY <1>6, <1>7, <2>1
<1>9. SectionTypes' /\ DeviceTypes'
  BY <1>1, <1>2, <1>7 DEF BoardInv, SectionTypes, DeviceTypes, PortTypes
<1>10. /\ \A i \in 1..n : p[i].step \in InitKinds /\ (Builds(p[i]) => p[i].arg \in DOMAIN Rank)
       /\ \A i, j \in 1..n : i < j /\ Builds(p[i]) /\ Builds(p[j]) => Rank[p[i].arg] < Rank[p[j].arg]
  <2>1. \A x \in BoardSteps : Builds(x) => x.arg \in DOMAIN Rank
    BY DEF BoardSteps, Builds, Objects, Rank
  <2> QED  BY <1>3, <1>6, <2>1 DEF Part, n
<1>11. Building' /\ Deleting'
  <2>1. \A i \in 1..Len(steps') - 1 : steps'[i].step \in InitKinds
    BY <1>6, <1>7, <1>10
  <2>2. ~res'.inited
    BY <1>1
  <2> QED  BY <1>5, <1>8, <2>1, <2>2 DEF Building, Deleting
<1>12. CASE "retried" \in lost'
  BY <1>9, <1>11, <1>12 DEF BoardInv, OnceTried
<1>13. CASE "retried" \notin lost'
  <2>1. lost' = lost /\ res.has = {} /\ "failed" \notin lost
    BY <1>1, <1>13
  <2>2. "lost" \notin lost /\ HeldOnly /\ Unfailed
    BY <1>13, <2>1 DEF BoardInv, OnceTried
  <2>3. Unfailed'
    BY <1>1, <2>1, <2>2, SameReady DEF Unfailed
  <2>4. Fresh'
    <3>1. \A i \in 1..n + 1 : (i \in 1..n /\ steps'[i] = p[i]) \/ (i = n + 1 /\ steps'[i] = end)
      BY <1>6, <1>7
    <3>2. \A i \in 1..n + 1 : Builds(steps'[i]) => i \in 1..n /\ steps'[i] = p[i]
      BY <1>5, <3>1
    <3>3. res'.has = {}
      BY <1>1, <2>1
    <3>4. \A i, j \in 1..n + 1 :
            i < j /\ Builds(steps'[i]) /\ Builds(steps'[j]) => Rank[steps'[i].arg] < Rank[steps'[j].arg]
      BY <1>10, <3>2
    <3> QED  BY <1>7, <3>3, <3>4 DEF Fresh
  <2>5. HeldOnly'
    <3>1. live' \subseteq res'.has
      BY <1>1, <2>2 DEF HeldOnly
    <3>2. LastStep'.step # "buses"
      BY <1>5, <1>8
    <3> QED  BY <3>1, <3>2 DEF HeldOnly
  <2>6. Provided'
    <3>1. ASSUME NEW dir \in {"in", "out"}, B!has(dir)'
          PROVE  \E i \in 1..Len(steps') : steps'[i].step = "i2s" /\ steps'[i].arg = B!Cfg(dir)'.i2s
      <4>1. B!has(dir) /\ B!Cfg(dir)' = B!Cfg(dir)
        BY <1>1, <3>1, SameBoard
      <4>2. PICK i \in 1..n : p[i] = [step |-> "i2s", arg |-> B!Cfg(dir).i2s]
        BY <1>3, <4>1 DEF Among, n
      <4>3. i \in 1..Len(steps') /\ steps'[i] = [step |-> "i2s", arg |-> B!Cfg(dir).i2s]
        BY <1>6, <1>7, <4>2
      <4>4. steps'[i].step = "i2s" /\ steps'[i].arg = B!Cfg(dir)'.i2s
        BY <4>1, <4>3
      <4> QED  BY <4>3, <4>4
    <3> QED  BY <3>1 DEF Provided
  <2>7. OnceTried'
    BY <2>1, <2>2, <2>3, <2>4, <2>5, <2>6 DEF OnceTried
  <2> QED  BY <1>9, <1>11, <2>7 DEF BoardInv
<1> QED  BY <1>12, <1>13

-----------------------------------------------------------------------------
(* The steps of a plan. *)

\* What is left once the first step is taken.
LEMMA NextStep ==
  ASSUME BoardInv, steps # <<>>
  PROVE  /\ Head(steps) = steps[1] /\ Head(steps) \in BoardSteps /\ Len(steps) \in Nat \ {0}
         /\ Tail(steps) \in Seq(BoardSteps) /\ Len(Tail(steps)) = Len(steps) - 1
         /\ \A i \in 1..Len(steps) - 1 : Tail(steps)[i] = steps[i + 1]
         /\ Tail(steps) = <<>> <=> Len(steps) = 1
         /\ Len(steps) # 1 => Tail(steps)[Len(Tail(steps))] = LastStep
<1>1. steps \in Seq(BoardSteps)
  BY DEF BoardInv, DeviceTypes
<1>2. /\ Tail(steps) \in Seq(BoardSteps) /\ Len(Tail(steps)) = Len(steps) - 1 /\ Len(steps) \in Nat \ {0}
      /\ Head(steps) = steps[1] /\ Head(steps) \in BoardSteps
      /\ \A i \in 1..Len(steps) - 1 : Tail(steps)[i] = steps[i + 1]
  BY <1>1, BoardTail
<1>3. Tail(steps) = <<>> <=> Len(steps) = 1
  <2>1. \A q \in Seq(BoardSteps) : q = <<>> <=> Len(q) = 0
    BY EmptySeq
  <2>2. Len(steps) - 1 = 0 <=> Len(steps) = 1
    BY <1>2
  <2> QED  BY <1>2, <2>1, <2>2
<1>4. Len(steps) # 1 => Tail(steps)[Len(Tail(steps))] = LastStep
  <2> DEFINE n == Len(steps)
  <2> HIDE DEF n
  <2>1. n \in Nat \ {0} /\ Len(Tail(steps)) = n - 1 /\ \A i \in 1..n - 1 : Tail(steps)[i] = steps[i + 1]
    BY <1>2 DEF n
  <2>2. n # 1 => n - 1 \in 1..n - 1 /\ (n - 1) + 1 = n
    BY <2>1
  <2>3. n # 1 => Tail(steps)[n - 1] = steps[n]
    BY <2>1, <2>2
  <2> QED  BY <2>1, <2>3 DEF LastStep, n
<1> QED  BY <1>2, <1>3, <1>4

\* The first step tells which plan it is.
LEMMA HeadBuilds ==
  ASSUME BoardInv, steps # <<>>, Head(steps).step \in InitKinds
  PROVE  LastStep.step = "end" /\ Len(steps) # 1 /\ ~res.inited /\ codec
         /\ \A i \in 1..Len(steps) - 1 : steps[i].step \in InitKinds
<1>1. Head(steps) = steps[1] /\ Len(steps) \in Nat \ {0}
  BY NextStep
<1>2. LastStep.step = "end"
  <2>1. CASE Len(steps) = 1
    <3>1. LastStep = steps[1]
      BY <2>1 DEF LastStep
    <3>2. LastStep.step # "buses"
      BY <1>1, <3>1 DEF InitKinds
    <3> QED  BY <3>2 DEF BoardInv, Deleting
  <2>2. CASE Len(steps) # 1
    <3>0. \A n \in Nat \ {0} : n # 1 => 1 \in 1..n - 1
      OBVIOUS
    <3>1. 1 \in 1..Len(steps) - 1
      BY <1>1, <2>2, <3>0, Zenon
    <3>2. steps[1].step # "delete"
      BY <1>1 DEF InitKinds
    <3> QED  BY <3>1, <3>2 DEF BoardInv, Deleting
  <2> QED  BY <2>1, <2>2
<1>3. Len(steps) # 1
  <2>1. Len(steps) = 1 => LastStep = steps[1]
    BY DEF LastStep
  <2> QED  BY <1>1, <1>2, <2>1 DEF InitKinds
<1>4. codec
  BY DEF BoardInv, SectionTypes
<1> QED  BY <1>2, <1>3, <1>4 DEF BoardInv, Building

LEMMA HeadDeletes ==
  ASSUME BoardInv, steps # <<>>, Head(steps).step = "delete"
  PROVE  LastStep.step = "buses" /\ Len(steps) # 1 /\ codec
         /\ \A i \in 1..Len(steps) - 1 : steps[i].step = "delete"
<1>1. Head(steps) = steps[1] /\ Len(steps) \in Nat \ {0}
  BY NextStep
<1>2. Len(steps) = 1 => LastStep = steps[1]
  BY DEF LastStep
<1>3. LastStep.step # "end"
  <2>1. SUFFICES ASSUME LastStep.step = "end" PROVE FALSE
    OBVIOUS
  <2>2. Len(steps) # 1
    BY <1>1, <1>2, <2>1
  <2>3. 1 \in 1..Len(steps) - 1
    BY <1>1, <2>2
  <2>4. steps[1].step \in InitKinds
    BY <2>1, <2>3 DEF BoardInv, Building
  <2> QED  BY <1>1, <2>4 DEF InitKinds
<1>4. LastStep.step = "buses" /\ \A i \in 1..Len(steps) - 1 : steps[i].step = "delete"
  BY <1>3 DEF BoardInv, Deleting
<1>5. codec
  BY DEF BoardInv, SectionTypes
<1> QED  BY <1>1, <1>2, <1>4, <1>5

\* The last step of a plan is its end.
LEMMA HeadEnds ==
  ASSUME BoardInv, steps # <<>>, Head(steps).step \in {"end", "buses"}
  PROVE  LastStep = Head(steps) /\ Len(steps) = 1 /\ codec
<1>1. Head(steps) = steps[1] /\ Len(steps) \in Nat \ {0}
  BY NextStep
<1>2. Len(steps) = 1
  <2>1. SUFFICES ASSUME Len(steps) # 1 PROVE FALSE
    OBVIOUS
  <2>2. 1 \in 1..Len(steps) - 1
    BY <1>1, <2>1
  <2>3. steps[1].step \in InitKinds \/ steps[1].step = "delete"
    BY <2>2 DEF BoardInv, Building, Deleting
  <2> QED  BY <1>1, <2>3 DEF InitKinds
<1>3. LastStep = steps[1]
  BY <1>2 DEF LastStep
<1>4. codec
  BY DEF BoardInv, SectionTypes
<1> QED  BY <1>1, <1>2, <1>3, <1>4

\* A step of init_codec is done, or the plan is given up.
LEMMA InitGoes ==
  ASSUME BoardInv, steps # <<>>, Head(steps).step \in InitKinds, steps' = Tail(steps),
         UNCHANGED <<section, codec, lines>>, res'.inited = res.inited, PortTypes',
         DOMAIN res' = {"inited", "has"}, res'.has \subseteq Objects, live' \subseteq Objects
  PROVE  /\ SectionTypes' /\ DeviceTypes' /\ Building' /\ Deleting'
         /\ LastStep'.step = "end" /\ steps' # <<>>
<1>0. ~res'.inited
  BY HeadBuilds
<1>1. /\ LastStep.step = "end" /\ Len(steps) # 1 /\ codec
      /\ \A i \in 1..Len(steps) - 1 : steps[i].step \in InitKinds
  BY HeadBuilds
<1>2. /\ Len(steps) \in Nat \ {0} /\ steps' \in Seq(BoardSteps) /\ Len(steps') = Len(steps) - 1
      /\ \A i \in 1..Len(steps) - 1 : steps'[i] = steps[i + 1]
      /\ steps' # <<>> /\ steps'[Len(steps')] = LastStep
  BY <1>1, NextStep
<1>3. LastStep' = LastStep
  BY <1>2 DEF LastStep
<1>4. \A i \in 1..Len(steps') - 1 : steps'[i].step \in InitKinds
  <2> DEFINE n == Len(steps)
  <2> HIDE DEF n
  <2>1. \A i \in 1..(n - 1) - 1 : i \in 1..n - 1 /\ i + 1 \in 1..n - 1
    BY <1>2 DEF n
  <2> QED  BY <1>1, <1>2, <2>1 DEF n
<1>5. SectionTypes'
  BY <1>1 DEF BoardInv, SectionTypes
<1>6. DeviceTypes'
  <2>1. res'.inited \in BOOLEAN /\ steps' \in Seq(BoardSteps)
    BY <1>2 DEF BoardInv, DeviceTypes
  <2> QED  BY <2>1, Zenon DEF DeviceTypes
<1>7. Building' /\ Deleting'
  BY <1>0, <1>1, <1>3, <1>4 DEF Building, Deleting
<1> QED  BY <1>1, <1>2, <1>3, <1>5, <1>6, <1>7

LEMMA InitFails ==
  ASSUME BoardInv, steps # <<>>, Head(steps).step \in InitKinds, steps' = <<>>,
         UNCHANGED <<section, codec, lines, modes, res, live>>, PortTypes',
         \/ UNCHANGED <<i2s, lost>>
         \/ lost' = lost \cup {"failed"}
  PROVE  BoardInv'
<1>1. ~res.inited /\ codec
  BY HeadBuilds
<1>2. SectionTypes'
  BY <1>1 DEF BoardInv, SectionTypes
<1>3. DeviceTypes' /\ Building' /\ Deleting'
  BY NoSteps DEF BoardInv, DeviceTypes, Building, Deleting
<1>4. Provided'
  <2>1. steps' = <<>> /\ ~res'.inited
    BY <1>1
  <2> QED  BY <2>1 DEF Provided
<1>5. Fresh' /\ (HeldOnly => HeldOnly')
  BY <1>1, NoSteps DEF Fresh, HeldOnly
<1>6. Unfailed => Unfailed'
  <2>1. steps' = <<>> /\ ~res'.inited
    BY <1>1
  <2>2. CASE UNCHANGED <<i2s, lost>>
    BY <2>1, <2>2, SameReady DEF Unfailed
  <2>3. CASE lost' = lost \cup {"failed"}
    BY <2>1, <2>3 DEF Unfailed
  <2> QED  BY <2>2, <2>3
<1>7. ("retried" \in lost <=> "retried" \in lost') /\ ("lost" \in lost <=> "lost" \in lost')
  OBVIOUS
<1> QED  BY <1>2, <1>3, <1>4, <1>5, <1>6, <1>7 DEF BoardInv, OnceTried

\* A port is set up, was set up before, or has the plan given up.
LEMMA PortSteps ==
  ASSUME BoardInv, B!I2cInit \/ B!I2sInit
  PROVE  BoardInv'
<1> DEFINE h == Head(steps)
           Set(set) == [i2s EXCEPT ![h.arg] = [kept |-> TRUE, set |-> set]]
           Turned(p) == i2s'[p].kept /\ B!Succeeds(B!Asked(p), i2s'[p].set)
<1>1. /\ steps # <<>> /\ UNCHANGED <<section, codec, lines, modes, res, live>>
      /\ \/ /\ h.step \in {"i2c0", "i2c"} /\ UNCHANGED <<i2s, lost>>
            /\ steps' = Tail(steps) \/ steps' = <<>>
         \/ /\ h.step = "i2s" /\ UNCHANGED <<i2s, lost>>
            /\ (i2s[h.arg].kept /\ steps' = Tail(steps)) \/ steps' = <<>>
         \/ /\ h.step = "i2s"
            /\ \E set \in SUBSET B!Asked(h.arg) :
                 /\ i2s' = Set(set)
                 /\ \/ B!Succeeds(B!Asked(h.arg), set) /\ steps' = Tail(steps) /\ lost' = lost
                    \/ steps' = <<>> /\ lost' = lost \cup {"failed"}
  BY DEF B!I2cInit, B!I2sInit, B!InitStep, B!Goes, B!Fails, B!Arg, B!Step
<1>2. h.step \in InitKinds /\ h \in BoardSteps
  BY <1>1, NextStep DEF InitKinds
<1>3. h.step = "i2s" => h.arg \in B!Ports
  BY <1>2 DEF BoardSteps
<1>4. PortTypes /\ codec
  BY <1>1, <1>2, HeadBuilds DEF BoardInv, DeviceTypes
<1>5. PortTypes'
  <2>1. CASE UNCHANGED i2s
    BY <1>1, <1>4, <2>1 DEF PortTypes
  <2>2. CASE \E set : i2s' = Set(set)
    <3>1. PICK set : i2s' = Set(set)
      BY <2>2
    <3>2. DOMAIN i2s' = DOMAIN i2s
      BY <3>1
    <3>3. \A p \in DOMAIN i2s : i2s'[p] = i2s[p] \/ i2s'[p].kept = TRUE
      BY <3>1
    <3> QED  BY <1>1, <1>4, <3>2, <3>3 DEF PortTypes
  <2> QED  BY <1>1, <2>1, <2>2
<1>6. CASE steps' = <<>>
  <2>1. UNCHANGED <<i2s, lost>> \/ lost' = lost \cup {"failed"}
    <3>1. Tail(steps) # <<>>
      BY <1>1, <1>2, HeadBuilds, NextStep
    <3> QED  BY <1>1, <1>6, <3>1
  <2> QED  BY <1>1, <1>2, <1>5, <1>6, <2>1, InitFails
<1>7. CASE steps' # <<>>
  <2>1. steps' = Tail(steps) /\ lost' = lost
    BY <1>1, <1>7
  <2>2. /\ SectionTypes' /\ DeviceTypes' /\ Building' /\ Deleting'
        /\ LastStep'.step = "end"
    <3>1. /\ DOMAIN res' = {"inited", "has"} /\ res'.has \subseteq Objects /\ live' \subseteq Objects
          /\ res'.inited = res.inited
      BY <1>1 DEF BoardInv, DeviceTypes
    <3> QED  BY <1>1, <1>2, <1>5, <2>1, <3>1, InitGoes
  <2>3. /\ LastStep.step = "end" /\ Len(steps) # 1 /\ ~res.inited
        /\ steps[1] = h /\ Len(steps) \in Nat \ {0} /\ Len(steps') = Len(steps) - 1
        /\ \A i \in 1..Len(steps) - 1 : steps'[i] = steps[i + 1]
    BY <1>1, <1>2, <2>1, HeadBuilds, NextStep
  <2> HIDE DEF h
  <2>4. ASSUME OnceTried, "retried" \notin lost
        PROVE  Provided' /\ Unfailed' /\ Fresh' /\ HeldOnly'
    <3>1. /\ Provided /\ Fresh /\ HeldOnly /\ "failed" \notin lost
          /\ \A q \in B!Ports : i2s[q].kept => Ready(q)
      BY <1>1, <2>4 DEF OnceTried, Unfailed
    <3>2. /\ \A q \in B!Ports : i2s'[q].kept => Turned(q)
          /\ \A q \in B!Ports : i2s[q].kept => i2s'[q].kept
          /\ h.step = "i2s" => i2s'[h.arg].kept
      <4>1. CASE UNCHANGED i2s /\ (h.step = "i2s" => i2s[h.arg].kept)
        BY <1>1, <3>1, <4>1 DEF Ready
      <4>2. CASE h.step = "i2s" /\ \E set : i2s' = Set(set) /\ B!Succeeds(B!Asked(h.arg), set)
        <5>1. PICK set : i2s' = Set(set) /\ B!Succeeds(B!Asked(h.arg), set)
          BY <4>2
        <5>2. h.arg \in B!Ports /\ DOMAIN i2s = B!Ports
          BY <1>3, <1>4, <4>2 DEF PortTypes
        <5>3. i2s'[h.arg].kept = TRUE /\ i2s'[h.arg].set = set
          BY <5>1, <5>2
        <5>4. \A q \in B!Ports : q # h.arg => i2s'[q] = i2s[q]
          BY <5>1, <5>2
        <5>5. Turned(h.arg)
          BY <5>1, <5>3
        <5>6. ASSUME NEW q \in B!Ports, q # h.arg, i2s'[q].kept
              PROVE  Turned(q)
          <6>1. i2s'[q] = i2s[q] /\ Ready(q)
            BY <3>1, <5>4, <5>6
          <6> QED  BY <6>1 DEF Ready
        <5> HIDE DEF Turned
        <5> QED  BY <5>2, <5>3, <5>4, <5>5, <5>6
      <4> QED  BY <1>1, <1>7, <4>1, <4>2
    <3>7. ASSUME NEW q
          PROVE  Turned(q) <=> Ready(q)'
      <4>1. B!Asked(q)' = B!Asked(q)
        BY <1>1 DEF B!Asked, B!has, B!Cfg, B!Of
      <4> QED  BY <4>1 DEF Ready
    <3> HIDE DEF Turned
    <3>3. Unfailed'
      BY <2>1, <3>1, <3>2, <3>7 DEF Unfailed
    <3>4. Fresh'
      <4> DEFINE n == Len(steps)
      <4> HIDE DEF n
      <4>1. \A i \in 1..n - 1 : i + 1 \in 1..n /\ steps'[i] = steps[i + 1]
        BY <2>3 DEF n
      <4>2. \A i, j \in 1..n - 1 : i < j => i + 1 < j + 1
        BY <2>3 DEF n
      <4>3. res'.has = res.has
        BY <1>1
      <4>4. /\ \A i \in 1..n : Builds(steps[i]) => steps[i].arg \notin res.has
            /\ \A i, j \in 1..n :
                 i < j /\ Builds(steps[i]) /\ Builds(steps[j]) => Rank[steps[i].arg] < Rank[steps[j].arg]
        BY <3>1 DEF Fresh, n
      <4>5. /\ \A i \in 1..n - 1 : Builds(steps'[i]) => steps'[i].arg \notin res'.has
            /\ \A i, j \in 1..n - 1 :
                 i < j /\ Builds(steps'[i]) /\ Builds(steps'[j]) => Rank[steps'[i].arg] < Rank[steps'[j].arg]
        BY <4>1, <4>2, <4>3, <4>4
      <4> QED  BY <2>3, <4>5 DEF Fresh, n
    <3>5. HeldOnly'
      BY <1>1, <2>2, <3>1 DEF HeldOnly
    <3>6. Provided'
      <4>1. ASSUME NEW dir \in {"in", "out"}, B!has(dir)'
            PROVE  \/ Ready(B!Cfg(dir).i2s)'
                   \/ \E i \in 1..Len(steps') : steps'[i].step = "i2s" /\ steps'[i].arg = B!Cfg(dir)'.i2s
        <5>1. B!has(dir) /\ B!Cfg(dir)' = B!Cfg(dir)
          BY <1>1, <4>1, SameBoard
        <5>2. PICK q \in B!Ports : q = B!Cfg(dir).i2s
          BY <5>1, CfgOf
        <5>3. Ready(q) \/ \E i \in 1..Len(steps) : steps[i].step = "i2s" /\ steps[i].arg = q
          BY <1>1, <2>3, <3>1, <5>1, <5>2 DEF Provided
        <5>4. Ready(q) => i2s[q].kept
          BY DEF Ready
        <5>5. CASE i2s'[q].kept
          <6>1. Ready(q)'
            BY <3>2, <3>7, <5>5
          <6>2. Ready(q)' = Ready(B!Cfg(dir).i2s)'
            BY <5>1, <5>2
          <6> QED  BY <6>1, <6>2
        <5>6. ASSUME NEW i \in 1..Len(steps), steps[i].step = "i2s", steps[i].arg = q, ~i2s'[q].kept
              PROVE  \E k \in 1..Len(steps') : steps'[k].step = "i2s" /\ steps'[k].arg = q
          <6>1. i # 1
            BY <2>3, <3>2, <5>6
          <6>2. i - 1 \in 1..Len(steps') /\ steps'[i - 1] = steps[i]
            BY <2>3, <6>1
          <6> QED  BY <5>6, <6>2
        <5>7. q = B!Cfg(dir)'.i2s
          BY <5>1, <5>2
        <5> QED  BY <3>2, <5>3, <5>4, <5>5, <5>6, <5>7
      <4> QED  BY <4>1 DEF Provided
    <3> QED  BY <3>3, <3>4, <3>5, <3>6
  <2> QED  BY <1>1, <2>2, <2>4 DEF BoardInv, OnceTried
<1> QED  BY <1>6, <1>7

\* An object is built that was not there, or none is.
LEMMA NewStep ==
  ASSUME BoardInv, B!New
  PROVE  BoardInv'
<1> DEFINE h == Head(steps)
           n == Len(steps)
<1>1. /\ steps # <<>> /\ UNCHANGED <<section, codec, lines, modes, i2s>> /\ steps' = Tail(steps)
      /\ h.step \in {"new", "dev"}
      /\ \/ /\ res' = [res EXCEPT !.has = res.has \cup {h.arg}] /\ live' = live \cup {h.arg}
            /\ lost' = IF h.arg \in live THEN lost \cup {"lost"} ELSE lost
         \/ /\ res' = [res EXCEPT !.has = res.has \ {h.arg}] /\ live' = live
            /\ lost' = IF h.arg \in res.has THEN lost \cup {"lost"} ELSE lost
  BY DEF B!New, B!Built, B!InitStep, B!Goes, B!Arg, B!Step
<1>2. /\ h.step \in InitKinds /\ h \in BoardSteps /\ h = steps[1] /\ n \in Nat \ {0} /\ Builds(h)
      /\ steps' = Tail(steps)
  BY <1>1, NextStep DEF InitKinds, Builds
<1>3. h.arg \in Objects
  BY <1>1, <1>2 DEF BoardSteps
<1>4. /\ DOMAIN res = {"inited", "has"} /\ res.has \subseteq Objects /\ live \subseteq Objects
      /\ PortTypes
  BY DEF BoardInv, DeviceTypes
<1>5. /\ LastStep.step = "end" /\ n # 1 /\ ~res.inited
      /\ Len(steps') = n - 1 /\ \A i \in 1..n - 1 : steps'[i] = steps[i + 1]
  BY <1>1, <1>2, HeadBuilds, NextStep
<1> HIDE DEF h, n
<1>6. /\ DOMAIN res' = {"inited", "has"} /\ res'.inited = res.inited
      /\ res'.has = res.has \cup {h.arg} \/ res'.has = res.has \ {h.arg}
  <2>1. CASE res' = [res EXCEPT !.has = res.has \cup {h.arg}]
    BY <1>4, <2>1
  <2>2. CASE res' = [res EXCEPT !.has = res.has \ {h.arg}]
    BY <1>4, <2>2
  <2> QED  BY <1>1, <2>1, <2>2
<1>7. /\ SectionTypes' /\ DeviceTypes' /\ Building' /\ Deleting' /\ LastStep'.step = "end" /\ steps' # <<>>
  <2>1. res'.has \subseteq Objects /\ live' \subseteq Objects
    BY <1>1, <1>3, <1>4, <1>6
  <2>2. UNCHANGED <<section, codec, lines>> /\ PortTypes'
    BY <1>1, <1>4 DEF PortTypes
  <2> QED  BY <1>1, <1>2, <1>6, <2>1, <2>2, InitGoes DEF h
<1>8. ASSUME OnceTried, "retried" \notin lost
      PROVE  "lost" \notin lost' /\ Provided' /\ Unfailed' /\ Fresh' /\ HeldOnly'
  <2>1. /\ "lost" \notin lost /\ Provided /\ Unfailed /\ Fresh /\ live \subseteq res.has
    BY <1>8 DEF OnceTried, HeldOnly
  <2>2. /\ \A i \in 1..n : Builds(steps[i]) => steps[i].arg \notin res.has
        /\ \A i, j \in 1..n :
             i < j /\ Builds(steps[i]) /\ Builds(steps[j]) => Rank[steps[i].arg] < Rank[steps[j].arg]
    BY <2>1 DEF Fresh, n
  <2>3. h.arg \notin res.has
    BY <1>2, <2>2
  <2>4. h.arg \notin live
    BY <2>1, <2>3
  <2>5. /\ lost' = lost /\ live' \subseteq res'.has
        /\ \A x : x \in res'.has => x \in res.has \/ x = h.arg
    <3>1. CASE res'.has = res.has \cup {h.arg} /\ live' = live \cup {h.arg} /\ lost' = lost
      BY <2>1, <3>1
    <3>2. CASE res'.has = res.has \ {h.arg} /\ live' = live /\ lost' = lost
      BY <2>1, <2>4, <3>2
    <3>3. \/ res'.has = res.has \cup {h.arg} /\ live' = live \cup {h.arg} /\ lost' = lost
          \/ res'.has = res.has \ {h.arg} /\ live' = live /\ lost' = lost
      <4>1. CASE res' = [res EXCEPT !.has = res.has \cup {h.arg}] /\ live' = live \cup {h.arg}
        BY <1>1, <1>4, <2>3, <2>4, <4>1
      <4>2. CASE res' = [res EXCEPT !.has = res.has \ {h.arg}] /\ live' = live
        BY <1>1, <1>4, <2>3, <2>4, <4>2
      <4> QED  BY <1>1, <4>1, <4>2
    <3> QED  BY <3>1, <3>2, <3>3
  <2>6. \A i \in 1..n - 1 : i + 1 \in 1..n /\ 1 < i + 1 /\ steps'[i] = steps[i + 1]
    BY <1>2, <1>5
  <2>7. Fresh'
    <3>1. ASSUME NEW i \in 1..n - 1, Builds(steps'[i])
          PROVE  steps'[i].arg \notin res'.has
      <4>1. /\ i + 1 \in 1..n /\ 1 \in 1..n /\ 1 < i + 1 /\ steps'[i] = steps[i + 1]
        <5>1. \A m \in Nat \ {0} : 1 \in 1..m
          OBVIOUS
        <5> QED  BY <1>2, <2>6, <5>1, Zenon
      <4>2. steps[i + 1].arg \notin res.has /\ Rank[h.arg] < Rank[steps[i + 1].arg]
        BY <1>2, <2>2, <3>1, <4>1
      <4>3. steps[i + 1].arg # h.arg
        <5>1. Rank[h.arg] \in Nat
          BY <1>3 DEF Rank, Objects
        <5>2. ~(Rank[h.arg] < Rank[h.arg])
          BY <5>1
        <5> QED  BY <4>2, <5>2
      <4> QED  BY <2>5, <4>1, <4>2, <4>3
    <3>2. ASSUME NEW i \in 1..n - 1, NEW j \in 1..n - 1, i < j, Builds(steps'[i]), Builds(steps'[j])
          PROVE  Rank[steps'[i].arg] < Rank[steps'[j].arg]
      <4>1. i + 1 < j + 1
        BY <3>2
      <4> QED  BY <2>2, <2>6, <3>2, <4>1
    <3> QED  BY <1>5, <3>1, <3>2 DEF Fresh
  <2>8. HeldOnly'
    BY <1>7, <2>5 DEF HeldOnly
  <2>9. Unfailed'
    BY <1>1, <2>1, SameReady DEF Unfailed
  <2>10. Provided'
    <3>1. ASSUME NEW dir \in {"in", "out"}, B!has(dir)'
          PROVE  \/ Ready(B!Cfg(dir).i2s)'
                 \/ \E i \in 1..Len(steps') : steps'[i].step = "i2s" /\ steps'[i].arg = B!Cfg(dir)'.i2s
      <4> DEFINE q == B!Cfg(dir).i2s
      <4>1. B!has(dir) /\ B!Cfg(dir)' = B!Cfg(dir)
        BY <1>1, <3>1, SameBoard
      <4>2. Ready(q) \/ \E i \in 1..n : steps[i].step = "i2s" /\ steps[i].arg = q
        BY <1>1, <1>5, <2>1, <4>1 DEF Provided, n
      <4> HIDE DEF q
      <4>3. ASSUME NEW i \in 1..n, steps[i].step = "i2s", steps[i].arg = q
            PROVE  \E k \in 1..Len(steps') : steps'[k].step = "i2s" /\ steps'[k].arg = q
        <5>1. i # 1
          BY <1>1, <1>2, <4>3
        <5>2. i - 1 \in 1..Len(steps') /\ steps'[i - 1] = steps[i]
          BY <1>2, <1>5, <5>1
        <5> QED  BY <4>3, <5>2
      <4>4. Ready(q)' = Ready(q) /\ Ready(B!Cfg(dir).i2s)' = Ready(q)'
        BY <1>1, <4>1, SameReady DEF q
      <4> QED  BY <4>1, <4>2, <4>3, <4>4 DEF q
    <3> QED  BY <3>1 DEF Provided
  <2> QED  BY <2>1, <2>5, <2>7, <2>8, <2>9, <2>10
<1>9. "retried" \in lost => "retried" \in lost'
  BY <1>1
<1> QED  BY <1>7, <1>8, <1>9 DEF BoardInv, OnceTried

\* init_codec ends with every port ready.
LEMMA EndStep ==
  ASSUME BoardInv, B!InitEnds
  PROVE  BoardInv'
<1>1. /\ steps # <<>> /\ UNCHANGED <<section, codec, lines, modes, i2s, live, lost>> /\ steps' = Tail(steps)
      /\ Head(steps).step = "end"
      /\ res' = [res EXCEPT !.inited = (res.has \cap B!Devices # {})]
  BY DEF B!InitEnds, B!InitStep, B!Goes, B!Step
<1>2. /\ LastStep = Head(steps) /\ Len(steps) = 1 /\ codec /\ steps' = <<>> /\ steps[1] = Head(steps)
  BY <1>1, HeadEnds, NextStep
<1>3. DOMAIN res' = {"inited", "has"} /\ res'.has = res.has /\ res'.inited \in BOOLEAN
  BY <1>1 DEF BoardInv, DeviceTypes
<1>4. SectionTypes'
  BY <1>1, <1>2 DEF BoardInv, SectionTypes
<1>5. DeviceTypes' /\ Building' /\ Deleting'
  BY <1>1, <1>2, <1>3, NoSteps DEF BoardInv, DeviceTypes, PortTypes, Building, Deleting
<1>6. ASSUME OnceTried, "retried" \notin lost
      PROVE  Provided' /\ Unfailed' /\ Fresh' /\ HeldOnly'
  <2>1. Provided /\ Unfailed /\ Fresh /\ HeldOnly
    BY <1>6 DEF OnceTried
  <2>2. Unfailed'
    BY <1>1, <2>1, SameReady DEF Unfailed
  <2>3. Fresh' /\ HeldOnly'
    BY <1>1, <1>2, <1>3, <2>1, NoSteps DEF Fresh, HeldOnly
  <2>4. Provided'
    <3>1. ASSUME NEW dir \in {"in", "out"}, B!has(dir)'
          PROVE  Ready(B!Cfg(dir).i2s)'
      <4>1. B!has(dir) /\ B!Cfg(dir)' = B!Cfg(dir)
        BY <1>1, <3>1, SameBoard
      <4>2. \A i \in 1..Len(steps) : steps[i].step # "i2s"
        BY <1>1, <1>2
      <4>3. Ready(B!Cfg(dir).i2s)
        BY <1>1, <1>2, <2>1, <4>1, <4>2 DEF Provided
      <4> QED  BY <1>1, <4>1, <4>3, SameReady
    <3> QED  BY <3>1 DEF Provided
  <2> QED  BY <2>2, <2>3, <2>4
<1> QED  BY <1>1, <1>4, <1>5, <1>6 DEF BoardInv, OnceTried

-----------------------------------------------------------------------------
(* deinit_codec: its plan deletes every object there is. *)

Deletes(s, O) ==
  /\ s \in Seq([step : {"delete"}, arg : Objects]) /\ O \subseteq Objects
  /\ \A x \in O : \E i \in 1..Len(s) : s[i].arg = x

\* The plan of deinit_codec, put together in the same way.
LEMMA DeleteOne ==
  ASSUME NEW x \in Objects
  PROVE  Deletes(B!Do("delete", x), {x})
<1> DEFINE y == [step |-> "delete", arg |-> x]
<1>1. y \in [step : {"delete"}, arg : Objects] /\ y.arg = x
  OBVIOUS
<1> HIDE DEF y
<1>2. <<y>> \in Seq([step : {"delete"}, arg : Objects]) /\ Len(<<y>>) = 1 /\ <<y>>[1] = y
  BY <1>1
<1>3. B!Do("delete", x) = <<y>>
  BY DEF B!Do, y
<1>4. {x} \subseteq Objects /\ \A z \in {x} : \E i \in 1..Len(<<y>>) : <<y>>[i].arg = z
  BY <1>1, <1>2
<1> QED  BY <1>2, <1>3, <1>4, Zenon DEF Deletes

LEMMA DeleteJoin ==
  ASSUME NEW s, NEW t, NEW O, NEW P, Deletes(s, O), Deletes(t, P)
  PROVE  Deletes(s \o t, O \cup P)
<1> DEFINE m == Len(s)
           n == Len(t)
           u == s \o t
           D == [step : {"delete"}, arg : Objects]
<1>1. /\ m \in Nat /\ n \in Nat /\ Len(u) = m + n /\ u \in Seq(D)
      /\ \A i \in 1..m + n : u[i] = IF i <= m THEN s[i] ELSE t[i - m]
  BY ConcatProperties, LenProperties DEF Deletes
<1> HIDE DEF m, n, u, D
<1>2. ASSUME NEW x \in O
      PROVE  \E i \in 1..Len(u) : u[i].arg = x
  <2>1. PICK i \in 1..m : s[i].arg = x
    BY DEF Deletes, m
  <2>2. i \in 1..m + n /\ u[i] = s[i]
    BY <1>1
  <2> QED  BY <1>1, <2>1, <2>2
<1>3. ASSUME NEW x \in P
      PROVE  \E i \in 1..Len(u) : u[i].arg = x
  <2>1. PICK i \in 1..n : t[i].arg = x
    BY DEF Deletes, n
  <2>2. i + m \in 1..m + n /\ u[i + m] = t[i]
    BY <1>1
  <2> QED  BY <1>1, <2>1, <2>2
<1>4. u \in Seq(D) /\ O \cup P \subseteq Objects
  BY <1>1 DEF Deletes
<1> QED  BY <1>2, <1>3, <1>4 DEF Deletes, u, D

DeletePlan ==
  B!Do("delete", "play_dev") \o B!Do("delete", "record_dev") \o B!Do("delete", "in_codec_if")
  \o B!Do("delete", "out_codec_if") \o B!Do("delete", "in_ctrl_if") \o B!Do("delete", "out_ctrl_if")
  \o B!Do("delete", "data_if") \o B!Do("delete", "data_in_if") \o B!Do("delete", "gpio_if")

LEMMA DeletesAll == Deletes(DeletePlan, Objects)
<1> DEFINE a == B!Do("delete", "play_dev")
           b == B!Do("delete", "record_dev")
           c == B!Do("delete", "in_codec_if")
           d == B!Do("delete", "out_codec_if")
           e == B!Do("delete", "in_ctrl_if")
           f == B!Do("delete", "out_ctrl_if")
           g == B!Do("delete", "data_if")
           h == B!Do("delete", "data_in_if")
           i == B!Do("delete", "gpio_if")
<1>1. /\ Deletes(a, {"play_dev"}) /\ Deletes(b, {"record_dev"}) /\ Deletes(c, {"in_codec_if"})
      /\ Deletes(d, {"out_codec_if"}) /\ Deletes(e, {"in_ctrl_if"}) /\ Deletes(f, {"out_ctrl_if"})
      /\ Deletes(g, {"data_if"}) /\ Deletes(h, {"data_in_if"}) /\ Deletes(i, {"gpio_if"})
  BY DeleteOne DEF Objects
<1>2. DeletePlan = a \o b \o c \o d \o e \o f \o g \o h \o i
  BY DEF DeletePlan
<1> HIDE DEF a, b, c, d, e, f, g, h, i
<1>3. Deletes(a \o b, {"play_dev"} \cup {"record_dev"})
  BY <1>1, DeleteJoin
<1>4. Deletes(a \o b \o c, {"play_dev"} \cup {"record_dev"} \cup {"in_codec_if"})
  BY <1>1, <1>3, DeleteJoin
<1>5. Deletes(a \o b \o c \o d, {"play_dev"} \cup {"record_dev"} \cup {"in_codec_if"} \cup {"out_codec_if"})
  BY <1>1, <1>4, DeleteJoin
<1>6. Deletes(a \o b \o c \o d \o e,
              {"play_dev"} \cup {"record_dev"} \cup {"in_codec_if"} \cup {"out_codec_if"} \cup {"in_ctrl_if"})
  BY <1>1, <1>5, DeleteJoin
<1>7. Deletes(a \o b \o c \o d \o e \o f,
              {"play_dev"} \cup {"record_dev"} \cup {"in_codec_if"} \cup {"out_codec_if"} \cup {"in_ctrl_if"}
              \cup {"out_ctrl_if"})
  BY <1>1, <1>6, DeleteJoin
<1>8. Deletes(a \o b \o c \o d \o e \o f \o g,
              {"play_dev"} \cup {"record_dev"} \cup {"in_codec_if"} \cup {"out_codec_if"} \cup {"in_ctrl_if"}
              \cup {"out_ctrl_if"} \cup {"data_if"})
  BY <1>1, <1>7, DeleteJoin
<1>9. Deletes(a \o b \o c \o d \o e \o f \o g \o h,
              {"play_dev"} \cup {"record_dev"} \cup {"in_codec_if"} \cup {"out_codec_if"} \cup {"in_ctrl_if"}
              \cup {"out_ctrl_if"} \cup {"data_if"} \cup {"data_in_if"})
  BY <1>1, <1>8, DeleteJoin
<1>10. Deletes(a \o b \o c \o d \o e \o f \o g \o h \o i,
              {"play_dev"} \cup {"record_dev"} \cup {"in_codec_if"} \cup {"out_codec_if"} \cup {"in_ctrl_if"}
              \cup {"out_ctrl_if"} \cup {"data_if"} \cup {"data_in_if"} \cup {"gpio_if"})
  BY <1>1, <1>9, DeleteJoin
<1>11. Objects = {"play_dev"} \cup {"record_dev"} \cup {"in_codec_if"} \cup {"out_codec_if"} \cup {"in_ctrl_if"}
              \cup {"out_ctrl_if"} \cup {"data_if"} \cup {"data_in_if"} \cup {"gpio_if"}
  BY DEF Objects
<1> QED  BY <1>2, <1>10, <1>11

\* deinit_codec starts with all the objects to delete.
LEMMA DeinitStarts ==
  ASSUME BoardInv, B!deinit_codec
  PROVE  BoardInv'
<1> DEFINE p == DeletePlan
           end == [step |-> "buses", arg |-> 0]
           n == Len(p)
           D == [step : {"delete"}, arg : Objects]
<1>1. /\ lines = <<>> /\ steps = <<>> /\ res.inited
      /\ UNCHANGED <<section, codec, lines, modes, i2s, res, live, lost>>
      /\ steps' = p \o <<end>>
  BY DEF B!deinit_codec, B!CallStarts, B!Idle, B!DeinitSteps, DeletePlan, B!Do
<1>2. codec
  BY <1>1 DEF BoardInv, SectionTypes
<1>3. Deletes(p, Objects)
  BY DeletesAll
<1>4. end \in BoardSteps /\ end.step = "buses"
  BY DEF BoardSteps
<1>5. D \subseteq BoardSteps /\ \A x \in D : x.step = "delete"
  BY DEF BoardSteps
<1> HIDE DEF p, end, D
<1>6. p \in Seq(D)
  BY <1>3 DEF Deletes, D
<1>7. /\ p \in Seq(BoardSteps) /\ <<end>> \in Seq(BoardSteps) /\ n \in Nat /\ Len(<<end>>) = 1 /\ <<end>>[1] = end
      /\ \A i \in 1..n : p[i].step = "delete"
  BY <1>4, <1>5, <1>6, WiderSeq, LenProperties
<1>8. /\ steps' \in Seq(BoardSteps) /\ Len(steps') = n + 1 /\ steps'[n + 1] = end
      /\ \A i \in 1..n : steps'[i] = p[i]
  BY <1>1, <1>7, ConcatProperties
<1>9. \A x \in Objects : \E i \in 1..n : p[i].arg = x
  BY <1>3 DEF Deletes
<1> HIDE DEF n
<1>10. steps' # <<>> /\ LastStep' = end /\ Len(steps') - 1 = n
  <2>1. LastStep' = steps'[Len(steps')]
    BY DEF LastStep
  <2> QED  BY <1>7, <1>8, <2>1
<1>11. SectionTypes' /\ DeviceTypes'
  BY <1>1, <1>2, <1>8 DEF BoardInv, SectionTypes, DeviceTypes, PortTypes
<1>12. \A i \in 1..n : steps'[i].step = "delete"
  BY <1>7, <1>8
<1>13. Building' /\ Deleting'
  BY <1>4, <1>10, <1>12 DEF Building, Deleting
<1>14. ASSUME OnceTried, "retried" \notin lost
       PROVE  Provided' /\ Unfailed' /\ Fresh' /\ HeldOnly'
  <2>1. Unfailed /\ HeldOnly
    BY <1>14 DEF OnceTried
  <2>2. Unfailed'
    BY <1>1, <2>1, SameReady DEF Unfailed
  <2>3. Provided'
    BY <1>4, <1>10 DEF Provided
  <2>4. Fresh'
    <3>1. \A i \in 1..Len(steps') : ~Builds(steps'[i])
      <4>1. \A i \in 1..n + 1 : i \in 1..n \/ i = n + 1
        BY <1>7
      <4> QED  BY <1>4, <1>8, <1>12, <4>1 DEF Builds
    <3> QED  BY <3>1 DEF Fresh
  <2>5. HeldOnly'
    <3>1. live' \subseteq res'.has
      BY <1>1, <2>1 DEF HeldOnly
    <3>2. live' \subseteq Objects
      BY <1>11 DEF DeviceTypes
    <3>3. \A x \in Objects : \E i \in 1..n : steps'[i].arg = x
      BY <1>8, <1>9
    <3>4. live' \subseteq {steps'[i].arg : i \in 1..n}
      BY <3>2, <3>3
    <3> QED  BY <1>10, <3>1, <3>4 DEF HeldOnly
  <2> QED  BY <2>2, <2>3, <2>4, <2>5
<1> QED  BY <1>1, <1>11, <1>13, <1>14 DEF BoardInv, OnceTried

\* An object that lives is held, so that deleting what is held deletes it.
LEMMA DeleteStep ==
  ASSUME BoardInv, B!Delete
  PROVE  BoardInv'
<1> DEFINE h == Head(steps)
           n == Len(steps)
<1>1. /\ steps # <<>> /\ UNCHANGED <<section, codec, lines, modes, i2s, lost>> /\ steps' = Tail(steps)
      /\ h.step = "delete"
      /\ live' = (IF h.arg \in res.has THEN live \ {h.arg} ELSE live)
      /\ res' = [res EXCEPT !.has = res.has \ {h.arg}]
  BY DEF B!Delete, B!InitStep, B!Goes, B!Arg, B!Step
<1>2. /\ LastStep.step = "buses" /\ n # 1 /\ codec /\ \A i \in 1..n - 1 : steps[i].step = "delete"
      /\ h = steps[1] /\ n \in Nat \ {0} /\ steps' \in Seq(BoardSteps) /\ Len(steps') = n - 1
      /\ \A i \in 1..n - 1 : steps'[i] = steps[i + 1]
      /\ steps' # <<>> /\ steps'[Len(steps')] = LastStep
  BY <1>1, HeadDeletes, NextStep
<1>3. LastStep' = LastStep
  BY <1>2 DEF LastStep
<1> HIDE DEF h, n
<1>4. /\ DOMAIN res' = {"inited", "has"} /\ res'.has = res.has \ {h.arg} /\ res'.inited = res.inited
  BY <1>1 DEF BoardInv, DeviceTypes
<1>5. SectionTypes'
  BY <1>1, <1>2 DEF BoardInv, SectionTypes
<1>6. DeviceTypes'
  <2>1. /\ PortTypes /\ res.inited \in BOOLEAN
        /\ res.has \subseteq Objects /\ live \subseteq Objects
    BY DEF BoardInv, DeviceTypes
  <2>2. res'.has \subseteq Objects /\ live' \subseteq Objects
    BY <1>1, <1>4, <2>1
  <2>3. PortTypes' /\ res'.inited \in BOOLEAN
    BY <1>1, <1>4, <2>1 DEF PortTypes
  <2> QED  BY <1>2, <1>4, <2>1, <2>2, <2>3, Zenon DEF DeviceTypes
<1>7. \A i \in 1..(n - 1) - 1 : steps'[i].step = "delete"
  <2>1. \A i \in 1..(n - 1) - 1 : i \in 1..n - 1 /\ i + 1 \in 1..n - 1
    BY <1>2
  <2> QED  BY <1>2, <2>1
<1>8. Building' /\ Deleting'
  BY <1>2, <1>3, <1>7 DEF Building, Deleting
<1>9. ASSUME OnceTried, "retried" \notin lost
      PROVE  Provided' /\ Unfailed' /\ Fresh' /\ HeldOnly'
  <2>1. Unfailed /\ live \subseteq res.has /\ live \subseteq {steps[i].arg : i \in 1..n - 1}
    BY <1>1, <1>2, <1>9 DEF OnceTried, HeldOnly, n
  <2>2. Unfailed'
    BY <1>1, <2>1, SameReady DEF Unfailed
  <2>3. Provided'
    BY <1>2, <1>3 DEF Provided
  <2>4. Fresh'
    <3>1. \A i \in 1..n - 1 : i \in 1..(n - 1) - 1 \/ i = n - 1
      BY <1>2
    <3>2. \A i \in 1..n - 1 : steps'[i].step \in {"delete", "buses"}
      BY <1>2, <1>7, <3>1
    <3>3. \A i \in 1..Len(steps') : ~Builds(steps'[i])
      BY <1>2, <3>2 DEF Builds
    <3> QED  BY <3>3 DEF Fresh
  <2>5. HeldOnly'
    <3>1. live' = live \ {h.arg}
      BY <1>1, <2>1
    <3>2. live' \subseteq res'.has
      BY <1>4, <2>1, <3>1
    <3>3. ASSUME NEW x \in live'
          PROVE  x \in {steps'[i].arg : i \in 1..(n - 1) - 1}
      <4>1. x \in live /\ x # h.arg
        BY <3>1
      <4>2. PICK i \in 1..n - 1 : steps[i].arg = x
        BY <2>1, <4>1
      <4>3. i # 1
        BY <1>2, <4>1, <4>2
      <4>4. i - 1 \in 1..(n - 1) - 1 /\ i - 1 \in 1..n - 1 /\ (i - 1) + 1 = i
        BY <1>2, <4>3
      <4>5. steps'[i - 1] = steps[i]
        BY <1>2, <4>4
      <4> QED  BY <4>2, <4>4, <4>5
    <3> QED  BY <1>2, <3>2, <3>3 DEF HeldOnly
  <2> QED  BY <2>2, <2>3, <2>4, <2>5
<1> QED  BY <1>1, <1>5, <1>6, <1>8, <1>9 DEF BoardInv, OnceTried

\* With the last step nothing is left.
LEMMA BusesStep ==
  ASSUME BoardInv, B!DeleteBuses
  PROVE  BoardInv'
<1>1. /\ steps # <<>> /\ UNCHANGED <<section, codec, lines, modes, live, lost>> /\ steps' = Tail(steps)
      /\ Head(steps).step = "buses" /\ i2s' = B!NoKeep
      /\ res' = [inited |-> FALSE, has |-> {}]
  BY DEF B!DeleteBuses, B!InitStep, B!Goes, B!Step, B!NoRes
<1>2. /\ LastStep = Head(steps) /\ Len(steps) = 1 /\ codec /\ steps' = <<>>
  BY <1>1, HeadEnds, NextStep
<1>3. DOMAIN res' = {"inited", "has"} /\ res'.has = {} /\ res'.inited = FALSE
  BY <1>1
<1>4. SectionTypes'
  BY <1>1, <1>2 DEF BoardInv, SectionTypes
<1>0. DOMAIN i2s' = B!Ports /\ \A p \in B!Ports : i2s'[p].kept = FALSE
  BY <1>1 DEF B!NoKeep
<1>5. DeviceTypes' /\ Building' /\ Deleting'
  BY <1>0, <1>1, <1>2, <1>3, NoSteps DEF BoardInv, DeviceTypes, PortTypes, Building, Deleting
<1>6. Unfailed' /\ Provided' /\ Fresh'
  <2>1. Unfailed'
    BY <1>0, <1>2, <1>3 DEF Unfailed
  <2>2. Provided'
    BY <1>2, <1>3 DEF Provided
  <2>3. Fresh'
    BY <1>2, NoSteps DEF Fresh
  <2> QED  BY <2>1, <2>2, <2>3
<1>7. OnceTried /\ "retried" \notin lost => HeldOnly'
  <2>1. SUFFICES ASSUME OnceTried, "retried" \notin lost
                 PROVE  HeldOnly'
    OBVIOUS
  <2>2. live \subseteq {steps[i].arg : i \in 1..Len(steps) - 1}
    BY <1>1, <1>2, <2>1 DEF OnceTried, HeldOnly
  <2>3. \A i \in 1..1 - 1 : FALSE
    OBVIOUS
  <2>4. live = {}
    BY <1>2, <2>2, <2>3
  <2> QED  BY <1>1, <1>2, <2>4 DEF HeldOnly
<1> QED  BY <1>1, <1>4, <1>5, <1>6, <1>7 DEF BoardInv, OnceTried

-----------------------------------------------------------------------------
\* The property is in the invariant.
LEMMA BoardUse == BoardInv => BoardIsWhole
<1> SUFFICES ASSUME BoardInv
             PROVE  BoardIsWhole
  OBVIOUS
<1>1. ASSUME NEW i \in DOMAIN section.codec
      PROVE  LET c == section.codec[i]
             IN  B!Listed(c) \/ (c.i2c <= 0 /\ section.i2c = 0) \/ (c.i2s = 0 /\ section.i2s = 0)
  <2>1. /\ section.i2c \in 0..2 /\ section.i2s \in 0..2 /\ section.codec[i] \in CodecLines
        /\ Named(section.codec[i], section)
    BY DEF BoardInv, SectionTypes
  <2>2. section.codec[i].i2c \in Int /\ section.codec[i].i2s \in Nat
    BY <2>1 DEF CodecLines
  <2> QED  BY <2>1, <2>2 DEF Named, B!Listed
<1>2. ASSUME B!AllBuilt, "retried" \notin lost, NEW dir \in {"in", "out"}, B!has(dir)
      PROVE  LET port == i2s[B!Cfg(dir).i2s]
             IN  port.kept /\ (dir \in modes /\ ~B!Hidden(dir) => dir \in port.set)
  <2> DEFINE q == B!Cfg(dir).i2s
  <2>1. steps = <<>> /\ res.inited /\ Provided
    BY <1>2 DEF B!AllBuilt, B!Idle, BoardInv, OnceTried
  <2>2. \A i \in 1..Len(steps) : FALSE
    BY <2>1, NoSteps
  <2>3. i2s[q].kept /\ B!Succeeds(B!Asked(q), i2s[q].set)
    BY <1>2, <2>1, <2>2 DEF Provided, Ready
  <2>4. ASSUME dir \in modes, ~B!Hidden(dir)
        PROVE  dir \in i2s[q].set
    <3>1. dir \in B!Asked(q)
      BY <1>2, <2>4 DEF B!Asked
    <3>2. dir = "out" => "in" \notin B!Asked(q)
      BY <1>2, <2>4 DEF B!Asked, B!Hidden, B!same_i2s
    <3> QED  BY <2>3, <3>1, <3>2 DEF B!Succeeds
  <2> QED  BY <2>3, <2>4
<1>3. ASSUME B!Step("buses"), "retried" \notin lost
      PROVE  live = {}
  <2>1. steps # <<>> /\ Head(steps).step = "buses"
    BY <1>3 DEF B!Step
  <2>2. LastStep.step = "buses" /\ Len(steps) = 1
    BY <2>1, HeadEnds
  <2>3. live \subseteq {steps[i].arg : i \in 1..Len(steps) - 1}
    BY <1>3, <2>1, <2>2 DEF BoardInv, OnceTried, HeldOnly
  <2>4. \A i \in 1..1 - 1 : FALSE
    OBVIOUS
  <2> QED  BY <2>2, <2>3, <2>4
<1>4. "lost" \in lost => "retried" \in lost
  BY DEF BoardInv, OnceTried
<1> QED  BY <1>1, <1>2, <1>3, <1>4 DEF BoardIsWhole, B!BoardIsWhole

\* The steps of the other parts leave the board alone.
LEMMA BoardStays ==
  ASSUME BoardInv, UNCHANGED board_vars
  PROVE  BoardInv'
<1>1. UNCHANGED <<section, codec, lines, modes, i2s, res, live, steps, lost>>
  BY DEF board_vars
<1>2. \A dir \in {"in", "out"} : B!has(dir)' = B!has(dir) /\ B!Cfg(dir)' = B!Cfg(dir)
  BY <1>1, SameBoard
<1>3. SectionTypes' /\ DeviceTypes' /\ Building' /\ Deleting'
  BY <1>1 DEF BoardInv, SectionTypes, DeviceTypes, PortTypes, Building, Deleting, LastStep
<1>4. Provided => Provided'
  BY <1>1, <1>2, SameReady DEF Provided, LastStep
<1>5. (Unfailed => Unfailed') /\ (Fresh => Fresh') /\ (HeldOnly => HeldOnly')
  BY <1>1, SameReady DEF Unfailed, Fresh, HeldOnly, LastStep
<1> QED  BY <1>1, <1>3, <1>4, <1>5 DEF BoardInv, OnceTried

LEMMA BoardStep ==
  ASSUME BoardInv, B!BoardNext
  PROVE  BoardInv'
BY TypeStep, OtherLines, CodecStep, InitStarts, PortSteps, NewStep, EndStep, DeinitStarts, DeleteStep, BusesStep
   DEF B!BoardNext

\* BoardIsWhole, for any boards and any order of the calls: a codec stands on ports that
\* the section lists, or on those it does not name; each device that init_codec keeps has
\* its port, and the channel that was asked for unless a recording on the same port hides
\* its failure; deinit_codec leaves nothing behind and no object is lost, unless
\* init_codec was called again after it had failed.
THEOREM BoardStaysWhole == Spec => []BoardIsWhole
<1>1. Init => BoardInv
  <2> SUFFICES ASSUME Init
               PROVE  BoardInv
    OBVIOUS
  <2>1. /\ section = B!Section0 /\ codec = FALSE /\ lines = <<>> /\ steps = <<>> /\ live = {} /\ lost = {}
        /\ i2s = B!NoKeep /\ res = [inited |-> FALSE, has |-> {}]
    BY DEF Init, B!BoardInit, B!NoRes
  <2>2. section.i2c = 0 /\ section.i2s = 0 /\ section.codec = <<>>
    BY <2>1 DEF B!Section0
  <2>3. <<>> \in Seq(CodecLines) /\ <<>> \in Seq(BoardLines) /\ Len(<<>>) = 0 /\ \A i \in 1..Len(<<>>) : FALSE
    OBVIOUS
  <2>4. SectionTypes
    <3>1. DOMAIN section = DOMAIN B!Section0 /\ section.i2c \in 0..2 /\ section.i2s \in 0..2
      BY <2>1, <2>2
    <3>2. section.codec \in Seq(CodecLines) /\ Len(section.codec) <= 2
      BY <2>2, <2>3
    <3>3. \A i \in 1..Len(section.codec) : Named(section.codec[i], section)
      BY <2>2, <2>3
    <3>4. codec \in BOOLEAN /\ lines \in Seq(BoardLines) /\ ~codec /\ steps = <<>> /\ ~res.inited
      BY <2>1, <2>3
    <3> QED  BY <3>1, <3>2, <3>3, <3>4, Zenon DEF SectionTypes
  <2>0. DOMAIN i2s = B!Ports /\ \A p \in B!Ports : i2s[p].kept = FALSE
    BY <2>1 DEF B!NoKeep
  <2>5. DeviceTypes /\ Building /\ Deleting
    BY <2>0, <2>1, NoSteps DEF DeviceTypes, PortTypes, Building, Deleting
  <2>6. Provided /\ Unfailed /\ Fresh /\ HeldOnly
    BY <2>0, <2>1, NoSteps DEF Provided, Unfailed, Fresh, HeldOnly
  <2> QED  BY <2>1, <2>4, <2>5, <2>6 DEF BoardInv, OnceTried
<1>2. BoardInv /\ [Next]_vars => BoardInv'
  BY BoardStep, BoardStays DEF Next, vars
<1> QED  BY <1>1, <1>2, BoardUse, PTL DEF Spec

-----------------------------------------------------------------------------
(* The memory tracing *)

\* The table as a set of entries, and a table that has no address twice.
Rows(items) == {items[i] : i \in DOMAIN items}
Once(items) == \A i, j \in DOMAIN items : items[i].addr = items[j].addr => i = j

\* What an entry is, and what a block of the heap is.
Item == [addr : Addrs, size : Nat, module : T!Modules]
Block == [used : {"free", "live"} \cup Tracers, size : Nat, traced : BOOLEAN]
TraceTypes ==
  /\ heap \in [Addrs -> Block]
  /\ DOMAIN call = Tracers /\ \A t \in Tracers : DOMAIN call[t] = DOMAIN T!NoCall

\* What a task's call has in use.
Adding(t) == call[t].step \in {"add", "retrace"}
Removing(t) == call[t].step \in {"remove", "release"}
InCall(t) ==
  /\ call[t].step \in {"out", "add", "retrace", "remove", "release"}
  /\ Adding(t) => /\ call[t].new \in Addrs /\ call[t].size \in Nat /\ call[t].module \in T!Modules
                  /\ heap[call[t].new] = [used |-> t, size |-> call[t].size, traced |-> FALSE]
  /\ Removing(t) => call[t].old \in Addrs /\ heap[call[t].old].used = t
  /\ call[t].step = "retrace" =>
       /\ call[t].old \in Addrs
       /\ call[t].old = call[t].new \/ heap[call[t].old] = T!Nothing

\* A block between two states belongs to one task, and of the tasks that have
\* reallocated from an address at most one has yet to trace it.
InUse ==
  /\ \A t \in Tracers : InCall(t)
  /\ \A a \in Addrs :
       /\ heap[a].used = "free" => heap[a] = T!Nothing
       /\ \A t \in Tracers : heap[a].used = t =>
            (Adding(t) /\ call[t].new = a) \/ (Removing(t) /\ call[t].old = a)
  /\ \A s, t \in Tracers :
       call[s].step = "retrace" /\ call[t].step = "retrace" /\ call[s].old = call[t].old => s = t

\* The blocks that the table has to have, once and with their size.
Untraced(a) == \E t \in Tracers : call[t].step = "release" /\ call[t].old = a
Recorded(a) == heap[a].traced /\ ~Untraced(a)
Listed ==
  tracing = "on" =>
    /\ table \in Seq(Item) /\ usage \in Int
    /\ Once(table) /\ usage = T!Total(table)
    /\ \A a \in Addrs : ~T!Left(a) =>
         /\ (\E row \in Rows(table) : row.addr = a) <=> Recorded(a)
         /\ \A row \in Rows(table) : row.addr = a => row.size = heap[a].size

\* Once one of the four gaps has been met the invariant says nothing.
TraceInv == misuse = {} => TraceTypes /\ InUse /\ Listed

\* Induction over the naturals, on a set.
LEMMA NatSet ==
  ASSUME NEW S, 0 \in S, \A n \in Nat : n \in S => n + 1 \in S
  PROVE  Nat \subseteq S
<1> DEFINE E == Nat \ S
<1> SUFFICES ASSUME E # {} PROVE FALSE
  OBVIOUS
<1> DEFINE R == OpToRel(<, Nat)
<1>1. IsWellFoundedOn(R, Nat)
  BY NatLessThanWellFounded
<1>2. E \subseteq Nat
  OBVIOUS
<1> HIDE DEF E, R
<1>3. PICK x \in E : \A y \in E : ~(<<y, x>> \in R)
  BY <1>1, <1>2, WFMin
<1>4. \A y \in Nat : y < x => <<y, x>> \in R
  BY <1>2 DEF R, OpToRel
<1>5. x \in Nat /\ x \notin S /\ x # 0
  BY DEF E
<1>6. x - 1 \in Nat /\ x - 1 < x /\ (x - 1) + 1 = x
  BY <1>5
<1>7. x - 1 \in S
  BY <1>3, <1>4, <1>6 DEF E
<1> QED  BY <1>5, <1>6, <1>7

\* The sum over the table, as far as each entry.
IsSum(f, items) ==
  /\ f \in [0..Len(items) -> Int] /\ f[0] = 0
  /\ \A n \in 1..Len(items) : f[n] = f[n - 1] + items[n].size

\* Total is a sum as IsSum has it, and an integer at each entry.
LEMMA Sums ==
  ASSUME NEW items \in Seq(Item)
  PROVE  \E f : IsSum(f, items) /\ T!Total(items) = f[Len(items)]
<1> DEFINE L == Len(items)
           F(f, m) == f = [n \in 0..m |-> IF n = 0 THEN 0 ELSE f[n - 1] + items[n].size]
           S == {m \in Nat : \E f : F(f, m)}
<1>0. L \in Nat /\ \A n \in 1..L : items[n].size \in Nat
  <2>1. L \in Nat /\ \A n \in 1..L : items[n] \in Item
    BY LenProperties
  <2> QED  BY <2>1 DEF Item
<1> HIDE DEF L
<1>1. 0 \in S
  <2> DEFINE zero == [n \in 0..0 |-> 0]
  <2>1. F(zero, 0)
    OBVIOUS
  <2> QED  BY <2>1
<1>2. ASSUME NEW m \in Nat, m \in S
      PROVE  m + 1 \in S
  <2>1. PICK f : F(f, m)
    BY <1>2
  <2> DEFINE g == [n \in 0..m + 1 |-> IF n = m + 1 THEN f[m] + items[n].size ELSE f[n]]
  <2>2. ASSUME NEW n \in 0..m + 1
        PROVE  g[n] = IF n = 0 THEN 0 ELSE g[n - 1] + items[n].size
    <3>1. CASE n = m + 1
      <4>1. m \in 0..m + 1 /\ m # m + 1 /\ n - 1 = m /\ n # 0
        BY <3>1
      <4> QED  BY <3>1, <4>1
    <3>2. CASE n # m + 1
      <4>1. n \in 0..m /\ (n # 0 => n - 1 \in 0..m + 1 /\ n - 1 # m + 1)
        BY <3>2
      <4>2. f[n] = IF n = 0 THEN 0 ELSE f[n - 1] + items[n].size
        BY <2>1, <4>1
      <4> QED  BY <3>2, <4>1, <4>2
    <3> QED  BY <3>1, <3>2
  <2>3. g = [n \in 0..m + 1 |-> g[n]]
    OBVIOUS
  <2> HIDE DEF g
  <2>4. F(g, m + 1)
    BY <2>2, <2>3, Zenon
  <2>5. \E e : F(e, m + 1)
    BY <2>4, Zenon
  <2> HIDE DEF F
  <2> QED  BY <2>5
<1>3. \E f : F(f, L)
  <2>1. L \in S
    BY <1>0, <1>1, <1>2, NatSet
  <2> QED  BY <2>1
<1>4. ASSUME NEW f, F(f, L)
      PROVE  f \in [0..L -> Int]
  <2> DEFINE U == {m \in Nat : m <= L => f[m] \in Int}
  <2>1. 0 \in 0..L /\ f[0] = 0
    BY <1>0, <1>4
  <2>2. ASSUME NEW m \in Nat, m \in U, m + 1 <= L
        PROVE  f[m + 1] \in Int
    <3>1. m <= L /\ m + 1 \in 0..L /\ m + 1 \in 1..L /\ (m + 1) - 1 = m /\ m + 1 # 0
      BY <1>0, <2>2
    <3>2. f[m + 1] = f[m] + items[m + 1].size
      BY <1>4, <3>1
    <3>3. f[m] \in Int /\ items[m + 1].size \in Int
      BY <1>0, <2>2, <3>1
    <3> QED  BY <3>2, <3>3
  <2>3. 0 \in U /\ \A m \in Nat : m \in U => m + 1 \in U
    BY <2>1, <2>2
  <2>4. Nat \subseteq U
    BY <2>3, NatSet
  <2>5. \A n \in 0..L : n \in Nat /\ n <= L
    BY <1>0
  <2>6. \A n \in 0..L : f[n] \in Int
    BY <2>4, <2>5
  <2>7. f = [n \in 0..L |-> f[n]]
    BY <1>4
  <2> QED  BY <2>6, <2>7, Zenon
<1> DEFINE d == CHOOSE f : F(f, L)
<1>8. F(d, L)
  BY <1>3
<1>5. T!Total(items) = d[L]
  BY DEF T!Total, L
<1> HIDE DEF d
<1>6. d \in [0..L -> Int]
  BY <1>4, <1>8
<1>7. d[0] = 0 /\ \A n \in 1..L : d[n] = d[n - 1] + items[n].size
  <2>1. 0 \in 0..L /\ \A n \in 1..L : n \in 0..L /\ n # 0
    BY <1>0
  <2> QED  BY <1>8, <2>1
<1> QED  BY <1>5, <1>6, <1>7 DEF IsSum, L

\* What an entry of the table is.
LEMMA ItemFields ==
  ASSUME NEW items \in Seq(Item)
  PROVE  /\ Len(items) \in Nat /\ DOMAIN items = 1..Len(items)
         /\ \A n \in 1..Len(items) : items[n] \in Item /\ items[n].addr \in Addrs /\ items[n].size \in Nat
<1>1. Len(items) \in Nat /\ DOMAIN items = 1..Len(items) /\ \A n \in 1..Len(items) : items[n] \in Item
  BY LenProperties
<1> QED  BY <1>1 DEF Item

\* An entry at the end adds its size.
LEMMA TotalAppend ==
  ASSUME NEW items \in Seq(Item), NEW x \in Item
  PROVE  /\ Append(items, x) \in Seq(Item) /\ T!Total(items) \in Int
         /\ T!Total(Append(items, x)) = T!Total(items) + x.size
<1> DEFINE L == Len(items)
           c == Append(items, x)
<1>1. L \in Nat /\ \A n \in 1..L : items[n].size \in Nat
  BY ItemFields
<1>2. c \in Seq(Item) /\ Len(c) = L + 1 /\ c[L + 1] = x /\ \A n \in 1..L : c[n] = items[n]
  BY AppendProperties
<1> HIDE DEF c, L
<1>3. PICK f : IsSum(f, items) /\ T!Total(items) = f[L]
  BY Sums DEF L
<1>4. PICK g : IsSum(g, c) /\ T!Total(c) = g[L + 1]
  BY <1>2, Sums
<1>5. f \in [0..L -> Int] /\ f[0] = 0 /\ \A n \in 1..L : f[n] = f[n - 1] + items[n].size
  BY <1>3 DEF IsSum, L
<1>6. g[0] = 0 /\ \A n \in 1..L + 1 : g[n] = g[n - 1] + c[n].size
  BY <1>2, <1>4 DEF IsSum
<1> DEFINE U == {m \in Nat : m <= L => g[m] = f[m]}
<1>7. ASSUME NEW m \in Nat, m \in U, m + 1 <= L
      PROVE  g[m + 1] = f[m + 1]
  <2>1. m <= L /\ m + 1 \in 1..L /\ m + 1 \in 1..L + 1 /\ (m + 1) - 1 = m
    BY <1>1, <1>7
  <2>2. g[m + 1] = g[m] + c[m + 1].size /\ f[m + 1] = f[m] + items[m + 1].size
    BY <1>5, <1>6, <2>1
  <2>3. c[m + 1] = items[m + 1] /\ g[m] = f[m]
    BY <1>2, <1>7, <2>1
  <2> QED  BY <2>2, <2>3
<1>8. 0 \in U /\ \A m \in Nat : m \in U => m + 1 \in U
  BY <1>5, <1>6, <1>7
<1>9. Nat \subseteq U
  BY <1>8, NatSet
<1>10. g[L] = f[L]
  BY <1>1, <1>9
<1>11. L + 1 \in 1..L + 1 /\ (L + 1) - 1 = L /\ L \in 0..L
  BY <1>1
<1>12. g[L + 1] = g[L] + c[L + 1].size
  BY <1>6, <1>11
<1>13. T!Total(items) \in Int
  BY <1>3, <1>5, <1>11
<1> QED  BY <1>2, <1>3, <1>4, <1>10, <1>12, <1>13 DEF c

\* remove_trace_item closes the gap that its entry leaves.
LEMMA RemovedItems ==
  ASSUME NEW items \in Seq(Item), NEW i \in 1..Len(items)
  PROVE  /\ T!remove_trace_item(items, i) \in Seq(Item)
         /\ Len(T!remove_trace_item(items, i)) = Len(items) - 1
         /\ \A n \in 1..Len(items) - 1 :
              T!remove_trace_item(items, i)[n] = IF n = i THEN items[Len(items)] ELSE items[n]
<1> DEFINE L == Len(items)
           c == T!remove_trace_item(items, i)
<1>1. L \in Nat /\ L \in 1..L /\ L - 1 \in Nat /\ \A n \in 1..L : items[n] \in Item
  BY ItemFields
<1>2. c = [n \in 1..L - 1 |-> IF n = i THEN items[L] ELSE items[n]]
  BY DEF T!remove_trace_item
<1> HIDE DEF c, L
<1>3. \A n \in 1..L - 1 : n \in 1..L
  BY <1>1
<1>4. c \in [1..L - 1 -> Item]
  BY <1>1, <1>2, <1>3
<1>5. c \in Seq(Item) /\ Len(c) = L - 1
  <2>1. c \in Seq(Item)
    BY <1>1, <1>4
  <2>2. DOMAIN c = 1..L - 1
    BY <1>4
  <2> QED  BY <1>1, <2>1, <2>2, LenProperties
<1> QED  BY <1>2, <1>5 DEF c, L

\* remove_trace_item takes the size of its entry away.
LEMMA TotalRemoved ==
  ASSUME NEW items \in Seq(Item), NEW i \in 1..Len(items)
  PROVE  T!Total(T!remove_trace_item(items, i)) = T!Total(items) - items[i].size
<1> DEFINE L == Len(items)
           c == T!remove_trace_item(items, i)
           d == items[i].size - items[L].size
<1>1. /\ L \in Nat /\ L \in 1..L /\ i \in 1..L /\ L - 1 \in Nat
      /\ \A n \in 1..L : items[n].size \in Nat
  BY ItemFields
<1>2. c \in Seq(Item) /\ Len(c) = L - 1 /\ \A n \in 1..L - 1 : c[n] = IF n = i THEN items[L] ELSE items[n]
  BY RemovedItems
<1> HIDE DEF c, L
<1>3. PICK f : IsSum(f, items) /\ T!Total(items) = f[L]
  BY Sums DEF L
<1>4. PICK g : IsSum(g, c) /\ T!Total(c) = g[L - 1]
  BY <1>2, Sums
<1>5. f \in [0..L -> Int] /\ f[0] = 0 /\ \A n \in 1..L : f[n] = f[n - 1] + items[n].size
  BY <1>3 DEF IsSum, L
<1>6. g[0] = 0 /\ \A n \in 1..L - 1 : g[n] = g[n - 1] + c[n].size
  BY <1>2, <1>4 DEF IsSum
<1>7. d \in Int /\ items[i].size \in Int /\ items[L].size \in Int /\ d = items[i].size - items[L].size
  BY <1>1
<1> HIDE DEF d
<1> DEFINE U == {m \in Nat : m <= L - 1 => g[m] = f[m] - (IF m >= i THEN d ELSE 0)}
<1>8. ASSUME NEW m \in Nat, m \in U, m + 1 <= L - 1
      PROVE  g[m + 1] = f[m + 1] - (IF m + 1 >= i THEN d ELSE 0)
  <2>1. m <= L - 1 /\ m + 1 \in 1..L /\ m + 1 \in 1..L - 1 /\ (m + 1) - 1 = m /\ m \in 0..L
    BY <1>1, <1>8
  <2>2. g[m + 1] = g[m] + c[m + 1].size /\ f[m + 1] = f[m] + items[m + 1].size
    BY <1>5, <1>6, <2>1
  <2>3. g[m] = f[m] - (IF m >= i THEN d ELSE 0) /\ f[m] \in Int
    BY <1>5, <1>8, <2>1
  <2>4. CASE m + 1 = i
    <3>1. c[m + 1].size = items[i].size - d /\ ~(m >= i) /\ m + 1 >= i
      BY <1>1, <1>2, <1>7, <2>1, <2>4
    <3> QED  BY <1>7, <2>2, <2>3, <2>4, <3>1
  <2>5. CASE m + 1 # i
    <3>1. c[m + 1] = items[m + 1] /\ items[m + 1].size \in Int /\ (m >= i <=> m + 1 >= i)
      BY <1>1, <1>2, <2>1, <2>5
    <3> QED  BY <1>7, <2>2, <2>3, <3>1
  <2> QED  BY <2>4, <2>5
<1>9. 0 \in U /\ \A m \in Nat : m \in U => m + 1 \in U
  <2>1. ~(0 >= i)
    BY <1>1
  <2> QED  BY <1>5, <1>6, <1>8, <2>1
<1>10. Nat \subseteq U
  BY <1>9, NatSet
<1>11. g[L - 1] = f[L - 1] - (IF L - 1 >= i THEN d ELSE 0)
  BY <1>1, <1>10
<1>12. f[L] = f[L - 1] + items[L].size /\ f[L - 1] \in Int
  BY <1>1, <1>5
<1>13. g[L - 1] = f[L] - items[i].size
  <2>1. CASE i = L
    <3>1. ~(L - 1 >= i)
      BY <1>1, <2>1
    <3> QED  BY <1>7, <1>11, <1>12, <2>1, <3>1
  <2>2. CASE i # L
    <3>1. L - 1 >= i
      BY <1>1, <2>2
    <3> QED  BY <1>7, <1>11, <1>12, <3>1
  <2> QED  BY <2>1, <2>2
<1> QED  BY <1>3, <1>4, <1>13 DEF c

\* An entry of an address that the table does not have.
LEMMA OnceAppend ==
  ASSUME NEW items \in Seq(Item), NEW x \in Item
  PROVE  /\ Rows(Append(items, x)) = Rows(items) \cup {x}
         /\ Once(items) /\ (\A row \in Rows(items) : row.addr # x.addr) => Once(Append(items, x))
<1> DEFINE L == Len(items)
           c == Append(items, x)
<1>1. L \in Nat /\ DOMAIN items = 1..L
  BY ItemFields
<1>2. c \in Seq(Item) /\ Len(c) = L + 1 /\ c[L + 1] = x /\ \A n \in 1..L : c[n] = items[n]
  BY AppendProperties
<1>3. DOMAIN c = 1..L + 1
  BY <1>2, ItemFields
<1>4. \A n \in 1..L + 1 : n \in 1..L \/ n = L + 1
  BY <1>1
<1>5. L + 1 \in 1..L + 1 /\ \A n \in 1..L : n \in 1..L + 1
  BY <1>1
<1> HIDE DEF c, L
<1>6. Rows(c) = Rows(items) \cup {x}
  <2>1. \A row \in Rows(c) : row \in Rows(items) \cup {x}
    BY <1>1, <1>2, <1>3, <1>4 DEF Rows
  <2>2. \A row \in Rows(items) \cup {x} : row \in Rows(c)
    BY <1>1, <1>2, <1>3, <1>5 DEF Rows
  <2> QED  BY <2>1, <2>2
<1>7. Once(items) /\ (\A row \in Rows(items) : row.addr # x.addr) => Once(c)
  <2>1. SUFFICES ASSUME Once(items), \A n \in 1..L : items[n].addr # x.addr,
                        NEW i \in 1..L + 1, NEW j \in 1..L + 1, c[i].addr = c[j].addr
                 PROVE  i = j
    BY <1>1, <1>3 DEF Once, Rows
  <2> QED  BY <1>1, <1>2, <1>4, <2>1 DEF Once
<1> QED  BY <1>6, <1>7 DEF c

\* The table without one entry.
LEMMA OnceRemoved ==
  ASSUME NEW items \in Seq(Item), NEW i \in 1..Len(items), Once(items)
  PROVE  /\ Once(T!remove_trace_item(items, i))
         /\ Rows(T!remove_trace_item(items, i)) = {row \in Rows(items) : row.addr # items[i].addr}
<1> DEFINE L == Len(items)
           c == T!remove_trace_item(items, i)
<1>1. L \in Nat /\ DOMAIN items = 1..L /\ i \in 1..L /\ L \in 1..L /\ \A n \in 1..L - 1 : n \in 1..L /\ n # L
  BY ItemFields
<1>2. c \in Seq(Item) /\ Len(c) = L - 1 /\ \A n \in 1..L - 1 : c[n] = IF n = i THEN items[L] ELSE items[n]
  BY RemovedItems
<1>3. DOMAIN c = 1..L - 1
  BY <1>2, ItemFields
<1>5. \A m, n \in 1..L : items[m].addr = items[n].addr => m = n
  BY <1>1 DEF Once
<1> HIDE DEF c, L
<1>4. \A n \in 1..L : n # L => n \in 1..L - 1
  <2>1. L \in Nat
    BY <1>1
  <2> QED  BY <2>1
<1>6. Once(c)
  <2> SUFFICES ASSUME NEW m \in 1..L - 1, NEW n \in 1..L - 1, c[m].addr = c[n].addr
               PROVE  m = n
    BY <1>3 DEF Once
  <2> QED  BY <1>1, <1>2, <1>5
<1>7. Rows(c) = {row \in Rows(items) : row.addr # items[i].addr}
  <2>1. ASSUME NEW n \in 1..L - 1
        PROVE  c[n] \in Rows(items) /\ c[n].addr # items[i].addr
    <3>1. CASE n = i
      BY <1>1, <1>2, <1>5, <3>1 DEF Rows
    <3>2. CASE n # i
      BY <1>1, <1>2, <1>5, <3>2 DEF Rows
    <3> QED  BY <3>1, <3>2
  <2>2. ASSUME NEW n \in 1..L, items[n].addr # items[i].addr
        PROVE  \E m \in 1..L - 1 : c[m] = items[n]
    <3>1. n # i
      BY <2>2
    <3>2. CASE n = L
      BY <1>1, <1>2, <1>4, <3>1, <3>2
    <3>3. CASE n # L
      BY <1>2, <1>4, <3>1, <3>3
    <3> QED  BY <3>2, <3>3
  <2>3. \A row \in Rows(c) : row \in Rows(items) /\ row.addr # items[i].addr
    BY <1>3, <2>1 DEF Rows
  <2>4. \A row \in Rows(items) : row.addr # items[i].addr => row \in Rows(c)
    BY <1>1, <1>3, <2>2 DEF Rows
  <2> QED  BY <2>3, <2>4
<1> QED  BY <1>6, <1>7 DEF c

\* What is left to show of a step of task t for the blocks in use.
LEMMA UseKept ==
  ASSUME TraceTypes, InUse, NEW t \in Tracers,
         heap' \in [Addrs -> Block],
         DOMAIN call' = Tracers, DOMAIN call'[t] = DOMAIN T!NoCall,
         \A s \in Tracers \ {t} : call'[s] = call[s],
         InCall(t)',
         \A a \in Addrs : heap'[a] # heap[a] =>
           /\ heap[a].used \in {"free", "live", t}
           /\ heap[a].used = "free" => ~T!Left(a),
         \A a \in Addrs : heap'[a].used = "free" => heap'[a] = T!Nothing,
         \A a \in Addrs : heap'[a].used \in {"free", "live", t} \/ heap'[a] = heap[a],
         \A a \in Addrs : heap'[a].used = t =>
           (Adding(t)' /\ call'[t].new = a) \/ (Removing(t)' /\ call'[t].old = a),
         call'[t].step = "retrace" =>
           \A s \in Tracers \ {t} : call[s].step = "retrace" => call[s].old # call'[t].old
  PROVE  TraceTypes' /\ InUse'
<1>1. TraceTypes'
  BY DEF TraceTypes
<1>2. ASSUME NEW s \in Tracers \ {t}
      PROVE  InCall(s)' /\ (Adding(s)' <=> Adding(s)) /\ (Removing(s)' <=> Removing(s)) /\ call'[s] = call[s]
  <2>1. call'[s] = call[s] /\ InCall(s) /\ s \notin {"free", "live", t}
    BY TracersAssumption DEF InUse
  <2>2. (Adding(s)' <=> Adding(s)) /\ (Removing(s)' <=> Removing(s))
    BY <2>1 DEF Adding, Removing
  <2>3. Adding(s) => heap'[call[s].new] = heap[call[s].new]
    <3>1. Adding(s) => call[s].new \in Addrs /\ heap[call[s].new].used = s
      BY <2>1 DEF InCall
    <3> QED  BY <2>1, <3>1
  <2>4. Removing(s) => heap'[call[s].old] = heap[call[s].old]
    <3>1. Removing(s) => call[s].old \in Addrs /\ heap[call[s].old].used = s
      BY <2>1 DEF InCall
    <3> QED  BY <2>1, <3>1
  <2>5. call[s].step = "retrace" =>
          call[s].old = call[s].new \/ heap'[call[s].old] = T!Nothing
    <3>1. SUFFICES ASSUME call[s].step = "retrace", call[s].old # call[s].new
                   PROVE  heap'[call[s].old] = T!Nothing
      OBVIOUS
    <3>2. call[s].old \in Addrs /\ heap[call[s].old] = T!Nothing
      BY <2>1, <3>1 DEF InCall
    <3>3. T!Left(call[s].old)
      BY <3>1 DEF T!Left
    <3>4. heap[call[s].old].used = "free"
      BY <3>2 DEF T!Nothing
    <3> QED  BY <3>2, <3>3, <3>4
  <2> QED  BY <2>1, <2>2, <2>3, <2>4, <2>5 DEF InCall
<1>3. \A s \in Tracers : InCall(s)'
  BY <1>2
<1>4. ASSUME NEW a \in Addrs, NEW s \in Tracers, heap'[a].used = s
      PROVE  (Adding(s)' /\ call'[s].new = a) \/ (Removing(s)' /\ call'[s].old = a)
  <2>1. CASE s = t
    BY <1>4, <2>1
  <2>2. CASE s # t
    <3>1. heap'[a] = heap[a]
      BY <1>4, <2>2, TracersAssumption
    <3> QED  BY <1>2, <1>4, <2>2, <3>1 DEF InUse
  <2> QED  BY <2>1, <2>2
<1>5. ASSUME NEW r \in Tracers, NEW s \in Tracers,
             call'[r].step = "retrace", call'[s].step = "retrace", call'[r].old = call'[s].old
      PROVE  r = s
  BY <1>5 DEF InUse
<1>6. InUse'
  BY <1>3, <1>4, <1>5 DEF InUse
<1> QED  BY <1>1, <1>6

\* A step that leaves the table alone, and what is to be recorded.
LEMMA ListKept ==
  ASSUME Listed, UNCHANGED <<table, usage, tracing>>,
         \A a \in Addrs : ~T!Left(a)' =>
           /\ ~T!Left(a) /\ (Recorded(a)' <=> Recorded(a))
           /\ Recorded(a) => heap'[a].size = heap[a].size
  PROVE  Listed'
<1> SUFFICES ASSUME tracing = "on", NEW a \in Addrs, ~T!Left(a)'
             PROVE  /\ (\E row \in Rows(table) : row.addr = a) <=> Recorded(a)'
                    /\ \A row \in Rows(table) : row.addr = a => row.size = heap'[a].size
  BY DEF Listed
<1> QED  BY DEF Listed

\* Who holds a block has it alone.
LEMMA BlockAlone ==
  ASSUME InUse, NEW a \in Addrs
  PROVE  /\ heap[a].used = "live" => ~T!Left(a) /\ ~Untraced(a)
         /\ heap[a].used = "free" => ~Untraced(a) /\ heap[a] = T!Nothing /\ ~heap[a].traced
         /\ \A t \in Tracers : heap[a].used = t =>
              /\ T!Left(a) => call[t].step = "retrace" /\ call[t].old = a
              /\ Untraced(a) => call[t].step = "release" /\ call[t].old = a
<1>1. ASSUME NEW s \in Tracers
      PROVE  /\ call[s].step = "release" /\ call[s].old = a => heap[a].used = s
             /\ call[s].step = "retrace" /\ call[s].old = a => heap[a].used = s \/ heap[a].used = "free"
  <2>1. InCall(s)
    BY DEF InUse
  <2> QED  BY <2>1 DEF InCall, Adding, Removing, T!Nothing
<1>2. \A s \in Tracers : s # "live" /\ s # "free"
  BY TracersAssumption
<1>3. heap[a].used = "free" => heap[a] = T!Nothing /\ ~heap[a].traced
  BY DEF InUse, T!Nothing
<1>4. heap[a].used = "live" => ~T!Left(a) /\ ~Untraced(a)
  BY <1>1, <1>2 DEF T!Left, Untraced
<1>5. heap[a].used = "free" => ~Untraced(a)
  BY <1>1, <1>2 DEF Untraced
<1>6. \A t \in Tracers : heap[a].used = t =>
              /\ T!Left(a) => call[t].step = "retrace" /\ call[t].old = a
              /\ Untraced(a) => call[t].step = "release" /\ call[t].old = a
  BY <1>1, <1>2 DEF T!Left, Untraced
<1> QED  BY <1>3, <1>4, <1>5, <1>6

Counts(n) ==
  n.table \in Seq(Item) /\ n.usage \in Int /\ Once(n.table) /\ n.usage = T!Total(n.table)

\* get_trace_item finds the entry of an address, and it alone goes.
LEMMA RemovedDoes ==
  ASSUME NEW n, Counts(n), NEW a
  PROVE  /\ Counts(T!Removed(n, a))
         /\ Rows(T!Removed(n, a).table) = {row \in Rows(n.table) : row.addr # a}
<1>1. n.table \in Seq(Item) /\ n.usage \in Int /\ Once(n.table) /\ n.usage = T!Total(n.table)
  BY DEF Counts
<1>2. DOMAIN n.table = 1..Len(n.table) /\ \A i \in 1..Len(n.table) : n.table[i].size \in Nat
  BY <1>1, ItemFields
<1>3. CASE T!Places(n, a) = {}
  <2>1. T!Removed(n, a) = n
    BY <1>3 DEF T!Removed
  <2>2. \A row \in Rows(n.table) : row.addr # a
    BY <1>3 DEF T!Places, Rows
  <2> QED  BY <1>1, <2>1, <2>2, Zenon DEF Counts
<1>4. CASE T!Places(n, a) # {}
  <2>1. PICK i \in DOMAIN n.table : n.table[i].addr = a
    BY <1>4 DEF T!Places
  <2>2. T!Places(n, a) = {i}
    BY <1>1, <2>1 DEF T!Places, Once
  <2>3. T!First(n, a) = i
    <3>1. i <= i
      BY <1>2
    <3> QED  BY <2>2, <3>1 DEF T!First
  <2> DEFINE m == T!Removed(n, a)
  <2>4. m.table = T!remove_trace_item(n.table, i) /\ m.usage = n.usage - n.table[i].size
    BY <1>4, <2>3 DEF T!Removed
  <2> HIDE DEF m
  <2>5. T!Total(m.table) = T!Total(n.table) - n.table[i].size
    BY <1>1, <1>2, <2>4, TotalRemoved
  <2>6. m.table \in Seq(Item) /\ Once(m.table) /\ Rows(m.table) = {row \in Rows(n.table) : row.addr # a}
    BY <1>1, <1>2, <2>1, <2>4, RemovedItems, OnceRemoved
  <2>7. m.usage \in Int
    BY <1>1, <1>2, <2>4
  <2> QED  BY <1>1, <2>4, <2>5, <2>6, <2>7 DEF Counts, m
<1> QED  BY <1>3, <1>4

\* add_trace_item, while there is room.
LEMMA AddedDoes ==
  ASSUME NEW n, Counts(n), NEW a \in Addrs, NEW size \in Nat, NEW module \in T!Modules,
         T!Overflows(n) = {}, \A row \in Rows(n.table) : row.addr # a
  PROVE  /\ Counts(T!Added(n, a, size, module))
         /\ Rows(T!Added(n, a, size, module).table)
              = Rows(n.table) \cup {[addr |-> a, size |-> size, module |-> module]}
<1> DEFINE x == [addr |-> a, size |-> size, module |-> module]
           m == T!Added(n, a, size, module)
<1>1. n.table \in Seq(Item) /\ n.usage \in Int /\ Once(n.table) /\ n.usage = T!Total(n.table)
  BY DEF Counts
<1>2. m.table = Append(n.table, x) /\ m.usage = n.usage + size
  BY DEF T!Added, T!Overflows
<1>3. x \in Item /\ x.size = size /\ x.addr = a
  BY DEF Item
<1> HIDE DEF m, x
<1>4. /\ m.table \in Seq(Item) /\ T!Total(m.table) = T!Total(n.table) + size
      /\ Rows(m.table) = Rows(n.table) \cup {x} /\ Once(m.table)
  BY <1>1, <1>2, <1>3, TotalAppend, OnceAppend
<1>5. m.usage \in Int
  BY <1>1, <1>2
<1> QED  BY <1>1, <1>2, <1>4, <1>5 DEF Counts, m, x

\* The table as it stands is one.
LEMMA NowCounts ==
  ASSUME Listed, tracing = "on"
  PROVE  Counts(T!Now) /\ T!Now.table = table
BY DEF Listed, Counts, T!Now

-----------------------------------------------------------------------------
\* malloc: the allocator gives a free block, and the task has it until it is recorded.
LEMMA MallocInv ==
  ASSUME TraceTypes, InUse, Listed, misuse' = {},
         NEW t \in Tracers, NEW size \in T!Sizes, NEW module \in T!Modules, T!Malloc(t, size, module)
  PROVE  TraceTypes' /\ InUse' /\ Listed'
<1>1. PICK a \in T!FreeAddrs :
        /\ T!Takes(a) = {}
        /\ heap' = [heap EXCEPT ![a] = [used |-> IF tracing = "on" THEN t ELSE "live",
                                        size |-> size, traced |-> FALSE]]
        /\ call' = IF tracing = "on"
                     THEN [call EXCEPT ![t] = [step |-> "add", old |-> 0, new |-> a,
                                               size |-> size, module |-> module]]
                     ELSE call
  BY DEF T!Malloc
<1>2. call[t].step = "out" /\ UNCHANGED <<table, usage, tracing>>
  BY DEF T!Malloc
<1>3. /\ a \in Addrs /\ heap[a].used = "free" /\ ~T!Left(a)
      /\ heap \in [Addrs -> Block] /\ size \in Nat /\ DOMAIN call = Tracers /\ DOMAIN call[t] = DOMAIN T!NoCall
  BY <1>1 DEF T!FreeAddrs, T!Takes, TraceTypes, T!Sizes
<1> DEFINE b == [used |-> IF tracing = "on" THEN t ELSE "live", size |-> size, traced |-> FALSE]
<1>4. b \in Block /\ b.used \in {t, "live"} /\ b.used # "free" /\ b.traced = FALSE
      /\ (tracing = "on" => b = [used |-> t, size |-> size, traced |-> FALSE])
      /\ (tracing # "on" => b.used = "live") /\ t # "live"
  BY <1>3, TracersAssumption DEF Block
<1>5. heap' \in [Addrs -> Block] /\ heap'[a] = b /\ \A c \in Addrs : c # a => heap'[c] = heap[c]
  BY <1>1, <1>3, <1>4
<1> HIDE DEF b
<1>6. /\ DOMAIN call' = Tracers /\ \A s \in Tracers \ {t} : call'[s] = call[s]
      /\ tracing = "on" => call'[t] = [step |-> "add", old |-> 0, new |-> a, size |-> size, module |-> module]
      /\ tracing # "on" => call' = call
  BY <1>1, <1>3
<1>7. /\ DOMAIN call'[t] = DOMAIN T!NoCall /\ call'[t].step \in {"add", "out"}
      /\ call'[t].step = "add" <=> tracing = "on"
  BY <1>2, <1>3, <1>6 DEF T!NoCall
<1>8. InCall(t)'
  <2>1. CASE tracing = "on"
    <3>1. /\ call'[t].step = "add" /\ call'[t].new = a /\ call'[t].size = size
          /\ call'[t].module = module
      BY <1>6, <2>1
    <3>2. heap'[a] = [used |-> t, size |-> size, traced |-> FALSE]
      BY <1>4, <1>5, <2>1
    <3> QED  BY <1>3, <3>1, <3>2 DEF InCall, Adding, Removing
  <2>2. CASE tracing # "on"
    BY <1>2, <1>6, <2>2 DEF InCall, Adding, Removing
  <2> QED  BY <2>1, <2>2
<1>9. \A c \in Addrs : heap'[c].used = t =>
        (Adding(t)' /\ call'[t].new = c) \/ (Removing(t)' /\ call'[t].old = c)
  <2>1. \A c \in Addrs : heap[c].used # t
    BY <1>2 DEF InUse, Adding, Removing
  <2> QED  BY <1>4, <1>5, <1>6, <2>1 DEF Adding
<1>10. TraceTypes' /\ InUse'
  <2>1. \A c \in Addrs : heap'[c].used = "free" => heap'[c] = T!Nothing
    BY <1>4, <1>5 DEF InUse
  <2>2. \A c \in Addrs : heap'[c] # heap[c] => heap[c].used \in {"free", "live", t} /\ ~T!Left(c)
    BY <1>3, <1>5
  <2>3. \A c \in Addrs : heap'[c].used \in {"free", "live", t} \/ heap'[c] = heap[c]
    BY <1>4, <1>5
  <2> QED  BY <1>5, <1>6, <1>7, <1>8, <1>9, <2>1, <2>2, <2>3, UseKept
<1>11. Listed'
  <2>1. \A s \in Tracers : call'[s].step \in {"release", "retrace"} \/ call[s].step \in {"release", "retrace"} =>
          call'[s] = call[s]
    BY <1>2, <1>6, <1>7
  <2>2. \A c \in Addrs : (T!Left(c)' <=> T!Left(c)) /\ (Untraced(c)' <=> Untraced(c))
    BY <2>1 DEF T!Left, Untraced
  <2>3. ~heap[a].traced /\ ~heap'[a].traced
    BY <1>3, <1>4, <1>5, BlockAlone
  <2>4. \A c \in Addrs : (Recorded(c)' <=> Recorded(c)) /\ (Recorded(c) => heap'[c].size = heap[c].size)
    BY <1>5, <2>2, <2>3 DEF Recorded
  <2> QED  BY <1>2, <2>2, <2>4, ListKept
<1> QED  BY <1>10, <1>11

\* free: the entry goes first, the block after it.
LEMMA FreeInv ==
  ASSUME TraceTypes, InUse, Listed,
         NEW t \in Tracers, NEW a \in T!LiveAddrs, T!Free(t, a)
  PROVE  TraceTypes' /\ InUse' /\ Listed'
<1>1. /\ a \in Addrs /\ heap[a].used = "live" /\ heap \in [Addrs -> Block]
      /\ DOMAIN call = Tracers /\ DOMAIN call[t] = DOMAIN T!NoCall /\ heap[a] \in Block
  BY DEF T!LiveAddrs, TraceTypes
<1>2. call[t].step = "out" /\ UNCHANGED <<table, usage, tracing>>
  BY DEF T!Free
<1>3. \A c \in Addrs : heap[c].used # t
  BY <1>2 DEF InUse, Adding, Removing
<1>4. ~T!Left(a) /\ ~Untraced(a) /\ t # "live" /\ t # "free"
  BY <1>1, BlockAlone, TracersAssumption
<1>5. CASE tracing = "on"
  <2> DEFINE b == [heap[a] EXCEPT !.used = t]
             r == [T!NoCall EXCEPT !.step = "remove", !.old = a]
  <2>1. b \in Block /\ b.used = t /\ b.traced = heap[a].traced /\ b.size = heap[a].size
    BY <1>1 DEF Block
  <2>2. r.step = "remove" /\ r.old = a /\ DOMAIN r = DOMAIN T!NoCall
    BY DEF T!NoCall
  <2>3. heap' = [heap EXCEPT ![a] = b] /\ call' = [call EXCEPT ![t] = r]
    BY <1>5 DEF T!Free
  <2> HIDE DEF b, r
  <2>4. heap' \in [Addrs -> Block] /\ heap'[a] = b /\ \A c \in Addrs : c # a => heap'[c] = heap[c]
    BY <1>1, <2>1, <2>3
  <2>5. DOMAIN call' = Tracers /\ call'[t] = r /\ \A s \in Tracers \ {t} : call'[s] = call[s]
    BY <1>1, <2>3
  <2>6. InCall(t)'
    BY <1>1, <2>1, <2>2, <2>4, <2>5 DEF InCall, Adding, Removing
  <2>7. TraceTypes' /\ InUse'
    <3>1. \A c \in Addrs : heap'[c].used = "free" => heap'[c] = T!Nothing
      BY <1>4, <2>1, <2>4 DEF InUse
    <3>2. \A c \in Addrs : heap'[c] # heap[c] => heap[c].used \in {"free", "live", t} /\ ~T!Left(c)
      BY <1>1, <1>4, <2>4
    <3>3. \A c \in Addrs : heap'[c].used \in {"free", "live", t} \/ heap'[c] = heap[c]
      BY <2>1, <2>4
    <3>4. \A c \in Addrs : heap'[c].used = t =>
            (Adding(t)' /\ call'[t].new = c) \/ (Removing(t)' /\ call'[t].old = c)
      BY <1>3, <2>2, <2>4, <2>5 DEF Removing
    <3>5. call'[t].step # "retrace" /\ DOMAIN call'[t] = DOMAIN T!NoCall
      BY <2>2, <2>5
    <3> QED  BY <2>4, <2>5, <2>6, <3>1, <3>2, <3>3, <3>4, <3>5, UseKept
  <2>8. Listed'
    <3>1. \A s \in Tracers : call'[s].step \in {"release", "retrace"} \/ call[s].step \in {"release", "retrace"} =>
            call'[s] = call[s]
      BY <1>2, <2>2, <2>5
    <3>2. \A c \in Addrs : (T!Left(c)' <=> T!Left(c)) /\ (Untraced(c)' <=> Untraced(c))
      BY <3>1 DEF T!Left, Untraced
    <3>3. \A c \in Addrs : (Recorded(c)' <=> Recorded(c)) /\ (Recorded(c) => heap'[c].size = heap[c].size)
      BY <2>1, <2>4, <3>2 DEF Recorded
    <3> QED  BY <1>2, <3>2, <3>3, ListKept
  <2> QED  BY <2>7, <2>8
<1>6. CASE tracing # "on"
  <2>1. heap' = [heap EXCEPT ![a] = T!Nothing] /\ call' = call
    BY <1>6 DEF T!Free
  <2>2. T!Nothing \in Block /\ T!Nothing.used = "free"
    BY DEF T!Nothing, Block
  <2>3. heap' \in [Addrs -> Block] /\ heap'[a] = T!Nothing /\ \A c \in Addrs : c # a => heap'[c] = heap[c]
    BY <1>1, <2>1, <2>2
  <2>4. InCall(t)'
    BY <1>2, <2>1 DEF InCall, Adding, Removing
  <2>5. TraceTypes' /\ InUse'
    <3>1. \A c \in Addrs : heap'[c].used = "free" => heap'[c] = T!Nothing
      BY <2>3 DEF InUse
    <3>2. \A c \in Addrs : heap'[c] # heap[c] => heap[c].used \in {"free", "live", t} /\ ~T!Left(c)
      BY <1>1, <1>4, <2>3
    <3>3. \A c \in Addrs : heap'[c].used \in {"free", "live", t} \/ heap'[c] = heap[c]
      BY <2>2, <2>3
    <3>4. \A c \in Addrs : heap'[c].used # t
      BY <1>3, <1>4, <2>2, <2>3
    <3> QED  BY <1>1, <1>2, <2>1, <2>3, <2>4, <3>1, <3>2, <3>3, <3>4, UseKept
  <2>6. Listed'
    BY <1>2, <1>6 DEF Listed
  <2> QED  BY <2>5, <2>6
<1> QED  BY <1>5, <1>6

LEMMA ReleaseInv ==
  ASSUME TraceTypes, InUse, Listed, NEW t \in Tracers, T!Release(t)
  PROVE  TraceTypes' /\ InUse' /\ Listed'
<1>0. PICK a : a = call[t].old
  OBVIOUS
<1>1. /\ call[t].step = "release" /\ UNCHANGED <<table, usage, tracing>>
      /\ heap' = [heap EXCEPT ![a] = T!Nothing] /\ call' = [call EXCEPT ![t] = T!NoCall]
  BY <1>0 DEF T!Release
<1>2. a \in Addrs /\ heap[a].used = t /\ Removing(t) /\ ~Adding(t)
  BY <1>0, <1>1 DEF InUse, InCall, Removing, Adding
<1>3. heap \in [Addrs -> Block] /\ DOMAIN call = Tracers /\ T!Nothing \in Block /\ T!Nothing.used = "free"
      /\ T!Nothing.traced = FALSE /\ T!NoCall.step = "out" /\ t # "free"
  BY TracersAssumption DEF TraceTypes, T!Nothing, T!NoCall, Block
<1>4. heap' \in [Addrs -> Block] /\ heap'[a] = T!Nothing /\ \A c \in Addrs : c # a => heap'[c] = heap[c]
  BY <1>1, <1>2, <1>3
<1>5. DOMAIN call' = Tracers /\ call'[t] = T!NoCall /\ \A s \in Tracers \ {t} : call'[s] = call[s]
  BY <1>1, <1>3
<1>6. InCall(t)'
  BY <1>3, <1>5 DEF InCall, Adding, Removing
<1>7. TraceTypes' /\ InUse'
  <2>1. \A c \in Addrs : heap'[c].used = "free" => heap'[c] = T!Nothing
    BY <1>4 DEF InUse
  <2>2. \A c \in Addrs : heap'[c] # heap[c] => heap[c].used \in {"free", "live", t} /\ heap[c].used # "free"
    BY <1>2, <1>3, <1>4
  <2>3. \A c \in Addrs : heap'[c].used \in {"free", "live", t} \/ heap'[c] = heap[c]
    BY <1>3, <1>4
  <2>4. \A c \in Addrs : heap'[c].used # t
    <3>1. \A c \in Addrs : heap[c].used = t => c = a
      BY <1>0, <1>2 DEF InUse
    <3> QED  BY <1>3, <1>4, <3>1
  <2>5. DOMAIN call'[t] = DOMAIN T!NoCall /\ call'[t].step # "retrace"
    BY <1>3, <1>5
  <2> QED  BY <1>4, <1>5, <1>6, <2>1, <2>2, <2>3, <2>4, <2>5, UseKept
<1>8. Listed'
  <2>1. \A c \in Addrs : T!Left(c)' <=> T!Left(c)
    BY <1>1, <1>3, <1>5 DEF T!Left
  <2>2. \A c \in Addrs : c # a => (Untraced(c)' <=> Untraced(c))
    BY <1>0, <1>1, <1>3, <1>5 DEF Untraced
  <2>3. Untraced(a)
    BY <1>0, <1>1 DEF Untraced
  <2>4. \A c \in Addrs : (Recorded(c)' <=> Recorded(c)) /\ (Recorded(c) => heap'[c].size = heap[c].size)
    <3>1. ~Recorded(a) /\ ~Recorded(a)'
      BY <1>3, <1>4, <2>3 DEF Recorded
    <3>2. \A c \in Addrs : c # a => (Recorded(c)' <=> Recorded(c)) /\ heap'[c].size = heap[c].size
      BY <1>4, <2>2 DEF Recorded
    <3> QED  BY <3>1, <3>2
  <2> QED  BY <1>1, <2>1, <2>4, ListKept
<1> QED  BY <1>7, <1>8

\* The second step of malloc, and of module_realloc.
LEMMA AddTraceInv ==
  ASSUME TraceTypes, InUse, Listed, misuse' = {}, NEW t \in Tracers, T!add_trace(t)
  PROVE  TraceTypes' /\ InUse' /\ Listed'
<1>0. PICK a, z, m : a = call[t].new /\ z = call[t].size /\ m = call[t].module
  OBVIOUS
<1>1. /\ call[t].step = "add" /\ ~T!Gone /\ UNCHANGED tracing
      /\ T!Put(T!Added(T!Now, a, z, m)) /\ T!Overflows(T!Now) = {}
      /\ heap' = [heap EXCEPT ![a] = [used |-> "live", size |-> @.size, traced |-> TRUE]]
      /\ call' = [call EXCEPT ![t] = T!NoCall]
  BY <1>0 DEF T!add_trace, T!Falls
<1>2. /\ a \in Addrs /\ z \in Nat /\ m \in T!Modules /\ heap[a] = [used |-> t, size |-> z, traced |-> FALSE]
      /\ Adding(t) /\ ~Removing(t)
  BY <1>0, <1>1 DEF InUse, InCall, Adding, Removing
<1>3. heap \in [Addrs -> Block] /\ DOMAIN call = Tracers /\ T!NoCall.step = "out" /\ t # "free" /\ t # "live"
  BY TracersAssumption DEF TraceTypes, T!NoCall
<1> DEFINE b == [used |-> "live", size |-> z, traced |-> TRUE]
<1>4. b \in Block /\ b.used = "live" /\ b.traced = TRUE /\ b.size = z
  BY <1>2 DEF Block
<1>5. heap' = [heap EXCEPT ![a] = b]
  <2>1. [used |-> "live", size |-> heap[a].size, traced |-> TRUE] = b
    BY <1>2
  <2> QED  BY <1>1, <1>2, <1>3, <2>1
<1> HIDE DEF b
<1>6. heap' \in [Addrs -> Block] /\ heap'[a] = b /\ \A c \in Addrs : c # a => heap'[c] = heap[c]
  BY <1>2, <1>3, <1>4, <1>5
<1>7. DOMAIN call' = Tracers /\ call'[t] = T!NoCall /\ \A s \in Tracers \ {t} : call'[s] = call[s]
  BY <1>1, <1>3
<1>8. \A c \in Addrs : heap[c].used = t => c = a
  BY <1>0, <1>2 DEF InUse
<1>9. TraceTypes' /\ InUse'
  <2>1. InCall(t)'
    BY <1>3, <1>7 DEF InCall, Adding, Removing
  <2>2. \A c \in Addrs : heap'[c].used = "free" => heap'[c] = T!Nothing
    BY <1>4, <1>6 DEF InUse
  <2>3. \A c \in Addrs : heap'[c] # heap[c] => heap[c].used \in {"free", "live", t} /\ heap[c].used # "free"
    BY <1>2, <1>3, <1>6
  <2>4. \A c \in Addrs : heap'[c].used \in {"free", "live", t} \/ heap'[c] = heap[c]
    BY <1>4, <1>6
  <2>5. \A c \in Addrs : heap'[c].used # t
    BY <1>3, <1>4, <1>6, <1>8
  <2>6. DOMAIN call'[t] = DOMAIN T!NoCall /\ call'[t].step # "retrace"
    BY <1>3, <1>7
  <2> QED  BY <1>6, <1>7, <2>1, <2>2, <2>3, <2>4, <2>5, <2>6, UseKept
<1>10. ASSUME tracing = "on"
       PROVE  Listed'
  <2>1. Counts(T!Now) /\ T!Now.table = table
    BY <1>10, NowCounts
  <2>2. ~T!Left(a) /\ ~Untraced(a) /\ ~heap[a].traced
    BY <1>1, <1>2, BlockAlone
  <2>3. \A row \in Rows(table) : row.addr # a
    BY <1>2, <1>10, <2>2 DEF Listed, Recorded
  <2> DEFINE n == T!Added(T!Now, a, z, m)
  <2>4. Counts(n) /\ Rows(n.table) = Rows(table) \cup {[addr |-> a, size |-> z, module |-> m]}
    BY <1>1, <1>2, <2>1, <2>3, AddedDoes
  <2>5. table' = n.table /\ usage' = n.usage
    BY <1>1 DEF T!Put
  <2> HIDE DEF n
  <2>6. \A c \in Addrs : (T!Left(c)' <=> T!Left(c)) /\ (Untraced(c)' <=> Untraced(c))
    BY <1>1, <1>3, <1>7 DEF T!Left, Untraced
  <2>7. Rows(table') = Rows(table) \cup {[addr |-> a, size |-> z, module |-> m]}
    BY <2>4, <2>5
  <2>8. Recorded(a)'
    BY <1>4, <1>6, <2>2, <2>6, <1>2 DEF Recorded
  <2>9. \A c \in Addrs : c # a => (Recorded(c)' <=> Recorded(c)) /\ heap'[c] = heap[c]
    BY <1>6, <2>6 DEF Recorded
  <2>10. \A c \in Addrs : ~T!Left(c)' =>
           /\ (\E row \in Rows(table') : row.addr = c) <=> Recorded(c)'
           /\ \A row \in Rows(table') : row.addr = c => row.size = heap'[c].size
    <3> SUFFICES ASSUME NEW c \in Addrs, ~T!Left(c)
                 PROVE  /\ (\E row \in Rows(table') : row.addr = c) <=> Recorded(c)'
                        /\ \A row \in Rows(table') : row.addr = c => row.size = heap'[c].size
      BY <2>6
    <3>1. CASE c = a
      <4> DEFINE x == [addr |-> a, size |-> z, module |-> m]
      <4>1. x.addr = a /\ x.size = z /\ x \in Rows(table')
        BY <2>7
      <4>2. \A row \in Rows(table') : row.addr = a => row = x
        BY <2>3, <2>7
      <4> HIDE DEF x
      <4> QED  BY <1>4, <1>6, <2>8, <3>1, <4>1, <4>2
    <3>2. CASE c # a
      <4>1. /\ (\E row \in Rows(table) : row.addr = c) <=> Recorded(c)
            /\ \A row \in Rows(table) : row.addr = c => row.size = heap[c].size
        BY <1>10 DEF Listed
      <4> QED  BY <2>7, <2>9, <3>2, <4>1
    <3> QED  BY <3>1, <3>2
  <2> QED  BY <2>4, <2>5, <2>10 DEF Listed, Counts
<1> QED  BY <1>1, <1>9, <1>10 DEF Listed

LEMMA RemoveInv ==
  ASSUME TraceTypes, InUse, Listed, misuse' = {}, NEW t \in Tracers, T!remove_trace(t)
  PROVE  TraceTypes' /\ InUse' /\ Listed'
<1>0. PICK a : a = call[t].old
  OBVIOUS
<1>1. /\ call[t].step = "remove" /\ UNCHANGED <<heap, tracing>>
      /\ T!Put(T!Removed(T!Now, a)) /\ call' = [call EXCEPT ![t].step = "release"]
  BY <1>0 DEF T!remove_trace, T!Falls, T!To
<1>2. a \in Addrs /\ heap[a].used = t /\ Removing(t) /\ ~Adding(t)
  BY <1>0, <1>1 DEF InUse, InCall, Adding, Removing
<1>3. heap \in [Addrs -> Block] /\ DOMAIN call = Tracers /\ DOMAIN call[t] = DOMAIN T!NoCall
  BY DEF TraceTypes
<1>4. /\ DOMAIN call' = Tracers /\ \A s \in Tracers \ {t} : call'[s] = call[s]
      /\ DOMAIN call'[t] = DOMAIN T!NoCall /\ call'[t].step = "release" /\ call'[t].old = a
  BY <1>0, <1>1, <1>3 DEF T!NoCall
<1>5. TraceTypes' /\ InUse'
  <2>1. InCall(t)'
    BY <1>1, <1>2, <1>4 DEF InCall, Adding, Removing
  <2>2. \A c \in Addrs : heap'[c].used = t =>
          (Adding(t)' /\ call'[t].new = c) \/ (Removing(t)' /\ call'[t].old = c)
    <3>1. \A c \in Addrs : heap[c].used = t => c = a
      BY <1>0, <1>2 DEF InUse
    <3> QED  BY <1>1, <1>4, <3>1 DEF Removing
  <2>3. \A c \in Addrs : heap'[c].used = "free" => heap'[c] = T!Nothing
    BY <1>1 DEF InUse
  <2>4. call'[t].step # "retrace" /\ heap' = heap
    BY <1>1, <1>4
  <2> QED  BY <1>3, <1>4, <2>1, <2>2, <2>3, <2>4, UseKept
<1>6. ASSUME tracing = "on"
      PROVE  Listed'
  <2> DEFINE n == T!Removed(T!Now, a)
  <2>1. Counts(T!Now) /\ T!Now.table = table
    BY <1>6, NowCounts
  <2>2. Counts(n) /\ Rows(n.table) = {row \in Rows(table) : row.addr # a}
    BY <2>1, RemovedDoes
  <2>3. table' = n.table /\ usage' = n.usage
    BY <1>1 DEF T!Put
  <2> HIDE DEF n
  <2>4. Rows(table') = {row \in Rows(table) : row.addr # a}
    BY <2>2, <2>3
  <2>5. \A c \in Addrs : T!Left(c)' <=> T!Left(c)
    BY <1>1, <1>3, <1>4 DEF T!Left
  <2>6. \A c \in Addrs : c # a => (Recorded(c)' <=> Recorded(c))
    BY <1>0, <1>1, <1>3, <1>4 DEF Recorded, Untraced
  <2>7. ~Recorded(a)'
    BY <1>4 DEF Recorded, Untraced
  <2>8. \A c \in Addrs : ~T!Left(c)' =>
           /\ (\E row \in Rows(table') : row.addr = c) <=> Recorded(c)'
           /\ \A row \in Rows(table') : row.addr = c => row.size = heap'[c].size
    <3> SUFFICES ASSUME NEW c \in Addrs, ~T!Left(c)
                 PROVE  /\ (\E row \in Rows(table') : row.addr = c) <=> Recorded(c)'
                        /\ \A row \in Rows(table') : row.addr = c => row.size = heap'[c].size
      BY <2>5
    <3>1. CASE c = a
      BY <2>4, <2>7, <3>1
    <3>2. CASE c # a
      <4>1. /\ (\E row \in Rows(table) : row.addr = c) <=> Recorded(c)
            /\ \A row \in Rows(table) : row.addr = c => row.size = heap[c].size
        BY <1>6 DEF Listed
      <4> QED  BY <1>1, <2>4, <2>6, <3>2, <4>1
    <3> QED  BY <3>1, <3>2
  <2> QED  BY <2>2, <2>3, <2>8 DEF Listed, Counts
<1> QED  BY <1>1, <1>5, <1>6 DEF Listed

\* realloc: the allocator moves the block before the table knows of it.
LEMMA ReallocInv ==
  ASSUME TraceTypes, InUse, Listed, misuse' = {},
         NEW t \in Tracers, NEW a \in T!LiveAddrs, NEW size \in T!Sizes, T!Realloc(t, a, size)
  PROVE  TraceTypes' /\ InUse' /\ Listed'
<1>1. PICK b \in T!FreeAddrs \cup {a} :
        /\ heap' = T!Moved(a, b, size, t, FALSE) /\ T!Takes(b) = {}
        /\ call' = [call EXCEPT ![t] = [step |-> "retrace", old |-> a, new |-> b, size |-> size,
                                        module |-> "none"]]
  BY DEF T!Realloc
<1>2. /\ call[t].step = "out" /\ tracing = "on" /\ UNCHANGED <<table, usage, tracing>>
  BY DEF T!Realloc
<1>3. /\ a \in Addrs /\ heap[a].used = "live" /\ b \in Addrs /\ ~T!Left(b) /\ size \in Nat
      /\ (b # a => heap[b].used = "free")
      /\ heap \in [Addrs -> Block] /\ DOMAIN call = Tracers /\ "none" \in T!Modules
  BY <1>1 DEF T!LiveAddrs, T!FreeAddrs, T!Takes, T!Sizes, T!Modules, TraceTypes
<1> DEFINE d == [used |-> t, size |-> size, traced |-> FALSE]
           r == [step |-> "retrace", old |-> a, new |-> b, size |-> size, module |-> "none"]
<1>4. d \in Block /\ d.used = t /\ d.traced = FALSE /\ T!Nothing \in Block
      /\ T!Nothing.used = "free" /\ T!Nothing.traced = FALSE /\ t # "free" /\ t # "live"
  BY <1>3, TracersAssumption DEF Block, T!Nothing
<1>5. /\ r.step = "retrace" /\ r.old = a /\ r.new = b /\ r.size = size /\ r.module = "none"
      /\ DOMAIN r = DOMAIN T!NoCall
  BY DEF T!NoCall
<1>6. heap' \in [Addrs -> Block] /\ heap'[b] = d /\ (a # b => heap'[a] = T!Nothing)
      /\ \A c \in Addrs : c # a /\ c # b => heap'[c] = heap[c]
  BY <1>1, <1>3, <1>4 DEF T!Moved
<1>7. DOMAIN call' = Tracers /\ call'[t] = r /\ \A s \in Tracers \ {t} : call'[s] = call[s]
  BY <1>1, <1>3
<1>8. heap'[b] = [used |-> t, size |-> size, traced |-> FALSE]
  BY <1>6
<1> HIDE DEF d, r
<1>9. ~T!Left(a) /\ ~Untraced(a) /\ (b # a => ~Untraced(b) /\ ~heap[b].traced)
  BY <1>3, BlockAlone
<1>10. TraceTypes' /\ InUse'
  <2>1. InCall(t)'
    BY <1>3, <1>5, <1>6, <1>7, <1>8 DEF InCall, Adding, Removing
  <2>2. \A c \in Addrs : heap'[c].used = "free" => heap'[c] = T!Nothing
    BY <1>4, <1>6 DEF InUse
  <2>3. \A c \in Addrs : heap'[c] # heap[c] => heap[c].used \in {"free", "live", t} /\ ~T!Left(c)
    BY <1>3, <1>6, <1>9
  <2>4. \A c \in Addrs : heap'[c].used \in {"free", "live", t} \/ heap'[c] = heap[c]
    BY <1>4, <1>6
  <2>5. \A c \in Addrs : heap'[c].used = t =>
          (Adding(t)' /\ call'[t].new = c) \/ (Removing(t)' /\ call'[t].old = c)
    <3>1. \A c \in Addrs : heap[c].used # t
      BY <1>2 DEF InUse, Adding, Removing
    <3> QED  BY <1>4, <1>5, <1>6, <1>7, <3>1 DEF Adding
  <2>6. \A s \in Tracers \ {t} : call[s].step = "retrace" => call[s].old # call'[t].old
    BY <1>5, <1>7, <1>9 DEF T!Left
  <2> QED  BY <1>5, <1>6, <1>7, <2>1, <2>2, <2>3, <2>4, <2>5, <2>6, UseKept
<1>11. Listed'
  <2>1. T!Left(a)' /\ \A c \in Addrs : c # a => (T!Left(c)' <=> T!Left(c))
    BY <1>2, <1>5, <1>7 DEF T!Left
  <2>2. \A c \in Addrs : Untraced(c)' <=> Untraced(c)
    BY <1>2, <1>5, <1>7 DEF Untraced
  <2>3. \A c \in Addrs : c # a => (Recorded(c)' <=> Recorded(c)) /\ (Recorded(c) => heap'[c].size = heap[c].size)
    <3> SUFFICES ASSUME NEW c \in Addrs, c # a
                 PROVE  (Recorded(c)' <=> Recorded(c)) /\ (Recorded(c) => heap'[c].size = heap[c].size)
      OBVIOUS
    <3>1. CASE c = b
      BY <1>4, <1>6, <1>9, <3>1 DEF Recorded
    <3>2. CASE c # b
      BY <1>6, <2>2, <3>2 DEF Recorded
    <3> QED  BY <3>1, <3>2
  <2> QED  BY <1>2, <2>1, <2>3, ListKept
<1> QED  BY <1>10, <1>11

\* The second step of realloc: out with the old entry, in with the new one.
LEMMA RetraceInv ==
  ASSUME TraceTypes, InUse, Listed, misuse' = {}, NEW t \in Tracers, T!Retrace(t)
  PROVE  TraceTypes' /\ InUse' /\ Listed'
<1>0. PICK a, b, z : a = call[t].old /\ b = call[t].new /\ z = call[t].size
  OBVIOUS
<1> DEFINE n == T!Removed(T!Now, a)
           n2 == T!Added(n, b, z, "none")
<1>1. /\ call[t].step = "retrace" /\ UNCHANGED tracing
      /\ T!Put(n2) /\ T!Overflows(n) = {}
      /\ heap' = [heap EXCEPT ![b] = [used |-> "live", size |-> @.size, traced |-> TRUE]]
      /\ call' = [call EXCEPT ![t] = T!NoCall]
  BY <1>0 DEF T!Retrace, T!Falls
<1> HIDE DEF n, n2
<1>2. /\ a \in Addrs /\ b \in Addrs /\ z \in Nat /\ heap[b] = [used |-> t, size |-> z, traced |-> FALSE]
      /\ (a # b => heap[a] = T!Nothing)
      /\ Adding(t) /\ ~Removing(t)
  BY <1>0, <1>1 DEF InUse, InCall, Adding, Removing
<1>3. /\ heap \in [Addrs -> Block] /\ DOMAIN call = Tracers /\ T!NoCall.step = "out" /\ t # "free" /\ t # "live"
      /\ "none" \in T!Modules /\ T!Nothing.traced = FALSE
  BY TracersAssumption DEF TraceTypes, T!NoCall, T!Modules, T!Nothing
<1> DEFINE d == [used |-> "live", size |-> z, traced |-> TRUE]
<1>4. d \in Block /\ d.used = "live" /\ d.traced = TRUE /\ d.size = z
  BY <1>2 DEF Block
<1>5. heap' = [heap EXCEPT ![b] = d]
  <2>1. [used |-> "live", size |-> heap[b].size, traced |-> TRUE] = d
    BY <1>2
  <2> QED  BY <1>1, <1>2, <1>3, <2>1
<1> HIDE DEF d
<1>6. heap' \in [Addrs -> Block] /\ heap'[b] = d /\ \A c \in Addrs : c # b => heap'[c] = heap[c]
  BY <1>2, <1>3, <1>4, <1>5
<1>7. DOMAIN call' = Tracers /\ call'[t] = T!NoCall /\ \A s \in Tracers \ {t} : call'[s] = call[s]
  BY <1>1, <1>3
<1>8. \A c \in Addrs : heap[c].used = t => c = b
  BY <1>0, <1>2 DEF InUse
<1>9. TraceTypes' /\ InUse'
  <2>1. InCall(t)'
    BY <1>3, <1>7 DEF InCall, Adding, Removing
  <2>2. \A c \in Addrs : heap'[c].used = "free" => heap'[c] = T!Nothing
    BY <1>4, <1>6 DEF InUse
  <2>3. \A c \in Addrs : heap'[c] # heap[c] => heap[c].used \in {"free", "live", t} /\ heap[c].used # "free"
    BY <1>2, <1>3, <1>6
  <2>4. \A c \in Addrs : heap'[c].used \in {"free", "live", t} \/ heap'[c] = heap[c]
    BY <1>4, <1>6
  <2>5. \A c \in Addrs : heap'[c].used # t
    BY <1>3, <1>4, <1>6, <1>8
  <2>6. DOMAIN call'[t] = DOMAIN T!NoCall /\ call'[t].step # "retrace"
    BY <1>3, <1>7
  <2> QED  BY <1>6, <1>7, <2>1, <2>2, <2>3, <2>4, <2>5, <2>6, UseKept
<1>10. ASSUME tracing = "on"
       PROVE  Listed'
  <2> DEFINE x == [addr |-> b, size |-> z, module |-> "none"]
  <2>1. Counts(T!Now) /\ T!Now.table = table
    BY <1>10, NowCounts
  <2>2. Counts(n) /\ Rows(n.table) = {row \in Rows(table) : row.addr # a}
    BY <2>1, RemovedDoes DEF n
  <2>3. b # a => ~T!Left(b)
    BY <1>0, <1>2, BlockAlone
  <2>4. ~Untraced(b) /\ ~heap[b].traced
    BY <1>1, <1>2, BlockAlone
  <2>5. \A row \in Rows(n.table) : row.addr # b
    <3>1. b # a => \A row \in Rows(table) : row.addr # b
      BY <1>2, <1>10, <2>3, <2>4 DEF Listed, Recorded
    <3> QED  BY <2>2, <3>1
  <2>6. Counts(n2) /\ Rows(n2.table) = Rows(n.table) \cup {x}
    BY <1>1, <1>2, <1>3, <2>2, <2>5, AddedDoes DEF n2
  <2>7. table' = n2.table /\ usage' = n2.usage
    BY <1>1 DEF T!Put
  <2>8. x.addr = b /\ x.size = z
    OBVIOUS
  <2> HIDE DEF x
  <2>9. Rows(table') = {row \in Rows(table) : row.addr # a} \cup {x}
    BY <2>2, <2>6, <2>7
  <2>10. \A c \in Addrs : Untraced(c)' <=> Untraced(c)
    BY <1>1, <1>3, <1>7 DEF Untraced
  <2>11. \A c \in Addrs : c # a => (T!Left(c)' <=> T!Left(c))
    BY <1>0, <1>3, <1>7 DEF T!Left
  <2>12. Recorded(b)'
    BY <1>2, <1>4, <1>6, <2>4, <2>10 DEF Recorded
  <2>13. \A c \in Addrs : c # b => (Recorded(c)' <=> Recorded(c)) /\ heap'[c] = heap[c]
    BY <1>6, <2>10 DEF Recorded
  <2>14. a # b => ~Recorded(a)
    BY <1>2, <1>3 DEF Recorded
  <2>15. \A c \in Addrs : ~T!Left(c)' =>
           /\ (\E row \in Rows(table') : row.addr = c) <=> Recorded(c)'
           /\ \A row \in Rows(table') : row.addr = c => row.size = heap'[c].size
    <3> SUFFICES ASSUME NEW c \in Addrs, ~T!Left(c)'
                 PROVE  /\ (\E row \in Rows(table') : row.addr = c) <=> Recorded(c)'
                        /\ \A row \in Rows(table') : row.addr = c => row.size = heap'[c].size
      OBVIOUS
    <3>1. CASE c = b
      <4>1. \A row \in Rows(table') : row.addr = b => row = x
        BY <2>2, <2>5, <2>9
      <4> QED  BY <1>4, <1>6, <2>8, <2>9, <2>12, <3>1, <4>1
    <3>2. CASE c # b /\ c = a
      <4>1. \A row \in Rows(table') : row.addr # c
        BY <2>8, <2>9, <3>2
      <4> QED  BY <2>13, <2>14, <3>2, <4>1
    <3>3. CASE c # b /\ c # a
      <4>1. /\ (\E row \in Rows(table) : row.addr = c) <=> Recorded(c)
            /\ \A row \in Rows(table) : row.addr = c => row.size = heap[c].size
        BY <1>10, <2>11, <3>3 DEF Listed
      <4> QED  BY <2>8, <2>9, <2>13, <3>3, <4>1
    <3> QED  BY <3>1, <3>2, <3>3
  <2> QED  BY <2>6, <2>7, <2>15 DEF Listed, Counts
<1> QED  BY <1>1, <1>9, <1>10 DEF Listed

LEMMA ModuleReallocInv ==
  ASSUME TraceTypes, InUse, Listed, misuse' = {}, NEW t \in Tracers, NEW a \in T!LiveAddrs,
         NEW z \in T!Sizes, NEW module \in T!Modules, T!module_realloc(t, a, z, module)
  PROVE  TraceTypes' /\ InUse' /\ Listed'
<1> DEFINE n == T!Removed(T!Now, a)
<1>1. PICK b \in T!FreeAddrs \cup {a} :
        /\ heap' = T!Moved(a, b, z, "live", TRUE) /\ T!Takes(b) = {} /\ T!Overflows(n) = {}
        /\ T!Put(T!Added(n, b, z, module))
  BY DEF T!module_realloc
<1>2. /\ call[t].step = "out" /\ tracing = "on" /\ UNCHANGED <<tracing, call>>
  BY DEF T!module_realloc
<1> DEFINE n2 == T!Added(n, b, z, module)
           d == [used |-> "live", size |-> z, traced |-> TRUE]
           x == [addr |-> b, size |-> z, module |-> module]
<1>3. /\ a \in Addrs /\ heap[a].used = "live" /\ b \in Addrs /\ ~T!Left(b) /\ z \in Nat
      /\ (b # a => heap[b].used = "free")
      /\ heap \in [Addrs -> Block] /\ DOMAIN call = Tracers /\ \A s \in Tracers : DOMAIN call[s] = DOMAIN T!NoCall
  BY <1>1 DEF T!LiveAddrs, T!FreeAddrs, T!Takes, T!Sizes, TraceTypes
<1>4. d \in Block /\ d.used = "live" /\ d.traced = TRUE /\ d.size = z /\ T!Nothing \in Block
      /\ T!Nothing.used = "free" /\ T!Nothing.traced = FALSE /\ t # "free" /\ t # "live"
  BY <1>3, TracersAssumption DEF Block, T!Nothing
<1>5. heap' \in [Addrs -> Block] /\ heap'[b] = d /\ (a # b => heap'[a] = T!Nothing)
      /\ \A c \in Addrs : c # a /\ c # b => heap'[c] = heap[c]
  BY <1>1, <1>3, <1>4 DEF T!Moved
<1>6. x.addr = b /\ x.size = z
  OBVIOUS
<1> HIDE DEF n, n2, d, x
<1>7. /\ ~T!Left(a) /\ ~Untraced(a) /\ ~Untraced(b) /\ (b # a => ~heap[b].traced)
  BY <1>3, BlockAlone
<1>8. TraceTypes' /\ InUse'
  <2>1. InCall(t)'
    BY <1>2 DEF InCall, Adding, Removing
  <2>2. \A c \in Addrs : heap'[c].used = "free" => heap'[c] = T!Nothing
    BY <1>4, <1>5 DEF InUse
  <2>3. \A c \in Addrs : heap'[c] # heap[c] => heap[c].used \in {"free", "live", t} /\ ~T!Left(c)
    BY <1>3, <1>5, <1>7
  <2>4. \A c \in Addrs : heap'[c].used \in {"free", "live", t} \/ heap'[c] = heap[c]
    BY <1>4, <1>5
  <2>5. \A c \in Addrs : heap'[c].used # t
    <3>1. \A c \in Addrs : heap[c].used # t
      BY <1>2 DEF InUse, Adding, Removing
    <3> QED  BY <1>4, <1>5, <3>1
  <2> QED  BY <1>2, <1>3, <1>5, <2>1, <2>2, <2>3, <2>4, <2>5, UseKept
<1>9. Listed'
  <2>1. Counts(T!Now) /\ T!Now.table = table
    BY <1>2, NowCounts
  <2>2. Counts(n) /\ Rows(n.table) = {row \in Rows(table) : row.addr # a}
    BY <2>1, RemovedDoes DEF n
  <2>3. \A row \in Rows(n.table) : row.addr # b
    <3>1. b # a => \A row \in Rows(table) : row.addr # b
      BY <1>2, <1>3, <1>7 DEF Listed, Recorded
    <3> QED  BY <2>2, <3>1
  <2>4. Counts(n2) /\ Rows(n2.table) = Rows(n.table) \cup {x}
    BY <1>1, <1>3, <2>2, <2>3, AddedDoes DEF n2, x
  <2>5. table' = n2.table /\ usage' = n2.usage
    BY <1>1 DEF T!Put, n2
  <2>6. Rows(table') = {row \in Rows(table) : row.addr # a} \cup {x}
    BY <2>2, <2>4, <2>5
  <2>7. \A c \in Addrs : (Untraced(c)' <=> Untraced(c)) /\ (T!Left(c)' <=> T!Left(c))
    BY <1>2 DEF Untraced, T!Left
  <2>8. Recorded(b)'
    BY <1>3, <1>4, <1>5, <1>7, <2>7 DEF Recorded
  <2>9. a # b => ~Recorded(a)'
    BY <1>3, <1>4, <1>5 DEF Recorded
  <2>10. \A c \in Addrs : c # a /\ c # b => (Recorded(c)' <=> Recorded(c)) /\ heap'[c] = heap[c]
    BY <1>5, <2>7 DEF Recorded
  <2>11. \A c \in Addrs : ~T!Left(c)' =>
           /\ (\E row \in Rows(table') : row.addr = c) <=> Recorded(c)'
           /\ \A row \in Rows(table') : row.addr = c => row.size = heap'[c].size
    <3> SUFFICES ASSUME NEW c \in Addrs, ~T!Left(c)
                 PROVE  /\ (\E row \in Rows(table') : row.addr = c) <=> Recorded(c)'
                        /\ \A row \in Rows(table') : row.addr = c => row.size = heap'[c].size
      BY <2>7
    <3>1. CASE c = b
      <4>1. \A row \in Rows(table') : row.addr = b => row = x
        BY <2>2, <2>3, <2>6
      <4> QED  BY <1>4, <1>5, <1>6, <2>6, <2>8, <3>1, <4>1
    <3>2. CASE c # b /\ c = a
      <4>1. \A row \in Rows(table') : row.addr # c
        BY <1>6, <2>6, <3>2
      <4> QED  BY <2>9, <3>2, <4>1
    <3>3. CASE c # b /\ c # a
      <4>1. /\ (\E row \in Rows(table) : row.addr = c) <=> Recorded(c)
            /\ \A row \in Rows(table) : row.addr = c => row.size = heap[c].size
        BY <1>2, <3>3 DEF Listed
      <4> QED  BY <1>6, <2>6, <2>10, <3>3, <4>1
    <3> QED  BY <3>1, <3>2, <3>3
  <2> QED  BY <2>4, <2>5, <2>11 DEF Listed, Counts
<1> QED  BY <1>8, <1>9

\* The table starts anew, and the blocks of before are not recorded.
LEMMA StartInv ==
  ASSUME TraceTypes, InUse, T!media_lib_start_mem_trace
  PROVE  TraceTypes' /\ InUse' /\ Listed'
<1>1. /\ table' = <<>> /\ usage' = 0 /\ UNCHANGED call
      /\ heap' = [a \in Addrs |-> [heap[a] EXCEPT !.traced = FALSE]]
  BY DEF T!media_lib_start_mem_trace
<1>2. heap \in [Addrs -> Block] /\ DOMAIN call = Tracers /\ \A s \in Tracers : DOMAIN call[s] = DOMAIN T!NoCall
  BY DEF TraceTypes
<1>3. \A a \in Addrs :
        /\ heap'[a] \in Block /\ heap'[a].used = heap[a].used /\ heap'[a].size = heap[a].size
        /\ heap'[a].traced = FALSE
        /\ heap[a].traced = FALSE => heap'[a] = heap[a]
  BY <1>1, <1>2 DEF Block
<1>4. heap' \in [Addrs -> Block]
  BY <1>1, <1>3
<1>5. T!Nothing.traced = FALSE
  BY DEF T!Nothing
<1>6. ASSUME NEW s \in Tracers
      PROVE  InCall(s)' /\ (Adding(s)' <=> Adding(s)) /\ (Removing(s)' <=> Removing(s))
  <2>1. InCall(s) /\ call' = call /\ (Adding(s)' <=> Adding(s)) /\ (Removing(s)' <=> Removing(s))
    BY <1>1 DEF InUse, Adding, Removing
  <2>2. Adding(s) => heap'[call[s].new] = heap[call[s].new]
    BY <1>3, <2>1 DEF InCall
  <2>3. call[s].step = "retrace" /\ heap[call[s].old] = T!Nothing => heap'[call[s].old] = T!Nothing
    BY <1>3, <1>5, <2>1 DEF InCall
  <2>4. Removing(s) => heap'[call[s].old].used = heap[call[s].old].used
    BY <1>3, <2>1 DEF InCall
  <2> QED  BY <2>1, <2>2, <2>3, <2>4 DEF InCall
<1>7. InUse'
  <2>1. \A a \in Addrs : heap'[a].used = "free" => heap'[a] = T!Nothing
    BY <1>3, <1>5 DEF InUse
  <2>2. \A a \in Addrs, s \in Tracers : heap'[a].used = s =>
          (Adding(s)' /\ call'[s].new = a) \/ (Removing(s)' /\ call'[s].old = a)
    BY <1>1, <1>3, <1>6 DEF InUse
  <2>3. \A r, s \in Tracers :
          call'[r].step = "retrace" /\ call'[s].step = "retrace" /\ call'[r].old = call'[s].old => r = s
    BY <1>1 DEF InUse
  <2> QED  BY <1>6, <2>1, <2>2, <2>3 DEF InUse
<1>8. Listed'
  <2>1. table' \in Seq(Item) /\ Len(table') = 0
    BY <1>1
  <2>2. DOMAIN table' = {} /\ Rows(table') = {} /\ Once(table')
    BY <1>1 DEF Rows, Once
  <2>3. T!Total(table') = 0
    <3>1. PICK f : IsSum(f, table') /\ T!Total(table') = f[0]
      BY <2>1, Sums
    <3> QED  BY <3>1 DEF IsSum
  <2>4. \A a \in Addrs : ~Recorded(a)'
    BY <1>3 DEF Recorded
  <2> QED  BY <1>1, <2>1, <2>2, <2>3, <2>4 DEF Listed
<1> QED  BY <1>2, <1>1, <1>4, <1>7, <1>8 DEF TraceTypes

\* A step that the blocks in use do not see.
LEMMA TraceStays ==
  ASSUME TraceInv, UNCHANGED <<heap, call, misuse>>,
         tracing' # "on" \/ UNCHANGED <<table, usage, tracing>>
  PROVE  TraceInv'
<1> SUFFICES ASSUME misuse = {}
             PROVE  TraceTypes' /\ InUse' /\ Listed'
  BY DEF TraceInv
<1>1. TraceTypes' /\ InUse'
  BY DEF TraceInv, TraceTypes, InUse, InCall, Adding, Removing
<1>2. Listed'
  BY DEF TraceInv, Listed, T!Left, Recorded, Untraced
<1> QED  BY <1>1, <1>2

LEMMA TraceNextInv == TraceInv /\ T!TraceNext => TraceInv'
<1> SUFFICES ASSUME TraceInv, T!TraceNext, misuse' = {}
             PROVE  TraceInv'
  BY DEF TraceInv
<1>1. TraceTypes /\ InUse /\ Listed /\ misuse = {}
  BY DEF TraceInv, T!TraceNext
<1>2. CASE \E t \in Tracers, size \in T!Sizes, module \in T!Modules : T!Malloc(t, size, module)
  BY <1>1, <1>2, MallocInv DEF TraceInv
<1>3. CASE \E t \in Tracers : T!add_trace(t) \/ T!remove_trace(t) \/ T!Release(t) \/ T!Retrace(t)
  BY <1>1, <1>3, AddTraceInv, RemoveInv, ReleaseInv, RetraceInv DEF TraceInv
<1>4. ASSUME NEW t \in Tracers, NEW a \in T!LiveAddrs,
             \/ T!Free(t, a) \/ T!ReallocFails(t, a)
             \/ \E size \in T!Sizes : T!Realloc(t, a, size)
             \/ \E size \in T!Sizes, module \in T!Modules : T!module_realloc(t, a, size, module)
      PROVE  TraceInv'
  <2>1. ~T!ReallocFails(t, a)
    BY DEF T!ReallocFails
  <2> QED  BY <1>1, <1>4, <2>1, FreeInv, ReallocInv, ModuleReallocInv DEF TraceInv
<1>5. CASE T!media_lib_start_mem_trace
  BY <1>1, <1>5, StartInv DEF TraceInv
<1>6. CASE T!media_lib_stop_mem_trace
  BY <1>1, <1>6, TraceStays DEF T!media_lib_stop_mem_trace
<1> QED  BY <1>2, <1>3, <1>4, <1>5, <1>6 DEF T!TraceNext

LEMMA TraceInitInv == T!TraceInit => TraceInv
<1> SUFFICES ASSUME T!TraceInit
             PROVE  TraceTypes /\ InUse /\ Listed
  BY DEF TraceInv
<1>1. T!Nothing \in Block /\ T!Nothing.used = "free" /\ T!NoCall.step = "out"
  BY DEF T!Nothing, T!NoCall, Block
<1>2. /\ heap \in [Addrs -> Block] /\ DOMAIN call = Tracers /\ tracing = "off"
      /\ \A a \in Addrs : heap[a] = T!Nothing
      /\ \A t \in Tracers : call[t] = T!NoCall
  BY <1>1 DEF T!TraceInit
<1>3. TraceTypes /\ Listed
  BY <1>2 DEF TraceTypes, Listed
<1>4. InUse
  BY <1>1, <1>2, TracersAssumption DEF InUse, InCall, Adding, Removing
<1> QED  BY <1>3, <1>4

LEMMA TraceInvHolds == TraceInv => TableIsTrue
<1> SUFFICES ASSUME TraceInv, T!Between, misuse = {}  PROVE T!TableIsTrue
  BY Zenon DEF TableIsTrue, T!TableIsTrue
<1>1. /\ TraceTypes /\ InUse /\ Listed /\ tracing = "on"
      /\ \A t \in Tracers : call[t].step = "out"
  BY DEF TraceInv, T!Between
<1>2. ASSUME NEW a \in Addrs
      PROVE  /\ Cardinality(T!Entries(a)) = (IF heap[a].traced THEN 1 ELSE 0)
             /\ \A i \in T!Entries(a) : heap[a].used = "live" /\ table[i].size = heap[a].size
  <2>1. ~T!Left(a) /\ ~Untraced(a)
    BY <1>1 DEF T!Left, Untraced
  <2>2. /\ (\E i \in DOMAIN table : table[i].addr = a) <=> heap[a].traced
        /\ \A i \in DOMAIN table : table[i].addr = a => table[i].size = heap[a].size
    BY <1>1, <2>1 DEF Listed, Recorded, Rows
  <2>3. heap[a].traced => heap[a].used = "live"
    <3>1. heap[a].used \in {"free", "live"} \cup Tracers
      BY <1>1 DEF TraceTypes, Block
    <3>2. heap[a].used \notin Tracers
      BY <1>1 DEF InUse, Adding, Removing
    <3>3. heap[a].used = "free" => ~heap[a].traced
      BY <1>1, BlockAlone
    <3> QED  BY <3>1, <3>2, <3>3
  <2>4. CASE heap[a].traced
    <3>1. PICK i \in DOMAIN table : table[i].addr = a
      BY <2>2, <2>4
    <3>2. T!Entries(a) = {i}
      BY <1>1, <3>1 DEF Listed, Once, T!Entries
    <3> QED  BY <2>2, <2>3, <2>4, <3>1, <3>2, FS_Singleton
  <2>5. CASE ~heap[a].traced
    <3>1. T!Entries(a) = {}
      BY <2>2, <2>5 DEF T!Entries
    <3> QED  BY <2>5, <3>1, FS_EmptySet
  <2> QED  BY <2>4, <2>5
<1>3. usage = T!Total(table)
  BY <1>1 DEF Listed
<1>4. \A S : T!Cardinality(S) = Cardinality(S)
  BY DEF T!Cardinality, Cardinality
<1> QED  BY <1>2, <1>3, <1>4 DEF T!TableIsTrue

LEMMA TraceKept == TraceInv /\ UNCHANGED trace_vars => TraceInv'
BY TraceStays DEF trace_vars

\* TableIsTrue, for any tasks, addresses and size of the table, and any interleaving of
\* the allocator's steps with the table's: with no task in a wrapper the table has each
\* block that was traced, once and with its size, no block that is gone, and the usage
\* is the sum over it, unless one of the four gaps was met.
THEOREM TableStaysTrue == Spec => []TableIsTrue
<1>1. Init => TraceInv
  BY TraceInitInv DEF Init
<1>2. TraceInv /\ [Next]_vars => TraceInv'
  BY TraceNextInv, TraceKept DEF Next, vars
<1>3. TraceInv => TableIsTrue
  BY TraceInvHolds
<1> QED  BY <1>1, <1>2, <1>3, PTL DEF Spec

=============================================================================
