-------------------------- MODULE DataQueueProofs --------------------------
(***************************************************************************)
(* Proofs about DataQueue, for every size of the ring, of the heads and of *)
(* the blocks.                                                             *)
(*                                                                         *)
(* data_queue_wakeup returns when no thread is left in the queue.  q->user *)
(* is at least the number of threads inside: only data_queue_read_unlock   *)
(* may leave without giving its use back, when it finds no data.  After    *)
(* data_queue_wakeup has set `quit' nobody comes in.                       *)
(*                                                                         *)
(* The reader gets the oldest block and the writer a buffer of its own:    *)
(* laid out behind one another from rp, the blocks fill the data and what  *)
(* is left of the buffer is the gap that is granted.  The loops of         *)
(* data_queue_query and data_queue_consume_all, functions defined by       *)
(* recursion, are followed by induction over a set of numbers.             *)
(***************************************************************************)
EXTENDS DataQueue, SequenceTheorems, WellFoundedInduction, TLAPS

Outside == {"out", "refused"}
Waiting == {"wait", "seen", "cleared"}

\* The uses a thread has taken.
UseOf(place) == IF place \in Outside THEN 0 ELSE 1

Types ==
  /\ user \in Int /\ quit \in BOOLEAN
  /\ pc \in [Threads -> Outside \cup Waiting \cup {"write", "read", "done"}]
  /\ pc["writer"] \in Outside \cup Waiting \cup {"write"}
  /\ pc["reader"] \in {"out", "read"} \cup Waiting
  /\ pc["waker"] \in {"out", "done"} \cup Waiting

Counted == UseOf(pc["writer"]) + UseOf(pc["reader"]) <= user
Closed ==
  /\ pc["waker"] # "out" => quit
  /\ pc["waker"] = "done" => pc["writer"] \in Outside /\ pc["reader"] = "out"

DataInv == Types /\ Counted /\ Closed

Others(t) == \A s \in Threads \ {t} : pc'[s] = pc[s]

LEMMA ThreadNames == Threads = {"writer", "reader", "waker"}
BY DEF Threads, Bit

LEMMA Moves ==
  ASSUME Types, NEW t \in Threads, NEW place, To(t, place)
  PROVE  pc'[t] = place /\ Others(t) /\ DOMAIN pc' = Threads
BY DEF Types, To, Others

\* What is left to show of a step of one thread.
LEMMA WriterGoes ==
  ASSUME DataInv, NEW place \in Outside \cup Waiting \cup {"write"}, To("writer", place),
         user' \in Int, user' - UseOf(place) >= user - UseOf(pc["writer"]),
         UNCHANGED quit, quit => place \in Outside \/ pc["writer"] \notin Outside
  PROVE  DataInv'
<1>1. /\ pc'["writer"] = place /\ pc'["reader"] = pc["reader"] /\ pc'["waker"] = pc["waker"]
      /\ DOMAIN pc' = Threads /\ pc' \in [Threads -> {pc'[s] : s \in Threads}]
  BY ThreadNames, Moves DEF DataInv, Types, To, Others
<1>2. Types'
  BY <1>1, ThreadNames DEF DataInv, Types, To
<1>3. /\ UseOf(place) \in Int /\ UseOf(pc["writer"]) \in Int /\ UseOf(pc["reader"]) \in Int
      /\ UseOf(place) \in {0, 1}
  BY DEF UseOf
<1>4. Counted'
  BY <1>1, <1>3 DEF DataInv, Counted, Types
<1>5. Closed'
  BY <1>1 DEF DataInv, Closed
<1> QED  BY <1>2, <1>4, <1>5 DEF DataInv

LEMMA ReaderGoes ==
  ASSUME DataInv, NEW place \in {"out", "read"} \cup Waiting, To("reader", place),
         user' \in Int, user' - UseOf(place) >= user - UseOf(pc["reader"]),
         UNCHANGED quit, quit => place = "out" \/ pc["reader"] # "out"
  PROVE  DataInv'
<1>1. /\ pc'["reader"] = place /\ pc'["writer"] = pc["writer"] /\ pc'["waker"] = pc["waker"]
      /\ DOMAIN pc' = Threads /\ pc' \in [Threads -> {pc'[s] : s \in Threads}]
  BY ThreadNames, Moves DEF DataInv, Types, To, Others
<1>2. Types'
  BY <1>1, ThreadNames DEF DataInv, Types, To, Outside
<1>3. /\ UseOf(place) \in Int /\ UseOf(pc["writer"]) \in Int /\ UseOf(pc["reader"]) \in Int
      /\ UseOf(place) \in {0, 1}
  BY DEF UseOf
<1>4. Counted'
  BY <1>1, <1>3 DEF DataInv, Counted, Types
<1>5. Closed'
  BY <1>1 DEF DataInv, Closed
<1> QED  BY <1>2, <1>4, <1>5 DEF DataInv

LEMMA WakerGoes ==
  ASSUME DataInv, NEW place \in {"done"} \cup Waiting, To("waker", place),
         UNCHANGED user, quit' = TRUE, place = "done" => user = 0
  PROVE  DataInv'
<1>1. /\ pc'["waker"] = place /\ pc'["writer"] = pc["writer"] /\ pc'["reader"] = pc["reader"]
      /\ DOMAIN pc' = Threads /\ pc' \in [Threads -> {pc'[s] : s \in Threads}]
  BY ThreadNames, Moves DEF DataInv, Types, To, Others
<1>2. Types'
  BY <1>1, ThreadNames DEF DataInv, Types, To, Outside
<1>3. Counted'
  BY <1>1 DEF DataInv, Counted
<1>4. user = 0 => pc["writer"] \in Outside /\ pc["reader"] = "out"
  BY DEF DataInv, Counted, Types, UseOf, Outside, Waiting
<1>5. Closed'
  BY <1>1, <1>4 DEF Closed
<1> QED  BY <1>2, <1>3, <1>5 DEF DataInv

-----------------------------------------------------------------------------
(* The steps *)

\* A wait goes on with its use.
LEMMA WaitStep ==
  ASSUME NEW t \in Threads
  PROVE  DataInv /\ (SeeBit(t) \/ ClearBit(t)) => DataInv'
<1> SUFFICES ASSUME DataInv, SeeBit(t) \/ ClearBit(t)
             PROVE  DataInv'
  OBVIOUS
<1>1. PICK place \in {"seen", "cleared"} :
        /\ To(t, place) /\ pc[t] \in Waiting /\ UNCHANGED <<user, quit>>
  BY DEF SeeBit, ClearBit, Waiting
<1>2. /\ pc[t] \notin Outside /\ pc[t] # "out" /\ place \in Waiting /\ place # "done"
      /\ user \in Int /\ UseOf(place) = 1 /\ UseOf(pc[t]) = 1
  BY <1>1 DEF Waiting, Outside, DataInv, Types, UseOf
<1>3. CASE t = "writer"
  BY <1>1, <1>2, <1>3, WriterGoes
<1>4. CASE t = "reader"
  BY <1>1, <1>2, <1>4, ReaderGoes
<1>5. CASE t = "waker"
  <2>1. quit = TRUE
    BY <1>2, <1>5 DEF DataInv, Closed, Types
  <2> QED  BY <1>1, <1>2, <1>5, <2>1, WakerGoes
<1> QED  BY <1>3, <1>4, <1>5, ThreadNames

LEMMA GetInv ==
  ASSUME DataInv, NEW size, NEW u \in Int, NEW b, GetLoop(size, u, b),
         u = user - UseOf(pc["writer"])
  PROVE  DataInv'
<1>1. CASE quit
  <2>1. /\ To("writer", "out") /\ user' = u /\ UNCHANGED quit /\ UseOf("out") = 0
        /\ "out" \in Outside
    BY <1>1 DEF GetLoop, UseOf, Outside
  <2> QED  BY <2>1, WriterGoes
<1>2. CASE ~quit
  <2>1. PICK place \in {"write", "wait"} :
          To("writer", place) /\ user' = u + 1 /\ UNCHANGED quit
    BY <1>2 DEF GetLoop
  <2>2. place \in Outside \cup Waiting \cup {"write"} /\ UseOf(place) = 1
    BY DEF Outside, Waiting, UseOf
  <2>3. user' \in Int /\ user' - UseOf(place) >= user - UseOf(pc["writer"])
    BY <2>1, <2>2
  <2> QED  BY <1>2, <2>1, <2>2, <2>3, WriterGoes
<1> QED  BY <1>1, <1>2

LEMMA WriterStep == DataInv /\ Writer => DataInv'
<1> SUFFICES ASSUME DataInv, Writer
             PROVE  DataInv'
  OBVIOUS
<1>1. user \in Int /\ UseOf("write") = 1 /\ UseOf("cleared") = 1
  BY DEF DataInv, Types, UseOf, Outside
<1>2. ASSUME NEW n \in Sizes, data_queue_get_buffer(n)
      PROVE  DataInv'
  <2>1. GetLoop(n + HeadSize, user, event) /\ UseOf(pc["writer"]) = 0
    BY <1>2 DEF data_queue_get_buffer, UseOf, Outside
  <2> QED  BY <1>1, <2>1, GetInv
<1>3. CASE WriterRelock
  <2>1. GetLoop(need, user - 1, event \cup {"free"}) /\ UseOf(pc["writer"]) = 1
    BY <1>1, <1>3 DEF WriterRelock
  <2>2. user - 1 \in Int /\ user - 1 = user - UseOf(pc["writer"])
    BY <1>1, <2>1
  <2> QED  BY <2>1, <2>2, GetInv
<1>4. CASE Send
  <2>1. PICK place \in Outside :
          /\ To("writer", place) /\ pc["writer"] = "write"
          /\ user' = user - 1 /\ UNCHANGED quit
    BY <1>4 DEF Send, SendNothing, data_queue_send_buffer, Outside
  <2>2. UseOf(place) = 0
    BY DEF UseOf
  <2>3. user' \in Int /\ user' - UseOf(place) >= user - UseOf(pc["writer"])
    BY <1>1, <2>1, <2>2
  <2> QED  BY <2>1, <2>3, WriterGoes
<1> QED  BY <1>2, <1>3, <1>4 DEF Writer

LEMMA ReadInv ==
  ASSUME DataInv, NEW u \in Int, NEW b, ReadLoop(u, b), u = user - UseOf(pc["reader"])
  PROVE  DataInv'
<1>1. CASE quit
  <2>1. To("reader", "out") /\ user' = u /\ UNCHANGED quit /\ UseOf("out") = 0
    BY <1>1 DEF ReadLoop, UseOf, Outside
  <2> QED  BY <2>1, ReaderGoes
<1>2. CASE ~quit
  <2>1. PICK place \in {"read", "wait"} :
          To("reader", place) /\ user' = u + 1 /\ UNCHANGED quit
    BY <1>2 DEF ReadLoop
  <2>2. place \in {"out", "read"} \cup Waiting /\ UseOf(place) = 1
    BY DEF Outside, Waiting, UseOf
  <2>3. user' \in Int /\ user' - UseOf(place) >= user - UseOf(pc["reader"])
    BY <2>1, <2>2
  <2> QED  BY <1>2, <2>1, <2>2, <2>3, ReaderGoes
<1> QED  BY <1>1, <1>2

\* data_queue_read_unlock keeps its use when it finds no data.
LEMMA ReaderStep == DataInv /\ Reader => DataInv'
<1> SUFFICES ASSUME DataInv, Reader
             PROVE  DataInv'
  OBVIOUS
<1>1. user \in Int /\ UseOf("out") = 0 /\ UseOf("read") = 1 /\ UseOf("cleared") = 1
  BY DEF DataInv, Types, UseOf, Outside
<1>2. CASE data_queue_read_lock
  <2>1. ReadLoop(user, event) /\ UseOf(pc["reader"]) = 0
    BY <1>1, <1>2 DEF data_queue_read_lock
  <2> QED  BY <1>1, <2>1, ReadInv
<1>3. CASE ReaderRelock
  <2>1. ReadLoop(user - 1, event \cup {"free"}) /\ UseOf(pc["reader"]) = 1
    BY <1>1, <1>3 DEF ReaderRelock
  <2>2. user - 1 \in Int /\ user - 1 = user - UseOf(pc["reader"])
    BY <1>1, <2>1
  <2> QED  BY <2>1, <2>2, ReadInv
<1>4. CASE Release
  <2>1. /\ To("reader", "out") /\ pc["reader"] = "read" /\ UNCHANGED quit
        /\ user' = user - 1 \/ user' = user
    BY <1>4 DEF Release, data_queue_peek_unlock, data_queue_read_unlock
  <2>2. user' \in Int /\ user' - UseOf("out") >= user - UseOf(pc["reader"])
    BY <1>1, <2>1
  <2> QED  BY <2>1, <2>2, ReaderGoes
<1>5. CASE data_queue_consume_all
  BY <1>5 DEF data_queue_consume_all, DataInv, Types, Counted, Closed
<1> QED  BY <1>2, <1>3, <1>4, <1>5 DEF Reader

LEMMA WakerStep == DataInv /\ Waker => DataInv'
<1> SUFFICES ASSUME DataInv, Waker
             PROVE  DataInv'
  OBVIOUS
<1>1. /\ UntilNoUser /\ UNCHANGED user
      /\ \/ quit' = TRUE
         \/ pc["waker"] = "cleared" /\ UNCHANGED quit
  BY DEF Waker, data_queue_wakeup, WakerRelock
<1>2. quit' = TRUE
  BY <1>1 DEF DataInv, Closed, Types
<1>3. CASE user = 0
  BY <1>1, <1>2, <1>3, WakerGoes DEF UntilNoUser
<1>4. CASE user # 0
  <2>1. To("waker", "wait") /\ "wait" \in Waiting /\ "wait" # "done"
    BY <1>1, <1>4 DEF UntilNoUser, Waiting
  <2> QED  BY <1>1, <1>2, <2>1, WakerGoes
<1> QED  BY <1>3, <1>4

-----------------------------------------------------------------------------
LEMMA DataInitInv == Init => DataInv
<1> SUFFICES ASSUME Init
             PROVE  DataInv
  OBVIOUS
<1>1. /\ user = 0 /\ quit = FALSE /\ DOMAIN pc = Threads
      /\ pc = [t \in Threads |-> "out"] /\ \A t \in Threads : pc[t] = "out"
  BY DEF Init
<1>2. Types
  <2>1. user \in Int
    BY <1>1
  <2>2. quit \in BOOLEAN
    BY <1>1, Zenon
  <2>3. pc \in [Threads -> Outside \cup Waiting \cup {"write", "read", "done"}]
    BY <1>1 DEF Outside
  <2> QED  BY <1>1, <2>1, <2>2, <2>3, ThreadNames DEF Types, Outside
<1>3. Counted /\ Closed
  BY <1>1, ThreadNames DEF Counted, Closed, UseOf, Outside
<1> QED  BY <1>2, <1>3 DEF DataInv

LEMMA DataNextInv == DataInv /\ [Next]_vars => DataInv'
<1>1. CASE Next
  BY <1>1, WaitStep, WriterStep, ReaderStep, WakerStep DEF Next
<1>2. CASE UNCHANGED vars
  BY <1>2 DEF vars, DataInv, Types, Counted, Closed
<1> QED  BY <1>1, <1>2

\* data_queue_wakeup returns when no thread is left in the queue, so that it may be
\* deinitialised (data_queue.c): q->user is never less than the threads inside.
THEOREM NobodyIsLeft == Spec => []WakeupLeavesNobody
<1>1. Init => DataInv
  BY DataInitInv
<1>2. DataInv /\ [Next]_vars => DataInv'
  BY DataNextInv
<1>3. DataInv => WakeupLeavesNobody
  BY DEF DataInv, Closed, WakeupLeavesNobody, Outside
<1> QED  BY <1>1, <1>2, <1>3, PTL DEF Spec

-----------------------------------------------------------------------------
(* What the ring holds.  An offset of the second lap, before rp, counts on *)
(* from fill_end; then the blocks follow each other from rp to the end of  *)
(* the data, each with its size in its head.                               *)

Rings == [wp : 0..QSize, rp : 0..QSize, fill_end : 0..QSize, filled : 0..QSize]
Lap(r) == r.fill_end # 0
Unrolled(r, o) == IF Lap(r) /\ o < r.rp THEN r.fill_end + o ELSE o
DataEnd(r) == IF Lap(r) THEN r.fill_end + r.wp ELSE r.wp
Mark(r, b, i) == IF i <= Len(b) THEN Unrolled(r, b[i][1]) ELSE DataEnd(r)

Turns(r) ==
  /\ r \in Rings
  /\ Lap(r) => r.wp <= r.rp /\ r.rp < r.fill_end
  /\ ~Lap(r) => r.rp <= r.wp
  /\ r.filled = DataEnd(r) - r.rp
Lies(r, o, s) ==
  \/ o >= r.rp /\ o + s <= (IF Lap(r) THEN r.fill_end ELSE r.wp)
  \/ Lap(r) /\ o + s <= r.wp
Stands(r, h, x) == x[2] # 0 /\ Lies(r, x[1], x[2]) /\ h[x[1]] = x[2]
Follow(r, b) ==
  /\ Mark(r, b, 1) = r.rp
  /\ \A i \in 1..Len(b) : Mark(r, b, i + 1) = Mark(r, b, i) + b[i][2]
  /\ \A i, j \in 1..Len(b) + 1 : i <= j => Mark(r, b, i) + (j - i) <= Mark(r, b, j)
Good(r, h, b) ==
  /\ Turns(r)
  /\ h \in [0..QSize - 1 -> Nat]
  /\ b \in Seq(Nat \X Nat)
  /\ \A i \in 1..Len(b) : Stands(r, h, b[i])
  /\ Follow(r, b)

\* The threads that are in a call.
Calls ==
  /\ pc["writer"] \in Waiting \cup {"write"} => need \in Nat /\ need > HeadSize /\ need <= QSize
  /\ pc["writer"] = "write" => get_available_size(q) >= need
  /\ pc["writer"] # "refused"
  /\ pc["reader"] = "read" => blocks # <<>> /\ cur_rp = q.rp
  /\ aborted => pc["reader"] = "out" /\ HeadAt(0) = QSize

RingInv == DataInv /\ Good(q, head, blocks) /\ Calls

-----------------------------------------------------------------------------
(* The ring *)

\* The fields of a ring are offsets into the buffer.
LEMMA RingNumbers ==
  ASSUME NEW r \in Rings
  PROVE  /\ r.wp \in 0..QSize /\ r.rp \in 0..QSize /\ r.fill_end \in 0..QSize /\ r.filled \in 0..QSize
         /\ r.wp \in Int /\ r.rp \in Int /\ r.fill_end \in Int /\ r.filled \in Int
         /\ r.wp >= 0 /\ r.rp >= 0 /\ r.fill_end >= 0 /\ r.filled >= 0
         /\ r.wp <= QSize /\ r.rp <= QSize /\ r.fill_end <= QSize /\ QSize \in Nat
BY QueueAssumption DEF Rings

\* A block is an offset and a size.
LEMMA BlockNumbers ==
  ASSUME NEW b \in Seq(Nat \X Nat)
  PROVE  /\ Len(b) \in Nat
         /\ \A i \in 1..Len(b) : b[i][1] \in Nat /\ b[i][2] \in Nat /\ b[i] = <<b[i][1], b[i][2]>>
<1>1. Len(b) \in Nat /\ \A i \in 1..Len(b) : b[i] \in Nat \X Nat
  BY LenProperties
<1>2. \A x \in Nat \X Nat : x[1] \in Nat /\ x[2] \in Nat /\ x = <<x[1], x[2]>>
  OBVIOUS
<1> QED  BY <1>1, <1>2

\* Counting on from fill_end gives numbers.
LEMMA MarkNumber ==
  ASSUME NEW r \in Rings, NEW b \in Seq(Nat \X Nat)
  PROVE  /\ DataEnd(r) \in Nat
         /\ \A o \in Nat : Unrolled(r, o) \in Nat
         /\ \A i \in 1..Len(b) + 1 : Mark(r, b, i) \in Nat
<1>1. DataEnd(r) \in Nat /\ \A o \in Nat : Unrolled(r, o) \in Nat
  BY RingNumbers DEF DataEnd, Unrolled
<1>2. ASSUME NEW i \in 1..Len(b) + 1
      PROVE  Mark(r, b, i) \in Nat
  <2>1. CASE i <= Len(b)
    <3>1. i \in 1..Len(b)
      BY <2>1, BlockNumbers
    <3>2. b[i][1] \in Nat
      BY <3>1, BlockNumbers
    <3> QED  BY <1>1, <2>1, <3>2 DEF Mark
  <2>2. CASE ~(i <= Len(b))
    BY <1>1, <2>2 DEF Mark
  <2> QED  BY <2>1, <2>2
<1> QED  BY <1>1, <1>2

\* A block lies in the buffer.
LEMMA BlockInside ==
  ASSUME NEW r, NEW h, NEW b, Good(r, h, b), NEW i \in 1..Len(b)
  PROVE  /\ b[i][1] \in 0..QSize - 1 /\ b[i][2] \in 1..QSize /\ b[i][1] + b[i][2] <= QSize
         /\ b[i] = <<b[i][1], h[b[i][1]]>>
<1>1. r \in Rings /\ b \in Seq(Nat \X Nat) /\ Stands(r, h, b[i]) /\ (Lap(r) => r.rp < r.fill_end)
  BY DEF Good, Turns
<1>2. b[i][1] \in Nat /\ b[i][2] \in Nat /\ b[i] = <<b[i][1], b[i][2]>>
  BY <1>1, BlockNumbers
<1>3. b[i][2] # 0 /\ Lies(r, b[i][1], b[i][2]) /\ h[b[i][1]] = b[i][2]
  BY <1>1 DEF Stands
<1>4. b[i][1] + b[i][2] <= QSize
  <2>1. b[i][1] + b[i][2] <= r.fill_end \/ b[i][1] + b[i][2] <= r.wp
    BY <1>3 DEF Lies
  <2> QED  BY <1>1, <1>2, <2>1, RingNumbers
<1> QED  BY <1>1, <1>2, <1>3, <1>4, RingNumbers

\* The first block is at rp; there is one as long as there are data.
LEMMA FirstBlock ==
  ASSUME NEW r, NEW h, NEW b, Good(r, h, b)
  PROVE  /\ b # <<>> => 1 \in 1..Len(b) /\ b[1][1] = r.rp
         /\ b # <<>> <=> HaveData(r)
         /\ b # <<>> <=> r.filled # 0
         /\ Len(b) <= r.filled
         /\ b = <<>> => ~Lap(r) /\ r.wp = r.rp
<1>1. r \in Rings /\ b \in Seq(Nat \X Nat) /\ Follow(r, b) /\ r.filled = DataEnd(r) - r.rp
  BY DEF Good, Turns
<1>2. (Lap(r) => r.wp <= r.rp /\ r.rp < r.fill_end) /\ (~Lap(r) => r.rp <= r.wp)
  BY DEF Good, Turns
<1>3. Len(b) \in Nat
  BY <1>1, BlockNumbers
<1>4. b = <<>> <=> Len(b) = 0
  BY <1>1, EmptySeq
<1>5. Mark(r, b, Len(b) + 1) = DataEnd(r) /\ Mark(r, b, 1) = r.rp
  BY <1>1, <1>3 DEF Follow, Mark
<1>a. DataEnd(r) \in Nat /\ r.rp \in Nat /\ r.filled \in Nat
  <2>1. DataEnd(r) \in Nat
    BY <1>1, MarkNumber
  <2>2. r.rp \in Int /\ r.rp >= 0 /\ r.filled \in Int /\ r.filled >= 0
    BY <1>1, RingNumbers
  <2> QED  BY <2>1, <2>2
<1>6. r.rp + Len(b) <= DataEnd(r)
  <2>1. 1 \in 1..Len(b) + 1 /\ Len(b) + 1 \in 1..Len(b) + 1 /\ 1 <= Len(b) + 1
    BY <1>3
  <2>2. Mark(r, b, 1) + (Len(b) + 1 - 1) <= Mark(r, b, Len(b) + 1)
    BY <1>1, <2>1 DEF Follow
  <2> QED  BY <1>3, <1>a, <1>5, <2>2
<1>7. Len(b) <= r.filled
  BY <1>1, <1>3, <1>a, <1>6
<1>8. b = <<>> => ~Lap(r) /\ r.wp = r.rp
  <2>1. SUFFICES ASSUME Len(b) = 0
                 PROVE  ~Lap(r) /\ r.wp = r.rp
    BY <1>4
  <2>2. DataEnd(r) = r.rp
    BY <1>5, <2>1
  <2> QED  BY <1>1, <1>2, <2>2, RingNumbers DEF DataEnd
<1>9. b # <<>> => 1 \in 1..Len(b) /\ b[1][1] = r.rp
  <2>1. SUFFICES ASSUME b # <<>>
                 PROVE  1 \in 1..Len(b) /\ b[1][1] = r.rp
    OBVIOUS
  <2>2. 1 \in 1..Len(b)
    BY <1>3, <1>4, <2>1
  <2>3. Unrolled(r, b[1][1]) = r.rp
    BY <1>3, <1>5, <2>2 DEF Mark
  <2>4. b[1][1] \in Nat
    BY <1>1, <2>2, BlockNumbers
  <2> QED  BY <1>1, <1>2, <2>2, <2>3, <2>4, RingNumbers DEF Unrolled
<1>10. b # <<>> => r.filled # 0 /\ (r.wp # r.rp \/ r.fill_end # 0)
  <2>1. SUFFICES ASSUME Len(b) # 0
                 PROVE  r.filled # 0 /\ (r.wp # r.rp \/ r.fill_end # 0)
    BY <1>4
  <2>2. r.rp < DataEnd(r)
    BY <1>3, <1>a, <1>6, <2>1
  <2> QED  BY <1>1, <2>2, RingNumbers DEF DataEnd, Lap
<1>11. b = <<>> => r.filled = 0 /\ ~(r.wp # r.rp \/ r.fill_end # 0)
  BY <1>1, <1>8, RingNumbers DEF DataEnd, Lap
<1> QED  BY <1>7, <1>8, <1>9, <1>10, <1>11 DEF HaveData

\* get_available_size is the gap behind the data.
LEMMA Gap ==
  ASSUME NEW r, Turns(r)
  PROVE  /\ get_available_size(r) \in Nat
         /\ ~Lap(r) => get_available_size(r) = QSize - r.wp
         /\ Lap(r) => get_available_size(r) = r.rp - r.wp
         /\ r.wp + get_available_size(r) <= QSize
<1>1. r \in Rings /\ (Lap(r) => r.wp <= r.rp /\ r.rp < r.fill_end) /\ (~Lap(r) => r.rp <= r.wp)
  BY DEF Turns
<1>2. /\ r.wp \in Int /\ r.rp \in Int /\ r.fill_end \in Int /\ QSize \in Int
      /\ r.wp >= 0 /\ r.rp >= 0 /\ r.fill_end >= 0 /\ r.wp <= QSize /\ r.rp <= QSize /\ r.fill_end <= QSize
  BY <1>1, RingNumbers
<1>3. ~Lap(r) => get_available_size(r) = QSize - r.wp
  BY <1>1, <1>2 DEF Lap, get_available_size
<1>4. Lap(r) => get_available_size(r) = r.rp - r.wp
  BY <1>1, <1>2 DEF Lap, get_available_size
<1> QED  BY <1>1, <1>2, <1>3, <1>4

\* A turn at the end moves no block.
LEMMA GoodTurned ==
  ASSUME NEW r, NEW h, NEW b, Good(r, h, b), NEW size
  PROVE  Good(Turned(r, size), h, b)
<1> DEFINE t == Turned(r, size)
<1>1. /\ Turns(r) /\ r \in Rings /\ b \in Seq(Nat \X Nat) /\ Follow(r, b)
      /\ h \in [0..QSize - 1 -> Nat] /\ \A i \in 1..Len(b) : Stands(r, h, b[i])
  BY DEF Good, Turns
<1>2. /\ r.wp \in Int /\ r.rp \in Int /\ r.wp >= 0 /\ r.rp >= 0 /\ r.filled \in Int
      /\ 0 \in 0..QSize /\ r.wp \in 0..QSize
  <2>1. 0 \in 0..QSize
    BY QueueAssumption
  <2> QED  BY <1>1, <2>1, RingNumbers
<1>3. CASE t = r
  BY <1>3
<1>4. CASE r.fill_end = 0 /\ r.wp = r.rp /\ t = [r EXCEPT !.wp = 0, !.rp = 0]
  <2>1. b = <<>>
    BY <1>4, FirstBlock DEF HaveData
  <2>2. t \in Rings /\ t.wp = 0 /\ t.rp = 0 /\ t.fill_end = 0 /\ t.filled = r.filled
    BY <1>1, <1>2, <1>4 DEF Rings
  <2>3. r.filled = 0
    BY <1>1, <1>2, <1>4 DEF Turns, DataEnd, Lap
  <2> HIDE DEF t
  <2>4. Turns(t)
    BY <2>2, <2>3 DEF Turns, DataEnd, Lap
  <2>5. Len(b) = 0 /\ \A i \in 1..Len(b) : FALSE
    BY <2>1
  <2>6. Mark(t, b, 1) = 0
    BY <2>2, <2>5 DEF Mark, DataEnd, Lap
  <2>7. Follow(t, b)
    <3>1. \A i, j \in 1..0 + 1 : i = 1 /\ j = 1
      OBVIOUS
    <3>2. 0 + (1 - 1) <= 0
      OBVIOUS
    <3> QED  BY <2>2, <2>5, <2>6, <3>1, <3>2 DEF Follow
  <2>8. Good(t, h, b)
    BY <1>1, <2>4, <2>5, <2>7 DEF Good
  <2> QED  BY <2>8 DEF t
<1>5. CASE r.fill_end = 0 /\ r.wp # r.rp /\ t = [r EXCEPT !.fill_end = r.wp, !.wp = 0]
  <2>1. t \in Rings /\ t.wp = 0 /\ t.rp = r.rp /\ t.fill_end = r.wp /\ t.filled = r.filled
    BY <1>1, <1>2, <1>5 DEF Rings
  <2>2. r.rp < r.wp /\ ~Lap(r) /\ Lap(t) /\ r.filled = r.wp - r.rp
    <3>1. ~Lap(r)
      BY <1>5 DEF Lap
    <3>2. r.rp <= r.wp /\ r.filled = r.wp - r.rp
      BY <1>1, <3>1 DEF Turns, DataEnd
    <3>3. r.rp < r.wp
      BY <1>2, <1>5, <3>2
    <3>4. Lap(t)
      BY <1>2, <2>1, <3>3 DEF Lap
    <3> QED  BY <3>1, <3>2, <3>3, <3>4
  <2> HIDE DEF t
  <2>3. DataEnd(t) = DataEnd(r)
    BY <1>2, <2>1, <2>2 DEF DataEnd
  <2>4. Turns(t)
    <3>1. DataEnd(r) = r.wp
      BY <2>2 DEF DataEnd
    <3> QED  BY <1>2, <2>1, <2>2, <2>3, <3>1 DEF Turns
  <2>5. ASSUME NEW i \in 1..Len(b)
        PROVE  Stands(t, h, b[i]) /\ Unrolled(t, b[i][1]) = Unrolled(r, b[i][1])
    <3>1. b[i][1] \in Nat /\ b[i][2] \in Nat
      BY <1>1, BlockNumbers
    <3>2. Stands(r, h, b[i])
      BY <1>1
    <3>3. b[i][1] >= r.rp /\ b[i][1] + b[i][2] <= r.wp
      BY <2>2, <3>2 DEF Stands, Lies
    <3>4. Lies(t, b[i][1], b[i][2])
      BY <2>1, <2>2, <3>3 DEF Lies
    <3>5. Unrolled(t, b[i][1]) = b[i][1] /\ Unrolled(r, b[i][1]) = b[i][1]
      BY <1>2, <2>1, <2>2, <3>1, <3>3 DEF Unrolled
    <3> QED  BY <3>2, <3>4, <3>5 DEF Stands
  <2>6. \A i \in 1..Len(b) + 1 : Mark(t, b, i) = Mark(r, b, i)
    <3>1. Len(b) \in Nat
      BY <1>1, BlockNumbers
    <3>2. \A i \in 1..Len(b) + 1 : i <= Len(b) => i \in 1..Len(b)
      BY <3>1
    <3> QED  BY <2>3, <2>5, <3>2 DEF Mark
  <2>7. Follow(t, b)
    <3>1. Len(b) \in Nat
      BY <1>1, BlockNumbers
    <3>2. 1 \in 1..Len(b) + 1 /\ \A i \in 1..Len(b) : i \in 1..Len(b) + 1 /\ i + 1 \in 1..Len(b) + 1
      BY <3>1
    <3> QED  BY <1>1, <2>1, <2>6, <3>2 DEF Follow
  <2>8. Good(t, h, b)
    BY <1>1, <2>4, <2>5, <2>7 DEF Good
  <2> QED  BY <2>8 DEF t
<1> QED  BY <1>3, <1>4, <1>5 DEF Turned

\* Giving back the first block leaves the others where they are.
LEMMA GoodFirst ==
  ASSUME NEW r, NEW b, Good(r, head, b), b # <<>>
  PROVE  /\ Good(WithoutFirst(r), head, Tail(b)) /\ WithoutFirst(r).wp = r.wp
         /\ get_available_size(WithoutFirst(r)) >= get_available_size(r)
         /\ Len(Tail(b)) = Len(b) - 1 /\ HeadAt(r.rp) = b[1][2] /\ HeadAt(r.rp) \in 1..QSize
         /\ r.rp + HeadAt(r.rp) <= QSize
         /\ r.fill_end # 0 => r.rp + HeadAt(r.rp) <= r.fill_end
<1> DEFINE t == WithoutFirst(r)
           c == Tail(b)
           n == Len(b)
           s == b[1][2]
           round == r.fill_end # 0 /\ r.rp + s >= r.fill_end
           d == IF round THEN r.fill_end ELSE 0
<1>1. /\ Turns(r) /\ r \in Rings /\ b \in Seq(Nat \X Nat) /\ Follow(r, b)
      /\ head \in [0..QSize - 1 -> Nat] /\ \A i \in 1..n : Stands(r, head, b[i])
  BY DEF Good, Turns
<1>2. n \in Nat /\ n # 0 /\ 1 \in 1..n /\ b[1][1] = r.rp
  <2>1. n \in Nat
    BY <1>1, BlockNumbers
  <2>2. 1 \in 1..n /\ b[1][1] = r.rp
    BY FirstBlock
  <2> QED  BY <2>1, <2>2
<1>3. s \in 1..QSize /\ r.rp \in 0..QSize - 1 /\ r.rp + s <= QSize /\ head[r.rp] = s
  <2>1. /\ b[1][1] \in 0..QSize - 1 /\ b[1][2] \in 1..QSize /\ b[1][1] + b[1][2] <= QSize
        /\ b[1] = <<b[1][1], head[b[1][1]]>>
    BY <1>2, BlockInside
  <2> QED  BY <1>2, <2>1
<1>4. HeadAt(r.rp) = s
  BY <1>1, <1>3 DEF HeadAt
<1>5. /\ c \in Seq(Nat \X Nat) /\ Len(c) = n - 1 /\ \A i \in 1..n - 1 : c[i] = b[i + 1]
  BY <1>1, HeadTailProperties
<1>6. /\ r.wp \in Nat /\ r.rp \in Nat /\ r.fill_end \in Nat /\ r.filled \in Nat /\ QSize \in Nat /\ s \in Nat /\ s # 0
      /\ r.wp <= QSize /\ r.rp <= QSize /\ r.fill_end <= QSize /\ r.filled <= QSize
  BY <1>1, <1>3, RingNumbers
<1>7. /\ Lap(r) <=> r.fill_end # 0
      /\ (Lap(r) => r.wp <= r.rp /\ r.rp < r.fill_end) /\ (~Lap(r) => r.rp <= r.wp)
      /\ r.filled = DataEnd(r) - r.rp
  BY <1>1 DEF Turns, Lap
<1>8. /\ ~Lap(r) => r.rp + s <= r.wp
      /\ Lap(r) => r.rp + s <= r.fill_end
  <2>1. Lies(r, r.rp, s)
    BY <1>1, <1>2 DEF Stands
  <2> QED  BY <1>6, <1>7, <2>1 DEF Lies
<1>9. /\ t.wp = r.wp /\ t.rp = (IF round THEN 0 ELSE r.rp + s)
      /\ t.fill_end = (IF round THEN 0 ELSE r.fill_end) /\ t.filled = r.filled - s
      /\ t = [wp |-> r.wp, rp |-> IF round THEN 0 ELSE r.rp + s,
              fill_end |-> IF round THEN 0 ELSE r.fill_end, filled |-> r.filled - s]
  BY <1>4 DEF WithoutFirst
<1>10. round => r.rp + s = r.fill_end /\ Lap(r)
  BY <1>6, <1>7, <1>8
<1>11. d \in Nat
  BY <1>6
<1> HIDE DEF t, c, n, s
<1>12. DataEnd(t) = DataEnd(r) - d
  <2>1. CASE round
    BY <1>6, <1>7, <1>9, <1>10, <2>1 DEF DataEnd, Lap
  <2>2. CASE ~round
    BY <1>6, <1>7, <1>9, <2>2 DEF DataEnd, Lap
  <2> QED  BY <2>1, <2>2
<1>13. t.filled = DataEnd(t) - t.rp /\ t.filled \in Int
  <2>1. DataEnd(r) \in Nat
    BY <1>1, MarkNumber
  <2>2. CASE round
    BY <1>6, <1>7, <1>9, <1>10, <1>12, <2>1, <2>2
  <2>3. CASE ~round
    BY <1>6, <1>7, <1>9, <1>12, <2>1, <2>3
  <2> QED  BY <2>2, <2>3
<1>14. /\ Lap(t) => t.wp <= t.rp /\ t.rp < t.fill_end
       /\ ~Lap(t) => t.rp <= t.wp
  <2>1. CASE round
    BY <1>6, <1>9, <2>1 DEF Lap
  <2>2. CASE ~round
    BY <1>6, <1>7, <1>8, <1>9, <2>2 DEF Lap
  <2> QED  BY <2>1, <2>2
<1>15. Turns(t)
  <2>1. t.filled \in 0..QSize
    <3>1. t.filled >= 0
      <4>1. CASE round
        BY <1>6, <1>9, <1>12, <1>13, <4>1 DEF DataEnd, Lap
      <4>2. CASE ~round
        BY <1>6, <1>8, <1>9, <1>13, <1>14, <4>2 DEF DataEnd, Lap
      <4> QED  BY <4>1, <4>2
    <3> QED  BY <1>6, <1>9, <1>13, <3>1
  <2>2. /\ r.wp \in 0..QSize /\ (IF round THEN 0 ELSE r.rp + s) \in 0..QSize
        /\ (IF round THEN 0 ELSE r.fill_end) \in 0..QSize /\ r.filled - s \in 0..QSize
    BY <1>3, <1>6, <1>9, <2>1
  <2>3. t \in Rings
    BY <1>9, <2>2, Zenon DEF Rings
  <2> QED  BY <1>13, <1>14, <2>3 DEF Turns
<1>16. ASSUME NEW i \in 1..n - 1
       PROVE  Stands(t, head, c[i]) /\ Unrolled(t, c[i][1]) = Unrolled(r, c[i][1]) - d
  <2> DEFINE o == b[i + 1][1]
             z == b[i + 1][2]
  <2>1. i + 1 \in 1..n /\ 2 \in 1..n + 1 /\ i + 1 \in 1..n + 1 /\ 2 <= i + 1 /\ 1 + 1 = 2
    BY <1>2
  <2>2. o \in Nat /\ z \in Nat /\ Stands(r, head, b[i + 1])
    BY <1>1, <2>1, BlockNumbers DEF n
  <2>3. Mark(r, b, 1) = r.rp /\ Mark(r, b, 2) = Mark(r, b, 1) + b[1][2]
    BY <1>1, <1>2, <2>1 DEF Follow, n
  <2>4. Mark(r, b, 2) + (i + 1 - 2) <= Mark(r, b, i + 1)
    BY <1>1, <2>1 DEF Follow, n
  <2>5. Mark(r, b, i + 1) = Unrolled(r, o)
    BY <1>2, <2>1 DEF Mark, n
  <2>6. Unrolled(r, o) \in Nat
    BY <1>1, <2>2, MarkNumber
  <2>7. r.rp + s <= Unrolled(r, o)
    BY <1>6, <2>3, <2>4, <2>5, <2>6 DEF s
  <2> HIDE DEF o, z
  <2>8. z # 0 /\ Lies(r, o, z) /\ head[o] = z
    BY <2>2 DEF Stands, o, z
  <2>9. o < r.rp => Lap(r) /\ o + z <= r.wp
    BY <1>6, <2>2, <2>8 DEF Lies
  <2>10. o >= r.rp => o >= r.rp + s /\ o + z <= (IF Lap(r) THEN r.fill_end ELSE r.wp)
    <3>1. o >= r.rp => o >= r.rp + s
      BY <1>6, <2>2, <2>7 DEF Unrolled
    <3>2. SUFFICES ASSUME o >= r.rp + s, o >= r.rp
                   PROVE  o + z <= (IF Lap(r) THEN r.fill_end ELSE r.wp)
      BY <3>1
    <3>3. Lap(r) /\ o + z <= r.wp => o + z <= r.fill_end
      BY <1>6, <1>7, <2>2
    <3> QED  BY <2>8, <3>3 DEF Lies
  <2>11. CASE round
    <3>1. o < r.rp
      BY <1>6, <1>10, <2>2, <2>8, <2>10, <2>11
    <3>2. Lies(t, o, z)
      BY <1>6, <1>9, <2>2, <2>9, <2>11, <3>1 DEF Lies, Lap
    <3>3. Unrolled(t, o) = o /\ Unrolled(r, o) = r.fill_end + o
      BY <1>6, <1>9, <1>10, <2>2, <2>11, <3>1 DEF Unrolled, Lap
    <3>4. Unrolled(t, o) = Unrolled(r, o) - d
      BY <1>6, <2>2, <2>11, <3>3
    <3> QED  BY <1>5, <2>8, <3>2, <3>4 DEF Stands, o, z
  <2>12. CASE ~round
    <3>1. Lap(t) <=> Lap(r)
      BY <1>9, <2>12 DEF Lap
    <3>2. Lies(t, o, z)
      BY <1>6, <1>9, <2>2, <2>9, <2>10, <2>12, <3>1 DEF Lies
    <3>3. Unrolled(t, o) = Unrolled(r, o)
      <4>1. o < r.rp => o < r.rp + s
        BY <1>6, <2>2
      <4>2. ~(o < r.rp) => ~(o < r.rp + s)
        BY <1>6, <2>2, <2>10
      <4> QED  BY <1>9, <2>12, <3>1, <4>1, <4>2 DEF Unrolled
    <3>4. Unrolled(t, o) = Unrolled(r, o) - d
      BY <2>6, <2>12, <3>3
    <3> QED  BY <1>5, <2>8, <3>2, <3>4 DEF Stands, o, z
  <2> QED  BY <2>11, <2>12
<1>17. \A i \in 1..n : Mark(t, c, i) = Mark(r, b, i + 1) - d /\ i + 1 \in 1..n + 1
  <2>1. ASSUME NEW i \in 1..n
        PROVE  Mark(t, c, i) = Mark(r, b, i + 1) - d
    <3>1. CASE i = n
      <4>1. ~(i <= Len(c)) /\ ~(i + 1 <= Len(b))
        BY <1>2, <1>5, <3>1 DEF n
      <4> QED  BY <1>12, <4>1 DEF Mark
    <3>2. CASE i # n
      <4>1. i \in 1..n - 1 /\ i <= Len(c) /\ i + 1 <= Len(b)
        BY <1>2, <1>5, <3>2 DEF n
      <4>2. Unrolled(t, c[i][1]) = Unrolled(r, c[i][1]) - d /\ c[i] = b[i + 1]
        BY <1>5, <1>16, <4>1
      <4> QED  BY <4>1, <4>2 DEF Mark
    <3> QED  BY <3>1, <3>2
  <2>2. \A i \in 1..n : i + 1 \in 1..n + 1
    BY <1>2
  <2> QED  BY <2>1, <2>2
<1>18. \A i \in 1..n + 1 : Mark(r, b, i) \in Nat
  BY <1>1, MarkNumber DEF n
<1>19. Follow(t, c)
  <2>1. Mark(t, c, 1) = t.rp
    <3>1. Mark(r, b, 2) = r.rp + s
      <4>1. Mark(r, b, 1) = r.rp /\ Mark(r, b, 1 + 1) = Mark(r, b, 1) + b[1][2]
        BY <1>1, <1>2 DEF Follow, n
      <4> QED  BY <4>1 DEF s
    <3>2. Mark(t, c, 1) = Mark(r, b, 2) - d
      BY <1>2, <1>17
    <3> QED  BY <1>6, <1>9, <1>10, <3>1, <3>2
  <2>2. ASSUME NEW i \in 1..Len(c)
        PROVE  Mark(t, c, i + 1) = Mark(t, c, i) + c[i][2]
    <3>1. i \in 1..n - 1 /\ i \in 1..n /\ i + 1 \in 1..n
      BY <1>2, <1>5
    <3>2. Mark(r, b, i + 1 + 1) = Mark(r, b, i + 1) + b[i + 1][2]
      BY <1>1, <3>1 DEF Follow, n
    <3>3. Mark(t, c, i + 1) = Mark(r, b, i + 1 + 1) - d /\ Mark(t, c, i) = Mark(r, b, i + 1) - d /\ c[i] = b[i + 1]
      BY <1>5, <1>17, <3>1
    <3>4. b[i + 1][2] \in Nat /\ Mark(r, b, i + 1) \in Nat
      BY <1>1, <1>17, <1>18, <3>1, BlockNumbers DEF n
    <3> QED  BY <1>11, <3>2, <3>3, <3>4
  <2>3. ASSUME NEW i \in 1..Len(c) + 1, NEW j \in 1..Len(c) + 1, i <= j
        PROVE  Mark(t, c, i) + (j - i) <= Mark(t, c, j)
    <3>1. i \in 1..n /\ j \in 1..n /\ i + 1 <= j + 1 /\ (j + 1) - (i + 1) = j - i /\ j - i \in Int
      BY <1>2, <1>5, <2>3
    <3>2. Mark(r, b, i + 1) + ((j + 1) - (i + 1)) <= Mark(r, b, j + 1)
      BY <1>1, <1>17, <3>1 DEF Follow, n
    <3>3. Mark(r, b, i + 1) \in Nat /\ Mark(r, b, j + 1) \in Nat
      BY <1>17, <1>18, <3>1
    <3>4. Mark(t, c, i) = Mark(r, b, i + 1) - d /\ Mark(t, c, j) = Mark(r, b, j + 1) - d
      BY <1>17, <3>1
    <3> QED  BY <1>11, <3>1, <3>2, <3>3, <3>4
  <2> QED  BY <2>1, <2>2, <2>3 DEF Follow
<1>20. Good(t, head, c)
  BY <1>1, <1>5, <1>15, <1>16, <1>19 DEF Good
<1>21. get_available_size(t) >= get_available_size(r)
  <2>1. /\ (~Lap(t) => get_available_size(t) = QSize - t.wp) /\ (Lap(t) => get_available_size(t) = t.rp - t.wp)
        /\ (~Lap(r) => get_available_size(r) = QSize - r.wp) /\ (Lap(r) => get_available_size(r) = r.rp - r.wp)
    BY <1>1, <1>15, Gap
  <2>2. CASE round
    <3>1. ~Lap(t) /\ Lap(r)
      BY <1>9, <1>10, <2>2 DEF Lap
    <3> QED  BY <1>6, <1>9, <2>1, <3>1
  <2>3. CASE ~round
    <3>1. Lap(t) <=> Lap(r)
      BY <1>9, <2>3 DEF Lap
    <3> QED  BY <1>6, <1>9, <2>1, <2>3, <3>1
  <2> QED  BY <2>2, <2>3
<1>22. /\ Good(WithoutFirst(r), head, Tail(b)) /\ WithoutFirst(r).wp = r.wp
       /\ get_available_size(WithoutFirst(r)) >= get_available_size(r)
  BY <1>9, <1>20, <1>21 DEF t, c
<1>23. Len(Tail(b)) = Len(b) - 1 /\ HeadAt(r.rp) = b[1][2]
  BY <1>4, <1>5 DEF c, n, s
<1>24. HeadAt(r.rp) \in 1..QSize /\ r.rp + HeadAt(r.rp) <= QSize
  BY <1>3, <1>4
<1>25. r.fill_end # 0 => r.rp + HeadAt(r.rp) <= r.fill_end
  BY <1>4, <1>7, <1>8
<1> QED  BY <1>22, <1>23, <1>24, <1>25

\* What fits into the gap meets no block.
LEMMA GapIsFree ==
  ASSUME NEW r, NEW h, NEW b, Good(r, h, b), NEW size \in Nat, size <= get_available_size(r),
         NEW i \in 1..Len(b)
  PROVE  /\ Region(r.wp, size) \cap Region(b[i][1], b[i][2]) = {}
         /\ b[i][1] \notin Region(r.wp, size)
<1> DEFINE o == b[i][1]
           z == b[i][2]
<1>1. /\ Turns(r) /\ r \in Rings /\ b \in Seq(Nat \X Nat) /\ Stands(r, h, b[i])
      /\ (Lap(r) => r.wp <= r.rp /\ r.rp < r.fill_end) /\ (~Lap(r) => r.rp <= r.wp)
  BY DEF Good, Turns
<1>2. /\ r.wp \in Nat /\ r.rp \in Nat /\ r.fill_end \in Nat /\ QSize \in Nat
  BY <1>1, RingNumbers
<1>3. o \in Nat /\ z \in Nat /\ z # 0 /\ Lies(r, o, z)
  BY <1>1, BlockNumbers DEF Stands
<1>4. Lap(r) => r.wp + size <= r.rp
  <2>1. Lap(r) => get_available_size(r) = r.rp - r.wp
    BY <1>1, Gap
  <2> QED  BY <1>2, <2>1
<1> HIDE DEF o, z
<1>5. o + z <= r.wp \/ r.wp + size <= o
  <2>1. CASE Lap(r)
    BY <1>1, <1>2, <1>3, <1>4, <2>1 DEF Lies
  <2>2. CASE ~Lap(r)
    BY <1>1, <1>2, <1>3, <2>2 DEF Lies
  <2> QED  BY <2>1, <2>2
<1>6. Region(r.wp, size) \cap Region(o, z) = {} /\ o \notin Region(r.wp, size)
  BY <1>2, <1>3, <1>5 DEF Region
<1> QED  BY <1>6 DEF o, z

\* A block is sent into the gap.
LEMMA GoodSent ==
  ASSUME NEW r, NEW h, NEW b, Good(r, h, b), NEW s \in Nat, s # 0, s <= get_available_size(r)
  PROVE  Good([r EXCEPT !.wp = r.wp + s, !.filled = r.filled + s], [h EXCEPT ![r.wp] = s],
              Append(b, <<r.wp, s>>))
<1> DEFINE t == [r EXCEPT !.wp = r.wp + s, !.filled = r.filled + s]
           g == [h EXCEPT ![r.wp] = s]
           c == Append(b, <<r.wp, s>>)
           n == Len(b)
<1>1. /\ Turns(r) /\ r \in Rings /\ b \in Seq(Nat \X Nat) /\ Follow(r, b)
      /\ h \in [0..QSize - 1 -> Nat] /\ \A i \in 1..n : Stands(r, h, b[i])
  BY DEF Good, Turns
<1>2. /\ r.wp \in Nat /\ r.rp \in Nat /\ r.fill_end \in Nat /\ r.filled \in Nat /\ QSize \in Nat /\ s \in Nat /\ s # 0
      /\ r.wp <= QSize /\ r.rp <= QSize /\ r.fill_end <= QSize /\ r.filled <= QSize
  BY <1>1, RingNumbers
<1>3. /\ Lap(r) <=> r.fill_end # 0
      /\ (Lap(r) => r.wp <= r.rp /\ r.rp < r.fill_end) /\ (~Lap(r) => r.rp <= r.wp)
      /\ r.filled = DataEnd(r) - r.rp
  BY <1>1 DEF Turns, Lap
<1>4. r.wp + s <= QSize /\ (Lap(r) => r.wp + s <= r.rp)
  <2>1. /\ get_available_size(r) \in Nat /\ r.wp + get_available_size(r) <= QSize
        /\ Lap(r) => get_available_size(r) = r.rp - r.wp
    BY <1>1, Gap
  <2> QED  BY <1>2, <2>1
<1>5. n \in Nat
  BY <1>1, BlockNumbers
<1>6. t.wp = r.wp + s /\ t.rp = r.rp /\ t.fill_end = r.fill_end /\ t.filled = r.filled + s
  BY <1>1 DEF Rings
<1>7. c \in Seq(Nat \X Nat) /\ Len(c) = n + 1 /\ c[n + 1] = <<r.wp, s>> /\ \A i \in 1..n : c[i] = b[i]
  <2>1. <<r.wp, s>> \in Nat \X Nat
    BY <1>2
  <2> QED  BY <1>1, <2>1, AppendProperties
<1>8. g \in [0..QSize - 1 -> Nat] /\ g[r.wp] = s /\ \A o \in 0..QSize - 1 : o # r.wp => g[o] = h[o]
  <2>1. r.wp \in 0..QSize - 1
    BY <1>2, <1>4
  <2> QED  BY <1>1, <1>2, <2>1
<1> HIDE DEF t, g, c, n
<1>9. Lap(t) <=> Lap(r)
  BY <1>6 DEF Lap
<1>10. DataEnd(t) = DataEnd(r) + s /\ DataEnd(r) \in Nat
  <2>1. DataEnd(r) \in Nat
    BY <1>1, MarkNumber
  <2> QED  BY <1>2, <1>6, <1>9, <2>1 DEF DataEnd
<1>11. Turns(t)
  <2>1. t.filled = DataEnd(t) - t.rp
    BY <1>2, <1>3, <1>6, <1>10
  <2>2. (Lap(t) => t.wp <= t.rp /\ t.rp < t.fill_end) /\ (~Lap(t) => t.rp <= t.wp)
    BY <1>2, <1>3, <1>4, <1>6, <1>9
  <2>3. r.filled + s <= QSize
    <3>1. CASE Lap(r)
      <4>1. DataEnd(r) = r.fill_end + r.wp
        BY <3>1 DEF DataEnd
      <4> QED  BY <1>2, <1>3, <1>4, <3>1, <4>1
    <3>2. CASE ~Lap(r)
      <4>1. DataEnd(r) = r.wp
        BY <3>2 DEF DataEnd
      <4> QED  BY <1>2, <1>3, <1>4, <3>2, <4>1
    <3> QED  BY <3>1, <3>2
  <2>4. r.wp + s \in 0..QSize /\ r.rp \in 0..QSize /\ r.fill_end \in 0..QSize /\ r.filled + s \in 0..QSize
    BY <1>2, <1>4, <2>3
  <2>5. t \in Rings
    BY <1>1, <2>4 DEF Rings, t
  <2> QED  BY <2>1, <2>2, <2>5 DEF Turns
<1>12. ASSUME NEW i \in 1..n
       PROVE  Stands(t, g, c[i]) /\ Unrolled(t, c[i][1]) = Unrolled(r, b[i][1])
  <2> DEFINE o == b[i][1]
             z == b[i][2]
  <2>1. o \in 0..QSize - 1 /\ z \in Nat /\ z # 0 /\ Lies(r, o, z) /\ h[o] = z
    <3>1. Stands(r, h, b[i]) /\ b[i][2] \in Nat
      BY <1>1, BlockNumbers DEF n
    <3>2. b[i][1] \in 0..QSize - 1
      BY BlockInside DEF n
    <3> QED  BY <3>1, <3>2 DEF Stands
  <2>2. o # r.wp
    <3>1. o \notin Region(r.wp, s)
      BY <1>2, GapIsFree DEF n
    <3>2. r.wp \in Region(r.wp, s)
      BY <1>2 DEF Region
    <3> QED  BY <3>1, <3>2
  <2> HIDE DEF o, z
  <2>3. g[o] = z
    BY <1>8, <2>1, <2>2
  <2>4. Lies(t, o, z)
    BY <1>2, <1>6, <1>9, <2>1 DEF Lies
  <2>5. Unrolled(t, o) = Unrolled(r, o)
    BY <1>6, <1>9 DEF Unrolled
  <2> QED  BY <1>7, <2>1, <2>3, <2>4, <2>5 DEF Stands, o, z
<1>13. Stands(t, g, c[n + 1]) /\ Unrolled(t, c[n + 1][1]) = DataEnd(r)
  <2>1. c[n + 1][1] = r.wp /\ c[n + 1][2] = s
    BY <1>7
  <2>2. Lies(t, r.wp, s)
    BY <1>2, <1>3, <1>6, <1>9 DEF Lies
  <2>3. Unrolled(t, r.wp) = DataEnd(r)
    BY <1>2, <1>3, <1>4, <1>6, <1>9 DEF Unrolled, DataEnd
  <2> QED  BY <1>2, <1>8, <2>1, <2>2, <2>3 DEF Stands
<1>14. \A i \in 1..Len(c) : Stands(t, g, c[i])
  <2>1. \A i \in 1..n + 1 : i \in 1..n \/ i = n + 1
    BY <1>5
  <2> QED  BY <1>7, <1>12, <1>13, <2>1
<1>15. \A i \in 1..n + 1 : Mark(t, c, i) = Mark(r, b, i) /\ Mark(r, b, i) \in Nat
  <2>1. ASSUME NEW i \in 1..n + 1
        PROVE  Mark(t, c, i) = Mark(r, b, i)
    <3>1. CASE i \in 1..n
      <4>1. i <= Len(b) /\ i <= Len(c)
        BY <1>5, <1>7, <3>1 DEF n
      <4> QED  BY <1>12, <3>1, <4>1 DEF Mark
    <3>2. CASE i = n + 1
      <4>1. ~(i <= Len(b)) /\ i <= Len(c)
        BY <1>5, <1>7, <3>2 DEF n
      <4> QED  BY <1>13, <3>2, <4>1 DEF Mark
    <3> QED  BY <1>5, <3>1, <3>2
  <2>2. \A i \in 1..n + 1 : Mark(r, b, i) \in Nat
    BY <1>1, MarkNumber DEF n
  <2> QED  BY <2>1, <2>2
<1>16. Mark(t, c, n + 2) = DataEnd(r) + s /\ Mark(r, b, n + 1) = DataEnd(r)
  <2>1. ~(n + 2 <= Len(c)) /\ ~(n + 1 <= Len(b))
    BY <1>5, <1>7 DEF n
  <2> QED  BY <1>10, <2>1 DEF Mark
<1>17. Follow(t, c)
  <2>1. Mark(t, c, 1) = t.rp
    <3>1. Mark(r, b, 1) = r.rp /\ 1 \in 1..n + 1
      BY <1>1, <1>5 DEF Follow
    <3> QED  BY <1>6, <1>15, <3>1
  <2>2. ASSUME NEW i \in 1..Len(c)
        PROVE  Mark(t, c, i + 1) = Mark(t, c, i) + c[i][2]
    <3>1. CASE i \in 1..n
      <4>1. i \in 1..n + 1 /\ i + 1 \in 1..n + 1
        BY <1>5, <3>1
      <4>2. Mark(r, b, i + 1) = Mark(r, b, i) + b[i][2]
        BY <1>1, <3>1 DEF Follow, n
      <4> QED  BY <1>7, <1>15, <3>1, <4>1, <4>2
    <3>2. CASE i = n + 1
      <4>1. (n + 1) + 1 = n + 2 /\ n + 1 \in 1..n + 1
        BY <1>5
      <4>2. c[n + 1][2] = s
        BY <1>7
      <4> QED  BY <1>15, <1>16, <3>2, <4>1, <4>2
    <3> QED  BY <1>5, <1>7, <3>1, <3>2
  <2>3. ASSUME NEW i \in 1..Len(c) + 1, NEW j \in 1..Len(c) + 1, i <= j
        PROVE  Mark(t, c, i) + (j - i) <= Mark(t, c, j)
    <3>1. CASE j \in 1..n + 1
      <4>1. i \in 1..n + 1
        BY <1>5, <1>7, <2>3, <3>1
      <4>2. Mark(r, b, i) + (j - i) <= Mark(r, b, j)
        BY <1>1, <2>3, <3>1, <4>1 DEF Follow, n
      <4> QED  BY <1>15, <3>1, <4>1, <4>2
    <3>2. CASE j = n + 2 /\ i \in 1..n + 1
      <4>1. n + 1 \in 1..n + 1 /\ i <= n + 1
        BY <1>5, <3>2
      <4>2. Mark(r, b, i) + ((n + 1) - i) <= Mark(r, b, n + 1)
        BY <1>1, <3>2, <4>1 DEF Follow, n
      <4>3. Mark(t, c, i) = Mark(r, b, i) /\ Mark(r, b, i) \in Nat
        BY <1>15, <3>2
      <4>4. \A a, e, k \in Nat : a + ((n + 1) - k) <= e => a + ((n + 2) - k) <= e + s
        BY <1>2, <1>5
      <4>5. i \in Nat
        BY <3>2
      <4> QED  BY <1>10, <1>16, <3>2, <4>2, <4>3, <4>4, <4>5
    <3>3. CASE j = n + 2 /\ i = n + 2
      <4>1. \A a \in Nat : a + ((n + 2) - (n + 2)) <= a
        BY <1>5
      <4>2. Mark(t, c, n + 2) \in Nat
        BY <1>2, <1>10, <1>16
      <4> QED  BY <3>3, <4>1, <4>2
    <3> QED  BY <1>5, <1>7, <2>3, <3>1, <3>2, <3>3
  <2> QED  BY <2>1, <2>2, <2>3 DEF Follow
<1>18. Good(t, g, c)
  BY <1>7, <1>8, <1>11, <1>14, <1>17 DEF Good
<1> QED  BY <1>18 DEF t, g, c

-----------------------------------------------------------------------------
(* The loops over the blocks *)

\* Induction, over a set of numbers.
LEMMA NatSet ==
  ASSUME NEW S, 0 \in S, \A n \in Nat : n \in S => n + 1 \in S
  PROVE  Nat \subseteq S
<1> DEFINE T == Nat \ S
<1> SUFFICES ASSUME T # {} PROVE FALSE
  OBVIOUS
<1> DEFINE R == OpToRel(<, Nat)
<1>1. IsWellFoundedOn(R, Nat)
  BY NatLessThanWellFounded
<1>2. T \subseteq Nat
  OBVIOUS
<1> HIDE DEF T, R
<1>3. PICK x \in T : \A y \in T : ~(<<y, x>> \in R)
  BY <1>1, <1>2, WFMin
<1>4. \A y \in Nat : y < x => <<y, x>> \in R
  BY <1>2 DEF R, OpToRel
<1>5. x \in Nat /\ x \notin S /\ x # 0
  BY DEF T
<1>6. x - 1 \in Nat /\ x - 1 < x /\ (x - 1) + 1 = x
  BY <1>5
<1>7. x - 1 \in S
  BY <1>3, <1>4, <1>6 DEF T
<1> QED  BY <1>5, <1>6, <1>7

\* The ring after one turn of the loop of data_queue_consume_all.
GivenBack(r) == IF HaveData(r) THEN WithoutFirst(r) ELSE r
\* rp and ring after one turn of the loop of data_queue_query.
Pace(a) ==
  LET rp   == a[1] + HeadAt(a[1])
      ring == a[2]
  IN  IF ring # 0 /\ rp = ring THEN <<0, 0>> ELSE <<rp, ring>>

\* The functions defined by recursion exist.
LEMMA DrainedTurns ==
  Drained[0] = q /\ \A n \in 1..QSize : Drained[n] = GivenBack(Drained[n - 1])
<1> DEFINE F(f, m) == f = [n \in 0..m |-> IF n = 0 THEN q ELSE GivenBack(f[n - 1])]
           S == {m \in Nat : \E f : F(f, m)}
<1>1. 0 \in S
  <2> DEFINE f == [n \in 0..0 |-> q]
  <2>1. F(f, 0)
    OBVIOUS
  <2> QED  BY <2>1
<1>2. ASSUME NEW m \in Nat, m \in S
      PROVE  m + 1 \in S
  <2>1. PICK f : F(f, m)
    BY <1>2
  <2> DEFINE g == [n \in 0..m + 1 |-> IF n = m + 1 THEN GivenBack(f[m]) ELSE f[n]]
  <2>2. ASSUME NEW n \in 0..m + 1
        PROVE  g[n] = IF n = 0 THEN q ELSE GivenBack(g[n - 1])
    <3>1. CASE n = m + 1
      <4>1. m \in 0..m + 1 /\ m # m + 1 /\ n - 1 = m /\ n # 0
        BY <3>1
      <4> QED  BY <3>1, <4>1
    <3>2. CASE n # m + 1
      <4>1. n \in 0..m /\ (n # 0 => n - 1 \in 0..m + 1 /\ n - 1 # m + 1)
        BY <3>2
      <4>2. f[n] = IF n = 0 THEN q ELSE GivenBack(f[n - 1])
        BY <2>1, <4>1
      <4> QED  BY <3>2, <4>1, <4>2
    <3> QED  BY <3>1, <3>2
  <2>3. g = [n \in 0..m + 1 |-> g[n]]
    OBVIOUS
  <2> HIDE DEF g
  <2>4. F(g, m + 1)
    BY <2>2, <2>3, Zenon
  <2> QED  BY <2>4
<1>3. \E f : F(f, QSize)
  <2>1. QSize \in S
    BY <1>1, <1>2, NatSet, QueueAssumption
  <2> QED  BY <2>1
<1> DEFINE d == CHOOSE f : F(f, QSize)
<1>4. F(d, QSize)
  BY <1>3
<1>5. Drained = d
  BY DEF Drained, GivenBack
<1> HIDE DEF d
<1>6. d[0] = q /\ \A n \in 1..QSize : d[n] = GivenBack(d[n - 1])
  <2>1. 0 \in 0..QSize /\ \A n \in 1..QSize : n \in 0..QSize /\ n # 0
    BY QueueAssumption
  <2> QED  BY <1>4, <2>1
<1> QED  BY <1>5, <1>6
\* So does the walk of data_queue_query.
LEMMA WalkSteps ==
  Walk[0] = <<q.rp, q.fill_end>> /\ \A n \in 1..QSize : Walk[n] = Pace(Walk[n - 1])
<1> DEFINE F(f, m) == f = [n \in 0..m |-> IF n = 0 THEN <<q.rp, q.fill_end>> ELSE Pace(f[n - 1])]
           S == {m \in Nat : \E f : F(f, m)}
<1>1. 0 \in S
  <2> DEFINE f == [n \in 0..0 |-> <<q.rp, q.fill_end>>]
  <2>1. F(f, 0)
    OBVIOUS
  <2> QED  BY <2>1
<1>2. ASSUME NEW m \in Nat, m \in S
      PROVE  m + 1 \in S
  <2>1. PICK f : F(f, m)
    BY <1>2
  <2> DEFINE g == [n \in 0..m + 1 |-> IF n = m + 1 THEN Pace(f[m]) ELSE f[n]]
  <2>2. ASSUME NEW n \in 0..m + 1
        PROVE  g[n] = IF n = 0 THEN <<q.rp, q.fill_end>> ELSE Pace(g[n - 1])
    <3>1. CASE n = m + 1
      <4>1. m \in 0..m + 1 /\ m # m + 1 /\ n - 1 = m /\ n # 0
        BY <3>1
      <4> QED  BY <3>1, <4>1
    <3>2. CASE n # m + 1
      <4>1. n \in 0..m /\ (n # 0 => n - 1 \in 0..m + 1 /\ n - 1 # m + 1)
        BY <3>2
      <4>2. f[n] = IF n = 0 THEN <<q.rp, q.fill_end>> ELSE Pace(f[n - 1])
        BY <2>1, <4>1
      <4> QED  BY <3>2, <4>1, <4>2
    <3> QED  BY <3>1, <3>2
  <2>3. g = [n \in 0..m + 1 |-> g[n]]
    OBVIOUS
  <2> HIDE DEF g
  <2>4. F(g, m + 1)
    BY <2>2, <2>3, Zenon
  <2> QED  BY <2>4
<1>3. \E f : F(f, QSize)
  <2>1. QSize \in S
    BY <1>1, <1>2, NatSet, QueueAssumption
  <2> QED  BY <2>1
<1> DEFINE d == CHOOSE f : F(f, QSize)
<1>4. F(d, QSize)
  BY <1>3
<1>5. Walk = d
  BY DEF Walk, Pace
<1> HIDE DEF d
<1>6. d[0] = <<q.rp, q.fill_end>> /\ \A n \in 1..QSize : d[n] = Pace(d[n - 1])
  <2>1. 0 \in 0..QSize /\ \A n \in 1..QSize : n \in 0..QSize /\ n # 0
    BY QueueAssumption
  <2> QED  BY <1>4, <2>1
<1> QED  BY <1>5, <1>6

\* data_queue_consume_all gives back the blocks one after the other and then
\* turns no more; data_queue_query passes the same blocks.
LEMMA Emptied ==
  ASSUME Good(q, head, blocks)
  PROVE  /\ Len(blocks) \in 0..QSize
         /\ \A k \in 0..Len(blocks) :
              /\ \E b : Good(Drained[k], head, b) /\ Len(b) = Len(blocks) - k
              /\ Walk[k] = <<Drained[k].rp, Drained[k].fill_end>>
              /\ Drained[k].wp = q.wp
         /\ \A k \in 0..QSize : k > Len(blocks) => Drained[k] = Drained[Len(blocks)]
<1> DEFINE n == Len(blocks)
           B(k) == \E b : Good(Drained[k], head, b) /\ Len(b) = n - k
           P(k) == /\ B(k)
                   /\ Walk[k] = <<Drained[k].rp, Drained[k].fill_end>>
                   /\ Drained[k].wp = q.wp
<1>1. n \in 0..QSize /\ QSize \in Nat
  <2>1. n \in Nat
    BY BlockNumbers DEF Good
  <2>2. n <= q.filled
    BY FirstBlock
  <2>3. q.filled \in 0..QSize
    BY RingNumbers DEF Good, Turns
  <2> QED  BY <2>1, <2>2, <2>3, QueueAssumption
<1>2. P(0)
  <2>1. n - 0 = n
    BY <1>1
  <2>2. Drained[0] = q /\ Walk[0] = <<q.rp, q.fill_end>>
    BY DrainedTurns, WalkSteps
  <2> QED  BY <2>1, <2>2
<1> HIDE DEF n
<1>3. ASSUME NEW k \in 0..n - 1, P(k)
      PROVE  P(k + 1)
  <2>1. k + 1 \in 1..QSize /\ (k + 1) - 1 = k
    BY <1>1
  <2>2. Drained[k + 1] = GivenBack(Drained[k]) /\ Walk[k + 1] = Pace(Walk[k])
    BY <2>1, DrainedTurns, WalkSteps
  <2> DEFINE r == Drained[k]
  <2>3. PICK b : Good(r, head, b) /\ Len(b) = n - k
    BY <1>3
  <2>4. b # <<>>
    <3>1. n - k # 0
      BY <1>1
    <3> QED  BY <2>3, <3>1
  <2> HIDE DEF r
  <2>5. HaveData(r)
    BY <2>3, <2>4, FirstBlock
  <2>6. /\ Good(WithoutFirst(r), head, Tail(b)) /\ WithoutFirst(r).wp = r.wp
        /\ Len(Tail(b)) = Len(b) - 1 /\ HeadAt(r.rp) \in 1..QSize
        /\ r.fill_end # 0 => r.rp + HeadAt(r.rp) <= r.fill_end
    BY <2>3, <2>4, GoodFirst
  <2>7. Drained[k + 1] = WithoutFirst(r)
    BY <2>2, <2>5 DEF GivenBack, r
  <2>8. Len(Tail(b)) = n - (k + 1)
    BY <1>1, <2>3, <2>6
  <2>9. Walk[k + 1] = <<WithoutFirst(r).rp, WithoutFirst(r).fill_end>>
    <3> DEFINE e == r.rp + HeadAt(r.rp)
    <3>1. /\ WithoutFirst(r).rp = (IF r.fill_end # 0 /\ e >= r.fill_end THEN 0 ELSE e)
          /\ WithoutFirst(r).fill_end = (IF r.fill_end # 0 /\ e >= r.fill_end THEN 0 ELSE r.fill_end)
      BY DEF WithoutFirst
    <3>2. Walk[k] = <<r.rp, r.fill_end>>
      BY <1>3 DEF r
    <3>3. Pace(<<r.rp, r.fill_end>>) = IF r.fill_end # 0 /\ e = r.fill_end THEN <<0, 0>> ELSE <<e, r.fill_end>>
      BY DEF Pace
    <3>4. r.rp \in Int /\ r.fill_end \in Int /\ HeadAt(r.rp) \in Int
      BY <2>3, <2>6, RingNumbers DEF Good, Turns
    <3>5. r.fill_end # 0 => (e = r.fill_end <=> e >= r.fill_end)
      BY <2>6, <3>4
    <3> HIDE DEF e
    <3> QED  BY <2>2, <3>1, <3>2, <3>3, <3>5
  <2>10. r.wp = q.wp
    BY <1>3 DEF r
  <2> QED  BY <2>6, <2>7, <2>8, <2>9, <2>10
<1> HIDE DEF P
<1>4. \A k \in 0..n : P(k)
  <2> DEFINE S == {k \in Nat : k <= n => P(k)}
  <2>1. 0 \in S
    BY <1>2
  <2>2. ASSUME NEW k \in Nat, k \in S
        PROVE  k + 1 \in S
    <3>1. k + 1 <= n => k \in 0..n - 1 /\ k <= n
      BY <1>1
    <3> QED  BY <1>3, <2>2, <3>1
  <2>3. Nat \subseteq S
    BY <2>1, <2>2, NatSet
  <2>4. \A k \in 0..n : k \in Nat /\ k <= n
    BY <1>1
  <2> QED  BY <2>3, <2>4
<1>5. ~HaveData(Drained[n])
  <2>1. n \in 0..n /\ n - n = 0
    BY <1>1
  <2>2. PICK b : Good(Drained[n], head, b) /\ Len(b) = 0
    BY <1>4, <2>1 DEF P
  <2>3. b = <<>>
    BY <2>2, EmptySeq DEF Good
  <2> QED  BY <2>2, <2>3, FirstBlock
<1>6. \A k \in 0..QSize : k > n => Drained[k] = Drained[n]
  <2> DEFINE S == {k \in Nat : n + k <= QSize => Drained[n + k] = Drained[n]}
  <2>1. 0 \in S
    <3>1. n + 0 = n
      BY <1>1
    <3> QED  BY <3>1
  <2>2. ASSUME NEW k \in Nat, k \in S
        PROVE  k + 1 \in S
    <3>1. SUFFICES ASSUME n + (k + 1) <= QSize
                   PROVE  Drained[n + (k + 1)] = Drained[n]
      OBVIOUS
    <3>2. n + k <= QSize /\ n + (k + 1) \in 1..QSize /\ (n + (k + 1)) - 1 = n + k
      BY <1>1, <3>1
    <3>3. Drained[n + (k + 1)] = GivenBack(Drained[n + k])
      BY <3>2, DrainedTurns
    <3>4. Drained[n + k] = Drained[n]
      BY <2>2, <3>2
    <3> QED  BY <1>5, <3>3, <3>4 DEF GivenBack
  <2>3. Nat \subseteq S
    BY <2>1, <2>2, NatSet
  <2>4. ASSUME NEW k \in 0..QSize, k > n
        PROVE  Drained[k] = Drained[n]
    <3>1. k - n \in Nat /\ n + (k - n) = k /\ k <= QSize
      BY <1>1, <2>4
    <3>2. k - n \in S
      BY <2>3, <3>1
    <3> HIDE DEF S
    <3>3. n + (k - n) <= QSize => Drained[n + (k - n)] = Drained[n]
      BY <3>2 DEF S
    <3> QED  BY <3>1, <3>3
  <2> QED  BY <2>4
<1> QED  BY <1>1, <1>4, <1>6 DEF P, n

\* data_queue_query counts the blocks that were not read.
LEMMA QueryCounts ==
  ASSUME Good(q, head, blocks)
  PROVE  data_queue_query(Len(blocks))
<1> DEFINE n == Len(blocks)
<1>1. n \in Nat /\ n \in 0..n /\ n - n = 0
  <2>1. n \in Nat
    BY BlockNumbers DEF Good
  <2> QED  BY <2>1
<1>2. ASSUME NEW k \in 0..n
      PROVE  /\ Walk[k] = <<Drained[k].rp, Drained[k].fill_end>> /\ Drained[k].wp = q.wp
             /\ HaveData(Drained[k]) <=> k # n
  <2>1. PICK b : Good(Drained[k], head, b) /\ Len(b) = n - k
    BY Emptied
  <2>2. b = <<>> <=> Len(b) = 0
    BY <2>1, EmptySeq DEF Good
  <2>3. Len(b) = 0 <=> k = n
    BY <1>1, <2>1
  <2>4. HaveData(Drained[k]) <=> k # n
    BY <2>1, <2>2, <2>3, FirstBlock
  <2> QED  BY <2>4, Emptied
<1> HIDE DEF n
<1>3. Walk[n] = <<q.wp, 0>>
  BY <1>1, <1>2 DEF HaveData
<1>4. ASSUME NEW m \in 0..n - 1
      PROVE  Walk[m] # <<q.wp, 0>>
  <2>1. m \in 0..n /\ m # n
    BY <1>1
  <2>2. Drained[m].wp # Drained[m].rp \/ Drained[m].fill_end # 0
    BY <1>2, <2>1 DEF HaveData
  <2>3. Walk[m] = <<Drained[m].rp, Drained[m].fill_end>> /\ Drained[m].wp = q.wp
    BY <1>2, <2>1
  <2> QED  BY <2>2, <2>3
<1> QED  BY <1>3, <1>4 DEF data_queue_query, n

\* data_queue_consume_all leaves nothing and stops at no block but one that
\* fills the buffer.
LEMMA AllGone ==
  ASSUME Good(q, head, blocks)
  PROVE  /\ Good(Drained[QSize], head, <<>>)
         /\ get_available_size(Drained[QSize]) >= get_available_size(q)
         /\ \A k \in 0..QSize : HaveData(Drained[k]) =>
              HeadAt(Drained[k].rp) \in 1..QSize - 1 \/ HeadAt(0) = QSize
<1> DEFINE n == Len(blocks)
<1>1. n \in 0..QSize /\ QSize \in Nat /\ n \in 0..n /\ n - n = 0 /\ QSize \in 0..QSize /\ (QSize > n \/ QSize = n)
  <2>1. n \in 0..QSize /\ QSize \in Nat
    BY Emptied, QueueAssumption
  <2> QED  BY <2>1
<1>2. Drained[QSize] = Drained[n]
  BY <1>1, Emptied
<1>3. PICK b : Good(Drained[n], head, b) /\ Len(b) = 0
  BY <1>1, Emptied
<1>4. b = <<>>
  BY <1>3, EmptySeq DEF Good
<1>5. Good(Drained[n], head, <<>>) /\ ~Lap(Drained[n]) /\ Drained[n].wp = q.wp /\ ~HaveData(Drained[n])
  BY <1>1, <1>3, <1>4, FirstBlock, Emptied
<1>6. get_available_size(Drained[n]) >= get_available_size(q)
  <2>1. Turns(q) /\ Turns(Drained[n]) /\ q.wp \in Int /\ QSize \in Int
    BY <1>5, RingNumbers DEF Good, Turns
  <2>2. get_available_size(Drained[n]) = QSize - q.wp
    BY <1>5, <2>1, Gap
  <2>3. get_available_size(q) \in Nat /\ q.wp + get_available_size(q) <= QSize
    BY <2>1, Gap
  <2> QED  BY <2>1, <2>2, <2>3
<1>7. ASSUME NEW k \in 0..QSize, HaveData(Drained[k])
      PROVE  HeadAt(Drained[k].rp) \in 1..QSize - 1 \/ HeadAt(0) = QSize
  <2>1. k \in 0..n
    <3>1. k > n => Drained[k] = Drained[n]
      BY Emptied
    <3>2. ~(k > n)
      BY <1>5, <1>7, <3>1
    <3> QED  BY <1>1, <3>2
  <2> DEFINE r == Drained[k]
  <2>2. PICK c : Good(r, head, c)
    BY <2>1, Emptied
  <2> HIDE DEF r
  <2>3. c # <<>>
    BY <1>7, <2>2, FirstBlock DEF r
  <2>4. HeadAt(r.rp) \in 1..QSize /\ r.rp + HeadAt(r.rp) <= QSize
    BY <2>2, <2>3, GoodFirst
  <2>5. r.rp \in Int /\ r.rp >= 0
    BY <2>2, RingNumbers DEF Good, Turns
  <2>6. HeadAt(r.rp) \in 1..QSize - 1 \/ (HeadAt(r.rp) = QSize /\ r.rp = 0)
    BY <1>1, <2>4, <2>5
  <2> QED  BY <2>6 DEF r
<1> QED  BY <1>2, <1>5, <1>6, <1>7

\* data_queue_read_lock finds the oldest block by counting back.
LEMMA CountedBack ==
  ASSUME NEW r, Turns(r)
  PROVE  FirstUnread(r) = r.rp
<1>1. r \in Rings /\ (Lap(r) => r.wp <= r.rp /\ r.rp < r.fill_end) /\ (~Lap(r) => r.rp <= r.wp)
      /\ r.filled = DataEnd(r) - r.rp
  BY DEF Turns
<1>2. /\ r.wp \in Nat /\ r.rp \in Nat /\ r.fill_end \in Nat
  BY <1>1, RingNumbers
<1>3. CASE Lap(r)
  BY <1>1, <1>2, <1>3 DEF FirstUnread, DataEnd
<1>4. CASE ~Lap(r)
  BY <1>1, <1>2, <1>4 DEF FirstUnread, DataEnd
<1> QED  BY <1>3, <1>4

-----------------------------------------------------------------------------
(* The steps on the ring *)

\* The loop of data_queue_get_buffer keeps the blocks apart from what it grants.
LEMMA GetRing ==
  ASSUME RingInv, ~aborted, NEW size \in Nat, size > HeadSize, size <= QSize,
         NEW u, NEW b, GetLoop(size, u, b), need' = size
  PROVE  Good(q, head, blocks)' /\ Calls'
<1>1. /\ Good(q, head, blocks) /\ Calls /\ Types /\ head \in [0..QSize - 1 -> Nat]
  BY DEF RingInv, DataInv, Good
<1>2. UNCHANGED <<cur_rp, aborted, blocks>> /\ need' = size
  BY DEF GetLoop
<1>3. ASSUME NEW place \in {"out", "wait", "write"}, To("writer", place), Good(q', head', blocks),
             q'.rp = q.rp \/ blocks = <<>>,
             place = "write" => get_available_size(q') >= size
      PROVE  Good(q, head, blocks)' /\ Calls'
  <2>1. Good(q, head, blocks)'
    BY <1>2, <1>3
  <2>2. pc'["writer"] = place /\ pc'["reader"] = pc["reader"]
    BY <1>1, <1>3, ThreadNames, Moves DEF Others
  <2>3. ~aborted'
    BY <1>2
  <2>4. pc'["reader"] = "read" => blocks' # <<>> /\ cur_rp' = q'.rp
    BY <1>1, <1>2, <1>3, <2>2 DEF Calls
  <2>5. pc'["writer"] \in Waiting \cup {"write"} => need' \in Nat /\ need' > HeadSize /\ need' <= QSize
    BY <1>2
  <2>6. pc'["writer"] = "write" => get_available_size(q') >= need'
    BY <1>2, <1>3, <2>2
  <2>7. pc'["writer"] # "refused"
    BY <2>2
  <2> QED  BY <2>1, <2>3, <2>4, <2>5, <2>6, <2>7 DEF Calls
<1>4. CASE quit
  <2>1. To("writer", "out") /\ UNCHANGED <<q, head>>
    BY <1>4 DEF GetLoop
  <2> QED  BY <1>1, <1>3, <2>1
<1>5. CASE ~quit
  <2>1. q' = Turned(q, size)
    BY <1>5 DEF GetLoop
  <2>2. Good(q', head, blocks)
    BY <1>1, <2>1, GoodTurned
  <2>3. q'.rp = q.rp \/ blocks = <<>>
    <3>1. CASE q' = q
      BY <3>1
    <3>2. CASE q.wp = q.rp /\ q.fill_end = 0
      BY <1>1, <3>2, FirstBlock DEF HaveData
    <3>3. CASE q' = [q EXCEPT !.fill_end = q.wp, !.wp = 0]
      <4>1. q \in Rings
        BY <1>1 DEF Good, Turns
      <4> QED  BY <3>3, <4>1 DEF Rings
    <3> QED  BY <2>1, <3>1, <3>2, <3>3 DEF Turned
  <2>4. CASE get_available_size(q') >= size
    <3>1. /\ To("writer", "write")
          /\ head' = [o \in DOMAIN head |-> IF o \in q'.wp..q'.wp + size - 1 THEN 0 ELSE head[o]]
      BY <1>5, <2>4 DEF GetLoop
    <3>2. head' \in [0..QSize - 1 -> Nat]
      BY <1>1, <3>1
    <3>3. ASSUME NEW i \in 1..Len(blocks)
          PROVE  head'[blocks[i][1]] = head[blocks[i][1]]
      <4>1. get_available_size(q') \in Nat /\ size <= get_available_size(q')
        <5>1. get_available_size(q') \in Nat
          BY <2>2, Gap DEF Good
        <5> QED  BY <2>4, <5>1
      <4>2. blocks[i][1] \notin Region(q'.wp, size)
        BY <2>2, <4>1, GapIsFree
      <4>3. blocks[i][1] \in 0..QSize - 1
        BY <1>1, BlockInside
      <4> QED  BY <1>1, <3>1, <4>2, <4>3 DEF Region
    <3>4. Good(q', head', blocks)
      BY <2>2, <3>2, <3>3 DEF Good, Stands
    <3> QED  BY <1>3, <2>3, <2>4, <3>1, <3>4
  <2>5. CASE ~(get_available_size(q') >= size)
    <3>1. To("writer", "wait") /\ head' = head
      BY <1>5, <2>5 DEF GetLoop
    <3> QED  BY <1>3, <2>2, <2>3, <3>1
  <2> QED  BY <2>4, <2>5
<1> QED  BY <1>4, <1>5

\* data_queue_send_buffer: what was granted still fits and becomes the last block.
LEMMA SendRing ==
  ASSUME RingInv, ~aborted, NEW n \in Sizes, data_queue_send_buffer(n)
  PROVE  Good(q, head, blocks)' /\ Calls'
<1> DEFINE s == n + HeadSize
<1>1. /\ Good(q, head, blocks) /\ Turns(q) /\ Calls /\ Types /\ blocks \in Seq(Nat \X Nat)
  BY DEF RingInv, DataInv, Good
<1>2. /\ pc["writer"] = "write" /\ s <= need /\ UNCHANGED <<need, cur_rp, aborted>>
  BY DEF data_queue_send_buffer
<1>3. /\ need \in Nat /\ get_available_size(q) >= need /\ get_available_size(q) \in Nat
  BY <1>1, <1>2, Gap DEF Calls
<1>4. s \in Nat /\ s # 0 /\ s <= get_available_size(q)
  <2>1. n \in Nat /\ n # 0 /\ HeadSize \in Nat
    BY QueueAssumption
  <2> QED  BY <1>2, <1>3, <2>1
<1> HIDE DEF s
<1>5. q.wp \in Int /\ q.filled \in Int
  BY <1>1, RingNumbers DEF Turns
<1>6. /\ head' = [head EXCEPT ![q.wp] = s]
      /\ q' = [q EXCEPT !.wp = q.wp + s, !.filled = q.filled + s]
      /\ blocks' = Append(blocks, <<q.wp, s>>)
      /\ To("writer", "out")
  <2>1. get_available_size(q) >= n + HeadSize
    BY <1>3, <1>4 DEF s
  <2>2. /\ head' = [head EXCEPT ![q.wp] = n + HeadSize]
        /\ q' = [q EXCEPT !.wp = @ + n + HeadSize, !.filled = @ + n + HeadSize]
        /\ blocks' = Append(blocks, <<q.wp, n + HeadSize>>)
        /\ To("writer", "out")
    BY <2>1 DEF data_queue_send_buffer
  <2>3. q.wp + n + HeadSize = q.wp + s /\ q.filled + n + HeadSize = q.filled + s
    BY <1>5, QueueAssumption DEF s
  <2> QED  BY <2>2, <2>3 DEF s
<1>7. Good(q, head, blocks)'
  BY <1>1, <1>4, <1>6, GoodSent
<1>8. pc'["writer"] = "out" /\ pc'["reader"] = pc["reader"]
  BY <1>1, <1>6, ThreadNames, Moves DEF Others
<1>9. blocks' # <<>>
  BY <1>1, <1>6, AppendProperties
<1>10. q'.rp = q.rp
  BY <1>1, <1>6 DEF Turns, Rings
<1> QED  BY <1>1, <1>2, <1>7, <1>8, <1>9, <1>10 DEF Calls, Waiting

\* The loop of data_queue_read_lock finds the oldest block.
LEMMA ReadRing ==
  ASSUME RingInv, ~aborted, NEW u, NEW b, ReadLoop(u, b)
  PROVE  Good(q, head, blocks)' /\ Calls'
<1>1. /\ Good(q, head, blocks) /\ Turns(q) /\ Calls /\ Types
  BY DEF RingInv, DataInv, Good
<1>2. UNCHANGED <<q, head, need, blocks>>
  BY DEF ReadLoop
<1>3. Good(q, head, blocks)'
  BY <1>1, <1>2
<1>4. ASSUME NEW place \in {"out", "wait", "read"}, To("reader", place), ~aborted',
             place = "read" => blocks # <<>> /\ cur_rp' = q.rp
      PROVE  Calls'
  <2>1. pc'["reader"] = place /\ pc'["writer"] = pc["writer"]
    BY <1>1, <1>4, ThreadNames, Moves DEF Others
  <2> QED  BY <1>1, <1>2, <1>4, <2>1 DEF Calls
<1>5. CASE quit
  <2>1. To("reader", "out") /\ UNCHANGED aborted
    BY <1>5 DEF ReadLoop
  <2> QED  BY <1>3, <1>4, <2>1
<1>6. CASE ~quit /\ q.filled = 0
  <2>1. To("reader", "wait") /\ UNCHANGED aborted
    BY <1>6 DEF ReadLoop
  <2> QED  BY <1>3, <1>4, <2>1
<1>7. CASE ~quit /\ q.filled # 0
  <2>1. To("reader", "read") /\ cur_rp' = FirstUnread(q) /\ aborted' = (HeadAt(cur_rp') \notin 1..QSize)
    BY <1>7 DEF ReadLoop
  <2>2. blocks # <<>>
    BY <1>1, <1>7, FirstBlock
  <2>3. cur_rp' = q.rp /\ HeadAt(q.rp) \in 1..QSize
    BY <1>1, <2>1, <2>2, CountedBack, GoodFirst
  <2>4. ~aborted'
    BY <2>1, <2>3
  <2> QED  BY <1>3, <1>4, <2>1, <2>2, <2>3, <2>4
<1> QED  BY <1>5, <1>6, <1>7

\* data_queue_peek_unlock keeps the oldest block, data_queue_read_unlock gives it back.
LEMMA ReleaseRing ==
  ASSUME RingInv, ~aborted, Release
  PROVE  Good(q, head, blocks)' /\ Calls'
<1>1. /\ Good(q, head, blocks) /\ Turns(q) /\ Calls /\ Types
  BY DEF RingInv, DataInv, Good
<1>2. /\ To("reader", "out") /\ pc["reader"] = "read" /\ UNCHANGED <<head, need, cur_rp>>
  BY DEF Release, data_queue_peek_unlock, data_queue_read_unlock
<1>3. pc'["reader"] = "out" /\ pc'["writer"] = pc["writer"]
  BY <1>1, <1>2, ThreadNames, Moves DEF Others
<1>4. CASE data_queue_peek_unlock
  <2>1. UNCHANGED <<q, aborted, blocks>>
    BY <1>4 DEF data_queue_peek_unlock
  <2> QED  BY <1>1, <1>2, <1>3, <2>1 DEF Calls
<1>5. CASE data_queue_read_unlock
  <2>1. blocks # <<>>
    BY <1>1, <1>2 DEF Calls
  <2>2. HaveData(q)
    BY <1>1, <2>1, FirstBlock
  <2>3. aborted' = (HeadAt(q.rp) \notin 1..QSize) /\ q' = WithoutFirst(q) /\ blocks' = Tail(blocks)
    BY <1>5, <2>2 DEF data_queue_read_unlock
  <2>4. /\ Good(WithoutFirst(q), head, Tail(blocks)) /\ HeadAt(q.rp) \in 1..QSize
        /\ get_available_size(WithoutFirst(q)) >= get_available_size(q)
    BY <1>1, <2>1, GoodFirst
  <2>5. Good(q, head, blocks)' /\ ~aborted'
    BY <1>2, <2>3, <2>4
  <2>6. pc["writer"] = "write" => get_available_size(q') >= need
    <3>1. Turns(WithoutFirst(q))
      BY <2>4 DEF Good
    <3>2. get_available_size(WithoutFirst(q)) \in Nat /\ get_available_size(q) \in Nat
      BY <1>1, <3>1, Gap
    <3> QED  BY <1>1, <2>3, <2>4, <3>2 DEF Calls
  <2> QED  BY <1>1, <1>2, <1>3, <2>5, <2>6 DEF Calls
<1> QED  BY <1>4, <1>5 DEF Release

\* data_queue_consume_all stops only at a block that fills the buffer.
LEMMA ConsumeRing ==
  ASSUME RingInv, ~aborted, data_queue_consume_all
  PROVE  Good(q, head, blocks)' /\ Calls'
<1>1. /\ Good(q, head, blocks) /\ Turns(q) /\ Calls /\ Types
  BY DEF RingInv, DataInv, Good
<1>2. /\ pc["reader"] = "out" /\ q' = Drained[QSize] /\ blocks' = <<>> /\ UNCHANGED <<head, pc, need, cur_rp>>
      /\ aborted' = (\E n \in 0..QSize : /\ HaveData(Drained[n])
                                         /\ HeadAt(Drained[n].rp) \notin 1..QSize - 1)
  BY DEF data_queue_consume_all
<1>3. /\ Good(Drained[QSize], head, <<>>)
      /\ get_available_size(Drained[QSize]) >= get_available_size(q)
      /\ \A k \in 0..QSize : HaveData(Drained[k]) =>
           HeadAt(Drained[k].rp) \in 1..QSize - 1 \/ HeadAt(0) = QSize
  BY <1>1, AllGone
<1>4. Good(q, head, blocks)'
  BY <1>2, <1>3
<1>5. aborted' => HeadAt(0) = QSize
  BY <1>2, <1>3
<1>6. HeadAt(0)' = HeadAt(0)
  BY <1>2 DEF HeadAt
<1>7. pc["writer"] = "write" => get_available_size(q') >= need
  <2>1. Turns(Drained[QSize])
    BY <1>3 DEF Good
  <2>2. get_available_size(Drained[QSize]) \in Nat /\ get_available_size(q) \in Nat
    BY <1>1, <2>1, Gap
  <2> QED  BY <1>1, <1>2, <1>3, <2>2 DEF Calls
<1> QED  BY <1>1, <1>2, <1>4, <1>5, <1>6, <1>7 DEF Calls

\* The other steps leave the ring alone.
LEMMA WaitRing ==
  ASSUME RingInv, ~aborted, NEW t \in Threads, SeeBit(t) \/ ClearBit(t)
  PROVE  Good(q, head, blocks)' /\ Calls'
<1>1. /\ Good(q, head, blocks) /\ Calls /\ Types
  BY DEF RingInv, DataInv
<1>2. PICK place \in {"seen", "cleared"} :
        /\ To(t, place) /\ pc[t] \in Waiting /\ UNCHANGED <<q, head, need, cur_rp, aborted, blocks>>
  BY DEF SeeBit, ClearBit, Waiting
<1>3. pc'[t] = place /\ \A s \in Threads \ {t} : pc'[s] = pc[s]
  BY <1>1, <1>2, Moves DEF Others
<1>4. pc'["writer"] = pc["writer"] \/ (pc["writer"] \in Waiting /\ pc'["writer"] \in Waiting)
  BY <1>2, <1>3, ThreadNames DEF Waiting
<1>5. pc'["reader"] = "read" => pc["reader"] = "read"
  BY <1>2, <1>3, ThreadNames
<1>6. ~aborted'
  BY <1>2
<1> QED  BY <1>1, <1>2, <1>4, <1>5, <1>6 DEF Calls, Waiting

\* data_queue_wakeup does not touch the ring.
LEMMA WakerRing ==
  ASSUME RingInv, ~aborted, Waker
  PROVE  Good(q, head, blocks)' /\ Calls'
<1>1. /\ Good(q, head, blocks) /\ Calls /\ Types
  BY DEF RingInv, DataInv
<1>2. PICK place : To("waker", place) /\ UNCHANGED <<q, head, need, cur_rp, aborted, blocks>>
  BY DEF Waker, data_queue_wakeup, WakerRelock, UntilNoUser
<1>3. pc'["writer"] = pc["writer"] /\ pc'["reader"] = pc["reader"]
  BY <1>1, <1>2, ThreadNames, Moves DEF Others
<1> QED  BY <1>1, <1>2, <1>3 DEF Calls

\* A writer gets a buffer, waits for one, sends it or gives it back.
LEMMA WriterRing ==
  ASSUME RingInv, ~aborted, Writer
  PROVE  Good(q, head, blocks)' /\ Calls'
<1>1. /\ Good(q, head, blocks) /\ Calls /\ Types
  BY DEF RingInv, DataInv
<1>2. ASSUME NEW n \in Sizes, data_queue_get_buffer(n)
      PROVE  Good(q, head, blocks)' /\ Calls'
  <2>1. n + HeadSize \in Nat /\ n + HeadSize > HeadSize
    BY QueueAssumption
  <2>2. n + HeadSize <= QSize /\ need' = n + HeadSize /\ GetLoop(n + HeadSize, user, event)
    BY <1>2 DEF data_queue_get_buffer
  <2> QED  BY <2>1, <2>2, GetRing
<1>3. CASE WriterRelock
  <2>1. need' = need /\ GetLoop(need, user - 1, event \cup {"free"})
    BY <1>3 DEF WriterRelock
  <2>2. need \in Nat /\ need > HeadSize /\ need <= QSize
    BY <1>1, <1>3 DEF WriterRelock, Calls, Waiting
  <2> QED  BY <2>1, <2>2, GetRing
<1>4. CASE SendNothing
  <2>1. To("writer", "out") /\ UNCHANGED <<q, head, need, cur_rp, aborted, blocks>>
    BY <1>4 DEF SendNothing
  <2>2. pc'["writer"] = "out" /\ pc'["reader"] = pc["reader"]
    BY <1>1, <2>1, ThreadNames, Moves DEF Others
  <2> QED  BY <1>1, <2>1, <2>2 DEF Calls, Waiting
<1> QED  BY <1>2, <1>3, <1>4, SendRing DEF Writer, Send

-----------------------------------------------------------------------------
LEMMA RingNextInv == RingInv /\ [Next]_vars => RingInv'
<1> SUFFICES ASSUME RingInv, [Next]_vars
             PROVE  RingInv'
  OBVIOUS
<1>1. DataInv'
  BY DataNextInv DEF RingInv
<1>2. CASE Next
  <2>1. CASE Reader
    BY <1>1, <1>2, <2>1, ReadRing, ReleaseRing, ConsumeRing
       DEF Next, Reader, data_queue_read_lock, ReaderRelock, RingInv
  <2> QED  BY <1>1, <1>2, <2>1, WaitRing, WriterRing, WakerRing DEF Next, RingInv
<1>3. CASE UNCHANGED vars
  <2>1. UNCHANGED <<q, head, pc, need, cur_rp, aborted, blocks>> /\ HeadAt(0)' = HeadAt(0)
    BY <1>3 DEF vars, HeadAt
  <2>2. Calls'
    BY <2>1 DEF RingInv, Calls
  <2>3. Good(q, head, blocks)'
    BY <2>1 DEF RingInv
  <2> QED  BY <1>1, <2>2, <2>3 DEF RingInv
<1> QED  BY <1>2, <1>3

LEMMA RingInitInv == Init => RingInv
<1> SUFFICES ASSUME Init
             PROVE  RingInv
  OBVIOUS
<1>1. /\ q = [wp |-> 0, rp |-> 0, fill_end |-> 0, filled |-> 0]
      /\ head = [o \in 0..QSize - 1 |-> 0] /\ blocks = <<>> /\ aborted = FALSE
      /\ pc["writer"] = "out" /\ pc["reader"] = "out"
  BY ThreadNames DEF Init
<1>2. /\ q \in Rings /\ q.wp = 0 /\ q.rp = 0 /\ q.fill_end = 0 /\ q.filled = 0
      /\ head \in [0..QSize - 1 -> Nat]
  <2>1. 0 \in 0..QSize
    BY QueueAssumption
  <2> QED  BY <1>1, <2>1 DEF Rings
<1>3. Turns(q)
  BY <1>2 DEF Turns, DataEnd, Lap
<1>4. Len(blocks) = 0 /\ blocks \in Seq(Nat \X Nat) /\ \A i \in 1..Len(blocks) : FALSE
  BY <1>1
<1>5. Follow(q, blocks)
  <2>1. Mark(q, blocks, 1) = 0
    BY <1>2, <1>4 DEF Mark, DataEnd, Lap
  <2>2. \A i, j \in 1..0 + 1 : i = 1 /\ j = 1
    OBVIOUS
  <2>3. 0 + (1 - 1) <= 0
    OBVIOUS
  <2> QED  BY <1>2, <1>4, <2>1, <2>2, <2>3 DEF Follow
<1>6. Good(q, head, blocks)
  BY <1>2, <1>3, <1>4, <1>5 DEF Good
<1>7. Calls
  BY <1>1 DEF Calls, Waiting
<1> QED  BY <1>6, <1>7, DataInitInv DEF RingInv

\* The invariant gives each property.
LEMMA RingReadsOldest == RingInv => ReadsOldest
<1> SUFFICES ASSUME RingInv
             PROVE  ReadsOldest
  OBVIOUS
<1>1. /\ Good(q, head, blocks) /\ Turns(q) /\ Calls /\ head \in [0..QSize - 1 -> Nat]
  BY DEF RingInv, Good
<1>2. pc["reader"] = "read" => blocks # <<>> /\ blocks[1] = <<cur_rp, HeadAt(cur_rp)>>
  <2>1. SUFFICES ASSUME pc["reader"] = "read"
                 PROVE  blocks # <<>> /\ blocks[1] = <<cur_rp, HeadAt(cur_rp)>>
    OBVIOUS
  <2>2. blocks # <<>> /\ cur_rp = q.rp
    BY <1>1, <2>1 DEF Calls
  <2>3. 1 \in 1..Len(blocks) /\ blocks[1][1] = q.rp
    BY <1>1, <2>2, FirstBlock
  <2>4. blocks[1][1] \in 0..QSize - 1 /\ blocks[1] = <<blocks[1][1], head[blocks[1][1]]>>
    <3>1. Good(q, head, blocks)
      BY <1>1
    <3> QED  BY <2>3, <3>1, BlockInside
  <2>5. HeadAt(cur_rp) = head[cur_rp]
    BY <1>1, <2>2, <2>3, <2>4 DEF HeadAt
  <2> QED  BY <2>2, <2>3, <2>4, <2>5
<1>3. (HaveData(q) <=> blocks # <<>>) /\ (q.filled = 0 <=> blocks = <<>>)
  BY <1>1, FirstBlock
<1>4. data_queue_query(Len(blocks))
  BY <1>1, QueryCounts
<1> QED  BY <1>1, <1>2, <1>3, <1>4 DEF ReadsOldest, Calls

\* The gap behind the data is what a writer is granted.
LEMMA RingGrants == RingInv => GrantIsFree
<1> SUFFICES ASSUME RingInv
             PROVE  GrantIsFree
  OBVIOUS
<1>1. /\ Good(q, head, blocks) /\ Turns(q) /\ Calls /\ q \in Rings /\ blocks \in Seq(Nat \X Nat)
  BY DEF RingInv, Good, Turns
<1>2. /\ q.wp \in Int /\ q.wp >= 0 /\ QSize \in Nat /\ HeadSize \in Nat
      /\ get_available_size(q) \in Nat /\ q.wp + get_available_size(q) <= QSize
  BY <1>1, RingNumbers, Gap, QueueAssumption
<1>3. ASSUME pc["writer"] = "write"
      PROVE  /\ q.wp + need <= QSize
             /\ \A i \in DOMAIN blocks :
                  Region(q.wp, need) \cap Region(blocks[i][1], blocks[i][2]) = {}
  <2>1. need \in Nat /\ need <= get_available_size(q)
    BY <1>1, <1>2, <1>3 DEF Calls
  <2>2. DOMAIN blocks = 1..Len(blocks)
    BY <1>1, LenProperties
  <2>3. \A i \in 1..Len(blocks) : Region(q.wp, need) \cap Region(blocks[i][1], blocks[i][2]) = {}
    <3>1. Good(q, head, blocks)
      BY <1>1
    <3> QED  BY <2>1, <3>1, GapIsFree
  <2>4. q.wp + need <= QSize
    BY <1>2, <2>1
  <2> QED  BY <2>2, <2>3, <2>4
<1>4. ASSUME NEW n \in Int, n = data_queue_get_available(q) + HeadSize, n > HeadSize
      PROVE  get_available_size(Turned(q, n)) >= n
  <2> DEFINE avail == IF HaveData(q) THEN get_available_size(q) ELSE QSize
  <2>1. n = avail
    BY <1>2, <1>4 DEF data_queue_get_available
  <2>2. CASE HaveData(q)
    <3>1. n = get_available_size(q) /\ Turned(q, n) = q
      BY <1>2, <2>1, <2>2 DEF Turned
    <3> QED  BY <1>2, <3>1
  <2>3. CASE ~HaveData(q)
    <3>1. n = QSize /\ q.wp = q.rp /\ q.fill_end = 0
      BY <2>1, <2>3 DEF HaveData
    <3>2. CASE get_available_size(q) < n
      <4>1. Turned(q, n) = [q EXCEPT !.wp = 0, !.rp = 0]
        BY <3>1, <3>2 DEF Turned
      <4>2. Turned(q, n).wp = 0 /\ Turned(q, n).rp = 0 /\ Turned(q, n).fill_end = 0
        BY <1>1, <3>1, <4>1 DEF Rings
      <4> QED  BY <1>2, <3>1, <4>2 DEF get_available_size
    <3>3. CASE ~(get_available_size(q) < n)
      <4>1. Turned(q, n) = q
        BY <3>3 DEF Turned
      <4> QED  BY <1>2, <1>4, <3>3, <4>1
    <3> QED  BY <3>2, <3>3
  <2> QED  BY <2>2, <2>3
<1>5. data_queue_get_available(q) + HeadSize \in Int
  BY <1>2 DEF data_queue_get_available
<1> QED  BY <1>1, <1>3, <1>4, <1>5 DEF GrantIsFree, Calls

\* data_queue_read_lock returns the oldest block that was sent, with the size it was
\* sent with, data_queue_query counts the unread blocks, and no size read from the
\* ring is out of range but that of a block filling all of it (data_queue.c), for
\* every size of the ring, the heads and the blocks.
THEOREM OldestIsRead == Spec => []ReadsOldest
<1>1. Init => RingInv
  BY RingInitInv
<1>2. RingInv /\ [Next]_vars => RingInv'
  BY RingNextInv
<1>3. RingInv => ReadsOldest
  BY RingReadsOldest
<1> QED  BY <1>1, <1>2, <1>3, PTL DEF Spec

\* What data_queue_get_buffer grants lies in the buffer apart from every unread block
\* until it is sent, the sending is never refused, and what data_queue_get_available
\* returns is granted at once (data_queue.c).
THEOREM GrantsAreFree == Spec => []GrantIsFree
<1>1. Init => RingInv
  BY RingInitInv
<1>2. RingInv /\ [Next]_vars => RingInv'
  BY RingNextInv
<1>3. RingInv => GrantIsFree
  BY RingGrants
<1> QED  BY <1>1, <1>2, <1>3, PTL DEF Spec
=============================================================================
