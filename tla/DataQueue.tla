------------------------------ MODULE DataQueue ------------------------------
(***************************************************************************)
(* The ring buffer between the threads of the media player                 *)
(* (media_lib_sal/port/data_queue.c): blocks of any size, each contiguous, *)
(* read in place in the order they were sent.                              *)
(*                                                                         *)
(* A step is what a thread does from taking q->lock to giving it up.  A    *)
(* wait is three steps, for the thread holds no lock while it waits for    *)
(* an event bit and then clears it by hand: the bit is seen, it is         *)
(* cleared, the lock is taken again.                                       *)
(*                                                                         *)
(* write_lock lets one writer in at a time, so that `writer' is the state  *)
(* of whichever thread holds it.  There is one reader, the render thread   *)
(* that owns the queue (av_render.c): it also calls data_queue_consume_all.*)
(***************************************************************************)
EXTENDS Integers, Sequences

CONSTANTS
  QSize,      \* bytes of the buffer
  HeadSize,   \* DATA_Q_ALLOC_HEAD_SIZE
  Sizes       \* bound: payload sizes the writers ask for

ASSUME QueueAssumption ==
  /\ QSize \in Nat /\ HeadSize \in Nat \ {0}
  /\ Sizes \subseteq Nat \ {0}

VARIABLES
  q,          \* the fields wp, rp, fill_end and filled of data_queue_t
  head,       \* the block size in the head at each offset, 0 for payload
  user, quit,
  event,      \* the bits that are set
  pc,         \* where each thread is
  need,       \* bytes the writer asked for, head included
  cur_rp,     \* offset of the block data_queue_read_lock returned
  aborted,    \* a block size was out of range and the program stopped
  blocks      \* history: offset and size of the unread blocks, oldest first

vars == <<q, head, user, quit, event, pc, need, cur_rp, aborted, blocks>>

\* The threads that wait, each for a bit of its own.
Bit == [writer |-> "consume", reader |-> "data", waker |-> "free"]
Threads == DOMAIN Bit
To(t, place) == pc' = [pc EXCEPT ![t] = place]

Init ==
  /\ q = [wp |-> 0, rp |-> 0, fill_end |-> 0, filled |-> 0]
  /\ head = [o \in 0..QSize - 1 |-> 0]
  /\ user = 0 /\ quit = FALSE /\ event = {}
  /\ pc = [t \in Threads |-> "out"]
  /\ need = 0 /\ cur_rp = 0
  /\ aborted = FALSE
  /\ blocks = << >>

\* _WAIT_BITS: the bit is seen without the lock, then cleared.
SeeBit(t) ==
  /\ pc[t] = "wait" /\ Bit[t] \in event
  /\ To(t, "seen")
  /\ UNCHANGED <<q, head, user, quit, event, need, cur_rp, aborted, blocks>>

ClearBit(t) ==
  /\ pc[t] = "seen"
  /\ event' = event \ {Bit[t]}
  /\ To(t, "cleared")
  /\ UNCHANGED <<q, head, user, quit, need, cur_rp, aborted, blocks>>

-----------------------------------------------------------------------------
(* The ring *)

HaveData(ring) == ring.wp # ring.rp \/ ring.fill_end # 0

get_available_size(ring) ==
  IF ring.wp > ring.rp THEN QSize - ring.wp
  ELSE IF ring.wp < ring.rp THEN ring.rp - ring.wp
  ELSE IF ring.fill_end # 0 THEN 0 ELSE QSize - ring.wp

data_queue_get_available(ring) ==
  LET avail == IF HaveData(ring) THEN get_available_size(ring) ELSE QSize
  IN  IF avail >= HeadSize THEN avail - HeadSize ELSE 0

\* Fault: the end of the data is not recorded for the reader.
TurnedUnmarked(ring, size) ==
  IF get_available_size(ring) < size /\ ring.fill_end = 0
    THEN [ring EXCEPT !.wp = 0]
    ELSE ring

\* data_queue_get_buffer turns back to offset 0 when the end is too short.
Turned(ring, size) ==
  IF get_available_size(ring) < size /\ ring.fill_end = 0
    THEN IF ring.wp = ring.rp
           THEN [ring EXCEPT !.wp = 0, !.rp = 0]
           ELSE [ring EXCEPT !.fill_end = ring.wp, !.wp = 0]
    ELSE ring

Granted(ring, size) == get_available_size(Turned(ring, size)) >= size

HeadAt(o) == IF o \in DOMAIN head THEN head[o] ELSE 0

\* Fault: the end of the data is overlooked when a block ends there.
WithoutFirstLate(ring) ==
  LET rp == ring.rp + HeadAt(ring.rp)
      round == ring.fill_end # 0 /\ rp > ring.fill_end
  IN  [wp |-> ring.wp, rp |-> IF round THEN 0 ELSE rp,
       fill_end |-> IF round THEN 0 ELSE ring.fill_end,
       filled |-> ring.filled - HeadAt(ring.rp)]

\* The block at rp is given back.
WithoutFirst(ring) ==
  LET rp == ring.rp + HeadAt(ring.rp)
      round == ring.fill_end # 0 /\ rp >= ring.fill_end
  IN  [wp |-> ring.wp, rp |-> IF round THEN 0 ELSE rp,
       fill_end |-> IF round THEN 0 ELSE ring.fill_end,
       filled |-> ring.filled - HeadAt(ring.rp)]

\* The ring after each turn of the loop of data_queue_consume_all.
Drained ==
  LET ring[n \in 0..QSize] ==
        IF n = 0 THEN q
        ELSE IF HaveData(ring[n - 1]) THEN WithoutFirst(ring[n - 1]) ELSE ring[n - 1]
  IN  ring

\* data_queue_read_lock counts back from wp.
FirstUnread(ring) ==
  IF ring.filled <= ring.wp THEN ring.wp - ring.filled
                            ELSE ring.wp + ring.fill_end - ring.filled

\* data_queue_query: rp and ring after each turn of its loop.
Walk ==
  LET at[n \in 0..QSize] ==
        IF n = 0 THEN <<q.rp, q.fill_end>>
        ELSE LET rp   == at[n - 1][1] + HeadAt(at[n - 1][1])
                 ring == at[n - 1][2]
             IN  IF ring # 0 /\ rp = ring THEN <<0, 0>> ELSE <<rp, ring>>
  IN  at

\* It counts n blocks.
data_queue_query(n) ==
  /\ Walk[n] = <<q.wp, 0>>
  /\ \A m \in 0..n - 1 : Walk[m] # <<q.wp, 0>>

-----------------------------------------------------------------------------
(* Writers *)

\* The loop of data_queue_get_buffer with both locks held, u users besides
\* this one and the bits b set.  The caller writes the payload from now on.
GetLoop(size, u, b) ==
  /\ event' = b
  /\ IF quit
       THEN To("writer", "out") /\ user' = u /\ UNCHANGED <<q, head>>
       ELSE /\ q' = Turned(q, size)
            /\ user' = u + 1
            /\ IF get_available_size(q') >= size
                 THEN /\ To("writer", "write")
                      /\ head' = [o \in DOMAIN head |->
                           IF o \in q'.wp..q'.wp + size - 1 THEN 0 ELSE head[o]]
                 ELSE To("writer", "wait") /\ UNCHANGED head
  /\ UNCHANGED <<quit, cur_rp, aborted, blocks>>

data_queue_get_buffer(n) ==
  /\ pc["writer"] \in {"out", "refused"}
  /\ n + HeadSize <= QSize
  /\ need' = n + HeadSize
  /\ GetLoop(n + HeadSize, user, event)

\* data_queue_wait_consume has the lock again, and so has the loop.
WriterRelock ==
  /\ pc["writer"] = "cleared"
  /\ GetLoop(need, user - 1, event \cup {"free"})
  /\ UNCHANGED need

\* Fault: the reader is not told.
SendUnnoticed(n) ==
  /\ pc["writer"] = "write" /\ n + HeadSize <= need
  /\ head' = [head EXCEPT ![q.wp] = n + HeadSize]
  /\ q' = [q EXCEPT !.wp = @ + n + HeadSize, !.filled = @ + n + HeadSize]
  /\ blocks' = Append(blocks, <<q.wp, n + HeadSize>>)
  /\ user' = user - 1 /\ event' = event \cup {"free"}
  /\ To("writer", "out")
  /\ UNCHANGED <<quit, need, cur_rp, aborted>>

\* data_queue_send_buffer with no more than was asked for.
data_queue_send_buffer(n) ==
  /\ pc["writer"] = "write" /\ n + HeadSize <= need
  /\ IF get_available_size(q) >= n + HeadSize
       THEN /\ head' = [head EXCEPT ![q.wp] = n + HeadSize]
            /\ q' = [q EXCEPT !.wp = @ + n + HeadSize, !.filled = @ + n + HeadSize]
            /\ blocks' = Append(blocks, <<q.wp, n + HeadSize>>)
            /\ event' = event \cup {"data", "free"}
            /\ To("writer", "out")
       ELSE /\ event' = event \cup {"free"}
            /\ To("writer", "refused")
            /\ UNCHANGED <<q, head, blocks>>
  /\ user' = user - 1
  /\ UNCHANGED <<quit, need, cur_rp, aborted>>

\* A size of 0 gives the buffer back unsent.
SendNothing ==
  /\ pc["writer"] = "write"
  /\ user' = user - 1 /\ event' = event \cup {"free"}
  /\ To("writer", "out")
  /\ UNCHANGED <<q, head, quit, need, cur_rp, aborted, blocks>>

Send == SendNothing \/ \E n \in Sizes : data_queue_send_buffer(n)

-----------------------------------------------------------------------------
(* The reader *)

\* The loop of data_queue_read_lock with the lock held.
ReadLoop(u, b) ==
  /\ event' = b
  /\ IF quit
       THEN To("reader", "out") /\ user' = u /\ UNCHANGED <<cur_rp, aborted>>
       ELSE /\ user' = u + 1
            /\ IF q.filled = 0
                 THEN To("reader", "wait") /\ UNCHANGED <<cur_rp, aborted>>
                 ELSE /\ cur_rp' = FirstUnread(q)
                      /\ aborted' = (HeadAt(cur_rp') \notin 1..QSize)
                      /\ To("reader", "read")
  /\ UNCHANGED <<q, head, quit, need, blocks>>

data_queue_read_lock == pc["reader"] = "out" /\ ReadLoop(user, event)

\* data_queue_wait_data has the lock again, and so has the loop.
ReaderRelock ==
  /\ pc["reader"] = "cleared"
  /\ ReadLoop(user - 1, event \cup {"free"})

data_queue_peek_unlock ==
  /\ pc["reader"] = "read"
  /\ user' = user - 1
  /\ To("reader", "out")
  /\ UNCHANGED <<q, head, quit, event, need, cur_rp, aborted, blocks>>

data_queue_read_unlock ==
  /\ pc["reader"] = "read"
  /\ IF HaveData(q)
       THEN /\ aborted' = (HeadAt(q.rp) \notin 1..QSize)
            /\ q' = WithoutFirst(q)
            /\ blocks' = Tail(blocks)
            /\ user' = user - 1
            /\ event' = event \cup {"consume", "free"}
       ELSE UNCHANGED <<q, user, event, aborted, blocks>>
  /\ To("reader", "out")
  /\ UNCHANGED <<head, quit, need, cur_rp>>

\* A block that fills the whole buffer is out of range here, and only here.
data_queue_consume_all ==
  /\ pc["reader"] = "out" /\ HaveData(q) /\ ~quit
  /\ aborted' = (\E n \in 0..QSize : /\ HaveData(Drained[n])
                                     /\ HeadAt(Drained[n].rp) \notin 1..QSize - 1)
  /\ q' = Drained[QSize]
  /\ blocks' = << >>
  /\ event' = event \cup {"consume"}
  /\ UNCHANGED <<head, user, quit, pc, need, cur_rp>>

-----------------------------------------------------------------------------
(* data_queue_wakeup *)

\* Fault: it waits for one user.
WakerRelockOnce ==
  /\ pc["waker"] = "cleared"
  /\ To("waker", "done")
  /\ UNCHANGED <<q, head, user, quit, event, need, cur_rp, aborted, blocks>>

UntilNoUser == To("waker", IF user = 0 THEN "done" ELSE "wait")

data_queue_wakeup ==
  /\ pc["waker"] = "out"
  /\ quit' = TRUE
  /\ event' = event \cup {"data", "consume"}
  /\ UntilNoUser
  /\ UNCHANGED <<q, head, user, need, cur_rp, aborted, blocks>>

\* data_queue_wait_user has the lock again.
WakerRelock ==
  /\ pc["waker"] = "cleared"
  /\ UntilNoUser
  /\ UNCHANGED <<q, head, user, quit, event, need, cur_rp, aborted, blocks>>

-----------------------------------------------------------------------------
Writer == Send \/ WriterRelock \/ \E n \in Sizes : data_queue_get_buffer(n)
Release == data_queue_peek_unlock \/ data_queue_read_unlock
Reader ==
  data_queue_read_lock \/ ReaderRelock \/ Release \/ data_queue_consume_all
Waker == data_queue_wakeup \/ WakerRelock

Next ==
  /\ ~aborted
  /\ \/ \E t \in Threads : SeeBit(t) \/ ClearBit(t)
     \/ Writer \/ Reader \/ Waker

\* A thread that can go on does; a writer sends what it got a buffer for, and
\* the render thread gives back what it read and reads on.
Fairness ==
  /\ \A t \in Threads : WF_vars(~aborted /\ (SeeBit(t) \/ ClearBit(t)))
  /\ WF_vars(~aborted /\ WriterRelock) /\ WF_vars(~aborted /\ Send)
  /\ WF_vars(~aborted /\ (data_queue_read_lock \/ ReaderRelock \/ Release))
  /\ WF_vars(~aborted /\ WakerRelock)

Spec == Init /\ [][Next]_vars /\ Fairness

-----------------------------------------------------------------------------
(* Properties *)

Region(o, size) == o..o + size - 1

\* What data_queue_read_lock returned is the oldest block that was sent, with
\* the size it was sent with, until data_queue_read_unlock (data_queue.h);
\* data_queue_query counts the same blocks, the two tests for data agree, and no
\* size read from the ring is out of range but that of a block filling all of
\* it, which data_queue_consume_all refuses.
ReadsOldest ==
  /\ pc["reader"] = "read" =>
       /\ blocks # << >>
       /\ blocks[1] = <<cur_rp, HeadAt(cur_rp)>>
  /\ HaveData(q) <=> blocks # << >>
  /\ q.filled = 0 <=> blocks = << >>
  /\ blocks # << >> /\ ~aborted => data_queue_query(Len(blocks))
  /\ aborted => pc["reader"] = "out" /\ HeadAt(0) = QSize

\* The buffer a writer was given lies within the queue and apart from every
\* block not yet read, however the reader moves meanwhile, and it is still
\* there when it is sent.  One that asks for what data_queue_get_available
\* returned does not wait.
GrantIsFree ==
  /\ pc["writer"] # "refused"
  /\ pc["writer"] = "write" =>
       /\ q.wp + need <= QSize
       /\ \A i \in DOMAIN blocks :
            Region(q.wp, need) \cap Region(blocks[i][1], blocks[i][2]) = {}
  /\ LET n == data_queue_get_available(q) + HeadSize
     IN  n > HeadSize => get_available_size(Turned(q, n)) >= n

\* data_queue_wakeup returns when no thread is left in the queue, so that it
\* may be deinitialised.
WakeupLeavesNobody ==
  pc["waker"] = "done" => pc["writer"] \in {"out", "refused"} /\ pc["reader"] = "out"

\* No wakeup is lost: a writer that waits is served and the data that is there
\* is read or dropped, as long as the reader does not peek for ever.
WaitersServed ==
  \/ []<><<data_queue_peek_unlock>>_vars \/ <>aborted
  \/ /\ []<>(pc["writer"] \in {"write", "out"})
     /\ []<>(q.filled = 0 \/ pc["reader"] = "read" \/ quit)
=============================================================================
