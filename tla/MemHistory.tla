------------------------------ MODULE MemHistory ------------------------------
(***************************************************************************)
(* The history of the memory tracing (mem_trace/media_lib_mem_his.c): the  *)
(* records of allocations are put into a ring of slices, and a thread      *)
(* writes the slices that are full to a file.                              *)
(*                                                                         *)
(* Records come one at a time, from tasks that hold the mutex of the       *)
(* tracing (module MemTrace).  A record is a number of units; the units    *)
(* that are accepted are numbered in their order.                          *)
(***************************************************************************)
EXTENDS Integers, Sequences

CONSTANTS
  SAVE_SLICE_NUM,  \* slices of the ring
  cache_size,      \* units that a slice holds
  RecordSizes,     \* units that a record may have
  MaxUnits         \* bound: units recorded

VARIABLES
  his,      \* save_his_t: wp, n, cache_filled, save_cache, running, stopping, freed
  saver,    \* where save_thread is, and the slice it writes
  left,     \* units the recording task has still to write
  units,    \* units accepted
  file,     \* units in the file
  stop,     \* where media_lib_stop_mem_his is
  gap,      \* history: what came between (Gaps)
  broken    \* history: the ring was used when it was freed

hist == <<his, saver, left, units, file, stop, gap, broken>>

Slices == 0..SAVE_SLICE_NUM - 1

\* A stop before the thread has run; a stop within a record, or before one of a task
\* that had looked at trace_type already; a slice filled between the two looks with
\* which the thread finds that it may leave.
Gaps == {"unborn", "record", "slice"}

HisInit ==
  /\ his = [wp |-> 0, n |-> 0, cache_filled |-> 0, save_cache |-> [i \in Slices |-> <<>>],
            running |-> FALSE, stopping |-> FALSE]
  /\ saver = [at |-> "born", head |-> 0]
  /\ left = 0 /\ units = 0 /\ file = <<>> /\ stop = "no" /\ gap = {} /\ broken = FALSE

Freed == stop = "freed"

-----------------------------------------------------------------------------
(* The recording task *)

\* his_wait_for_enough gives up after five looks.
Enough(size) == his.n < SAVE_SLICE_NUM \/ his.cache_filled + size <= cache_size

\* trace_type is looked at before the record is made, so that one may come late.
media_lib_add_mem_his(size) ==
  /\ left = 0 /\ units + size <= MaxUnits
  /\ IF Freed THEN broken' = TRUE /\ UNCHANGED left
              ELSE Enough(size) /\ left' = size /\ UNCHANGED broken
  /\ gap' = gap \cup {g \in {"record"} : stop # "no"}
  /\ UNCHANGED <<his, saver, units, file, stop>>

\* The slice at wp takes what fits; the one that is full is counted.  That n is
\* below its limit is looked up without the mutex: only the saver changes it.
Append_(fill) == SubSeq(his.save_cache[his.wp], 1, his.cache_filled) \o [i \in 1..fill |-> units + i]
Filled(fill) ==
  IF his.cache_filled + fill < cache_size
    THEN [his EXCEPT !.save_cache[his.wp] = Append_(fill), !.cache_filled = @ + fill]
    ELSE [his EXCEPT !.save_cache[his.wp] = Append_(fill), !.cache_filled = 0,
                     !.wp = (@ + 1) % SAVE_SLICE_NUM, !.n = @ + 1]

his_write ==
  LET room == cache_size - his.cache_filled
      fill == IF room > left THEN left ELSE room
  IN  /\ left > 0 /\ (Freed \/ his.n < SAVE_SLICE_NUM)
      /\ IF Freed
           THEN broken' = TRUE /\ left' = 0 /\ UNCHANGED <<his, units>>
           ELSE /\ his' = Filled(fill)
                /\ left' = left - fill
                /\ units' = units + fill
                /\ UNCHANGED broken
      /\ UNCHANGED <<saver, file, stop, gap>>

-----------------------------------------------------------------------------
(* save_thread *)

Saver(at) == saver.at = at
To(at) == saver' = [saver EXCEPT !.at = at]

\* A stop that is over before the thread runs leaves it without its ring.
save_thread ==
  /\ Saver("born")
  /\ IF Freed THEN broken' = TRUE /\ To("ended") /\ UNCHANGED his
              ELSE his' = [his EXCEPT !.running = TRUE] /\ To("look") /\ UNCHANGED broken
  /\ UNCHANGED <<left, units, file, stop, gap>>

\* Fault: the oldest slice is taken for the one before wp.
LookLast ==
  /\ Saver("look")
  /\ IF his.n > 0
       THEN saver' = [at |-> "write", head |-> (his.wp + SAVE_SLICE_NUM - 1) % SAVE_SLICE_NUM]
       ELSE To("seen")
  /\ UNCHANGED <<his, left, units, file, stop, gap, broken>>

\* n and stopping are read without the mutex, one after the other.
Look ==
  /\ Saver("look")
  /\ IF his.n > 0
       THEN saver' = [at |-> "write", head |-> (his.wp + SAVE_SLICE_NUM - his.n) % SAVE_SLICE_NUM]
       ELSE To("seen")
  /\ UNCHANGED <<his, left, units, file, stop, gap, broken>>

LookStopping ==
  /\ Saver("seen")
  /\ IF his.stopping
       THEN To("rest") /\ gap' = gap \cup {g \in {"slice"} : his.n > 0}
       ELSE To("look") /\ UNCHANGED gap
  /\ UNCHANGED <<his, left, units, file, stop, broken>>

Write ==
  /\ Saver("write")
  /\ file' = file \o his.save_cache[saver.head]
  /\ To("count")
  /\ UNCHANGED <<his, left, units, stop, gap, broken>>

Count ==
  /\ Saver("count")
  /\ his' = [his EXCEPT !.n = @ - 1]
  /\ To("look")
  /\ UNCHANGED <<left, units, file, stop, gap, broken>>

WriteRest ==
  /\ Saver("rest")
  /\ file' = IF his.cache_filled > 0 THEN file \o SubSeq(his.save_cache[his.wp], 1, his.cache_filled)
             ELSE file
  /\ To("leave")
  /\ UNCHANGED <<his, left, units, stop, gap, broken>>

Leave ==
  /\ Saver("leave")
  /\ his' = [his EXCEPT !.stopping = FALSE, !.running = FALSE]
  /\ To("ended")
  /\ UNCHANGED <<left, units, file, stop, gap, broken>>

-----------------------------------------------------------------------------
\* sync_mem_his waits for the thread, if it runs yet; then the slices are freed.
\* The tracing's mutex is not taken before that.
media_lib_stop_mem_his ==
  /\ \/ /\ stop = "no" /\ stop' = "waits"
        /\ gap' = gap \cup {g \in {"record"} : left > 0} \cup {g \in {"unborn"} : Saver("born")}
        /\ his' = [his EXCEPT !.stopping = TRUE]
     \/ /\ stop = "waits" /\ ~his.running /\ stop' = "freed"
        /\ UNCHANGED <<his, gap>>
  /\ UNCHANGED <<saver, left, units, file, broken>>

HisNext ==
  \/ \E size \in RecordSizes : media_lib_add_mem_his(size)
  \/ his_write \/ save_thread \/ Look \/ LookStopping \/ Write \/ Count \/ WriteRest \/ Leave
  \/ media_lib_stop_mem_his

-----------------------------------------------------------------------------
(* Properties *)

\* The file has the units in their order, none missing and none twice, and all of
\* them once the history is stopped.  A stop within a record, or before the thread
\* has run, frees the ring while they use it.  A slice that is filled, and followed by
\* the stop, between the thread's look at n and that at stopping is never written:
\* the file is in order still, but has a hole before its last slice.
FileIsWhole ==
  /\ gap = {} => /\ \A i \in DOMAIN file : file[i] = i
                 /\ Freed => Len(file) = units /\ ~broken
  /\ gap = {"slice"} => /\ \A i \in DOMAIN file : \A j \in 1..i - 1 : file[j] < file[i]
                        /\ ~broken
=============================================================================
