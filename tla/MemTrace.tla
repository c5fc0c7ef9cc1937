------------------------------- MODULE MemTrace -------------------------------
(***************************************************************************)
(* The memory tracing (mem_trace/media_lib_mem_trace.c): wrappers around   *)
(* malloc, free and realloc keep a table of the blocks in use, under one   *)
(* recursive mutex that does not cover the allocator itself.               *)
(*                                                                         *)
(* A task's call has up to three steps: the allocator's, the table's, and  *)
(* for free the allocator's again.                                         *)
(***************************************************************************)
EXTENDS Integers, Sequences, FiniteSets

CONSTANTS
  Tracers,     \* tasks that allocate
  Addrs,       \* addresses the allocator hands out
  record_num,  \* entries of the table
  MaxMallocs   \* bound: blocks allocated and reallocated

Sizes == {1, 2}
Modules == {"none", "module0"}   \* NULL and the first module that is named

VARIABLES
  heap,      \* each address: who uses it ("free", a task in a call, "live"), the size
             \* asked for, and whether the tracing was told of it
  table,     \* trace_item: addr, size and module_id, which is 0 for NULL too
  usage,     \* mem_usage
  module0,   \* mem_usage of the first module, and whether there is one
  tracing,   \* "on", "stopping", or "off" when mem_trace is freed
  call,      \* each task's call: the step it is at, the blocks, size and module
  mallocs,
  misuse     \* history: gaps of the code that were met

trace == <<heap, table, usage, module0, tracing, call, mallocs, misuse>>

Nothing == [used |-> "free", size |-> 0, traced |-> FALSE]
NoCall == [step |-> "out", old |-> 0, new |-> 0, size |-> 0, module |-> "none"]

TraceInit ==
  /\ heap = [a \in Addrs |-> Nothing]
  /\ table = <<>> /\ usage = 0 /\ module0 = [known |-> FALSE, usage |-> 0]
  /\ tracing = "off"
  /\ call = [t \in Tracers |-> NoCall]
  /\ mallocs = 0 /\ misuse = {}

FreeAddrs == {a \in Addrs : heap[a].used = "free"}
LiveAddrs == {a \in Addrs : heap[a].used = "live"}
To(t, step) == call' = [call EXCEPT ![t].step = step]
\* Another task takes an address that a realloc has left and not yet untraced.
Left(a) == \E t \in Tracers : call[t].step = "retrace" /\ call[t].old = a
Takes(a) == IF Left(a) THEN {"renewed"} ELSE {}

-----------------------------------------------------------------------------
(* The table.  The functions are given and return it with the counts.       *)

Now == [table |-> table, usage |-> usage, module0 |-> module0]

\* add_mem_usage and add_trace_item; a full table drops the block.
Added(n, addr, size, module) ==
  [usage   |-> n.usage + size,
   module0 |-> IF module = "none" THEN n.module0
               ELSE [known |-> TRUE, usage |-> n.module0.usage + size],
   table   |-> IF Len(n.table) >= record_num THEN n.table
               ELSE Append(n.table, [addr |-> addr, size |-> size, module |-> module])]

Places(n, addr) == {i \in DOMAIN n.table : n.table[i].addr = addr}
First(n, addr) == CHOOSE i \in Places(n, addr) : \A j \in Places(n, addr) : i <= j

\* Fault: the number is counted down first, and the entry after the last is taken.
DropLast(items, i) ==
  LET tail == Len(items) - 1
  IN  IF tail = 0 THEN <<>> ELSE [j \in 1..tail |-> IF j = i THEN items[tail] ELSE items[j]]

\* remove_trace_item fills the gap with the last entry.
remove_trace_item(items, i) ==
  LET tail == Len(items)
  IN  [j \in 1..tail - 1 |-> IF j = i THEN items[tail] ELSE items[j]]

\* get_trace_item and remove_mem_usage, which takes a block of no module for one
\* of the module with number 0.
Removed(n, addr) ==
  IF Places(n, addr) = {} THEN n
  ELSE LET i == First(n, addr)
       IN  [usage   |-> n.usage - n.table[i].size,
            module0 |-> IF n.module0.known
                          THEN [n.module0 EXCEPT !.usage = @ - n.table[i].size] ELSE n.module0,
            table   |-> remove_trace_item(n.table, i)]

Put(n) == table' = n.table /\ usage' = n.usage /\ module0' = n.module0
Overflows(n) == IF Len(n.table) >= record_num THEN {"overflow"} ELSE {}

-----------------------------------------------------------------------------
(* _malloc, _calloc, _strdup and media_lib_module_malloc; _free             *)

Malloc(t, size, module) ==
  /\ call[t].step = "out" /\ mallocs < MaxMallocs
  /\ \E a \in FreeAddrs :
       /\ misuse' = misuse \cup Takes(a)
       /\ mallocs' = mallocs + 1
       /\ heap' = [heap EXCEPT ![a] = [used |-> IF tracing = "on" THEN t ELSE "live",
                                       size |-> size, traced |-> FALSE]]
       /\ call' = IF tracing = "on"
                    THEN [call EXCEPT ![t] = [step |-> "add", old |-> 0, new |-> a,
                                              size |-> size, module |-> module]]
                    ELSE call
  /\ UNCHANGED <<table, usage, module0, tracing>>

\* Once stop has freed mem_trace, who is still in a wrapper uses it.
Gone == tracing = "off"
Falls(t) ==
  /\ call' = [call EXCEPT ![t] = NoCall]
  /\ misuse' = misuse \cup {"stopped"}

add_trace(t) ==
  /\ call[t].step = "add"
  /\ \/ Gone /\ Falls(t) /\ UNCHANGED <<heap, table, usage, module0>>
     \/ /\ ~Gone
        /\ Put(Added(Now, call[t].new, call[t].size, call[t].module))
        /\ misuse' = misuse \cup Overflows(Now)
        /\ heap' = [heap EXCEPT ![call[t].new] = [used |-> "live", size |-> @.size, traced |-> TRUE]]
        /\ call' = [call EXCEPT ![t] = NoCall]
  /\ UNCHANGED <<tracing, mallocs>>

Free(t, a) ==
  /\ call[t].step = "out"
  /\ heap' = [heap EXCEPT ![a] = IF tracing = "on" THEN [@ EXCEPT !.used = t] ELSE Nothing]
  /\ call' = IF tracing = "on" THEN [call EXCEPT ![t] = [NoCall EXCEPT !.step = "remove", !.old = a]]
                               ELSE call
  /\ UNCHANGED <<table, usage, module0, tracing, mallocs, misuse>>

remove_trace(t) ==
  /\ call[t].step = "remove"
  /\ IF Gone THEN Falls(t) /\ UNCHANGED <<table, usage, module0>>
             ELSE Put(Removed(Now, call[t].old)) /\ To(t, "release") /\ UNCHANGED misuse
  /\ UNCHANGED <<heap, tracing, mallocs>>

Release(t) ==
  /\ call[t].step = "release"
  /\ heap' = [heap EXCEPT ![call[t].old] = Nothing]
  /\ call' = [call EXCEPT ![t] = NoCall]
  /\ UNCHANGED <<table, usage, module0, tracing, mallocs, misuse>>

-----------------------------------------------------------------------------
(* _realloc asks the allocator before it takes the mutex.  When that fails  *)
(* the block stays, and is untraced all the same.                          *)

Moved(a, b, size, used, traced) ==
  [heap EXCEPT ![a] = Nothing, ![b] = [used |-> used, size |-> size, traced |-> traced]]

Realloc(t, a, size) ==
  /\ call[t].step = "out" /\ tracing = "on" /\ mallocs < MaxMallocs
  /\ mallocs' = mallocs + 1
  /\ \E b \in FreeAddrs \cup {a} :
       /\ heap' = Moved(a, b, size, t, FALSE)
       /\ call' = [call EXCEPT ![t] = [step |-> "retrace", old |-> a, new |-> b, size |-> size,
                                       module |-> "none"]]
       /\ misuse' = misuse \cup Takes(b)
  /\ UNCHANGED <<table, usage, module0, tracing>>

ReallocFails(t, a) ==
  /\ call[t].step = "out" /\ tracing = "on"
  /\ Put(Removed(Now, a))
  /\ misuse' = misuse \cup {"failed"}
  /\ UNCHANGED <<heap, tracing, call, mallocs>>

Retrace(t) ==
  LET n == Removed(Now, call[t].old)
  IN  /\ call[t].step = "retrace"
      /\ \/ Gone /\ Falls(t) /\ UNCHANGED <<heap, table, usage, module0>>
         \/ /\ ~Gone
            /\ Put(Added(n, call[t].new, call[t].size, "none"))
            /\ misuse' = misuse \cup Overflows(n)
            /\ heap' = [heap EXCEPT ![call[t].new] = [used |-> "live", size |-> @.size, traced |-> TRUE]]
            /\ call' = [call EXCEPT ![t] = NoCall]
      /\ UNCHANGED <<tracing, mallocs>>

\* media_lib_module_realloc holds the mutex throughout.
module_realloc(t, a, size, module) ==
  LET n == Removed(Now, a)
  IN  /\ call[t].step = "out" /\ tracing = "on" /\ mallocs < MaxMallocs
      /\ mallocs' = mallocs + 1
      /\ \E b \in FreeAddrs \cup {a} :
           /\ heap' = Moved(a, b, size, "live", TRUE)
           /\ Put(Added(n, b, size, module))
           /\ misuse' = misuse \cup Overflows(n) \cup Takes(b)
      /\ UNCHANGED <<tracing, call>>

-----------------------------------------------------------------------------
(* Blocks of before are not known to the tracing.                           *)

media_lib_start_mem_trace ==
  /\ tracing = "off"
  /\ tracing' = "on"
  /\ table' = <<>> /\ usage' = 0 /\ module0' = [known |-> FALSE, usage |-> 0]
  /\ heap' = [a \in Addrs |-> [heap[a] EXCEPT !.traced = FALSE]]
  /\ UNCHANGED <<call, mallocs, misuse>>

\* The wrappers are taken out, then all is freed.
media_lib_stop_mem_trace ==
  /\ \/ tracing = "on" /\ tracing' = "stopping"
     \/ tracing = "stopping" /\ tracing' = "off"
  /\ UNCHANGED <<heap, table, usage, module0, call, mallocs, misuse>>

\* Once a gap is met the behaviour is followed no further.
TraceNext ==
  /\ misuse = {}
  /\ \/ \E t \in Tracers, size \in Sizes, module \in Modules : Malloc(t, size, module)
     \/ \E t \in Tracers : add_trace(t) \/ remove_trace(t) \/ Release(t) \/ Retrace(t)
     \/ \E t \in Tracers, a \in LiveAddrs :
          \/ Free(t, a) \/ ReallocFails(t, a)
          \/ \E size \in Sizes : Realloc(t, a, size)
          \/ \E size \in Sizes, module \in Modules : module_realloc(t, a, size, module)
     \/ media_lib_start_mem_trace \/ media_lib_stop_mem_trace

-----------------------------------------------------------------------------
(* Properties *)

\* The entries of an address.
Entries(a) == {i \in DOMAIN table : table[i].addr = a}
\* The sizes of the entries, added up one by one.
Total(items) ==
  LET sum[n \in 0..Len(items)] == IF n = 0 THEN 0 ELSE sum[n - 1] + items[n].size
  IN  sum[Len(items)]
Between == tracing = "on" /\ \A t \in Tracers : call[t].step = "out"

\* Between calls the table, from which leaks are reported, has each traced block
\* once, with its size, and no other, and counts them, whatever calls of the tasks
\* overlapped.
\* Four gaps are left: a realloc that fails, a table that is full, an address
\* that is in use again before the realloc that left it is traced, and a stop
\* with a task in a wrapper.
TableIsTrue ==
  Between /\ misuse = {} =>
    /\ \A a \in Addrs :
         /\ Cardinality(Entries(a)) = (IF heap[a].traced THEN 1 ELSE 0)
         /\ \A i \in Entries(a) : heap[a].used = "live" /\ table[i].size = heap[a].size
    /\ usage = Total(table)
=============================================================================
