----------------------------- MODULE MCP4Session -----------------------------
(***************************************************************************)
(* Constants for model checking P4Session.                                 *)
(***************************************************************************)
EXTENDS P4Session, TLC

CONSTANTS h1, h2, r1, r2

OneHandle == {h1}
TwoHandles == {h1, h2}
OneRetryTask == {r1}
TwoRetryTasks == {r1, r2}

\* A robot in the field, nobody at its console.
FieldCallers == {"mqtt", "main", "sys"}
\* A session the console starts has no heartbeat: these callers are the ones
\* SilenceStopsStreaming speaks of.
HeartbeatCallers == FieldCallers \cup {"cli_stop"}
\* The callers that open or close a session whatever the time.
TimelessCallers == {"mqtt", "sys", "cli"}

\* Session objects are interchangeable, and so are retry tasks.
Symmetry == Permutations(TwoHandles) \cup Permutations(TwoRetryTasks)

\* What TimelessCallers and the properties of their run read; nobody looks at the
\* ages without the main task.
TimelessView == <<globals, todo, held, commanded, wanted, misused, crossed>>

\* Bound: states are explored as long as calls have crossed in one of the named
\* ways at most, which shows what that crossing leaves whole.
OneCrossing == Cardinality(crossed) <= 1
=============================================================================
