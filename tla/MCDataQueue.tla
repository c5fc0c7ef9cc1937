----------------------------- MODULE MCDataQueue -----------------------------
(***************************************************************************)
(* Constants for model checking DataQueue: heads of one unit, blocks that  *)
(* fill a part, most and all of the queue.                                 *)
(***************************************************************************)
EXTENDS DataQueue

SomeSizes == {1, 2, 4, 6}
=============================================================================
