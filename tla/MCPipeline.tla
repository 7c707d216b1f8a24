----------------------------- MODULE MCPipeline -----------------------------
(* Sizes of messages for TLC: all alike, or one in the middle that takes   *)
(* all the space above the mark, or more.                                  *)
EXTENDS Pipeline

MCSizeTables ==
    {[n \in 1..Messages |-> IF n = 3 THEN long ELSE 1] : long \in 1..BufferSize}
=============================================================================
