--------------------------- MODULE MCPaddleKeyer ----------------------------
(* Small instances of PaddleKeyer. *)
EXTENDS PaddleKeyer

\* A straight key has to overrun the queue and be released in between; two presses and one release,
\* or the other way round, are all that a decision of a burst can tell apart.
EdgesOf == [m \in Modes |-> IF m = "Straight" THEN 5 ELSE 3]
OrdersOf == [m \in Modes |-> IF m = "Straight" THEN 3 ELSE 1]
=============================================================================
