----------------------------- MODULE MCPipeline -----------------------------
(* The two pollers of start_polling on a small instance of Pipeline.  One  *)
(* source address is enough: the lock does not look at addresses.          *)
EXTENDS Pipeline

CONSTANTS d1, d2, d3, a1

MCSource == [d \in Delivery |-> a1]

=============================================================================
