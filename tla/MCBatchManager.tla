--------------------------- MODULE MCBatchManager ---------------------------
(* A small instance of BatchManager: the deliveries d1 and d3 share a      *)
(* source address, d2 and d4 have another.                                 *)
EXTENDS BatchManager

CONSTANTS d1, d2, d3, d4, a1, a2

MCSource == [d \in Delivery |-> IF d \in {d1, d3} THEN a1 ELSE a2]

=============================================================================
