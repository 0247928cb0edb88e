------------------------------ MODULE MCIngest ------------------------------
(* A chain of three linked addresses, and one transaction with no          *)
(* destination, from an address nothing else is linked to.  Ingest.cfg has *)
(* the first link of the chain and the address outside it,                 *)
(* BatchRollback.cfg the chain.                                            *)
EXTENDS Ingest

CONSTANTS t1, t2, t3, a1, a2, a3, a4

MCSource == [t \in Tx |-> CASE t = t1 -> a1 [] t = t2 -> a2 [] t = t3 -> a4]
MCDest == [t \in Tx |-> CASE t = t1 -> {a2} [] t = t2 -> {a3} [] t = t3 -> {}]

=============================================================================
