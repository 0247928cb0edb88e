------------------------------- MODULE Ledger -------------------------------
(***************************************************************************)
(* What the two tables of the service promise to whoever reads them,       *)
(* without workers, batches, statements or crashes: transactions only ever *)
(* come, all of an insert or none of it and only between tracked           *)
(* addresses, and an address goes only while no transaction names it.      *)
(*                                                                         *)
(* It is the interface between the two sides of the database: the writers  *)
(* of Ingest.tla implement it, and the readers of QueryCache.tla, which    *)
(* implements it too, rely on nothing else.                                *)
(***************************************************************************)

CONSTANTS Tx,
          Address,
          Ends          \* the addresses of each transaction

VARIABLES tracked,      \* the addresses in the table
          stored        \* the transactions in the table

vars == <<tracked, stored>>

Named == UNION {Ends[t] : t \in stored}

Init ==
  /\ tracked = {}
  /\ stored = {}

Add(a) ==
  /\ tracked' = tracked \union {a}
  /\ UNCHANGED stored

Remove(a) ==
  /\ a \notin Named
  /\ tracked' = tracked \ {a}
  /\ UNCHANGED stored

(* Some transactions become visible together. *)
Store(T) ==
  /\ \A t \in T : Ends[t] \subseteq tracked
  /\ stored' = stored \union T
  /\ UNCHANGED tracked

Next ==
  \/ \E a \in Address : Add(a) \/ Remove(a)
  \/ \E T \in SUBSET Tx : Store(T)

Spec == Init /\ [][Next]_vars

(* Foreign keys, as a reader sees them: whatever is stored can be asked    *)
(* for by each of its addresses.                                           *)
NamedIsTracked == Named \subseteq tracked

=============================================================================
