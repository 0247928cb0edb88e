---------------------------- MODULE MCQueryCache ----------------------------
(* A small instance of QueryCache for TLC: two questions about one         *)
(* address, one that skips the first row and one whose end is exclusive,   *)
(* and one that is refused.                                                *)
EXTENDS QueryCache, TLC
CONSTANTS a, r1, r2, c1, c2

MCParties == r1 :> {a} @@ r2 :> {a}
MCTime == r1 :> 1 @@ r2 :> 2
First == [address |-> a, start |-> 1, end |-> 2, offset |-> 0, limit |-> 1]
Second == [First EXCEPT !.end = 3, !.offset = 1]
MCQuery == {First, Second, [First EXCEPT !.end = 1]}
=============================================================================
