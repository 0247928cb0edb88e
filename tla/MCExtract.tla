------------------------------- MODULE MCExtract -------------------------------
(* Every transaction with up to three keys and balances, the latter up to   *)
(* two: ties, gains before and after losses, more balances than keys.  A    *)
(* byte holds lengths below two, so that three keys count as one.           *)
EXTENDS Extract

CONSTANTS k1, k2, k3, Other

UpTo(n, S) == UNION {[1 .. m -> S] : m \in 0 .. n}

NoInstr == [kind |-> "none", program |-> None, transfer |-> FALSE,
            dest |-> None, amount |-> None, index |-> 0]

AnyInstr ==
  {NoInstr}
  \union {[NoInstr EXCEPT !.kind = "compiled", !.index = i] : i \in {0, 1}}
  \union [kind : {"parsed"}, program : Program \union {None}, transfer : BOOLEAN,
          dest : {None, k2}, amount : {None, 1}, index : {0}]

Unnamed == {i \in AnyInstr : i.program = System /\ i.transfer /\ i.dest = None}

MCTransactions ==
  [usable : {TRUE}, keys : {<<k1>>, <<k1, k2, k3>>}, instr : {NoInstr} \union Unnamed,
   pre : UpTo(3, 0 .. 2), post : UpTo(3, 0 .. 2)]
  \union
  [usable : BOOLEAN, keys : {<<>>, <<k1>>, <<k1, k2>>, <<k1, k2, k3>>},
   instr : AnyInstr, pre : {<<>>, <<1, 1>>}, post : {<<2, 0>>}]
===============================================================================
