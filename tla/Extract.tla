-------------------------------- MODULE Extract --------------------------------
(***************************************************************************)
(* extract_transaction and extract_transfer_details of                     *)
(* src/blockchain/models.rs: what is stored of a transaction the RPC node  *)
(* returned.                                                               *)
(*                                                                         *)
(* The source is the first account key.  Destination and amount come from  *)
(* the first instruction, if it is a transfer of the system or the token   *)
(* program; if it names no destination, they are inferred from the         *)
(* balances before and after, in one pass that keeps the largest decrease  *)
(* and the largest increase seen so far.                                   *)
(*                                                                         *)
(* JSON is modelled by what is found in it.  An amount of lamports becomes *)
(* SOL in the code by a division; here it keeps its unit.  Indices start   *)
(* at 1, except those an instruction carries.                              *)
(***************************************************************************)
EXTENDS Integers, Sequences

CONSTANTS Key,
          Program, System, Token,  \* program ids; two of them are known
          None,
          Lengths,                 \* what u8 can hold: 256
          Transactions             \* what may come from the node

ASSUME NoneAssumption == None \notin Key \union Program
ASSUME LengthAssumption == Lengths \in Nat \ {0}

Amount == [unit : {"lamports", "tokens"}, value : Nat]

(* The first instruction: its kind, the program id it names, whether its   *)
(* type is a transfer type of that program, the destination and the number *)
(* in its info, and the index of the program's key if it is not parsed.    *)
Instruction ==
  [kind : {"none", "parsed", "compiled"}, program : Program \union {None},
   transfer : BOOLEAN, dest : Key \union {None}, amount : Nat \union {None},
   index : 0 .. Lengths - 1]

(* Encoded as JSON, with metadata and a parsed message, or not; the fields *)
(* of the message and the metadata.                                        *)
ASSUME InputAssumption ==
  Transactions \subseteq [usable : BOOLEAN, keys : Seq(Key), instr : Instruction,
                          pre : Seq(Nat), post : Seq(Nat)]

VARIABLES
  tx,           \* the transaction to extract
  pc,           \* "start", "instruction", "balances", "done"; "none" when
                \* there is nothing to store, "panic" on a bad index
  destination, amount, program,
  seen,         \* balances compared so far
  decrease, increase, src, dst   \* largest_decrease, ...

found == <<destination, amount, program>>
scan == <<seen, decrease, increase, src, dst>>
vars == <<tx, pc, found, scan>>

Init ==
  /\ tx \in Transactions
  /\ pc = "start"
  /\ destination = None /\ amount = None /\ program = None
  /\ seen = 0 /\ decrease = 0 /\ increase = 0 /\ src = 1 /\ dst = 1

-----------------------------------------------------------------------------
(* extract_transaction.                                                    *)

Reject ==
  /\ pc = "start"
  /\ ~tx.usable \/ tx.keys = <<>>
  /\ pc' = "none"
  /\ UNCHANGED <<tx, found, scan>>

Begin ==
  /\ pc = "start"
  /\ tx.usable /\ tx.keys # <<>>
  /\ pc' = "instruction"
  /\ UNCHANGED <<tx, found, scan>>

-----------------------------------------------------------------------------
(* The first instruction.                                                  *)

IsTransfer(t) ==
  /\ t.instr.kind = "parsed"
  /\ t.instr.program \in {System, Token}
  /\ t.instr.transfer

Told(t) == IF IsTransfer(t) THEN t.instr.dest ELSE None

ToldAmount(t) ==
  IF IsTransfer(t) /\ t.instr.amount # None
  THEN [unit |-> IF t.instr.program = System THEN "lamports" ELSE "tokens",
        value |-> t.instr.amount]
  ELSE None

Parsed ==
  /\ pc = "instruction"
  /\ tx.instr.kind # "compiled"
  /\ program' = IF tx.instr.kind = "parsed" THEN tx.instr.program ELSE None
  /\ destination' = Told(tx)
  /\ amount' = ToldAmount(tx)
  /\ pc' = "balances"
  /\ UNCHANGED <<tx, scan>>

(* account_keys.len() as u8. *)
Truncated(n) == n % Lengths

(* Mutant of KeyGuard: the index is trusted up to the last length. *)
KeyGuardLast == tx.instr.index <= Truncated(Len(tx.keys))
KeyGuard == tx.instr.index < Truncated(Len(tx.keys))

(* The key is read only behind the guard; an index past the end panics.    *)
Compiled ==
  /\ pc = "instruction"
  /\ tx.instr.kind = "compiled"
  /\ IF KeyGuard
     THEN IF tx.instr.index < Len(tx.keys)
          THEN program' = tx.keys[tx.instr.index + 1] /\ pc' = "balances"
          ELSE pc' = "panic" /\ UNCHANGED program
     ELSE pc' = "balances" /\ UNCHANGED program
  /\ UNCHANGED <<tx, destination, amount, scan>>

-----------------------------------------------------------------------------
(* The balances.                                                           *)

Pairs(t) == IF Len(t.pre) < Len(t.post) THEN Len(t.pre) ELSE Len(t.post)
\* The casts to i64 change nothing below 2^63 lamports, and there are fewer.
Change(t, k) == t.post[k] - t.pre[k]

Finish ==
  /\ pc = "balances"
  /\ destination # None \/ tx.pre = <<>> \/ tx.post = <<>>
  /\ pc' = "done"
  /\ UNCHANGED <<tx, found, scan>>

Inferring == pc = "balances" /\ destination = None /\ tx.pre # <<>> /\ tx.post # <<>>

(* Mutant of Compare: an increase as large as the last one counts as new. *)
CompareLast ==
  LET k == seen + 1  change == Change(tx, k)
  IN /\ Inferring /\ seen < Pairs(tx)
     /\ seen' = k
     /\ IF change < -decrease
        THEN decrease' = -change /\ src' = k /\ UNCHANGED <<increase, dst>>
        ELSE IF change >= increase
        THEN increase' = change /\ dst' = k /\ UNCHANGED <<decrease, src>>
        ELSE UNCHANGED <<decrease, increase, src, dst>>
     /\ UNCHANGED <<tx, pc, found>>

Compare ==
  LET k == seen + 1  change == Change(tx, k)
  IN /\ Inferring /\ seen < Pairs(tx)
     /\ seen' = k
     /\ IF change < -decrease
        THEN decrease' = -change /\ src' = k /\ UNCHANGED <<increase, dst>>
        ELSE IF change > increase
        THEN increase' = change /\ dst' = k /\ UNCHANGED <<decrease, src>>
        ELSE UNCHANGED <<decrease, increase, src, dst>>
     /\ UNCHANGED <<tx, pc, found>>

Conclude ==
  /\ Inferring /\ seen = Pairs(tx)
  /\ IF decrease > 0 /\ increase > 0 /\ src # dst /\ dst <= Len(tx.keys)
     THEN /\ destination' = tx.keys[dst]
          /\ amount' = [unit |-> "lamports", value |-> increase]
     ELSE UNCHANGED <<destination, amount>>
  /\ pc' = "done"
  /\ UNCHANGED <<tx, program, scan>>

Next == Reject \/ Begin \/ Parsed \/ Compiled \/ Finish \/ Compare \/ Conclude

Spec == Init /\ [][Next]_vars

-----------------------------------------------------------------------------
(* Correctness.                                                            *)

(* The first of the largest increases.                                     *)
Gains(t, k) ==
  /\ k \in 1 .. Pairs(t) /\ Change(t, k) > 0
  /\ \A j \in 1 .. Pairs(t) : Change(t, j) <= Change(t, k)
  /\ \A j \in 1 .. k - 1 : Change(t, j) < Change(t, k)

Loses(t) == \E j \in 1 .. Pairs(t) : Change(t, j) < 0

(* What a look at all balances at once gives: a transfer keeps the         *)
(* destination it names; otherwise the destination is the first account    *)
(* with the largest gain, with that gain as its amount, provided some      *)
(* account lost and the gaining one has a key.                             *)
Amounts(t, d, m) ==
  \/ /\ Told(t) # None
     /\ d = Told(t) /\ m = ToldAmount(t)
  \/ /\ Told(t) = None
     /\ \E k \in 1 .. Len(t.keys) :
          /\ Gains(t, k) /\ Loses(t)
          /\ d = t.keys[k]
          /\ m = [unit |-> "lamports", value |-> Change(t, k)]
  \/ /\ Told(t) = None
     /\ ~ \E k \in 1 .. Len(t.keys) : Gains(t, k) /\ Loses(t)
     /\ d = None /\ m = ToldAmount(t)

(* The one pass over the balances, with its two running extremes, stores   *)
(* just that.                                                              *)
StoresTheTransfer == pc = "done" => Amounts(tx, destination, amount)

(* No index an instruction carries is past the end of the keys when it is  *)
(* used, however the truncation of their number turns out; and only if     *)
(* they are as many as a byte can hold, or the index is bad, is no program *)
(* found.                                                                  *)
IndexIsSafe ==
  /\ pc # "panic"
  /\ pc = "done" /\ tx.instr.kind = "compiled" /\ program = None =>
       Len(tx.keys) >= Lengths \/ tx.instr.index >= Len(tx.keys)

(* Each step leaves less to do: a stage of the extraction is over, or one  *)
(* more pair of balances is compared.                                      *)
StepsLeft ==
  Pairs(tx) - seen + CASE pc = "start" -> 3 [] pc = "instruction" -> 2
                       [] pc = "balances" -> 1 [] OTHER -> 0

ExtractionAdvances == [][StepsLeft' < StepsLeft /\ tx' = tx]_vars

===============================================================================
