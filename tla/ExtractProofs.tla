----------------------------- MODULE ExtractProofs -----------------------------
(***************************************************************************)
(* Proofs about Extract.tla, for every set of transactions, with any number*)
(* of keys and balances.                                                   *)
(***************************************************************************)
EXTENDS Extract, TLAPS

(* An element of a sequence of numbers is a number.                        *)
LEMMA Elements ==
  ASSUME NEW s \in Seq(Nat), NEW k \in 1 .. Len(s)
  PROVE  s[k] \in Nat
  OBVIOUS

USE NoneAssumption, LengthAssumption, InputAssumption

Typed ==
  /\ tx \in Transactions
  /\ pc \in {"start", "instruction", "balances", "done", "none", "panic"}
  /\ program \in Key \union Program \union {None}
  /\ seen \in 0 .. Pairs(tx)
  /\ decrease \in Nat /\ increase \in Nat
  /\ src \in Nat \ {0} /\ dst \in Nat \ {0}

(* Until the balances are through, destination and amount are what the     *)
(* instruction told.                                                       *)
AsTold ==
  /\ pc \in {"start", "instruction"} =>
       destination = None /\ amount = None /\ program = None
  /\ pc = "balances" => destination = Told(tx) /\ amount = ToldAmount(tx)
  /\ pc = "balances" /\ tx.instr.kind = "compiled" /\ program = None =>
       Len(tx.keys) >= Lengths \/ tx.instr.index >= Len(tx.keys)

(* The loop invariant: the extremes of the balances seen so far, and where *)
(* they were met first.                                                    *)
Extremes ==
  /\ \A j \in 1 .. seen : -decrease <= Change(tx, j) /\ Change(tx, j) <= increase
  /\ decrease > 0 => src \in 1 .. seen /\ Change(tx, src) = -decrease
  /\ increase > 0 => /\ dst \in 1 .. seen /\ Change(tx, dst) = increase
                     /\ \A j \in 1 .. dst - 1 : Change(tx, j) < increase

IInv == Typed /\ AsTold /\ Extremes /\ StoresTheTransfer /\ IndexIsSafe

-----------------------------------------------------------------------------
LEMMA Fields ==
  ASSUME NEW t \in Transactions
  PROVE  /\ t.keys \in Seq(Key) /\ t.instr \in Instruction
         /\ t.pre \in Seq(Nat) /\ t.post \in Seq(Nat)
  OBVIOUS

LEMMA ChangesAreIntegers ==
  ASSUME NEW t \in Transactions
  PROVE  /\ Pairs(t) \in Nat
         /\ \A k \in 1 .. Pairs(t) : Change(t, k) \in Int
  <1>1. t.pre \in Seq(Nat) /\ t.post \in Seq(Nat)
    BY Fields
  <1>2. Len(t.pre) \in Nat /\ Len(t.post) \in Nat
    BY <1>1
  <1>3. Pairs(t) \in Nat /\ Pairs(t) <= Len(t.pre) /\ Pairs(t) <= Len(t.post)
    BY <1>2 DEF Pairs
  <1>4. ASSUME NEW k \in 1 .. Pairs(t) PROVE Change(t, k) \in Int
    <2>1. k \in 1 .. Len(t.pre) /\ k \in 1 .. Len(t.post)
      BY <1>2, <1>3
    <2>2. t.pre[k] \in Nat /\ t.post[k] \in Nat
      BY <1>1, <2>1, Elements
    <2> QED BY <2>2 DEF Change
  <1> QED BY <1>3, <1>4

(* A length that fits is what it is, and truncation never makes one longer.*)
LEMMA Truncation ==
  ASSUME NEW n \in Nat
  PROVE  /\ Truncated(n) \in Nat /\ Truncated(n) <= n
         /\ n < Lengths => Truncated(n) = n
  <1>1. n % Lengths \in 0 .. Lengths - 1
    OBVIOUS
  <1>2. n < Lengths => n % Lengths = n
    OBVIOUS
  <1> QED BY <1>1, <1>2 DEF Truncated

LEMMA InitIInv == Init => IInv
  <1> SUFFICES ASSUME Init PROVE IInv
    OBVIOUS
  <1>1. Typed
    BY ChangesAreIntegers DEF Init, Typed
  <1>2. AsTold /\ Extremes /\ StoresTheTransfer /\ IndexIsSafe
    BY DEF Init, AsTold, Extremes, StoresTheTransfer, IndexIsSafe
  <1> QED BY <1>1, <1>2 DEF IInv

LEMMA BeforeTheBalances ==
  ASSUME IInv, Reject \/ Begin \/ Parsed \/ Compiled \/ Finish
  PROVE  IInv'
  <1>0. UNCHANGED <<tx, seen, decrease, increase, src, dst>>
    BY DEF Reject, Begin, Parsed, Compiled, Finish, scan
  <1>1. Extremes'
    BY <1>0 DEF IInv, Extremes, Change
  <1>2. CASE Reject \/ Begin
    BY <1>0, <1>1, <1>2 DEF Reject, Begin, found, IInv, Typed, AsTold, Pairs,
       StoresTheTransfer, IndexIsSafe
  <1>3. CASE Parsed
    <2>1. tx.instr \in Instruction /\ tx' = tx
      BY <1>0, Fields DEF IInv, Typed
    <2> QED BY <1>0, <1>1, <1>3, <2>1 DEF Parsed, IInv, Typed, AsTold, Pairs, Told,
            ToldAmount, IsTransfer, StoresTheTransfer, IndexIsSafe, Instruction
  <1>4. CASE Compiled
    <2>1. /\ Len(tx.keys) \in Nat /\ tx.keys \in Seq(Key)
          /\ tx.instr.index \in Nat /\ tx.instr.kind = "compiled"
      BY <1>4, Fields DEF Compiled, IInv, Typed, Instruction
    <2>2. KeyGuard => tx.instr.index < Len(tx.keys)
      BY <2>1, Truncation DEF KeyGuard
    <2>3. /\ pc' = "balances" /\ UNCHANGED <<destination, amount>>
          /\ IF KeyGuard THEN program' = tx.keys[tx.instr.index + 1]
                         ELSE program' = program
      BY <1>4, <2>2 DEF Compiled
    <2>4. KeyGuard => program' \in Key
      BY <2>1, <2>2, <2>3
    <2>5. Told(tx) = None /\ ToldAmount(tx) = None
      BY <2>1 DEF Told, ToldAmount, IsTransfer
    <2>6. program' = None => Len(tx.keys) >= Lengths \/ tx.instr.index >= Len(tx.keys)
      BY <2>1, <2>3, <2>4, Truncation DEF KeyGuard
    <2>7. Typed' /\ AsTold'
      BY <1>0, <1>4, <2>3, <2>4, <2>5, <2>6 DEF Compiled, IInv, Typed, AsTold, Told,
         ToldAmount, IsTransfer, Pairs
    <2>8. StoresTheTransfer' /\ IndexIsSafe'
      BY <2>3 DEF StoresTheTransfer, IndexIsSafe
    <2> QED BY <1>1, <2>7, <2>8 DEF IInv
  <1>5. CASE Finish
    <2>1. tx' = tx /\ program' = program /\ destination' = destination /\ amount' = amount
          /\ pc = "balances" /\ pc' = "done"
      BY <1>5 DEF Finish, found
    <2>2. Told(tx) = None => Pairs(tx) = 0
      BY <1>5, Fields DEF Finish, IInv, Typed, AsTold, Pairs
    <2>3. StoresTheTransfer'
      BY <2>1, <2>2 DEF IInv, AsTold, StoresTheTransfer, Amounts, Told, ToldAmount,
         IsTransfer, Gains
    <2> QED BY <1>0, <1>1, <2>1, <2>3 DEF IInv, Typed, AsTold, IndexIsSafe, Pairs
  <1> QED BY <1>2, <1>3, <1>4, <1>5

(* One more balance is compared.                                           *)
LEMMA StepCompare ==
  ASSUME IInv, Compare
  PROVE  IInv'
  <1> DEFINE k == seen + 1
             change == Change(tx, k)
  <1>1. /\ seen \in Nat /\ k \in 1 .. Pairs(tx) /\ change \in Int
        /\ decrease \in Nat /\ increase \in Nat /\ Pairs(tx) \in Nat
        /\ \A j \in 1 .. seen : Change(tx, j) \in Int
    BY ChangesAreIntegers DEF IInv, Typed, Compare
  <1>2. UNCHANGED <<tx, pc, destination, amount, program>> /\ seen' = k
    BY DEF Compare, found
  <1>3. /\ \A j \in 1 .. seen : -decrease <= Change(tx, j) /\ Change(tx, j) <= increase
        /\ decrease > 0 => src \in 1 .. seen /\ Change(tx, src) = -decrease
        /\ increase > 0 => /\ dst \in 1 .. seen /\ Change(tx, dst) = increase
                           /\ \A j \in 1 .. dst - 1 : Change(tx, j) < increase
    BY DEF IInv, Extremes
  <1>4. \/ /\ change < -decrease /\ decrease' = -change /\ src' = k
           /\ UNCHANGED <<increase, dst>>
        \/ /\ change >= -decrease /\ change > increase
           /\ increase' = change /\ dst' = k /\ UNCHANGED <<decrease, src>>
        \/ /\ change >= -decrease /\ change <= increase
           /\ UNCHANGED <<decrease, increase, src, dst>>
    BY <1>1 DEF Compare
  <1>5. \A j \in 1 .. k : j \in 1 .. seen \/ j = k
    BY <1>1
  <1>6. /\ k \in Nat \ {0} /\ seen < k /\ 1 .. seen \subseteq 1 .. k
        /\ 1 .. k - 1 \subseteq 1 .. seen
    BY <1>1
  <1> HIDE DEF change, k
  <1>7. Typed'
    <2>1. decrease' \in Nat /\ increase' \in Nat
      BY <1>1, <1>4
    <2>2. src' \in Nat \ {0} /\ dst' \in Nat \ {0}
      BY <1>4, <1>6 DEF IInv, Typed
    <2>3. Pairs(tx)' = Pairs(tx) /\ seen' \in 0 .. Pairs(tx)
      BY <1>1, <1>2 DEF Pairs
    <2> QED BY <1>2, <2>1, <2>2, <2>3 DEF IInv, Typed
  <1>8. /\ \A j \in 1 .. k : -decrease' <= Change(tx, j) /\ Change(tx, j) <= increase'
        /\ decrease' > 0 => src' \in 1 .. k /\ Change(tx, src') = -decrease'
        /\ increase' > 0 => /\ dst' \in 1 .. k /\ Change(tx, dst') = increase'
                            /\ \A j \in 1 .. dst' - 1 : Change(tx, j) < increase'
    <2>0. change = Change(tx, k)
      BY DEF change
    <2>1. CASE change < -decrease /\ decrease' = -change /\ src' = k /\ UNCHANGED <<increase, dst>>
      <3>1. ASSUME NEW j \in 1 .. k
            PROVE  -decrease' <= Change(tx, j) /\ Change(tx, j) <= increase'
        <4>1. CASE j = k
          BY <1>1, <2>0, <2>1, <4>1
        <4>2. CASE j \in 1 .. seen
          <5>1. -decrease <= Change(tx, j) /\ Change(tx, j) <= increase /\ Change(tx, j) \in Int
            BY <1>1, <1>3, <4>2
          <5> QED BY <1>1, <2>1, <5>1
        <4> QED BY <1>5, <4>1, <4>2
      <3>2. decrease' > 0 => src' \in 1 .. k /\ Change(tx, src') = -decrease'
        BY <1>1, <1>6, <2>0, <2>1
      <3> QED BY <1>3, <1>6, <2>1, <3>1, <3>2
    <2>2. CASE /\ change >= -decrease /\ change > increase
               /\ increase' = change /\ dst' = k /\ UNCHANGED <<decrease, src>>
      <3>1. ASSUME NEW j \in 1 .. k
            PROVE  -decrease' <= Change(tx, j) /\ Change(tx, j) <= increase'
        <4>1. CASE j = k
          BY <1>1, <2>0, <2>2, <4>1
        <4>2. CASE j \in 1 .. seen
          <5>1. -decrease <= Change(tx, j) /\ Change(tx, j) <= increase /\ Change(tx, j) \in Int
            BY <1>1, <1>3, <4>2
          <5> QED BY <1>1, <2>2, <5>1
        <4> QED BY <1>5, <4>1, <4>2
      <3>2. ASSUME NEW j \in 1 .. dst' - 1
            PROVE  Change(tx, j) < increase'
        <4>1. j \in 1 .. seen
          BY <1>6, <2>2
        <4>2. Change(tx, j) <= increase /\ Change(tx, j) \in Int
          BY <1>1, <1>3, <4>1
        <4> QED BY <1>1, <2>2, <4>2
      <3>3. decrease' > 0 => src' \in 1 .. k /\ Change(tx, src') = -decrease'
        BY <1>3, <1>6, <2>2
      <3>4. dst' \in 1 .. k /\ Change(tx, dst') = increase'
        BY <1>6, <2>0, <2>2
      <3> QED BY <3>1, <3>2, <3>3, <3>4
    <2>3. CASE /\ change >= -decrease /\ change <= increase
               /\ UNCHANGED <<decrease, increase, src, dst>>
      <3>1. ASSUME NEW j \in 1 .. k
            PROVE  -decrease' <= Change(tx, j) /\ Change(tx, j) <= increase'
        <4>1. CASE j = k
          BY <1>1, <2>0, <2>3, <4>1
        <4>2. CASE j \in 1 .. seen
          <5>1. -decrease <= Change(tx, j) /\ Change(tx, j) <= increase /\ Change(tx, j) \in Int
            BY <1>1, <1>3, <4>2
          <5> QED BY <1>1, <2>3, <5>1
        <4> QED BY <1>5, <4>1, <4>2
      <3> QED BY <1>3, <1>6, <2>3, <3>1
    <2> QED BY <1>4, <2>1, <2>2, <2>3
  <1>9. Extremes'
    BY <1>2, <1>8 DEF Extremes, Change
  <1> QED BY <1>2, <1>7, <1>9 DEF IInv, AsTold, StoresTheTransfer, IndexIsSafe, Compare,
          Inferring

(* The pass is over: the extremes are those of all balances.               *)
LEMMA StepConclude ==
  ASSUME IInv, Conclude
  PROVE  IInv'
  <1>1. /\ pc = "balances" /\ pc' = "done" /\ seen = Pairs(tx) /\ tx' = tx
        /\ program' = program /\ destination = None
        /\ UNCHANGED <<seen, decrease, increase, src, dst>>
    BY DEF Conclude, Inferring, scan
  <1>2. /\ Told(tx) = None /\ amount = ToldAmount(tx)
        /\ tx.keys \in Seq(Key) /\ Len(tx.keys) \in Nat /\ Pairs(tx) \in Nat
        /\ \A j \in 1 .. Pairs(tx) : Change(tx, j) \in Int
        /\ decrease \in Nat /\ increase \in Nat
    BY <1>1, Fields, ChangesAreIntegers DEF IInv, Typed, AsTold
  <1>3. /\ \A j \in 1 .. Pairs(tx) : -decrease <= Change(tx, j) /\ Change(tx, j) <= increase
        /\ decrease > 0 => src \in 1 .. Pairs(tx) /\ Change(tx, src) = -decrease
        /\ increase > 0 => /\ dst \in 1 .. Pairs(tx) /\ Change(tx, dst) = increase
                           /\ \A j \in 1 .. dst - 1 : Change(tx, j) < increase
    BY <1>1 DEF IInv, Extremes
  <1>4. Loses(tx) <=> decrease > 0
    BY <1>2, <1>3 DEF Loses
  <1>5. increase > 0 => Gains(tx, dst)
    BY <1>3 DEF Gains
  <1>6. ASSUME NEW k \in Nat, Gains(tx, k) PROVE increase > 0 /\ k = dst
    <2>1. k \in 1 .. Pairs(tx) /\ Change(tx, k) > 0
      BY <1>6 DEF Gains
    <2>2. increase > 0
      BY <1>2, <1>3, <2>1
    <2>3. Change(tx, k) = increase
      BY <1>2, <1>3, <1>6, <2>1, <2>2 DEF Gains
    <2>4. ~ k < dst
      BY <1>2, <1>3, <2>1, <2>2, <2>3
    <2>5. ~ dst < k
      BY <1>2, <1>3, <1>6, <2>1, <2>2, <2>3 DEF Gains
    <2> QED BY <1>2, <1>3, <2>1, <2>2, <2>4, <2>5
  <1>7. decrease > 0 /\ increase > 0 => src # dst
    BY <1>2, <1>3
  <1>8. StoresTheTransfer'
    <2>1. CASE decrease > 0 /\ increase > 0 /\ dst <= Len(tx.keys)
      <3>1. /\ destination' = tx.keys[dst]
            /\ amount' = [unit |-> "lamports", value |-> increase]
        BY <1>7, <2>1 DEF Conclude
      <3>2. dst \in 1 .. Len(tx.keys) /\ Gains(tx, dst) /\ Loses(tx)
        BY <1>2, <1>3, <1>4, <1>5, <2>1
      <3>3. Change(tx, dst) = increase
        BY <1>3, <2>1
      <3> QED BY <1>1, <1>2, <3>1, <3>2, <3>3 DEF StoresTheTransfer, Amounts, Told, IsTransfer,
              Gains, Loses, Change, Pairs
    <2>2. CASE ~ (decrease > 0 /\ increase > 0 /\ dst <= Len(tx.keys))
      <3>1. destination' = None /\ amount' = amount
        BY <1>1, <2>2 DEF Conclude
      <3>2. ~ \E k \in 1 .. Len(tx.keys) : Gains(tx, k) /\ Loses(tx)
        BY <1>2, <1>4, <1>6, <2>2
      <3> QED BY <1>1, <1>2, <3>1, <3>2 DEF StoresTheTransfer, Amounts, Told, ToldAmount,
              IsTransfer, Gains, Loses, Change, Pairs
    <2> QED BY <2>1, <2>2
  <1>9. Typed' /\ AsTold' /\ Extremes' /\ IndexIsSafe'
    BY <1>1 DEF IInv, Typed, AsTold, Extremes, IndexIsSafe, Pairs, Change
  <1> QED BY <1>8, <1>9 DEF IInv

-----------------------------------------------------------------------------
(* The loop invariant holds of every step, and with it what is stored.     *)
THEOREM Invariance == Spec => []IInv
  <1>1. IInv /\ [Next]_vars => IInv'
    <2>1. ASSUME IInv, UNCHANGED vars PROVE IInv'
      BY <2>1 DEF vars, found, scan, IInv, Typed, AsTold, Extremes, StoresTheTransfer,
         IndexIsSafe, Pairs, Change, Gains, Loses
    <2> QED BY <2>1, BeforeTheBalances, StepCompare, StepConclude DEF Next
  <1> QED BY <1>1, InitIInv, PTL DEF Spec

(* Whatever transaction comes in, what is stored as its destination and    *)
(* amount is what the definition over all its balances gives.              *)
THEOREM AlwaysStoresTheTransfer == Spec => []StoresTheTransfer
  <1>1. IInv => StoresTheTransfer
    BY DEF IInv
  <1> QED BY <1>1, Invariance, PTL

(* No program index panics, for any number of keys and whatever it is      *)
(* truncated to.                                                           *)
THEOREM IndexAlwaysSafe == Spec => []IndexIsSafe
  <1>1. IInv => IndexIsSafe
    BY DEF IInv
  <1> QED BY <1>1, Invariance, PTL

-----------------------------------------------------------------------------
(* The extraction ends, and gives one result.                              *)

LEMMA StepAdvances ==
  ASSUME Typed, Next
  PROVE  StepsLeft' < StepsLeft /\ tx' = tx
  <1>1. /\ tx' = tx /\ Pairs(tx)' = Pairs(tx)
        /\ Pairs(tx) \in Nat /\ seen \in 0 .. Pairs(tx)
    <2>1. tx' = tx
      BY DEF Next, Reject, Begin, Parsed, Compiled, Finish, Compare, Conclude
    <2> QED BY <2>1, ChangesAreIntegers DEF Typed, Pairs
  <1>2. CASE Reject \/ Begin \/ Parsed \/ Finish \/ Conclude
    <2>1. seen' = seen
      BY <1>2 DEF Reject, Begin, Parsed, Finish, Conclude, scan
    <2> QED BY <1>1, <1>2, <2>1 DEF Reject, Begin, Parsed, Finish, Conclude, Inferring,
            StepsLeft
  <1>3. CASE Compiled
    <2>1. seen' = seen /\ pc = "instruction" /\ pc' \in {"balances", "panic"}
      BY <1>3 DEF Compiled, scan
    <2> QED BY <1>1, <2>1 DEF StepsLeft
  <1>4. CASE Compare
    <2>1. seen' = seen + 1 /\ pc = "balances" /\ pc' = pc
      BY <1>4 DEF Compare, Inferring
    <2> QED BY <1>1, <2>1 DEF StepsLeft
  <1> QED BY <1>2, <1>3, <1>4 DEF Next

(* An extraction takes at most three steps more than there are pairs of    *)
(* balances, for whatever the node returned.                               *)
THEOREM ExtractionAlwaysAdvances ==
  Spec => ExtractionAdvances /\ [](StepsLeft \in 0 .. Pairs(tx) + 3)
  <1>1. IInv /\ [Next]_vars => [StepsLeft' < StepsLeft /\ tx' = tx]_vars
    BY StepAdvances DEF IInv
  <1>2. IInv => StepsLeft \in 0 .. Pairs(tx) + 3
    <2> SUFFICES ASSUME IInv PROVE StepsLeft \in 0 .. Pairs(tx) + 3
      OBVIOUS
    <2>1. Pairs(tx) \in Nat /\ seen \in 0 .. Pairs(tx)
      BY ChangesAreIntegers DEF IInv, Typed
    <2> QED BY <2>1 DEF StepsLeft
  <1> QED BY <1>1, <1>2, Invariance, PTL DEF Spec, ExtractionAdvances

(* A transaction that is fetched twice, by the poll that finds it and by   *)
(* the worker that stores it, or by both pollers, is stored as the same:   *)
(* destination and amount are determined by what the node returned.        *)
THEOREM OneResult ==
  ASSUME NEW t \in Transactions, NEW d, NEW m, NEW e, NEW n,
         Amounts(t, d, m), Amounts(t, e, n)
  PROVE  d = e /\ m = n
  <1>1. ASSUME NEW k \in Nat, NEW j \in Nat, Gains(t, k), Gains(t, j)
        PROVE  ~ (k < j)
    <2>1. /\ k \in 1 .. Pairs(t) /\ j \in 1 .. Pairs(t)
          /\ Change(t, j) <= Change(t, k)
          /\ k \in 1 .. j - 1 => Change(t, k) < Change(t, j)
      BY <1>1 DEF Gains
    <2>2. Change(t, j) \in Int /\ Change(t, k) \in Int
      BY <2>1, ChangesAreIntegers
    <2> QED BY <2>1, <2>2
  <1>2. ASSUME NEW k \in Nat, NEW j \in Nat, Gains(t, k), Gains(t, j)
        PROVE  k = j
    BY <1>1, <1>2
  <1>3. \A k \in 1 .. Len(t.keys) : k \in Nat
    OBVIOUS
  <1> QED BY <1>2, <1>3 DEF Amounts

================================================================================
