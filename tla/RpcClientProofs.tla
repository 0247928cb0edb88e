--------------------------- MODULE RpcClientProofs ---------------------------
(***************************************************************************)
(* Proofs about RpcClient.tla, for every number of tasks, callers and      *)
(* limiters, every rate, and windows of every length.                      *)
(***************************************************************************)
EXTENDS RpcClient, TLAPS

USE TaskAssumption, RateAssumption

(* The time a limiter's client has been given in the window pays for the   *)
(* cells it took and those it still has; a full limiter is not collecting. *)
CellsArePaid ==
  \A l \in Limiter :
    /\ charged[l] * Interval + cells[l] * Interval + Interval
         <= Burst * Interval + next[l] + span
    /\ cells[l] = Burst => next[l] = Interval

(* A caller in its sleep wakes with the next cell, and for every request   *)
(* it made without one a cell was due in the window, except for two.       *)
SleepsArePaid ==
  \A c \in Caller :
    LET l == LimiterFor(c)
    IN /\ pc[c] # "sleep" =>
            free[c] * Interval <= span + next[l] + Interval
       /\ pc[c] = "sleep" /\ left[c] # 0 =>
            /\ cells[l] = 0 /\ next[l] = left[c]
            /\ free[c] * Interval <= span + left[c] + Interval
       /\ pc[c] = "sleep" /\ left[c] = 0 =>
            free[c] * Interval <= span + next[l]

IInv == TypeOK /\ CellsArePaid /\ SleepsArePaid

-----------------------------------------------------------------------------
(* One more of n is one unit more.                                         *)
LEMMA OneMore == \A n \in Nat : (n + 1) * Interval = n * Interval + Interval
  OBVIOUS

LEMMA Products ==
  /\ 0 * Interval = 0
  /\ Burst * Interval \in Nat
  /\ \A n \in Nat : n * Interval \in Nat
  OBVIOUS

LEMMA LimitersAreLimiters == \A c \in Caller : LimiterFor(c) \in Limiter
  BY DEF LimiterFor

LEMMA InitIInv == Init => IInv
  <1> SUFFICES ASSUME Init PROVE IInv
    OBVIOUS
  <1>1. TypeOK
    BY DEF Init, TypeOK
  <1>2. CellsArePaid
    BY Products DEF Init, CellsArePaid
  <1>3. SleepsArePaid
    BY Products, LimitersAreLimiters DEF Init, SleepsArePaid
  <1> QED BY <1>1, <1>2, <1>3 DEF IInv

-----------------------------------------------------------------------------
(* Type correctness.                                                       *)

LEMMA StepType == TypeOK /\ [Next]_vars => TypeOK'
  <1> SUFFICES ASSUME TypeOK, [Next]_vars PROVE TypeOK'
    OBVIOUS
  <1> USE LimitersAreLimiters
  <1>1. ASSUME NEW t \in Task, NEW S \in SUBSET Caller, Begin(t, S)
        PROVE  TypeOK'
    BY <1>1 DEF TypeOK, Begin, limiters, window
  <1>2. ASSUME NEW t \in Task, Build(t) PROVE TypeOK'
    BY <1>2 DEF TypeOK, Build, callers
  <1>3. ASSUME NEW c \in Caller, Check(c) PROVE TypeOK'
    BY <1>3 DEF TypeOK, Check, Run
  <1>4. ASSUME NEW c \in Caller, CheckFails(c) PROVE TypeOK'
    BY <1>4 DEF TypeOK, CheckFails, limiters, window
  <1>5. ASSUME NEW c \in Caller, Wake(c) PROVE TypeOK'
    BY <1>5 DEF TypeOK, Wake, Run, limiters
  <1>6. ASSUME NEW c \in Caller, Succeeds(c) PROVE TypeOK'
    BY <1>6 DEF TypeOK, Succeeds, Return, limiters, window
  <1>7. ASSUME NEW c \in Caller, Fails(c) PROVE TypeOK'
    <2>1. CASE Return(c)
      BY <1>7, <2>1 DEF TypeOK, Fails, Return, limiters, window
    <2>2. ASSUME retries[c] # MaxRetries, NEW jitter \in 0 .. MinDelay,
                 pc' = [pc EXCEPT ![c] = "wait"],
                 left' = [left EXCEPT ![c] = NextDelay(c) + jitter],
                 retries' = [retries EXCEPT ![c] = @ + 1],
                 delay' = [delay EXCEPT ![c] = NextDelay(c)]
          PROVE  TypeOK'
      <3>1. NextDelay(c) \in Nat
        BY DEF TypeOK, NextDelay
      <3> QED BY <1>7, <2>2, <3>1 DEF TypeOK, Fails, limiters, window
    <2> QED BY <1>7, <2>1, <2>2 DEF Fails
  <1>8. CASE Tick
    <2>1. ASSUME NEW l \in Limiter
          PROVE  /\ (IF Refills(l) THEN cells[l] + 1 ELSE cells[l]) \in 0 .. Burst
                 /\ (IF cells[l] = Burst \/ Refills(l) THEN Interval ELSE next[l] - 1)
                       \in 1 .. Interval
      <3>1. cells[l] \in 0 .. Burst /\ next[l] \in 1 .. Interval
        BY DEF TypeOK
      <3> QED BY <3>1, RateAssumption DEF Refills
    <2>2. cells' \in [Limiter -> 0 .. Burst] /\ next' \in [Limiter -> 1 .. Interval]
      BY <1>8, <2>1 DEF Tick, Refill
    <2>3. left' \in [Caller -> Nat]
      <3>1. ASSUME NEW c \in Caller PROVE Less(left[c]) \in Nat
        <4>1. left[c] \in Nat
          BY DEF TypeOK
        <4> QED BY <4>1 DEF Less
      <3> QED BY <1>8, <3>1 DEF Tick
    <2>4. charged' \in [Limiter -> Nat] /\ free' \in [Caller -> Nat] /\ span' \in Nat
      BY <1>8 DEF TypeOK, Tick, Observe
    <2> QED BY <1>8, <2>2, <2>3, <2>4 DEF TypeOK, Tick
  <1>9. CASE UNCHANGED vars
    BY <1>9 DEF TypeOK, vars, limiters, callers, window
  <1> QED BY <1>1, <1>2, <1>3, <1>4, <1>5, <1>6, <1>7, <1>8, <1>9
          DEF Next, CallerStep

-----------------------------------------------------------------------------
(* Cells.                                                                  *)

LEMMA StepCells ==
  ASSUME TypeOK, CellsArePaid, [Next]_vars
  PROVE  CellsArePaid'
  <1> USE LimitersAreLimiters
  <1>1. ASSUME UNCHANGED <<cells, next, charged, span>> PROVE CellsArePaid'
    BY <1>1 DEF CellsArePaid
  <1>2. ASSUME NEW t \in Task, Build(t) PROVE CellsArePaid'
    BY <1>2, Products DEF Build, CellsArePaid, TypeOK
  <1>3. ASSUME NEW c \in Caller, Check(c) PROVE CellsArePaid'
    <2> DEFINE l == LimiterFor(c)
    <2>1. cells[l] \in Nat /\ cells[l] - 1 \in Nat /\ charged[l] \in Nat
      BY <1>3 DEF Check, TypeOK
    <2>2. (charged[l] + 1) * Interval = charged[l] * Interval + Interval
      BY <2>1, OneMore
    <2>3. cells[l] * Interval = (cells[l] - 1) * Interval + Interval
      BY <2>1, OneMore
    <2>4. ASSUME NEW k \in Limiter
          PROVE  /\ charged'[k] * Interval + cells'[k] * Interval + Interval
                      <= Burst * Interval + next'[k] + span'
                 /\ cells'[k] = Burst => next'[k] = Interval
      <3>1. CASE k = l
        <4>1. /\ cells'[k] = cells[l] - 1 /\ charged'[k] = charged[l] + 1
              /\ next'[k] = next[l] /\ span' = span /\ cells'[k] # Burst
          BY <1>3, <2>1, <3>1 DEF Check, TypeOK
        <4> QED BY <2>1, <2>2, <2>3, <3>1, <4>1, Products DEF CellsArePaid, TypeOK
      <3>2. CASE k # l
        BY <1>3, <3>2 DEF Check, CellsArePaid, TypeOK
      <3> QED BY <3>1, <3>2
    <2> QED BY <2>4 DEF CellsArePaid
  <1>4. CASE Tick
    <2> SUFFICES ASSUME NEW l \in Limiter
                 PROVE  /\ charged'[l] * Interval + cells'[l] * Interval + Interval
                             <= Burst * Interval + next'[l] + span'
                        /\ cells'[l] = Burst => next'[l] = Interval
      BY DEF CellsArePaid
    <2>1. /\ cells[l] \in Nat /\ charged[l] \in Nat /\ next[l] \in 1 .. Interval
          /\ cells[l] <= Burst /\ span \in Nat
      BY DEF TypeOK
    <2>2. (cells[l] + 1) * Interval = cells[l] * Interval + Interval
      BY <2>1, OneMore
    <2>3. /\ charged[l] * Interval + cells[l] * Interval + Interval
                <= Burst * Interval + next[l] + span
          /\ cells[l] = Burst => next[l] = Interval
      BY DEF CellsArePaid
    <2>4. CASE cells[l] = Burst
      <3>1. charged'[l] * Interval <= span'
        BY <1>4, <2>1, <2>3, <2>4, Products DEF Tick, Observe
      <3>2. cells'[l] = Burst /\ next'[l] = Interval
        BY <1>4, <2>4 DEF Tick, Refill, Refills, TypeOK
      <3>3. charged'[l] * Interval \in Nat /\ span' \in Nat
        BY <1>4, <2>1, Products DEF Tick, Observe, TypeOK
      <3> QED BY <3>1, <3>2, <3>3, Products
    <2>5. CASE cells[l] # Burst
      <3>1. charged'[l] * Interval + cells[l] * Interval + Interval + 1
              <= Burst * Interval + next[l] + span'
        <4>1. CASE span' = span + 1 /\ charged' = charged
          BY <2>1, <2>3, <4>1, Products
        <4>2. CASE span' = 0 /\ charged' = [k \in Limiter |-> 0]
          <5>1. Burst - cells[l] - 1 \in Nat
            BY <2>1, <2>5
          <5>2. Burst * Interval = (Burst - cells[l] - 1) * Interval
                                     + (cells[l] + 1) * Interval
            BY <2>1, <5>1
          <5>3. cells[l] * Interval + Interval <= Burst * Interval
            BY <2>1, <2>2, <5>1, <5>2, Products
          <5>4. charged'[l] * Interval = 0 /\ span' = 0
            BY <4>2, Products
          <5>5. cells[l] * Interval \in Nat /\ Burst * Interval \in Nat
            BY <2>1, Products
          <5> QED BY <2>1, <5>3, <5>4, <5>5
        <4> QED BY <1>4, <4>1, <4>2 DEF Tick, Observe
      <3>2. charged'[l] * Interval \in Nat /\ span' \in Nat
        BY <1>4, <2>1, Products DEF Tick, Observe, TypeOK
      <3>3. CASE next[l] = 1
        <4>1. cells'[l] = cells[l] + 1 /\ next'[l] = Interval
          <5>1. Refills(l)
            BY <2>1, <2>5, <3>3, RateAssumption DEF Refills
          <5> QED BY <1>4, <5>1 DEF Tick, Refill
        <4>2. cells'[l] * Interval = cells[l] * Interval + Interval
          BY <2>2, <4>1
        <4>3. cells[l] * Interval \in Nat /\ Burst * Interval \in Nat
          BY <2>1, Products
        <4> QED BY <3>1, <3>2, <3>3, <4>1, <4>2, <4>3, RateAssumption
      <3>4. CASE next[l] # 1
        <4>1. cells'[l] = cells[l] /\ next'[l] = next[l] - 1
          <5>1. ~Refills(l)
            BY <3>4 DEF Refills
          <5> QED BY <1>4, <2>5, <5>1 DEF Tick, Refill
        <4>2. cells[l] * Interval \in Nat /\ Burst * Interval \in Nat
          BY <2>1, Products
        <4> QED BY <2>1, <2>5, <3>1, <3>2, <4>1, <4>2
      <3> QED BY <3>3, <3>4
    <2> QED BY <2>4, <2>5
  <1>5. ASSUME NEW t \in Task, NEW S \in SUBSET Caller, Begin(t, S)
        PROVE  CellsArePaid'
    BY <1>1, <1>5 DEF Begin, limiters, window
  <1>6. ASSUME NEW c \in Caller,
               CheckFails(c) \/ Wake(c) \/ Succeeds(c) \/ Fails(c)
        PROVE  CellsArePaid'
    BY <1>1, <1>6 DEF CheckFails, Wake, Succeeds, Fails, limiters, window
  <1>7. CASE UNCHANGED vars
    BY <1>1, <1>7 DEF vars, limiters, window
  <1> QED BY <1>2, <1>3, <1>4, <1>5, <1>6, <1>7 DEF Next, CallerStep

-----------------------------------------------------------------------------
(* Sleeps.                                                                 *)

(* What SleepsArePaid says of one caller.                                  *)
SleepIsPaid(c) ==
  /\ pc[c] # "sleep" =>
       free[c] * Interval <= span + next[LimiterFor(c)] + Interval
  /\ pc[c] = "sleep" /\ left[c] # 0 =>
       /\ cells[LimiterFor(c)] = 0 /\ next[LimiterFor(c)] = left[c]
       /\ free[c] * Interval <= span + left[c] + Interval
  /\ pc[c] = "sleep" /\ left[c] = 0 =>
       free[c] * Interval <= span + next[LimiterFor(c)]

LEMMA SleepsAreSleep == SleepsArePaid <=> \A c \in Caller : SleepIsPaid(c)
  BY DEF SleepsArePaid, SleepIsPaid

LEMMA StepSleeps ==
  ASSUME TypeOK, SleepsArePaid, [Next]_vars
  PROVE  SleepsArePaid'
  <1> USE LimitersAreLimiters
  <1> SUFFICES ASSUME NEW c \in Caller PROVE SleepIsPaid(c)'
    BY DEF SleepsArePaid, SleepIsPaid
  <1> DEFINE l == LimiterFor(c)
  <1>0. /\ SleepIsPaid(c) /\ l \in Limiter /\ l' = l
        /\ free[c] \in Nat /\ free[c] * Interval \in Nat
        /\ left[c] \in Nat /\ next[l] \in 1 .. Interval /\ span \in Nat
        /\ cells[l] \in Nat
    BY SleepsAreSleep, Products DEF TypeOK, LimiterFor
  <1> HIDE DEF l
  <1>1. ASSUME UNCHANGED <<pc[c], left[c], free[c], span, next[l]>>, cells[l] = 0 => cells'[l] = 0
        PROVE  SleepIsPaid(c)'
    BY <1>0, <1>1 DEF SleepIsPaid, l
  <1>2. ASSUME pc[c] # "sleep", pc'[c] # "sleep", UNCHANGED <<free[c], span, next[l]>>
        PROVE  SleepIsPaid(c)'
    BY <1>0, <1>2 DEF SleepIsPaid, l
  <1>3. ASSUME NEW t \in Task, NEW S \in SUBSET Caller, Begin(t, S)
        PROVE  SleepIsPaid(c)'
    BY <1>0, <1>1, <1>2, <1>3 DEF Begin, Idle, limiters, window, TypeOK
  <1>4. ASSUME NEW t \in Task, Build(t) PROVE SleepIsPaid(c)'
    <2>1. CASE LimiterOf[t] = l
      <3>1. TaskOf[c] = t /\ pc[c] = "idle"
        BY <1>4, <2>1 DEF Build, Idle, l, LimiterFor
      <3>2. /\ UNCHANGED <<pc[c], free[c], span>> /\ next'[l] = Interval
            /\ next[l] <= Interval
        BY <1>0, <1>4, <2>1 DEF Build, callers, TypeOK
      <3> QED BY <1>0, <3>1, <3>2 DEF SleepIsPaid, l
    <2>2. CASE LimiterOf[t] # l
      BY <1>0, <1>1, <1>4, <2>2 DEF Build, callers, TypeOK
    <2> QED BY <2>1, <2>2
  <1>5. ASSUME NEW d \in Caller, Check(d) PROVE SleepIsPaid(c)'
    <2>1. UNCHANGED <<left, next, free, span>>
      BY <1>5 DEF Check
    <2>2. CASE d = c
      BY <1>0, <1>2, <1>5, <2>1, <2>2 DEF Check, Run, TypeOK
    <2>3. CASE d # c
      <3>1. pc'[c] = pc[c]
        BY <1>5, <2>3 DEF Check, Run, TypeOK
      <3>2. cells[l] = 0 => cells'[l] = 0
        BY <1>0, <1>5 DEF Check, TypeOK
      <3> QED BY <1>1, <2>1, <3>1, <3>2
    <2> QED BY <2>2, <2>3
  <1>6. ASSUME NEW d \in Caller, CheckFails(d) PROVE SleepIsPaid(c)'
    <2>1. UNCHANGED <<cells, next, free, span>>
      BY <1>6 DEF CheckFails, limiters, window
    <2>2. CASE d = c
      <3>1. /\ pc[c] = "wait" /\ pc'[c] = "sleep" /\ left'[c] = next[l]
            /\ cells[l] = 0
        BY <1>6, <2>2 DEF CheckFails, TypeOK, l
      <3> QED BY <1>0, <2>1, <3>1 DEF SleepIsPaid, l
    <2>3. CASE d # c
      BY <1>1, <1>6, <2>1, <2>3 DEF CheckFails, TypeOK
    <2> QED BY <2>2, <2>3
  <1>7. ASSUME NEW d \in Caller, Wake(d) PROVE SleepIsPaid(c)'
    <2>1. UNCHANGED <<cells, next, left, span>>
      BY <1>7 DEF Wake, limiters
    <2>2. CASE d = c
      <3>1. /\ pc[c] = "sleep" /\ left[c] = 0 /\ pc'[c] = "run"
            /\ free'[c] = free[c] + 1
        BY <1>7, <2>2 DEF Wake, Run, TypeOK
      <3>2. (free[c] + 1) * Interval = free[c] * Interval + Interval
        BY <1>0, OneMore
      <3> QED BY <1>0, <2>1, <3>1, <3>2 DEF SleepIsPaid, l
    <2>3. CASE d # c
      BY <1>1, <1>7, <2>1, <2>3 DEF Wake, Run, TypeOK
    <2> QED BY <2>2, <2>3
  <1>8. ASSUME NEW d \in Caller, Succeeds(d) \/ Fails(d) PROVE SleepIsPaid(c)'
    <2>1. UNCHANGED <<cells, next, free, span>>
      BY <1>8 DEF Succeeds, Fails, limiters, window
    <2>2. CASE d = c
      <3>1. pc[c] = "run" /\ pc'[c] # "sleep"
        BY <1>8, <2>2 DEF Succeeds, Fails, Return, TypeOK
      <3> QED BY <1>2, <2>1, <3>1
    <2>3. CASE d # c
      <3>1. pc'[c] = pc[c] /\ left'[c] = left[c]
        BY <1>8, <2>3 DEF Succeeds, Fails, Return, TypeOK
      <3> QED BY <1>1, <2>1, <3>1
    <2> QED BY <2>2, <2>3
  <1>9. CASE Tick
    <2>1. pc'[c] = pc[c] /\ left'[c] = Less(left[c])
      BY <1>9 DEF Tick
    <2>2. \/ span' = span + 1 /\ free'[c] = free[c]
          \/ span' = 0 /\ free'[c] * Interval = 0
      BY <1>9, Products DEF Tick, Observe
    <2>3. /\ next'[l] \in 1 .. Interval
          /\ next[l] # 1 => next'[l] >= next[l] - 1
          /\ cells[l] = 0 /\ next[l] # 1 => cells'[l] = 0 /\ next'[l] = next[l] - 1
          /\ cells[l] = 0 /\ next[l] = 1 => next'[l] = Interval
          /\ next[l] = 1 => next'[l] = Interval
      <3>1. next'[l] = IF cells[l] = Burst \/ Refills(l) THEN Interval ELSE next[l] - 1
        BY <1>0, <1>9 DEF Tick, Refill
      <3>2. cells[l] = 0 /\ next[l] # 1 => cells'[l] = 0
        BY <1>0, <1>9 DEF Tick, Refill, Refills
      <3>3. cells[l] <= Burst /\ (next[l] = 1 => cells[l] = Burst \/ Refills(l))
        BY <1>0, RateAssumption DEF Refills, TypeOK
      <3>4. cells[l] = 0 /\ next[l] # 1 => ~(cells[l] = Burst \/ Refills(l))
        BY RateAssumption DEF Refills
      <3>5. next[l] # 1 => next[l] - 1 \in 1 .. Interval /\ Interval \in 1 .. Interval
        BY <1>0, RateAssumption
      <3> QED BY <1>0, <3>1, <3>2, <3>3, <3>4, <3>5, RateAssumption
    <2>4. CASE pc[c] # "sleep"
      BY <1>0, <2>1, <2>2, <2>3, <2>4 DEF SleepIsPaid, l
    <2>5. CASE pc[c] = "sleep" /\ left[c] = 0
      BY <1>0, <2>1, <2>2, <2>3, <2>5 DEF SleepIsPaid, Less, l
    <2>6. CASE pc[c] = "sleep" /\ left[c] # 0
      BY <1>0, <2>1, <2>2, <2>3, <2>6 DEF SleepIsPaid, Less, l
    <2> QED BY <2>4, <2>5, <2>6
  <1>10. CASE UNCHANGED vars
    BY <1>1, <1>10 DEF vars, limiters, callers, window
  <1> QED BY <1>3, <1>4, <1>5, <1>6, <1>7, <1>8, <1>9, <1>10
          DEF Next, CallerStep

-----------------------------------------------------------------------------
(* Every step keeps the inductive invariant, and so does every behaviour.  *)
THEOREM Invariance == Spec => []IInv
  <1>1. IInv /\ [Next]_vars => IInv'
    BY StepType, StepCells, StepSleeps DEF IInv
  <1> QED BY <1>1, InitIInv, PTL DEF Spec

(* Every variable keeps its type; no limiter holds more than its burst.    *)
THEOREM TypeCorrect == Spec => []TypeOK
  <1>1. IInv => TypeOK
    BY DEF IInv
  <1> QED BY <1>1, Invariance, PTL

(* The limiter limits: in every window, whatever interleaves, the requests *)
(* of a client that took a cell stay within its burst and rate, and each   *)
(* caller adds at most one per interval, and two, to them.                 *)
THEOREM AlwaysWithinRate == Spec => []WithinRate
  <1>1. IInv => WithinRate
    <2> SUFFICES ASSUME IInv PROVE WithinRate
      OBVIOUS
    <2>1. ASSUME NEW l \in Limiter
          PROVE  charged[l] * Interval <= Burst * Interval + span
      <3>1. /\ charged[l] * Interval \in Nat /\ cells[l] * Interval \in Nat
            /\ next[l] <= Interval /\ next[l] \in Nat /\ span \in Nat
        BY Products DEF IInv, TypeOK
      <3> QED BY <3>1, Products DEF IInv, CellsArePaid
    <2>2. ASSUME NEW c \in Caller
          PROVE  free[c] * Interval <= span + 2 * Interval
      <3>1. /\ free[c] * Interval \in Nat /\ next[LimiterFor(c)] \in 1 .. Interval
            /\ left[c] \in Nat /\ span \in Nat
        BY Products, LimitersAreLimiters DEF IInv, TypeOK
      <3>2. SleepIsPaid(c)
        BY SleepsAreSleep DEF IInv
      <3> QED BY <3>1, <3>2 DEF SleepIsPaid
    <2> QED BY <2>1, <2>2 DEF WithinRate
  <1> QED BY <1>1, Invariance, PTL

-----------------------------------------------------------------------------
(* Calls come to an end.                                                   *)

DelaysAreBounded == \A c \in Caller : delay[c] <= LongestDelay

WaitInv == TypeOK /\ DelaysAreBounded /\ WaitsAreBounded

LEMMA NextDelayBounded ==
  ASSUME TypeOK, DelaysAreBounded, NEW c \in Caller
  PROVE  NextDelay(c) \in Nat /\ NextDelay(c) <= LongestDelay
  BY DEF TypeOK, NextDelay, LongestDelay

LEMMA StepWaits ==
  ASSUME WaitInv, [Next]_vars
  PROVE  DelaysAreBounded' /\ WaitsAreBounded'
  <1> USE LimitersAreLimiters DEF DelaysAreBounded, WaitsAreBounded
  <1>0. TypeOK /\ LongestDelay \in Nat
    BY DEF WaitInv, LongestDelay
  <1>1. ASSUME NEW t \in Task, NEW S \in SUBSET Caller, Begin(t, S)
        PROVE  DelaysAreBounded' /\ WaitsAreBounded'
    <2>1. \A c \in S : pc[c] = "idle"
      BY <1>1 DEF Begin, Idle
    <2> QED BY <1>0, <1>1, <2>1 DEF Begin, TypeOK, WaitInv
  <1>2. ASSUME NEW c \in Caller, Check(c) \/ CheckFails(c) \/ Wake(c) \/ Succeeds(c)
        PROVE  DelaysAreBounded' /\ WaitsAreBounded'
    <2>1. CASE Check(c)
      BY <1>0, <2>1 DEF Check, Run, TypeOK, WaitInv
    <2>2. CASE CheckFails(c)
      BY <1>0, <2>2 DEF CheckFails, TypeOK, WaitInv
    <2>3. CASE Wake(c)
      BY <1>0, <2>3 DEF Wake, Run, TypeOK, WaitInv
    <2>4. CASE Succeeds(c)
      BY <1>0, <2>4 DEF Succeeds, Return, TypeOK, WaitInv
    <2> QED BY <1>2, <2>1, <2>2, <2>3, <2>4
  <1>3. ASSUME NEW c \in Caller, Fails(c)
        PROVE  DelaysAreBounded' /\ WaitsAreBounded'
    <2>1. CASE Return(c)
      BY <1>0, <1>3, <2>1 DEF Fails, Return, TypeOK, WaitInv
    <2>2. ASSUME NEW jitter \in 0 .. MinDelay,
                 pc' = [pc EXCEPT ![c] = "wait"],
                 left' = [left EXCEPT ![c] = NextDelay(c) + jitter],
                 delay' = [delay EXCEPT ![c] = NextDelay(c)]
          PROVE  DelaysAreBounded' /\ WaitsAreBounded'
      <3>1. NextDelay(c) \in Nat /\ NextDelay(c) <= LongestDelay
        BY NextDelayBounded DEF WaitInv
      <3>2. NextDelay(c) + jitter <= LongestDelay + MinDelay
        BY <1>0, <3>1
      <3> HIDE DEF NextDelay
      <3> QED BY <1>0, <2>2, <3>1, <3>2 DEF TypeOK, WaitInv
    <2> QED BY <1>3, <2>1, <2>2 DEF Fails
  <1>4. CASE Tick
    <2>1. \A c \in Caller : left'[c] = Less(left[c])
      BY <1>4 DEF Tick
    <2>2. \A n \in Nat : Less(n) <= n /\ Less(n) \in Nat
      BY DEF Less
    <2>3. \A c \in Caller : left'[c] <= left[c] /\ left'[c] \in Nat /\ left[c] \in Nat
      BY <1>0, <2>1, <2>2 DEF TypeOK
    <2>4. UNCHANGED <<pc, delay>>
      BY <1>4 DEF Tick
    <2> QED BY <1>0, <2>3, <2>4 DEF WaitInv
  <1>5. CASE UNCHANGED vars \/ \E t \in Task : Build(t)
    BY <1>5 DEF vars, callers, Build, WaitInv
  <1> QED BY <1>1, <1>2, <1>3, <1>4, <1>5 DEF Next, CallerStep

LEMMA WaitInvariance == Spec => []WaitInv
  <1>1. Init => WaitInv
    <2> SUFFICES ASSUME Init PROVE WaitInv
      OBVIOUS
    <2>1. TypeOK
      BY InitIInv DEF IInv
    <2>2. DelaysAreBounded /\ WaitsAreBounded
      BY DEF Init, DelaysAreBounded, WaitsAreBounded, LongestDelay
    <2> QED BY <2>1, <2>2 DEF WaitInv
  <1>2. WaitInv /\ [Next]_vars => WaitInv'
    BY StepType, StepWaits DEF WaitInv
  <1> QED BY <1>1, <1>2, PTL DEF Spec

(* A step of another caller of the same or another task is no step back.   *)
LEMMA StepCloser ==
  ASSUME TypeOK, Next, NEW c \in Caller, pc[c] # "idle",
         ~UNCHANGED <<pc[c], left[c], retries[c]>>
  PROVE  Closer(c)
  <1> USE DEF Closer
  <1>1. ASSUME NEW t \in Task, NEW S \in SUBSET Caller, Begin(t, S) PROVE FALSE
    <2>1. c \notin S
      BY <1>1 DEF Begin, Idle
    <2> QED BY <1>1, <2>1 DEF Begin
  <1>2. ASSUME NEW d \in Caller, d # c, CallerStep(d) PROVE FALSE
    BY <1>2 DEF CallerStep, Check, CheckFails, Wake, Run, Succeeds, Fails, Return, TypeOK
  <1>3. CASE Check(c) \/ CheckFails(c) \/ Wake(c)
    BY <1>3 DEF Check, CheckFails, Wake, Run, TypeOK
  <1>4. CASE Succeeds(c)
    BY <1>4 DEF Succeeds, Return, TypeOK
  <1>5. CASE Fails(c)
    <2>1. CASE Return(c)
      BY <2>1 DEF Return, TypeOK
    <2>2. CASE pc' = [pc EXCEPT ![c] = "wait"]
               /\ retries' = [retries EXCEPT ![c] = @ + 1]
      BY <1>5, <2>2 DEF Fails, TypeOK
    <2> QED BY <1>5, <2>1, <2>2 DEF Fails
  <1>6. CASE Tick
    <2>1. pc' = pc /\ retries' = retries /\ left'[c] = Less(left[c]) /\ left[c] \in Nat
      BY <1>6 DEF Tick, TypeOK
    <2>2. left'[c] # left[c]
      BY <2>1
    <2> QED BY <2>1, <2>2 DEF Less
  <1>7. ASSUME NEW t \in Task, Build(t) PROVE FALSE
    BY <1>7 DEF Build, callers
  <1> QED BY <1>1, <1>2, <1>3, <1>4, <1>5, <1>6, <1>7 DEF Next, CallerStep

(* Every call is done after finitely many steps and ticks of its own, each *)
(* wait a bounded one, whatever the other callers do to the limiter.       *)
THEOREM CallsAlwaysAdvance == Spec => CallsAdvance /\ []WaitsAreBounded
  <1>1. TypeOK /\ [Next]_vars =>
          [\A c \in Caller :
             pc[c] # "idle" /\ ~UNCHANGED <<pc[c], left[c], retries[c]>> => Closer(c)]_vars
    BY StepCloser
  <1>2. WaitInv => TypeOK /\ WaitsAreBounded
    BY DEF WaitInv
  <1> QED BY <1>1, <1>2, WaitInvariance, PTL DEF Spec, CallsAdvance

=============================================================================
