-------------------------- MODULE DiscoveryProofs --------------------------
(***************************************************************************)
(* Proofs about Discovery.tla, for every chain, every set of addresses and *)
(* all limits: page and request sizes, range, age limit, and any number of *)
(* failures and restarts.                                                  *)
(***************************************************************************)
EXTENDS Discovery, FiniteSetTheorems, WellFoundedInduction, TLAPS

-----------------------------------------------------------------------------
(* Constants, and the newest signatures of a set.                          *)

LEMMA Parameters ==
  /\ Len(Slot) \in Nat /\ Sig = 1..Len(Slot) /\ Beyond \in Nat
  /\ Slot \in [Sig -> Nat]
  /\ \A s, t \in Sig : s <= t => Slot[s] <= Slot[t]
  /\ Parties \in [Sig -> SUBSET Address]
  /\ RangeSize \in Nat \ {0} /\ LiveLimit \in Nat \ {0} /\ PageLimit \in Nat \ {0}
  /\ MaxAge \in Nat /\ DefaultSlot \in Nat /\ MaxSlot \in Nat /\ MaxTrouble \in Nat
  BY ChainAssumption, LimitAssumption DEF Sig, Beyond

(* A non-empty bounded set of numbers has a greatest element: among the    *)
(* sets of what lies above one of its elements there is a least one.       *)
LEMMA Greatest ==
  ASSUME NEW n \in Nat, NEW T \in SUBSET (1..n), T # {}
  PROVE  \E m \in T : \A t \in T : t <= m
  <1> DEFINE Above == [m \in T |-> {t \in T : t > m}]
             Aboves == {Above[m] : m \in T}
             R == StrictSubsetOrdering(T)
  <1>1. IsFiniteSet(1..n)
    BY FS_Interval
  <1>2. IsFiniteSet(T)
    BY <1>1, FS_Subset
  <1>3. IsWellFoundedOn(R, SUBSET T)
    BY <1>2, FS_StrictSubsetOrderingWellFounded, FS_FiniteSubsetsOfFinite
  <1>4. Aboves \subseteq SUBSET T /\ Aboves # {}
    OBVIOUS
  <1> HIDE DEF R, Aboves
  <1>5. PICK U \in Aboves : \A V \in Aboves : <<V, U>> \notin R
    BY <1>3, <1>4, WFMin
  <1> USE DEF Aboves
  <1>6. PICK m \in T : U = Above[m]
    OBVIOUS
  <1>7. SUFFICES ASSUME NEW t \in T, t > m PROVE FALSE
    BY <1>6
  <1>8. /\ Above[t] \in SUBSET T /\ U \in SUBSET T
        /\ Above[t] \subseteq U /\ Above[t] # U
    <2>1. \A x \in T : x > t => x > m
      BY <1>7
    <2>2. t \in U /\ t \notin Above[t]
      BY <1>6, <1>7
    <2>3. Above[t] \subseteq U
      BY <1>6, <2>1
    <2> QED BY <1>6, <2>2, <2>3
  <1>9. <<Above[t], U>> \in R
    BY <1>8 DEF R, StrictSubsetOrdering
  <1> QED BY <1>5, <1>9

(* The pagination cursor is an oldest element of its page.                 *)
LEMMA LastOfPage ==
  ASSUME NEW n \in Nat, NEW P \in SUBSET (1..n), P # {}
  PROVE  LastOf(P) \in P /\ \A t \in P : LastOf(P) <= t
  <1> DEFINE D == {n + 1 - t : t \in P}
  <1>1. D \in SUBSET (1..n) /\ D # {}
    <2>1. \A t \in P : n + 1 - t \in 1..n
      OBVIOUS
    <2> QED BY <2>1
  <1> HIDE DEF D
  <1>2. PICK d \in D : \A e \in D : e <= d
    BY <1>1, Greatest
  <1> USE DEF D
  <1>3. PICK m \in P : d = n + 1 - m
    OBVIOUS
  <1>4. \A t \in P : n + 1 - t <= n + 1 - m
    BY <1>2, <1>3
  <1>5. \A t \in P : m <= t
    BY <1>4
  <1> QED BY <1>5 DEF LastOf

(* The newest k of a set: what is newer than one of them is one of them;   *)
(* there is one unless the set is empty; and fewer than k means all.       *)
LEMMA NewestFacts ==
  ASSUME NEW n \in Nat, NEW S \in SUBSET (1..n), NEW k \in Nat \ {0}
  PROVE  /\ Newest(S, k) \subseteq S
         /\ \A p \in Newest(S, k), s \in S : p <= s => s \in Newest(S, k)
         /\ S # {} => Newest(S, k) # {}
         /\ Cardinality(Newest(S, k)) < k => Newest(S, k) = S
  <1> DEFINE Newer(s) == {t \in S : t > s}
  <1>1. IsFiniteSet(S)
    <2>1. IsFiniteSet(1..n)
      BY FS_Interval
    <2> QED BY <2>1, FS_Subset
  <1>2. ASSUME NEW T \in SUBSET S
        PROVE  IsFiniteSet(T) /\ Cardinality(T) \in Nat
    BY <1>1, FS_Subset, FS_CardinalityType
  <1>3. \A s \in S : Newer(s) \in SUBSET S
    OBVIOUS
  <1>4. ASSUME NEW p \in S, NEW s \in S, p <= s, Cardinality(Newer(p)) < k
        PROVE  Cardinality(Newer(s)) < k
    <2>0. \A t \in S : t > s => t > p
      BY <1>4
    <2>1. Newer(s) \in SUBSET Newer(p)
      BY <2>0
    <2>2. IsFiniteSet(Newer(p))
      BY <1>2, <1>3
    <2>3. Cardinality(Newer(s)) <= Cardinality(Newer(p))
      BY <2>1, <2>2, FS_Subset
    <2>4. Cardinality(Newer(s)) \in Nat /\ Cardinality(Newer(p)) \in Nat
      BY <1>2, <1>3
    <2> QED BY <1>4, <2>3, <2>4
  <1>5. Newest(S, k) = {s \in S : Cardinality(Newer(s)) < k}
    BY DEF Newest
  <1>6. ASSUME S # {} PROVE Newest(S, k) # {}
    <2>1. PICK m \in S : \A t \in S : t <= m
      BY <1>6, Greatest
    <2>2. \A t \in S : ~(t > m)
      BY <2>1
    <2>3. Newer(m) = {}
      BY <2>2
    <2>4. Cardinality(Newer(m)) < k
      BY <2>3, FS_EmptySet
    <2> QED BY <1>5, <2>4
  <1>7. ASSUME Cardinality(Newest(S, k)) < k PROVE Newest(S, k) = S
    <2>1. SUFFICES ASSUME S \ Newest(S, k) # {} PROVE FALSE
      BY <1>5
    <2>2. PICK m \in S \ Newest(S, k) : \A t \in S \ Newest(S, k) : t <= m
      BY <2>1, Greatest
    <2>3. Newer(m) \in SUBSET Newest(S, k)
      <3>1. \A t \in S : t > m => t \in Newest(S, k)
        BY <1>5, <2>2
      <3> QED BY <3>1
    <2>4. Newest(S, k) \in SUBSET S
      BY <1>5
    <2> HIDE DEF Newer
    <2>5. Cardinality(Newer(m)) <= Cardinality(Newest(S, k))
      BY <1>2, <2>3, <2>4, FS_Subset
    <2>6. Cardinality(Newer(m)) \in Nat /\ Cardinality(Newest(S, k)) \in Nat
      BY <1>2, <1>3, <2>2, <2>4
    <2>7. Cardinality(Newer(m)) < k
      BY <1>7, <2>5, <2>6
    <2> QED BY <1>5, <2>2, <2>7
  <1> HIDE DEF Newer
  <1>8. \A p \in Newest(S, k), s \in S : p <= s => s \in Newest(S, k)
    BY <1>4, <1>5
  <1> QED BY <1>5, <1>6, <1>7, <1>8

-----------------------------------------------------------------------------
(* Types.                                                                  *)

(* What an address is listed for is on the chain.                          *)
LEMMA OnChain ==
  ASSUME TypeOK, NEW a
  PROVE  /\ landed \in Nat /\ 1..landed \subseteq Sig /\ landed < Beyond
         /\ Of(a) \in SUBSET (1..landed)
  BY Parameters DEF TypeOK, Of, Beyond

(* Signatures and the pagination cursor are compared as numbers.           *)
LEMMA WalkOrder ==
  ASSUME TypeOK, NEW a
  PROVE  hist.before \in Nat /\ \A s \in Of(a) : s \in Nat
  <1>1. hist.before \in Sig \union {Beyond}
    BY DEF TypeOK, Walk
  <1>2. Sig \subseteq Nat /\ Beyond \in Nat
    BY Parameters
  <1>3. \A s \in 1..landed : s \in Nat
    BY OnChain
  <1>4. Of(a) \subseteq 1..landed
    BY DEF Of
  <1> QED BY <1>1, <1>2, <1>3, <1>4

(* A page is part of what lies before the cursor of its walk; its last     *)
(* signature is the oldest; with one signature it has all newer ones; and  *)
(* a short page has all there are.                                         *)
LEMMA PageFacts ==
  ASSUME TypeOK
  PROVE  /\ Page \in SUBSET (1..landed) /\ Page \subseteq Of(hist.addr)
         /\ \A s \in Page : s < hist.before
         /\ \A p \in Page, s \in Of(hist.addr) :
              p <= s /\ s < hist.before => s \in Page
         /\ Page # {} => LastOf(Page) \in Page /\ \A s \in Page : LastOf(Page) <= s
         /\ Page = {} \/ Cardinality(Page) < PageLimit =>
              \A s \in Of(hist.addr) : s < hist.before => s \in Page
  <1> DEFINE S == {s \in Of(hist.addr) : s < hist.before}
  <1>1. landed \in Nat /\ S \in SUBSET (1..landed) /\ PageLimit \in Nat \ {0}
    BY OnChain, Parameters
  <1>2. Page = Newest(S, PageLimit)
    BY DEF Page
  <1>3. /\ Page \subseteq S
        /\ \A p \in Page, s \in S : p <= s => s \in Page
        /\ S # {} => Page # {}
        /\ Cardinality(Page) < PageLimit => Page = S
    <2> HIDE DEF S
    <2> QED BY <1>1, <1>2, NewestFacts
  <1>4. Page # {} => LastOf(Page) \in Page /\ \A s \in Page : LastOf(Page) <= s
    BY <1>1, <1>3, LastOfPage
  <1> QED BY <1>1, <1>3, <1>4

LEMMA EndWalkType ==
  ASSUME TypeOK, NEW clean \in BOOLEAN, EndWalk(clean), hist.addr \in Address
  PROVE  /\ hist' \in Walk /\ hist'.seen = {}
         /\ walk' \in [from : Sig \union {0}, clean : BOOLEAN]
         /\ covered' \in [Address -> Sig \union {0}]
  BY DEF EndWalk, TypeOK, NoWalk, Walk

LEMMA TroubleType ==
  ASSUME TypeOK, Trouble
  PROVE  trouble' \in 0..MaxTrouble
  <1>1. MaxTrouble \in Nat /\ trouble \in 0..MaxTrouble
    BY Parameters DEF TypeOK
  <1> QED BY <1>1 DEF Trouble

(* A walk of an address begins.                                            *)
LEMMA FreshWalk ==
  ASSUME NEW T \in SUBSET Address, NEW x \in Address, NEW n \in Nat
  PROVE  /\ [NoWalk EXCEPT !.pc = "fetch", !.todo = T, !.addr = x, !.now = n] \in Walk
         /\ [NoWalk EXCEPT !.pc = "fetch", !.todo = T, !.addr = x, !.now = n].seen = {}
  BY DEF NoWalk, Walk

(* Processing hands over or skips what it was given.                       *)
LEMMA ProcessEffect ==
  ASSUME TypeOK, NEW S \in SUBSET Sig, Process(S)
  PROVE  /\ handed' \in SUBSET Sig /\ excused' \in SUBSET Sig
         /\ handed \subseteq handed' /\ excused \subseteq excused'
         /\ S \subseteq handed' \union excused'
         /\ trouble' \in 0..MaxTrouble
  BY Parameters DEF Process, Trouble, TypeOK

LEMMA ChainType ==
  ASSUME TypeOK, Land \/ NextSlot \/ Track \/ Untrack
  PROVE  TypeOK'
  <1>1. landed' \in Sig \union {0} /\ head' \in Nat /\ tracked' \subseteq Address
    <2>1. CASE Land
      BY <2>1, Parameters DEF Land, TypeOK
    <2>2. CASE NextSlot
      BY <2>2 DEF NextSlot, TypeOK
    <2>3. CASE Track \/ Untrack
      BY <2>3 DEF Track, Untrack, TypeOK
    <2> QED BY <2>1, <2>2, <2>3
  <1>2. UNCHANGED <<liveVars, histVars, handed, excused>>
    BY DEF Land, NextSlot, Track, Untrack
  <1>3. trouble' \in 0..MaxTrouble
    <2>1. CASE Untrack
      BY <2>1, TroubleType DEF Untrack
    <2>2. CASE Land \/ NextSlot \/ Track
      BY <2>2 DEF Land, NextSlot, Track, TypeOK
    <2> QED BY <2>1, <2>2
  <1> QED BY <1>1, <1>2, <1>3 DEF TypeOK, liveVars, histVars

LEMMA RestartType ==
  ASSUME TypeOK, Restart
  PROVE  TypeOK'
  <1>1. live' \in Poll /\ hist' \in Walk /\ hist'.seen = {}
    BY Parameters DEF Restart, NoPoll, NoWalk, Poll, Walk, TypeOK
  <1>2. UNCHANGED <<chain, handed, excused, covered>>
    BY DEF Restart
  <1>3. cursor' \in Nat /\ first' \in Nat
    BY Parameters DEF Restart, TypeOK
  <1>4. /\ polled' = {} /\ trouble' \in 0..MaxTrouble
        /\ walk' \in [from : Sig \union {0}, clean : BOOLEAN]
    BY Parameters DEF Restart, Trouble, TypeOK
  <1> QED BY <1>1, <1>2, <1>3, <1>4 DEF TypeOK, chain

LEMMA LiveType ==
  ASSUME TypeOK,
         LivePoll \/ LivePollNothing \/ LiveFetch \/ LiveFetchFails \/ LiveProcess
  PROVE  TypeOK'
  <1>1. UNCHANGED <<landed, head, tracked, first, hist, walk, covered>>
    BY DEF LivePoll, LivePollNothing, LiveFetch, LiveFetchFails, LiveProcess,
           chain, histVars
  <1>2. 1..landed \subseteq Sig
    BY OnChain
  <1>3. CASE LivePoll
    <2>1. live' \in Poll
      BY <1>3 DEF LivePoll, Poll, PollFrom, TypeOK
    <2>2. excused' \subseteq Sig
      BY <1>2, <1>3 DEF LivePoll, InSlots, TypeOK
    <2> QED BY <1>1, <1>3, <2>1, <2>2 DEF LivePoll, TypeOK
  <1>4. CASE LivePollNothing
    <2>1. excused' \subseteq Sig
      BY <1>2, <1>4 DEF LivePollNothing, InSlots, TypeOK
    <2>2. trouble' \in 0..MaxTrouble
      BY <1>4, TroubleType DEF LivePollNothing, TypeOK
    <2> QED BY <1>1, <1>4, <2>1, <2>2 DEF LivePollNothing, TypeOK
  <1>5. CASE LiveFetch
    <2>1. PICK a \in live.todo :
            LET page == Newest(Of(a), LiveLimit)
            IN /\ live' = [live EXCEPT !.todo = @ \ {a},
                             !.found = @ \union InSlots(page, live.start, RangeEnd)]
               /\ excused' = excused \union
                               InSlots(Of(a) \ page, live.start, RangeEnd)
               /\ UNCHANGED <<cursor, polled, handed, trouble>>
      BY <1>5 DEF LiveFetch
    <2>2. Of(a) \subseteq Sig /\ Newest(Of(a), LiveLimit) \subseteq Sig
      BY <1>2, OnChain DEF Newest
    <2>3. live' \in Poll /\ excused' \subseteq Sig
      BY <2>1, <2>2 DEF Poll, InSlots, TypeOK
    <2> QED BY <1>1, <2>1, <2>3 DEF TypeOK
  <1>6. CASE LiveFetchFails
    <2>1. PICK a \in live.todo :
            /\ live' = [live EXCEPT !.todo = @ \ {a}]
            /\ excused' = excused \union InSlots(Of(a), live.start, RangeEnd)
            /\ Trouble
            /\ UNCHANGED <<cursor, polled, handed>>
      BY <1>6 DEF LiveFetchFails
    <2>2. Of(a) \subseteq Sig
      BY <1>2, OnChain
    <2>3. live' \in Poll /\ excused' \subseteq Sig
      BY <2>1, <2>2 DEF Poll, InSlots, TypeOK
    <2>4. trouble' \in 0..MaxTrouble
      BY <2>1, TroubleType
    <2> QED BY <1>1, <2>1, <2>3, <2>4 DEF TypeOK
  <1>7. CASE LiveProcess
    <2>1. live.found \in SUBSET Sig /\ Process(live.found)
      BY <1>7 DEF LiveProcess, Poll, TypeOK
    <2>2. handed' \in SUBSET Sig /\ excused' \in SUBSET Sig /\ trouble' \in 0..MaxTrouble
      BY <2>1, ProcessEffect
    <2>3. live' \in Poll /\ polled' \subseteq Sig /\ cursor' \in Nat
      <3>1. CASE live.start + RangeSize <= live.end
        <4>1. /\ live' = [live EXCEPT !.start = @ + RangeSize,
                            !.todo = live.addrs, !.found = {}]
              /\ polled' = polled \union live.found /\ cursor' = cursor
          BY <1>7, <3>1 DEF LiveProcess
        <4>2. RangeSize \in Nat
          BY Parameters
        <4>3. live \in Poll /\ live.start + RangeSize \in Nat
          BY <4>2 DEF Poll, TypeOK
        <4>4. live' = [live EXCEPT !.start = live.start + RangeSize,
                         !.todo = live.addrs, !.found = {}]
          BY <4>1
        <4>5. live' \in Poll
          BY <4>3, <4>4 DEF Poll
        <4> QED BY <4>1, <4>5 DEF Poll, TypeOK
      <3>2. CASE ~(live.start + RangeSize <= live.end)
        <4>1. live' = NoPoll /\ polled' = {} /\ cursor' = live.end
          BY <1>7, <3>2 DEF LiveProcess
        <4> QED BY <4>1 DEF NoPoll, Poll, TypeOK
      <3> QED BY <3>1, <3>2
    <2> QED BY <1>1, <2>2, <2>3 DEF TypeOK
  <1> QED BY <1>3, <1>4, <1>5, <1>6, <1>7

(* The walk of an address has one; between addresses nobody is walked.     *)
Walking == hist.pc \in {"fetch", "process"} => hist.addr \in Address

LEMMA HistType ==
  ASSUME TypeOK, Walking,
         \/ HistPoll \/ HistBegin \/ HistDone \/ HistFetchLast
         \/ HistFetchUntimed \/ HistFetch \/ HistFetchFails \/ HistProcess
  PROVE  TypeOK' /\ Walking'
  <1>1. UNCHANGED <<landed, head, tracked, cursor, first, live, polled>>
    BY DEF HistPoll, HistBegin, HistDone, HistFetchLast, HistFetchUntimed,
           HistFetch, HistFetchFails, HistProcess, chain, liveVars
  <1>2. CASE HistPoll \/ HistDone
    <2>1. tracked \in SUBSET Address
      BY DEF TypeOK
    <2>2. hist' = NoWalk \/ hist' = [NoWalk EXCEPT !.pc = "next", !.todo = tracked]
      BY <1>2 DEF HistPoll, HistDone
    <2>3. hist' \in Walk /\ hist'.seen = {} /\ hist'.pc \in {"idle", "next"}
      <3>1. CASE hist' = NoWalk
        BY <3>1 DEF NoWalk, Walk
      <3>2. CASE hist' = [NoWalk EXCEPT !.pc = "next", !.todo = tracked]
        BY <2>1, <3>2 DEF NoWalk, Walk
      <3> QED BY <2>2, <3>1, <3>2
    <2> QED BY <1>1, <1>2, <2>3 DEF HistPoll, HistDone, TypeOK, Walking
  <1>3. CASE HistBegin
    <2>1. PICK x \in hist.todo :
            /\ hist' = [NoWalk EXCEPT !.pc = "fetch", !.todo = hist.todo \ {x},
                                      !.addr = x, !.now = head]
            /\ walk' = [from |-> landed, clean |-> TRUE]
            /\ UNCHANGED <<covered, handed, excused, trouble>>
      BY <1>3 DEF HistBegin
    <2>2. /\ hist.todo \ {x} \in SUBSET Address /\ x \in Address /\ head \in Nat
          /\ landed \in Sig \union {0}
      BY <2>1 DEF TypeOK, Walk
    <2>3. hist' \in Walk /\ hist'.seen = {}
      BY <2>1, <2>2, FreshWalk
    <2>4. hist'.addr \in Address
      BY <2>1, <2>2 DEF NoWalk
    <2>5. walk' \in [from : Sig \union {0}, clean : BOOLEAN]
      BY <2>1, <2>2
    <2> QED BY <1>1, <2>1, <2>3, <2>4, <2>5 DEF TypeOK, Walking
  <1>4. CASE HistFetchLast \/ HistFetchUntimed \/ HistFetchFails
    <2>1. PICK clean \in BOOLEAN : EndWalk(clean)
      BY <1>4 DEF HistFetchLast, HistFetchUntimed, HistFetchFails, TypeOK
    <2>2. hist.addr \in Address
      BY <1>4 DEF HistFetchLast, HistFetchUntimed, HistFetchFails, Walking
    <2>3. hist'.pc = "next"
      BY <2>1 DEF EndWalk, NoWalk
    <2>4. trouble' \in 0..MaxTrouble
      BY <1>4, TroubleType
         DEF HistFetchLast, HistFetchUntimed, HistFetchFails, TypeOK
    <2>5. UNCHANGED <<handed, excused>>
      BY <1>4 DEF HistFetchLast, HistFetchUntimed, HistFetchFails
    <2> QED BY <1>1, <2>1, <2>2, <2>3, <2>4, <2>5, EndWalkType DEF TypeOK, Walking
  <1>5. CASE HistFetch
    <2>1. /\ hist' = [hist EXCEPT !.pc = "process", !.before = LastOf(Page),
                       !.seen = @ \union Page, !.page = Page]
          /\ Page # {} /\ hist.pc = "fetch"
          /\ UNCHANGED <<walk, covered, handed, excused, trouble>>
      BY <1>5 DEF HistFetch
    <2>2. /\ Page \subseteq Sig /\ LastOf(Page) \in Page
          /\ \A s \in Page : LastOf(Page) <= s /\ s < hist.before
      BY <2>1, PageFacts, OnChain
    <2>3. hist' \in Walk
      BY <2>1, <2>2 DEF Walk, TypeOK
    <2>4. \A s \in hist'.seen : hist'.before <= s
      <3>1. /\ hist'.before = LastOf(Page) /\ hist'.seen = hist.seen \union Page
            /\ hist.seen \subseteq Sig /\ hist.before \in Sig \union {Beyond}
        BY <2>1 DEF Walk, TypeOK
      <3>2. \A s \in hist.seen : hist.before <= s
        BY DEF TypeOK
      <3>3. Sig \subseteq Nat /\ Beyond \in Nat
        BY Parameters
      <3>4. LastOf(Page) \in Nat /\ hist.before \in Nat /\ hist.seen \subseteq Nat
        BY <2>2, <3>1, <3>3
      <3>5. LastOf(Page) < hist.before
        BY <2>2
      <3>6. \A s \in hist.seen : LastOf(Page) <= s
        BY <3>2, <3>4, <3>5
      <3>7. \A s \in Page : LastOf(Page) <= s
        BY <2>2
      <3> QED BY <3>1, <3>6, <3>7
    <2>5. hist'.addr = hist.addr
      BY <2>1 DEF Walk, TypeOK
    <2> QED BY <1>1, <2>1, <2>3, <2>4, <2>5 DEF TypeOK, Walking
  <1>6. CASE HistProcess
    <2>1. Process(hist.page) /\ hist.page \in SUBSET Sig /\ hist.addr \in Address
      BY <1>6 DEF HistProcess, Walk, TypeOK, Walking
    <2>2. handed' \in SUBSET Sig /\ excused' \in SUBSET Sig /\ trouble' \in 0..MaxTrouble
      BY <2>1, ProcessEffect
    <2>3. CASE ~IsShort(hist.page)
      <3>1. PICK clean \in BOOLEAN :
              /\ hist' = [hist EXCEPT !.pc = "fetch", !.page = {}]
              /\ walk' = [walk EXCEPT !.clean = clean]
              /\ UNCHANGED covered
        BY <1>6, <2>3 DEF HistProcess, TypeOK
      <3>2. hist' \in Walk /\ walk' \in [from : Sig \union {0}, clean : BOOLEAN]
        BY <3>1 DEF Walk, TypeOK
      <3>3. UNCHANGED <<hist.seen, hist.before, hist.addr>>
        BY <3>1 DEF Walk, TypeOK
      <3> QED BY <1>1, <2>1, <2>2, <3>1, <3>2, <3>3 DEF TypeOK, Walking
    <2>4. CASE IsShort(hist.page)
      <3>1. PICK clean \in BOOLEAN : EndWalk(clean)
        BY <1>6, <2>4 DEF HistProcess, TypeOK
      <3>2. hist'.pc = "next"
        BY <3>1 DEF EndWalk, NoWalk
      <3> QED BY <1>1, <2>1, <2>2, <3>1, <3>2, EndWalkType DEF TypeOK, Walking
    <2> QED BY <2>3, <2>4
  <1> QED BY <1>2, <1>3, <1>4, <1>5, <1>6

LEMMA InitType == Init => TypeOK /\ Walking
  <1> SUFFICES ASSUME Init PROVE TypeOK /\ Walking
    OBVIOUS
  <1>1. live \in Poll /\ hist \in Walk /\ hist.seen = {} /\ hist.pc = "idle"
    BY Parameters DEF Init, NoPoll, NoWalk, Poll, Walk
  <1> QED BY <1>1, Parameters DEF Init, TypeOK, Walking

LEMMA StepType == TypeOK /\ Walking /\ [Next]_vars => TypeOK' /\ Walking'
  <1> SUFFICES ASSUME TypeOK, Walking, [Next]_vars PROVE TypeOK' /\ Walking'
    OBVIOUS
  <1>1. CASE Land \/ NextSlot \/ Track \/ Untrack
    <2>1. UNCHANGED hist
      BY <1>1 DEF Land, NextSlot, Track, Untrack, histVars
    <2> QED BY <1>1, <2>1, ChainType DEF Walking
  <1>2. CASE Restart
    <2>1. hist'.pc = "idle"
      BY <1>2 DEF Restart, NoWalk
    <2> QED BY <1>2, <2>1, RestartType DEF Walking
  <1>3. CASE LivePoll \/ LivePollNothing \/ LiveFetch \/ LiveFetchFails \/ LiveProcess
    <2>1. UNCHANGED hist
      BY <1>3 DEF LivePoll, LivePollNothing, LiveFetch, LiveFetchFails,
                  LiveProcess, histVars
    <2> QED BY <1>3, <2>1, LiveType DEF Walking
  <1>4. CASE \/ HistPoll \/ HistBegin \/ HistDone \/ HistFetchLast
             \/ HistFetchUntimed \/ HistFetch \/ HistFetchFails \/ HistProcess
    BY <1>4, HistType
  <1>5. CASE UNCHANGED vars
    BY <1>5 DEF vars, chain, liveVars, histVars, TypeOK, Walking
  <1> QED BY <1>1, <1>2, <1>3, <1>4, <1>5 DEF Next

(* The variables keep their types, and no page repeats an earlier one.     *)
THEOREM TypeCorrect == Spec => []TypeOK
  BY InitType, StepType, PTL DEF Spec

-----------------------------------------------------------------------------
(* The live task.  Where its cursor is, and what the poll under way has    *)
(* already done: everything in the ranges it has finished, in the range it *)
(* is in everything of the addresses it has asked for, and in all of them  *)
(* everything that no tracked address was listed for when it began.        *)

Settled == handed \union excused

CursorPlace == cursor = first \/ cursor <= head

Ranges ==
  /\ \A s \in live.found : live.start <= Slot[s] /\ Slot[s] <= RangeEnd
  /\ \A s \in polled : Slot[s] < live.start
  /\ live.pc = "idle" => live.found = {} /\ polled = {}

PollPlace ==
  live.pc = "fetch" =>
    /\ cursor <= live.start /\ live.start <= live.end
    /\ cursor < live.end /\ live.end <= head

RangesDone ==
  live.pc = "fetch" =>
    \A s \in 1..landed :
      cursor <= Slot[s] /\ Slot[s] < live.start => s \in Settled

NobodysExcused ==
  live.pc = "fetch" =>
    \A s \in 1..landed :
      cursor <= Slot[s] /\ Slot[s] < live.end
        /\ Parties[s] \intersect live.addrs = {} => s \in excused

AskedDone ==
  live.pc = "fetch" =>
    \A s \in 1..landed, x \in live.addrs \ live.todo :
      x \in Parties[s] /\ live.start <= Slot[s] /\ Slot[s] <= RangeEnd
        /\ Slot[s] < live.end => s \in live.found \union excused

LiveInv ==
  /\ CursorPlace
  /\ NothingSlips
  /\ Ranges
  /\ PollPlace
  /\ RangesDone
  /\ NobodysExcused
  /\ AskedDone

(* The variables the live invariant speaks of, with their types.           *)
LEMMA LiveTypes ==
  ASSUME TypeOK
  PROVE  /\ landed \in Nat /\ head \in Nat /\ cursor \in Nat /\ first \in Nat
         /\ live.start \in Nat /\ live.end \in Nat
         /\ live.addrs \in SUBSET Address /\ live.todo \in SUBSET Address
         /\ live.found \in SUBSET Sig /\ polled \in SUBSET Sig
         /\ live.pc \in {"idle", "fetch"}
         /\ RangeSize \in Nat \ {0}
         /\ 1..landed \subseteq Sig
         /\ \A s \in Sig : Slot[s] \in Nat
         /\ RangeEnd \in Nat /\ RangeEnd < live.start + RangeSize
  <1>1. live \in Poll /\ landed \in Nat /\ 1..landed \subseteq Sig
    BY OnChain DEF TypeOK
  <1>2. /\ live.start \in Nat /\ live.end \in Nat /\ live.found \in SUBSET Sig
        /\ live.addrs \in SUBSET Address /\ live.todo \in SUBSET Address
        /\ live.pc \in {"idle", "fetch"}
    BY <1>1 DEF Poll
  <1>3. RangeSize \in Nat \ {0} /\ \A s \in Sig : Slot[s] \in Nat
    BY Parameters
  <1>4. RangeEnd \in Nat /\ RangeEnd < live.start + RangeSize
    BY <1>2, <1>3 DEF RangeEnd
  <1> QED BY <1>1, <1>2, <1>3, <1>4 DEF TypeOK

(* What leaves the live task alone keeps its invariant: more is handed     *)
(* over or excused, time passes, and what lands, lands in a slot that is   *)
(* not behind the end of a poll.                                           *)
LEMMA LiveFrame ==
  ASSUME TypeOK, LiveInv, UNCHANGED <<cursor, first, live, polled>>,
         handed \subseteq handed', excused \subseteq excused',
         head' \in Nat, head <= head', landed' \in Nat, landed' <= Len(Slot),
         \A s \in 1..landed' : s \in 1..landed \/ head <= Slot[s]
  PROVE  LiveInv'
  <1> USE DEF LiveInv
  <1>1. /\ landed \in Nat /\ head \in Nat /\ cursor \in Nat /\ first \in Nat
        /\ live.start \in Nat /\ live.end \in Nat /\ RangeEnd \in Nat
        /\ RangeEnd' = RangeEnd
        /\ 1..landed' \subseteq Sig /\ \A s \in Sig : Slot[s] \in Nat
    BY LiveTypes, Parameters DEF RangeEnd
  <1>2. CursorPlace' /\ Ranges' /\ PollPlace'
    BY <1>1 DEF CursorPlace, Ranges, PollPlace
  <1>3. \A s \in 1..landed' : Slot[s] < head => s \in 1..landed
    BY <1>1
  <1>4. NothingSlips'
    <2>1. SUFFICES ASSUME NEW s \in 1..landed', first <= Slot[s],
                          Slot[s] < cursor
                   PROVE  s \in handed' \union excused'
      BY <1>1 DEF NothingSlips, InSlots
    <2>2. s \in 1..landed
      BY <1>1, <1>3, <2>1 DEF CursorPlace
    <2>3. s \in handed \union excused
      BY <1>1, <2>1, <2>2 DEF NothingSlips, InSlots
    <2> QED BY <2>3
  <1>5. RangesDone'
    BY <1>1, <1>3 DEF RangesDone, PollPlace, Settled
  <1>8. ASSUME live.pc = "fetch", NEW s \in 1..landed', Slot[s] < live.end
        PROVE  s \in 1..landed
    <2>1. live.end <= head
      BY <1>8 DEF PollPlace
    <2>2. Slot[s] \in Nat /\ Slot[s] < head
      BY <1>1, <1>8, <2>1
    <2> QED BY <1>3, <2>2
  <1>6. NobodysExcused'
    <2>1. SUFFICES ASSUME live.pc = "fetch", NEW s \in 1..landed',
                          cursor <= Slot[s], Slot[s] < live.end,
                          Parties[s] \intersect live.addrs = {}
                   PROVE  s \in excused'
      BY DEF NobodysExcused
    <2>2. s \in 1..landed
      BY <1>8, <2>1
    <2> QED BY <2>1, <2>2 DEF NobodysExcused
  <1>7. AskedDone'
    <2>1. SUFFICES ASSUME live.pc = "fetch", NEW s \in 1..landed',
                          NEW x \in live.addrs \ live.todo, x \in Parties[s],
                          live.start <= Slot[s], Slot[s] <= RangeEnd,
                          Slot[s] < live.end
                   PROVE  s \in live.found \union excused'
      BY <1>1 DEF AskedDone
    <2>2. s \in 1..landed
      BY <1>8, <2>1
    <2> QED BY <2>1, <2>2 DEF AskedDone
  <1> QED BY <1>2, <1>4, <1>5, <1>6, <1>7

LEMMA LivePollStep ==
  ASSUME TypeOK, LiveInv, LivePoll
  PROVE  LiveInv'
  <1> USE DEF LiveInv
  <1>1. /\ live.pc = "idle" /\ head > cursor
        /\ live' = [pc |-> "fetch", end |-> head, start |-> cursor,
                    addrs |-> tracked, todo |-> tracked, found |-> {}]
        /\ excused' = excused \union {s \in InSlots(1..landed, cursor, head) :
                                       Parties[s] \intersect tracked = {}}
        /\ UNCHANGED <<landed, head, cursor, first, polled, handed>>
    BY DEF LivePoll, PollFrom, chain
  <1>2. /\ live'.pc = "fetch" /\ live'.end = head /\ live'.start = cursor
        /\ live'.addrs = tracked /\ live'.todo = tracked /\ live'.found = {}
    BY <1>1
  <1>3. /\ cursor \in Nat /\ head \in Nat /\ 1..landed \subseteq Sig
        /\ \A s \in Sig : Slot[s] \in Nat
    BY LiveTypes
  <1>4. CursorPlace' /\ NothingSlips'
    BY <1>1 DEF CursorPlace, NothingSlips
  <1>5. Ranges' /\ PollPlace'
    BY <1>1, <1>2, <1>3 DEF Ranges, PollPlace
  <1>6. RangesDone' /\ AskedDone'
    BY <1>1, <1>2, <1>3 DEF RangesDone, AskedDone
  <1>7. NobodysExcused'
    BY <1>1, <1>2, <1>3 DEF NobodysExcused, InSlots
  <1> QED BY <1>4, <1>5, <1>6, <1>7

LEMMA LivePollNothingStep ==
  ASSUME TypeOK, LiveInv, LivePollNothing
  PROVE  LiveInv'
  <1> USE DEF LiveInv
  <1>1. /\ live.pc = "idle" /\ head > cursor /\ cursor' = head
        /\ excused' = excused \union InSlots(1..landed, cursor, head)
        /\ UNCHANGED <<landed, head, live, first, polled, handed>>
    BY DEF LivePollNothing, PollFrom, chain
  <1>2. /\ cursor \in Nat /\ head \in Nat /\ first \in Nat /\ 1..landed \subseteq Sig
        /\ \A s \in Sig : Slot[s] \in Nat
    BY LiveTypes
  <1>3. CursorPlace' /\ Ranges' /\ PollPlace'
    BY <1>1, <1>2 DEF CursorPlace, Ranges, PollPlace, RangeEnd
  <1>4. RangesDone' /\ AskedDone' /\ NobodysExcused'
    BY <1>1 DEF RangesDone, AskedDone, NobodysExcused
  <1>5. NothingSlips'
    <2>1. SUFFICES ASSUME NEW s \in 1..landed, first <= Slot[s], Slot[s] < head
                   PROVE  s \in handed \union excused'
      BY <1>1 DEF NothingSlips, InSlots
    <2>2. Slot[s] \in Nat
      BY <1>2
    <2>3. CASE Slot[s] < cursor
      BY <1>1, <1>2, <2>1, <2>2, <2>3 DEF NothingSlips, InSlots
    <2>4. CASE cursor <= Slot[s]
      BY <1>1, <1>2, <2>1, <2>2, <2>4 DEF InSlots
    <2> QED BY <1>2, <2>2, <2>3, <2>4
  <1> QED BY <1>3, <1>4, <1>5

(* A fetch settles its address for the range, with what the request        *)
(* returned or as an excuse.                                               *)
LEMMA LiveAskStep ==
  ASSUME TypeOK, LiveInv, live.pc = "fetch", NEW a \in live.todo,
         NEW F \in SUBSET InSlots(Of(a), live.start, RangeEnd),
         live' = [live EXCEPT !.todo = @ \ {a}, !.found = @ \union F],
         excused' = excused \union (InSlots(Of(a), live.start, RangeEnd) \ F),
         UNCHANGED <<landed, head, cursor, first, polled, handed>>
  PROVE  LiveInv'
  <1> USE DEF LiveInv
  <1>1. /\ live'.pc = "fetch" /\ live'.end = live.end /\ live'.start = live.start
        /\ live'.addrs = live.addrs /\ live'.todo = live.todo \ {a}
        /\ live'.found = live.found \union F
    BY DEF TypeOK, Poll
  <1>2. RangeEnd' = RangeEnd
    BY <1>1 DEF RangeEnd
  <1>3. CursorPlace' /\ PollPlace'
    BY <1>1 DEF CursorPlace, PollPlace
  <1>4. NothingSlips' /\ RangesDone' /\ NobodysExcused'
    BY <1>1 DEF NothingSlips, RangesDone, NobodysExcused, Settled
  <1>5. Ranges'
    BY <1>1, <1>2 DEF Ranges, InSlots
  <1>6. AskedDone'
    <2>1. SUFFICES ASSUME NEW s \in 1..landed, NEW x \in live.addrs \ (live.todo \ {a}),
                          x \in Parties[s], live.start <= Slot[s],
                          Slot[s] <= RangeEnd, Slot[s] < live.end
                   PROVE  s \in live'.found \union excused'
      BY <1>1, <1>2 DEF AskedDone
    <2>2. CASE x = a
      BY <1>1, <2>1, <2>2 DEF InSlots, Of
    <2>3. CASE x # a
      BY <1>1, <2>1, <2>3 DEF AskedDone
    <2> QED BY <2>2, <2>3
  <1> QED BY <1>3, <1>4, <1>5, <1>6

LEMMA LiveFetchStep ==
  ASSUME TypeOK, LiveInv, LiveFetch \/ LiveFetchFails
  PROVE  LiveInv'
  <1>1. CASE LiveFetch
    <2>1. PICK a \in live.todo :
            LET page == Newest(Of(a), LiveLimit)
            IN /\ live.pc = "fetch"
               /\ live' = [live EXCEPT !.todo = @ \ {a},
                             !.found = @ \union InSlots(page, live.start, RangeEnd)]
               /\ excused' = excused \union
                               InSlots(Of(a) \ page, live.start, RangeEnd)
               /\ UNCHANGED <<landed, head, cursor, first, polled, handed>>
      BY <1>1 DEF LiveFetch, chain
    <2> DEFINE F == InSlots(Newest(Of(a), LiveLimit), live.start, RangeEnd)
    <2>2. /\ F \in SUBSET InSlots(Of(a), live.start, RangeEnd)
          /\ InSlots(Of(a) \ Newest(Of(a), LiveLimit), live.start, RangeEnd)
               = InSlots(Of(a), live.start, RangeEnd) \ F
      BY DEF InSlots, Newest
    <2>3. /\ live' = [live EXCEPT !.todo = @ \ {a}, !.found = @ \union F]
          /\ excused' = excused \union (InSlots(Of(a), live.start, RangeEnd) \ F)
      BY <2>1, <2>2
    <2> HIDE DEF F
    <2> QED BY <2>1, <2>2, <2>3, LiveAskStep
  <1>2. CASE LiveFetchFails
    <2>1. PICK a \in live.todo :
            /\ live.pc = "fetch"
            /\ live' = [live EXCEPT !.todo = @ \ {a}]
            /\ excused' = excused \union InSlots(Of(a), live.start, RangeEnd)
            /\ UNCHANGED <<landed, head, cursor, first, polled, handed>>
      BY <1>2 DEF LiveFetchFails, chain
    <2>2. live' = [live EXCEPT !.todo = @ \ {a}, !.found = @ \union {}]
      BY <2>1 DEF TypeOK, Poll
    <2>3. excused' = excused \union (InSlots(Of(a), live.start, RangeEnd) \ {})
      BY <2>1
    <2>4. {} \in SUBSET InSlots(Of(a), live.start, RangeEnd)
      OBVIOUS
    <2> QED BY <2>1, <2>2, <2>3, <2>4, LiveAskStep
  <1> QED BY <1>1, <1>2

LEMMA LiveProcessStep ==
  ASSUME TypeOK, LiveInv, LiveProcess
  PROVE  LiveInv'
  <1> USE DEF LiveInv
  <1>1. /\ live.pc = "fetch" /\ live.todo = {} /\ Process(live.found)
        /\ UNCHANGED <<landed, head, first>>
    BY DEF LiveProcess, chain
  <1>2. /\ landed \in Nat /\ head \in Nat /\ cursor \in Nat /\ first \in Nat
        /\ live.start \in Nat /\ live.end \in Nat /\ live.found \in SUBSET Sig
        /\ polled \in SUBSET Sig /\ RangeSize \in Nat \ {0}
        /\ 1..landed \subseteq Sig /\ \A s \in Sig : Slot[s] \in Nat
        /\ RangeEnd \in Nat /\ RangeEnd < live.start + RangeSize
    BY LiveTypes
  <1>3. /\ handed \subseteq handed' /\ excused \subseteq excused'
        /\ live.found \subseteq handed' \union excused'
    BY <1>1, <1>2, ProcessEffect
  <1>4. ASSUME NEW s \in 1..landed, cursor <= Slot[s], Slot[s] <= RangeEnd,
               Slot[s] < live.end
        PROVE  s \in handed' \union excused'
    <2>1. CASE Slot[s] < live.start
      BY <1>1, <1>3, <1>4, <2>1 DEF RangesDone, Settled
    <2>2. CASE live.start <= Slot[s] /\ Parties[s] \intersect live.addrs = {}
      BY <1>1, <1>3, <1>4, <2>2 DEF NobodysExcused
    <2>3. CASE live.start <= Slot[s] /\ Parties[s] \intersect live.addrs # {}
      <3>1. PICK x \in live.addrs \ live.todo : x \in Parties[s]
        BY <1>1, <2>3
      <3> QED BY <1>1, <1>3, <1>4, <2>3, <3>1 DEF AskedDone
    <2>4. Slot[s] \in Nat
      BY <1>2
    <2> QED BY <1>2, <2>1, <2>2, <2>3, <2>4
  <1>5. CASE live.start + RangeSize <= live.end
    <2>1. /\ live' = [live EXCEPT !.start = @ + RangeSize,
                        !.todo = live.addrs, !.found = {}]
          /\ polled' = polled \union live.found /\ cursor' = cursor
      BY <1>5 DEF LiveProcess
    <2>2. /\ live'.pc = "fetch" /\ live'.end = live.end
          /\ live'.start = live.start + RangeSize
          /\ live'.addrs = live.addrs /\ live'.todo = live.addrs /\ live'.found = {}
      BY <1>1, <2>1 DEF TypeOK, Poll
    <2>3. RangeEnd = live.start + RangeSize - 1
      BY <1>2, <1>5 DEF RangeEnd
    <2>4. CursorPlace' /\ NothingSlips'
      BY <1>1, <1>3, <2>1 DEF CursorPlace, NothingSlips
    <2>5. Ranges'
      BY <1>1, <1>2, <2>1, <2>2 DEF Ranges
    <2>6. PollPlace'
      BY <1>1, <1>2, <1>5, <2>1, <2>2 DEF PollPlace
    <2>7. RangesDone'
      <3>1. SUFFICES ASSUME NEW s \in 1..landed, cursor <= Slot[s],
                            Slot[s] < live.start + RangeSize
                     PROVE  s \in handed' \union excused'
        BY <1>1, <2>1, <2>2 DEF RangesDone, Settled
      <3>2. Slot[s] <= RangeEnd /\ Slot[s] < live.end
        BY <1>2, <1>5, <2>3, <3>1
      <3> QED BY <1>4, <3>1, <3>2
    <2>8. NobodysExcused' /\ AskedDone'
      BY <1>1, <1>3, <2>1, <2>2 DEF NobodysExcused, AskedDone
    <2> QED BY <2>4, <2>5, <2>6, <2>7, <2>8
  <1>6. CASE ~(live.start + RangeSize <= live.end)
    <2>1. live' = NoPoll /\ polled' = {} /\ cursor' = live.end
      BY <1>6 DEF LiveProcess
    <2>2. live'.pc = "idle" /\ live'.found = {}
      BY <2>1 DEF NoPoll
    <2>3. RangeEnd = live.end
      BY <1>1, <1>2, <1>6 DEF RangeEnd, PollPlace
    <2>4. CursorPlace'
      BY <1>1, <2>1 DEF CursorPlace, PollPlace
    <2>5. Ranges' /\ PollPlace' /\ RangesDone' /\ NobodysExcused' /\ AskedDone'
      BY <2>1, <2>2 DEF Ranges, PollPlace, RangesDone, NobodysExcused, AskedDone
    <2>6. NothingSlips'
      <3>1. SUFFICES ASSUME NEW s \in 1..landed, first <= Slot[s],
                            Slot[s] < live.end
                     PROVE  s \in handed' \union excused'
        BY <1>1, <2>1 DEF NothingSlips, InSlots
      <3>2. Slot[s] \in Nat /\ Slot[s] <= RangeEnd
        BY <1>2, <2>3, <3>1
      <3>3. CASE Slot[s] < cursor
        BY <1>2, <1>3, <3>1, <3>2, <3>3 DEF NothingSlips, InSlots
      <3>4. CASE cursor <= Slot[s]
        BY <1>4, <3>1, <3>2, <3>4
      <3> QED BY <1>2, <3>2, <3>3, <3>4
    <2> QED BY <2>4, <2>5, <2>6
  <1> QED BY <1>5, <1>6

-----------------------------------------------------------------------------
(* The historical task.  A walk knows the chain up to where it began; what *)
(* it has behind its cursor is handed over, or is in the page in hand,     *)
(* unless the walk is no longer clean; and a short page is the rest.       *)

WalkPlace ==
  /\ \A x \in Address : covered[x] <= landed
  /\ walk.from <= landed
  /\ hist.pc \in {"fetch", "process"} => hist.now <= head

BehindCursor ==
  hist.pc = "fetch" /\ walk.clean =>
    \A s \in Of(hist.addr) :
      s <= walk.from /\ hist.before <= s => s \in handed

PageInHand ==
  hist.pc = "process" /\ walk.clean =>
    \A s \in Of(hist.addr) :
      s <= walk.from /\ (hist.before <= s \/ IsShort(hist.page))
        => s \in handed \union hist.page

WalkInv ==
  /\ WalkPlace
  /\ BehindCursor
  /\ PageInHand
  /\ WalkIsComplete

(* Signature s of address x is excused by the age limit: it shares a page  *)
(* with one that is past it.                                               *)
TooOldFor(x, s) == \E t \in Of(x) : ~Young(t) /\ SharesPage(x, t, s)

(* It stays so when time passes and signatures land.                       *)
LEMMA StaysTooOld ==
  ASSUME TypeOK, NEW x, NEW s \in Of(x), TooOldFor(x, s),
         head' \in Nat, head <= head', landed' \in Nat, landed <= landed',
         landed' <= Len(Slot)
  PROVE  TooOldFor(x, s)'
  <1>1. PICK t \in Of(x) : ~Young(t) /\ SharesPage(x, t, s)
    BY DEF TooOldFor
  <1>2. landed \in Nat /\ s \in 1..landed /\ t \in 1..landed /\ t \in Sig
    BY OnChain
  <1>3. t \in Of(x)'
    BY <1>1, <1>2 DEF Of
  <1>4. ~Young(t)'
    <2>1. Slot[t] + MaxAge \in Nat /\ head \in Nat
      BY <1>2, Parameters DEF TypeOK
    <2> QED BY <1>1, <2>1 DEF Young
  <1>5. \A u \in 1..landed' : u <= s => u \in 1..landed
    BY <1>2
  <1>6. {u \in Of(x)' : t < u /\ u <= s} = {u \in Of(x) : t < u /\ u <= s}
    BY <1>2, <1>5 DEF Of
  <1>7. SharesPage(x, t, s)'
    BY <1>1, <1>6 DEF SharesPage
  <1> QED BY <1>3, <1>4, <1>7 DEF TooOldFor

(* What was complete stays complete, whatever else lands or is handed      *)
(* over.                                                                   *)
LEMMA StaysComplete ==
  ASSUME TypeOK, WalkInv, UNCHANGED covered, handed \subseteq handed',
         head' \in Nat, head <= head', landed' \in Nat, landed <= landed',
         landed' <= Len(Slot)
  PROVE  WalkIsComplete' /\ \A x \in Address : covered'[x] <= landed'
  <1>1. \A x \in Address : covered[x] \in Nat /\ covered[x] <= landed /\ landed \in Nat
    BY OnChain, Parameters DEF TypeOK, WalkInv, WalkPlace
  <1>2. ASSUME NEW x \in Address, NEW s \in Of(x)',
               s <= covered[x], s \notin handed'
        PROVE  TooOldFor(x, s)'
    <2>1. s \in Of(x)
      BY <1>1, <1>2 DEF Of
    <2>2. TooOldFor(x, s)
      BY <1>2, <2>1 DEF WalkInv, WalkIsComplete, TooOldFor
    <2> QED BY <2>1, <2>2, StaysTooOld
  <1>3. WalkIsComplete'
    BY <1>2 DEF WalkIsComplete, TooOldFor
  <1> QED BY <1>1, <1>3

LEMMA WalkFrame ==
  ASSUME TypeOK, WalkInv, UNCHANGED <<hist, walk, covered>>,
         handed \subseteq handed', head' \in Nat, head <= head',
         landed' \in Nat, landed <= landed', landed' <= Len(Slot)
  PROVE  WalkInv'
  <1> USE DEF WalkInv
  <1>1. landed \in Nat /\ head \in Nat /\ walk.from \in Nat /\ hist.now \in Nat
    BY OnChain, Parameters DEF TypeOK, Walk
  <1>2. WalkIsComplete' /\ \A x \in Address : covered'[x] <= landed'
    BY StaysComplete
  <1>3. WalkPlace'
    BY <1>1, <1>2 DEF WalkPlace
  <1>4. \A x, s : s \in Of(x)' /\ s <= walk.from => s \in Of(x)
    BY <1>1 DEF Of, WalkPlace
  <1>5. BehindCursor'
    BY <1>4 DEF BehindCursor
  <1>6. PageInHand'
    BY <1>4 DEF PageInHand, IsShort
  <1> QED BY <1>2, <1>3, <1>5, <1>6

(* A walk ends clean only when all that was there when it began is handed  *)
(* over or excused by the age limit.                                       *)
LEMMA EndWalkStep ==
  ASSUME TypeOK, WalkInv, NEW clean \in BOOLEAN, EndWalk(clean),
         hist.addr \in Address, handed \subseteq handed', UNCHANGED <<landed, head>>,
         clean => \A s \in Of(hist.addr) :
           s <= walk.from /\ s \notin handed' => TooOldFor(hist.addr, s)
  PROVE  WalkInv'
  <1> USE DEF WalkInv
  <1>1. /\ hist'.pc = "next" /\ walk'.from = 0
        /\ covered' = IF clean THEN [covered EXCEPT ![hist.addr] = walk.from]
                               ELSE covered
    BY DEF EndWalk, NoWalk
  <1>2. landed \in Nat
    BY OnChain
  <1>3. WalkPlace'
    BY <1>1, <1>2 DEF WalkPlace, TypeOK
  <1>4. BehindCursor' /\ PageInHand'
    BY <1>1 DEF BehindCursor, PageInHand
  <1>5. WalkIsComplete'
    <2>1. SUFFICES ASSUME NEW x \in Address, NEW s \in Of(x),
                          s <= covered'[x], s \notin handed'
                   PROVE  TooOldFor(x, s)
      BY DEF WalkIsComplete, TooOldFor, Of, Young, SharesPage
    <2>2. CASE clean /\ x = hist.addr
      <3>1. covered'[x] = walk.from
        BY <1>1, <2>2 DEF TypeOK
      <3> QED BY <2>1, <2>2, <3>1
    <2>3. CASE ~(clean /\ x = hist.addr)
      <3>1. covered'[x] = covered[x]
        BY <1>1, <2>3 DEF TypeOK
      <3> QED BY <2>1, <3>1 DEF WalkIsComplete, TooOldFor
    <2> QED BY <2>2, <2>3
  <1> QED BY <1>3, <1>4, <1>5

(* When a page ends past the age limit, what is left of the address is     *)
(* excused: the page shares itself with its last signature, and what is    *)
(* before the page is past the limit itself.                               *)
LEMMA OldPage ==
  ASSUME TypeOK, WalkInv, hist.pc = "fetch", hist.addr \in Address,
         Page # {}, TooOld(LastOf(Page)),
         NEW s \in Of(hist.addr), s < hist.before
  PROVE  TooOldFor(hist.addr, s)
  <1> DEFINE t == LastOf(Page)
             S == {u \in Of(hist.addr) : u < hist.before}
             Newer == {u \in S : u > t}
             Between(x) == {u \in Of(hist.addr) : x < u /\ u <= s}
  <1>1. /\ t \in Page /\ Page \subseteq Of(hist.addr) /\ t < hist.before
        /\ Page \in SUBSET (1..landed) /\ s \in 1..landed /\ landed \in Nat
        /\ 1..landed \subseteq Sig /\ Of(hist.addr) \in SUBSET (1..landed)
    BY PageFacts, OnChain
  <1> HIDE DEF t
  <1>2. /\ t \in Sig /\ s \in Sig /\ t \in Nat /\ s \in Nat
        /\ Slot[t] \in Nat /\ Slot[s] \in Nat
    BY <1>1, Parameters
  <1>3. head > Slot[t] + MaxAge
    BY <1>2, Parameters DEF TooOld, t, WalkInv, WalkPlace, TypeOK, Walk
  <1>4. ~Young(t)
    BY <1>2, <1>3, Parameters DEF Young, TypeOK
  <1>5. CASE t <= s
    <2>1. Cardinality(Newer) < PageLimit
      BY <1>1 DEF Page, Newest
    <2>2. hist.before \in Nat
      BY Parameters DEF TypeOK, Walk
    <2>3. \A u \in Of(hist.addr) : t < u /\ u <= s => u \in Newer
      BY <1>1, <1>2, <2>2
    <2>4. IsFiniteSet(1..landed)
      BY <1>1, FS_Interval
    <2>5. Newer \in SUBSET (1..landed) /\ Between(t) \in SUBSET Newer
      BY <1>1, <2>3
    <2> HIDE DEF Newer, Between
    <2>6. IsFiniteSet(Newer)
      BY <2>4, <2>5, FS_Subset
    <2>7. IsFiniteSet(Between(t)) /\ Cardinality(Between(t)) <= Cardinality(Newer)
      BY <2>5, <2>6, FS_Subset
    <2>8. Cardinality(Newer) \in Nat /\ Cardinality(Between(t)) \in Nat
      BY <2>6, <2>7, FS_CardinalityType
    <2>9. Cardinality(Between(t)) < PageLimit
      BY <2>1, <2>7, <2>8, Parameters
    <2>10. SharesPage(hist.addr, t, s)
      BY <1>5, <2>9 DEF SharesPage, Between
    <2> QED BY <1>1, <1>4, <2>10 DEF TooOldFor
  <1>6. CASE s < t
    <2>1. Slot[s] <= Slot[t]
      BY <1>2, <1>6, Parameters
    <2>2. ~Young(s)
      BY <1>2, <1>3, <2>1, Parameters DEF Young, TypeOK
    <2>3. \A u \in Of(hist.addr) : ~(s < u /\ u <= s)
      BY <1>1, <1>2
    <2>4. Between(s) = {}
      BY <2>3
    <2>5. Cardinality(Between(s)) < PageLimit
      <3>1. Cardinality(Between(s)) = 0
        BY <2>4, FS_EmptySet
      <3> QED BY <3>1, Parameters
    <2>6. SharesPage(hist.addr, s, s)
      BY <1>2, <2>5 DEF SharesPage
    <2> QED BY <2>2, <2>6 DEF TooOldFor
  <1> QED BY <1>2, <1>5, <1>6

LEMMA HistFetchLastStep ==
  ASSUME TypeOK, Walking, WalkInv, HistFetchLast
  PROVE  WalkInv'
  <1> USE DEF WalkInv
  <1>1. /\ hist.pc = "fetch" /\ EndWalk(walk.clean) /\ hist.addr \in Address
        /\ walk.clean \in BOOLEAN
        /\ UNCHANGED <<landed, head, handed>>
    BY DEF HistFetchLast, Walking, chain, TypeOK
  <1>2. ASSUME walk.clean, NEW s \in Of(hist.addr),
               s <= walk.from, s \notin handed
        PROVE  TooOldFor(hist.addr, s)
    <2>1. s < hist.before
      <3>1. s \in Nat /\ hist.before \in Nat
        BY <1>2, WalkOrder
      <3>2. ~(hist.before <= s)
        BY <1>1, <1>2 DEF BehindCursor
      <3> QED BY <3>1, <3>2
    <2>2. Page # {}
      BY <2>1, PageFacts
    <2>3. ~(Page \subseteq hist.seen)
      <3>1. PICK p \in Page : TRUE
        BY <2>2
      <3>2. p < hist.before /\ p \in Nat /\ hist.before \in Nat
        <4>1. p < hist.before /\ p \in 1..landed
          BY <3>1, PageFacts
        <4>2. hist.before \in Nat
          BY Parameters DEF TypeOK, Walk
        <4> QED BY <4>1, <4>2, OnChain
      <3>3. p \notin hist.seen
        BY <3>2 DEF TypeOK
      <3> QED BY <3>3
    <2>4. TooOld(LastOf(Page))
      BY <2>2, <2>3 DEF HistFetchLast
    <2> QED BY <1>1, <2>1, <2>2, <2>4, OldPage
  <1> QED BY <1>1, <1>2, EndWalkStep

LEMMA HistGivesUpStep ==
  ASSUME TypeOK, Walking, WalkInv, HistFetchUntimed \/ HistFetchFails
  PROVE  WalkInv'
  <1>1. /\ EndWalk(FALSE) /\ hist.addr \in Address
        /\ UNCHANGED <<landed, head, handed>>
    BY DEF HistFetchUntimed, HistFetchFails, Walking, chain
  <1> QED BY <1>1, EndWalkStep

(* The cursor moves to the end of a page that is in hand.                  *)
LEMMA HistFetchStep ==
  ASSUME TypeOK, Walking, WalkInv, HistFetch
  PROVE  WalkInv'
  <1> USE DEF WalkInv
  <1>1. /\ hist.pc = "fetch" /\ Page # {}
        /\ hist' = [hist EXCEPT !.pc = "process", !.before = LastOf(Page),
                     !.seen = @ \union Page, !.page = Page]
        /\ UNCHANGED <<landed, head, tracked, walk, covered, handed>>
    BY DEF HistFetch, chain
  <1>2. /\ hist'.pc = "process" /\ hist'.before = LastOf(Page)
        /\ hist'.page = Page /\ hist'.addr = hist.addr /\ hist'.now = hist.now
    BY <1>1 DEF TypeOK, Walk
  <1>3. WalkPlace'
    BY <1>1, <1>2 DEF WalkPlace
  <1>4. BehindCursor'
    BY <1>2 DEF BehindCursor
  <1>5. PageInHand'
    <2>1. SUFFICES ASSUME walk.clean, NEW s \in Of(hist.addr), s <= walk.from,
                          LastOf(Page) <= s \/ IsShort(Page)
                   PROVE  s \in handed \union Page
      <3>1. Of(hist.addr)' = Of(hist.addr)
        BY <1>1, <1>2 DEF Of
      <3> QED BY <1>1, <1>2, <3>1 DEF PageInHand, IsShort
    <2>2. s \in Nat /\ hist.before \in Nat
      BY <2>1, WalkOrder
    <2>3. CASE hist.before <= s
      BY <1>1, <2>1, <2>3 DEF BehindCursor
    <2>4. CASE s < hist.before
      BY <1>1, <2>1, <2>4, PageFacts DEF IsShort
    <2> QED BY <2>2, <2>3, <2>4
  <1>6. WalkIsComplete'
    BY <1>1 DEF WalkIsComplete, Of, Young, SharesPage
  <1> QED BY <1>3, <1>4, <1>5, <1>6

LEMMA HistProcessStep ==
  ASSUME TypeOK, Walking, WalkInv, HistProcess
  PROVE  WalkInv'
  <1> USE DEF WalkInv
  <1> DEFINE clean == walk.clean /\ handed' = handed \union hist.page
  <1>1. /\ hist.pc = "process" /\ Process(hist.page)
        /\ hist.addr \in Address /\ hist.page \in SUBSET Sig
        /\ UNCHANGED <<landed, head>>
    BY DEF HistProcess, Walking, chain, TypeOK, Walk
  <1>2. handed \subseteq handed'
    BY <1>1, ProcessEffect
  <1>3. CASE IsShort(hist.page)
    <2>1. EndWalk(clean) /\ clean \in BOOLEAN
      BY <1>3 DEF HistProcess
    <2>2. ASSUME clean, NEW s \in Of(hist.addr), s <= walk.from
          PROVE  s \in handed'
      BY <1>1, <1>3, <2>2 DEF PageInHand
    <2> HIDE DEF clean
    <2> QED BY <1>1, <1>2, <2>1, <2>2, EndWalkStep
  <1>4. CASE ~IsShort(hist.page)
    <2>1. /\ hist' = [hist EXCEPT !.pc = "fetch", !.page = {}]
          /\ walk' = [walk EXCEPT !.clean = clean]
          /\ UNCHANGED covered
      BY <1>4 DEF HistProcess
    <2>2. /\ hist'.pc = "fetch" /\ hist'.before = hist.before
          /\ hist'.addr = hist.addr /\ hist'.now = hist.now
          /\ walk'.from = walk.from /\ walk'.clean = clean
      BY <2>1 DEF TypeOK, Walk
    <2>3. WalkPlace'
      BY <1>1, <2>1, <2>2 DEF WalkPlace
    <2>4. BehindCursor'
      BY <1>1, <2>2 DEF BehindCursor, PageInHand, Of
    <2>5. PageInHand'
      BY <2>2 DEF PageInHand
    <2>6. WalkIsComplete'
      BY <1>1, <1>2, <2>1 DEF WalkIsComplete, Of, Young, SharesPage
    <2> QED BY <2>3, <2>4, <2>5, <2>6
  <1> QED BY <1>3, <1>4

(* A walk begins beyond everything, so that it has nothing behind it yet.  *)
LEMMA HistBeginStep ==
  ASSUME TypeOK, WalkInv, HistPoll \/ HistDone \/ HistBegin
  PROVE  WalkInv'
  <1> USE DEF WalkInv
  <1>1. UNCHANGED <<landed, head, covered, handed>>
    BY DEF HistPoll, HistDone, HistBegin, chain
  <1>2. WalkIsComplete'
    BY <1>1 DEF WalkIsComplete, Of, Young, SharesPage
  <1>3. CASE HistPoll \/ HistDone
    <2>1. walk' = walk /\ \/ hist' = NoWalk
                          \/ hist' = [NoWalk EXCEPT !.pc = "next", !.todo = tracked]
      BY <1>3 DEF HistPoll, HistDone
    <2>2. hist'.pc \notin {"fetch", "process"}
      <3>1. CASE hist' = NoWalk
        BY <3>1 DEF NoWalk
      <3>2. CASE hist' = [NoWalk EXCEPT !.pc = "next", !.todo = tracked]
        BY <3>2 DEF NoWalk
      <3> QED BY <2>1, <3>1, <3>2
    <2> QED BY <1>1, <1>2, <2>1, <2>2 DEF WalkPlace, BehindCursor, PageInHand
  <1>4. CASE HistBegin
    <2>1. /\ hist'.pc = "fetch" /\ hist'.before = Beyond /\ hist'.now = head
          /\ walk'.from = landed
      <3>1. PICK x \in hist.todo :
              /\ hist' = [NoWalk EXCEPT !.pc = "fetch", !.todo = hist.todo \ {x},
                                        !.addr = x, !.now = head]
              /\ walk' = [from |-> landed, clean |-> TRUE]
        BY <1>4 DEF HistBegin
      <3> QED BY <3>1 DEF NoWalk
    <2>2. head \in Nat /\ landed \in Nat
      BY OnChain DEF TypeOK
    <2>3. WalkPlace'
      BY <1>1, <2>1, <2>2 DEF WalkPlace
    <2>4. \A x : \A s \in Of(x) : ~(Beyond <= s)
      BY OnChain, Parameters
    <2>5. BehindCursor' /\ PageInHand'
      BY <1>1, <2>1, <2>4 DEF BehindCursor, PageInHand, Of
    <2> QED BY <1>2, <2>3, <2>5
  <1> QED BY <1>3, <1>4

-----------------------------------------------------------------------------
(* Invariance.                                                             *)

IInv ==
  /\ TypeOK
  /\ Walking
  /\ LiveInv
  /\ WalkInv

LEMMA InitIInv == Init => IInv
  <1> SUFFICES ASSUME Init PROVE IInv
    OBVIOUS
  <1>1. TypeOK /\ Walking
    BY InitType
  <1>2. /\ live.pc = "idle" /\ live.found = {} /\ polled = {}
        /\ hist.pc = "idle" /\ walk.from = 0 /\ landed = 0 /\ cursor = first
        /\ \A x \in Address : covered[x] = 0
    BY DEF Init, NoPoll, NoWalk
  <1>3. \A s \in 1..landed : FALSE
    BY <1>2
  <1>4. LiveInv
    BY <1>2, <1>3
       DEF LiveInv, CursorPlace, NothingSlips, InSlots, Ranges, PollPlace,
           RangesDone, NobodysExcused, AskedDone
  <1>5. WalkIsComplete
    BY <1>3 DEF WalkIsComplete, Of
  <1>6. WalkInv
    BY <1>2, <1>5 DEF WalkInv, WalkPlace, BehindCursor, PageInHand
  <1> QED BY <1>1, <1>4, <1>6 DEF IInv

(* The chain grows at its end: what lands, lands in the latest slot or     *)
(* later.                                                                  *)
LEMMA ChainStep ==
  ASSUME IInv, Land \/ NextSlot \/ Track \/ Untrack
  PROVE  LiveInv' /\ WalkInv'
  <1>1. UNCHANGED <<liveVars, histVars, handed, excused>>
    BY DEF Land, NextSlot, Track, Untrack
  <1>2. landed \in Nat /\ head \in Nat /\ landed <= Len(Slot) /\ Len(Slot) \in Nat
    BY Parameters DEF IInv, TypeOK
  <1>3. /\ head' \in Nat /\ head <= head'
        /\ landed' \in Nat /\ landed <= landed' /\ landed' <= Len(Slot)
        /\ \A s \in 1..landed' : s \in 1..landed \/ head <= Slot[s]
    <2>1. CASE Land
      <3>1. /\ landed' = landed + 1 /\ landed < Len(Slot)
            /\ head' = Slot[landed + 1] /\ head <= Slot[landed + 1]
        BY <2>1 DEF Land
      <3>2. landed + 1 \in Sig /\ Slot[landed + 1] \in Nat
        BY <1>2, <3>1, Parameters
      <3> QED BY <1>2, <3>1, <3>2
    <2>2. CASE NextSlot
      BY <1>2, <2>2 DEF NextSlot
    <2>3. CASE Track \/ Untrack
      BY <1>2, <2>3 DEF Track, Untrack
    <2> QED BY <2>1, <2>2, <2>3
  <1>4. LiveInv'
    BY <1>1, <1>3, LiveFrame DEF IInv, liveVars
  <1>5. WalkInv'
    BY <1>1, <1>3, WalkFrame DEF IInv, histVars
  <1> QED BY <1>4, <1>5

(* A restart forgets both tasks and keeps what they have done.             *)
LEMMA RestartStep ==
  ASSUME IInv, Restart
  PROVE  LiveInv' /\ WalkInv'
  <1>1. /\ live'.pc = "idle" /\ live'.found = {} /\ polled' = {} /\ cursor' = first'
        /\ hist'.pc = "idle" /\ walk'.from = 0
        /\ UNCHANGED <<landed, head, handed, excused, covered>>
    BY DEF Restart, NoPoll, NoWalk, chain
  <1>2. landed \in Nat /\ head \in Nat /\ landed <= Len(Slot) /\ Len(Slot) \in Nat
    BY Parameters DEF IInv, TypeOK
  <1>3. NothingSlips'
    <2>1. TypeOK'
      BY RestartType DEF IInv
    <2>2. cursor' \in Nat
      BY <2>1 DEF TypeOK
    <2>3. \A s \in 1..landed : Slot[s] \in Nat
      BY OnChain, Parameters DEF IInv
    <2> QED BY <1>1, <2>2, <2>3 DEF NothingSlips, InSlots
  <1>4. LiveInv'
    BY <1>1, <1>3
       DEF LiveInv, CursorPlace, Ranges, PollPlace, RangesDone,
           NobodysExcused, AskedDone
  <1>5. WalkIsComplete' /\ \A x \in Address : covered'[x] <= landed'
    BY <1>1, <1>2, StaysComplete DEF IInv
  <1>6. WalkInv'
    BY <1>1, <1>2, <1>5 DEF WalkInv, WalkPlace, BehindCursor, PageInHand
  <1> QED BY <1>4, <1>6

LEMMA LiveStep ==
  ASSUME IInv,
         LivePoll \/ LivePollNothing \/ LiveFetch \/ LiveFetchFails \/ LiveProcess
  PROVE  LiveInv' /\ WalkInv'
  <1>1. LiveInv'
    BY LivePollStep, LivePollNothingStep, LiveFetchStep, LiveProcessStep DEF IInv
  <1>2. UNCHANGED <<landed, head, hist, walk, covered>>
    BY DEF LivePoll, LivePollNothing, LiveFetch, LiveFetchFails, LiveProcess,
           chain, histVars
  <1>3. handed \subseteq handed'
    <2>1. CASE LiveProcess
      <3>1. live.found \in SUBSET Sig /\ Process(live.found)
        BY <2>1 DEF LiveProcess, IInv, TypeOK, Poll
      <3> QED BY <3>1, ProcessEffect DEF IInv
    <2>2. CASE LivePoll \/ LivePollNothing \/ LiveFetch \/ LiveFetchFails
      BY <2>2 DEF LivePoll, LivePollNothing, LiveFetch, LiveFetchFails
    <2> QED BY <2>1, <2>2
  <1>4. landed \in Nat /\ head \in Nat /\ landed <= Len(Slot)
    BY Parameters DEF IInv, TypeOK
  <1> QED BY <1>1, <1>2, <1>3, <1>4, WalkFrame DEF IInv

LEMMA HistStep ==
  ASSUME IInv,
         \/ HistPoll \/ HistBegin \/ HistDone \/ HistFetchLast
         \/ HistFetchUntimed \/ HistFetch \/ HistFetchFails \/ HistProcess
  PROVE  LiveInv' /\ WalkInv'
  <1>1. WalkInv'
    BY HistBeginStep, HistFetchLastStep, HistGivesUpStep, HistFetchStep,
       HistProcessStep DEF IInv
  <1>2. UNCHANGED <<landed, head, cursor, first, live, polled>>
    BY DEF HistPoll, HistBegin, HistDone, HistFetchLast, HistFetchUntimed,
           HistFetch, HistFetchFails, HistProcess, chain, liveVars
  <1>3. handed \subseteq handed' /\ excused \subseteq excused'
    <2>1. CASE HistProcess
      <3>1. hist.page \in SUBSET Sig /\ Process(hist.page)
        BY <2>1 DEF HistProcess, IInv, TypeOK, Walk
      <3> QED BY <3>1, ProcessEffect DEF IInv
    <2>2. CASE ~HistProcess
      BY <2>2 DEF HistPoll, HistBegin, HistDone, HistFetchLast,
                  HistFetchUntimed, HistFetch, HistFetchFails
    <2> QED BY <2>1, <2>2
  <1>4. landed \in Nat /\ head \in Nat /\ landed <= Len(Slot)
    BY Parameters DEF IInv, TypeOK
  <1> QED BY <1>1, <1>2, <1>3, <1>4, LiveFrame DEF IInv

LEMMA StepIInv == IInv /\ [Next]_vars => IInv'
  <1> SUFFICES ASSUME IInv, [Next]_vars PROVE IInv'
    OBVIOUS
  <1>1. TypeOK' /\ Walking'
    BY StepType DEF IInv
  <1>2. CASE Land \/ NextSlot \/ Track \/ Untrack
    BY <1>1, <1>2, ChainStep DEF IInv
  <1>3. CASE Restart
    BY <1>1, <1>3, RestartStep DEF IInv
  <1>4. CASE LivePoll \/ LivePollNothing \/ LiveFetch \/ LiveFetchFails \/ LiveProcess
    BY <1>1, <1>4, LiveStep DEF IInv
  <1>5. CASE \/ HistPoll \/ HistBegin \/ HistDone \/ HistFetchLast
             \/ HistFetchUntimed \/ HistFetch \/ HistFetchFails \/ HistProcess
    BY <1>1, <1>5, HistStep DEF IInv
  <1>6. CASE UNCHANGED vars
    <2>1. UNCHANGED <<landed, head, cursor, first, live, polled, hist, walk,
                      covered, handed, excused>>
      BY <1>6 DEF vars, chain, liveVars, histVars
    <2>2. landed \in Nat /\ head \in Nat /\ landed <= Len(Slot)
      BY Parameters DEF IInv, TypeOK
    <2>3. LiveInv'
      BY <2>1, <2>2, LiveFrame DEF IInv
    <2>4. WalkInv'
      BY <2>1, <2>2, WalkFrame DEF IInv
    <2> QED BY <1>1, <2>3, <2>4 DEF IInv
  <1> QED BY <1>2, <1>3, <1>4, <1>5, <1>6 DEF Next

THEOREM Invariance == Spec => []IInv
  BY InitIInv, StepIInv, PTL DEF Spec

(* No signature slips through between two polls or two ranges, whatever    *)
(* lands while they run and however often requests fail.                   *)
THEOREM NothingEverSlips == Spec => []NothingSlips
  <1>1. IInv => NothingSlips
    BY DEF IInv, LiveInv
  <1> QED BY <1>1, Invariance, PTL

(* No signature is processed in two ranges of one poll.                    *)
THEOREM AlwaysOncePerPoll == Spec => []EachOncePerPoll
  <1>1. ASSUME IInv PROVE EachOncePerPoll
    <2>1. /\ live.found \in SUBSET Sig /\ live.start \in Nat
          /\ \A s \in Sig : Slot[s] \in Nat
      BY <1>1, LiveTypes DEF IInv
    <2>2. /\ \A s \in live.found : live.start <= Slot[s]
          /\ \A s \in polled : Slot[s] < live.start
      BY <1>1 DEF IInv, LiveInv, Ranges
    <2> QED BY <2>1, <2>2 DEF EachOncePerPoll
  <1> QED BY <1>1, Invariance, PTL

(* A walk that nothing disturbed leaves out only what shares a page with a *)
(* signature past the age limit, for every page size and every chain.      *)
THEOREM WalkAlwaysComplete == Spec => []WalkIsComplete
  <1>1. IInv => WalkIsComplete
    BY DEF IInv, WalkInv
  <1> QED BY <1>1, Invariance, PTL

-----------------------------------------------------------------------------
(* Both tasks get through: what every one of their steps brings nearer.    *)

LEMMA LiveStepAdvances ==
  ASSUME TypeOK, live.pc = "fetch", LiveFetch \/ LiveFetchFails \/ LiveProcess
  PROVE  NearerToEnd
  <1> USE DEF NearerToEnd
  <1>1. live \in Poll /\ live.start \in Nat /\ live.end \in Nat /\ RangeSize \in Nat \ {0}
    BY LiveTypes DEF TypeOK
  <1>2. CASE LiveFetch \/ LiveFetchFails
    <2>1. PICK a \in live.todo :
             /\ live'.pc = live.pc /\ live'.end = live.end
             /\ live'.start = live.start /\ live'.todo = live.todo \ {a}
      BY <1>1, <1>2 DEF LiveFetch, LiveFetchFails, Poll
    <2> QED BY <2>1
  <1>3. CASE LiveProcess
    <2>1. CASE live.start + RangeSize <= live.end
      <3>1. /\ live'.pc = live.pc /\ live'.end = live.end
            /\ live'.start = live.start + RangeSize
        BY <1>1, <1>3, <2>1 DEF LiveProcess, Poll
      <3> QED BY <1>1, <2>1, <3>1
    <2>2. CASE ~(live.start + RangeSize <= live.end)
      BY <1>3, <2>2 DEF LiveProcess, NoPoll
    <2> QED BY <2>1, <2>2
  <1> QED BY <1>2, <1>3

(* A poll ends whatever it finds and whatever fails in it.                 *)
THEOREM LivePollAlwaysAdvances == Spec => LivePollAdvances
  <1>1. ASSUME TypeOK, Next, live.pc = "fetch", live' # live PROVE NearerToEnd
    <2>1. LiveFetch \/ LiveFetchFails \/ LiveProcess \/ Restart
      BY <1>1 DEF Next, Land, NextSlot, Track, Untrack, LivePoll, LivePollNothing,
             HistPoll, HistBegin, HistDone, HistFetchLast, HistFetchUntimed, HistFetch,
             HistFetchFails, HistProcess, liveVars
    <2>2. CASE Restart
      BY <2>2 DEF Restart, NoPoll, NearerToEnd
    <2> QED BY <1>1, <2>1, <2>2, LiveStepAdvances
  <1>2. TypeOK /\ [Next]_vars => [live.pc = "fetch" /\ live' # live => NearerToEnd]_vars
    BY <1>1
  <1> QED BY <1>2, TypeCorrect, PTL DEF Spec, LivePollAdvances

LEMMA HistStepAdvances ==
  ASSUME TypeOK, hist.pc # "idle",
         \/ HistBegin \/ HistDone \/ HistFetchLast
         \/ HistFetchUntimed \/ HistFetch \/ HistFetchFails \/ HistProcess
  PROVE  FurtherBack
  <1> USE DEF FurtherBack
  <1>1. hist \in Walk
    BY DEF TypeOK
  <1>2. CASE HistBegin
    <2>1. PICK a \in hist.todo :
             hist.pc = "next" /\ hist'.pc = "fetch" /\ hist'.todo = hist.todo \ {a}
      BY <1>2 DEF HistBegin, NoWalk
    <2> QED BY <2>1
  <1>3. CASE HistDone
    BY <1>3 DEF HistDone, NoWalk
  <1>4. ASSUME NEW clean, EndWalk(clean)
        PROVE  hist'.pc = "next" /\ hist'.todo = hist.todo
    BY <1>4 DEF EndWalk, NoWalk
  <1>5. CASE HistFetchLast \/ HistFetchUntimed \/ HistFetchFails
    BY <1>4, <1>5 DEF HistFetchLast, HistFetchUntimed, HistFetchFails
  <1>6. CASE HistFetch
    <2>1. /\ hist.pc = "fetch" /\ hist'.pc = "process" /\ hist'.todo = hist.todo
          /\ hist'.addr = hist.addr /\ hist'.before = LastOf(Page) /\ Page # {}
      BY <1>1, <1>6 DEF HistFetch, Walk
    <2>2. LastOf(Page) < hist.before
      BY <2>1, PageFacts
    <2> QED BY <2>1, <2>2
  <1>7. CASE HistProcess
    <2>1. CASE IsShort(hist.page)
      BY <1>4, <1>7, <2>1 DEF HistProcess
    <2>2. CASE ~IsShort(hist.page)
      BY <1>1, <1>7, <2>2 DEF HistProcess, Walk
    <2> QED BY <2>1, <2>2
  <1> QED BY <1>2, <1>3, <1>5, <1>6, <1>7

(* A walk cannot turn in circles, whatever the pages are, and a round      *)
(* begins no more walks than it has addresses.                             *)
THEOREM WalksAlwaysAdvance == Spec => WalksAdvance
  <1>1. ASSUME TypeOK, Next, hist.pc # "idle", hist' # hist PROVE FurtherBack
    <2>1. \/ HistBegin \/ HistDone \/ HistFetchLast \/ HistFetchUntimed
          \/ HistFetch \/ HistFetchFails \/ HistProcess \/ Restart
      BY <1>1 DEF Next, Land, NextSlot, Track, Untrack, LivePoll, LivePollNothing,
                  LiveFetch, LiveFetchFails, LiveProcess, HistPoll, histVars
    <2>2. CASE Restart
      BY <2>2 DEF Restart, NoWalk, FurtherBack
    <2> QED BY <1>1, <2>1, <2>2, HistStepAdvances
  <1>2. TypeOK /\ [Next]_vars => [hist.pc # "idle" /\ hist' # hist => FurtherBack]_vars
    BY <1>1
  <1> QED BY <1>2, TypeCorrect, PTL DEF Spec, WalksAdvance

-----------------------------------------------------------------------------
(* Discovery implements Coverage.  The steps that deal with signatures     *)
(* need to know that they are on the chain, the steps of the cursor where  *)
(* it started, and the end of a walk that it knows no less of the chain    *)
(* than the last clean one did.                                            *)

Grounded ==
  /\ first <= cursor
  /\ live.found \subseteq 1..landed
  /\ hist.page \subseteq 1..landed
  /\ hist.pc \in {"fetch", "process"} => covered[hist.addr] <= walk.from

LEMMA InitGrounded == Init => Grounded
  <1> SUFFICES ASSUME Init PROVE Grounded
    OBVIOUS
  <1>1. first = cursor /\ cursor \in Nat
    BY Parameters DEF Init
  <1>2. live.found = {} /\ hist.page = {} /\ hist.pc = "idle"
    BY DEF Init, NoPoll, NoWalk
  <1> QED BY <1>1, <1>2 DEF Grounded

(* What the live task holds stays on the chain, and its cursor goes up.    *)
LEMMA LiveGrounded ==
  ASSUME IInv, Grounded,
         LivePoll \/ LivePollNothing \/ LiveFetch \/ LiveFetchFails \/ LiveProcess
  PROVE  Grounded'
  <1> USE DEF Grounded
  <1>1. UNCHANGED <<landed, first, hist, walk, covered>>
    BY DEF LivePoll, LivePollNothing, LiveFetch, LiveFetchFails, LiveProcess,
           chain, histVars
  <1>2. cursor \in Nat /\ first \in Nat /\ head \in Nat /\ live.end \in Nat
    BY LiveTypes DEF IInv
  <1>3. cursor <= cursor'
    <2>1. CASE LivePollNothing
      BY <1>2, <2>1 DEF LivePollNothing
    <2>2. CASE LiveProcess
      <3>1. cursor' = cursor \/ cursor' = live.end
        BY <2>2 DEF LiveProcess
      <3>2. cursor < live.end
        BY <2>2 DEF LiveProcess, IInv, LiveInv, PollPlace
      <3> QED BY <1>2, <3>1, <3>2
    <2>3. CASE LivePoll \/ LiveFetch \/ LiveFetchFails
      <3>1. cursor' = cursor
        BY <2>3 DEF LivePoll, LiveFetch, LiveFetchFails
      <3> QED BY <1>2, <3>1
    <2> QED BY <2>1, <2>2, <2>3
  <1>4. live'.found \subseteq 1..landed
    <2>1. CASE LivePoll
      BY <2>1 DEF LivePoll
    <2>2. CASE LivePollNothing
      BY <2>2 DEF LivePollNothing
    <2>3. CASE LiveFetch
      <3>1. PICK a \in live.todo :
              live' = [live EXCEPT !.todo = @ \ {a},
                         !.found = @ \union InSlots(Newest(Of(a), LiveLimit),
                                                    live.start, RangeEnd)]
        BY <2>3 DEF LiveFetch
      <3>2. live'.found = live.found \union InSlots(Newest(Of(a), LiveLimit),
                                                    live.start, RangeEnd)
        BY <3>1 DEF IInv, TypeOK, Poll
      <3> QED BY <3>2 DEF InSlots, Newest, Of
    <2>4. CASE LiveFetchFails
      <3>1. PICK a \in live.todo : live' = [live EXCEPT !.todo = @ \ {a}]
        BY <2>4 DEF LiveFetchFails
      <3>2. live'.found = live.found
        BY <3>1 DEF IInv, TypeOK, Poll
      <3> QED BY <3>2
    <2>5. CASE LiveProcess
      <3>1. live \in Poll
        BY DEF IInv, TypeOK
      <3>2. \/ live' = NoPoll
            \/ live' = [live EXCEPT !.start = @ + RangeSize,
                          !.todo = live.addrs, !.found = {}]
        BY <2>5 DEF LiveProcess
      <3>3. NoPoll.found = {}
        BY DEF NoPoll
      <3>4. [live EXCEPT !.start = @ + RangeSize,
               !.todo = live.addrs, !.found = {}].found = {}
        BY <3>1 DEF Poll
      <3> QED BY <3>2, <3>3, <3>4
    <2> QED BY <2>1, <2>2, <2>3, <2>4, <2>5
  <1>5. cursor' \in Nat
    BY <1>2 DEF LivePoll, LivePollNothing, LiveFetch, LiveFetchFails, LiveProcess
  <1>6. first' <= cursor'
    BY <1>1, <1>2, <1>3, <1>5
  <1> QED BY <1>1, <1>4, <1>6

(* A walk begins with all of the chain, and a page is a part of it.        *)
LEMMA HistGrounded ==
  ASSUME IInv, Grounded,
         \/ HistPoll \/ HistBegin \/ HistDone \/ HistFetchLast
         \/ HistFetchUntimed \/ HistFetch \/ HistFetchFails \/ HistProcess
  PROVE  Grounded'
  <1> USE DEF Grounded
  <1>1. UNCHANGED <<landed, cursor, first, live>>
    BY DEF HistPoll, HistBegin, HistDone, HistFetchLast, HistFetchUntimed,
           HistFetch, HistFetchFails, HistProcess, chain, liveVars
  <1>2. hist \in Walk
    BY DEF IInv, TypeOK
  <1>3. ASSUME NEW clean, EndWalk(clean)
        PROVE  hist'.page = {} /\ hist'.pc = "next"
    BY <1>3 DEF EndWalk, NoWalk
  <1>4. CASE HistPoll \/ HistDone
    <2>1. hist'.page = {} /\ hist'.pc \in {"idle", "next"}
      <3>1. CASE HistPoll
        BY <3>1 DEF HistPoll, NoWalk
      <3>2. CASE HistDone
        BY <3>2 DEF HistDone, NoWalk
      <3> QED BY <1>4, <3>1, <3>2
    <2> QED BY <1>1, <2>1
  <1>5. CASE HistBegin
    <2>1. PICK x \in hist.todo :
            /\ hist' = [NoWalk EXCEPT !.pc = "fetch", !.todo = hist.todo \ {x},
                                      !.addr = x, !.now = head]
            /\ walk' = [from |-> landed, clean |-> TRUE] /\ covered' = covered
      BY <1>5 DEF HistBegin
    <2>2. hist'.page = {} /\ hist'.addr = x /\ walk'.from = landed
      BY <2>1 DEF NoWalk
    <2>3. x \in Address /\ covered[x] <= landed
      BY <1>2 DEF Walk, IInv, WalkInv, WalkPlace
    <2> QED BY <1>1, <2>1, <2>2, <2>3
  <1>6. CASE HistFetchLast \/ HistFetchUntimed \/ HistFetchFails
    <2>1. hist'.page = {} /\ hist'.pc = "next"
      BY <1>3, <1>6 DEF HistFetchLast, HistFetchUntimed, HistFetchFails
    <2> QED BY <1>1, <2>1
  <1>7. CASE HistFetch
    <2>1. /\ hist.pc = "fetch" /\ hist'.page = Page /\ hist'.addr = hist.addr
          /\ UNCHANGED <<walk, covered>>
      BY <1>2, <1>7 DEF HistFetch, Walk
    <2>2. Page \subseteq 1..landed
      BY PageFacts DEF IInv
    <2> QED BY <1>1, <2>1, <2>2
  <1>8. CASE HistProcess
    <2>1. CASE IsShort(hist.page)
      <3>1. hist'.page = {} /\ hist'.pc = "next"
        BY <1>3, <1>8, <2>1 DEF HistProcess
      <3> QED BY <1>1, <3>1
    <2>2. CASE ~IsShort(hist.page)
      <3>1. /\ hist.pc = "process" /\ covered' = covered
            /\ hist' = [hist EXCEPT !.pc = "fetch", !.page = {}]
            /\ \E clean : walk' = [walk EXCEPT !.clean = clean]
        BY <1>8, <2>2 DEF HistProcess
      <3>2. hist'.page = {} /\ hist'.addr = hist.addr
        BY <1>2, <3>1 DEF Walk
      <3>3. walk'.from = walk.from
        BY <3>1 DEF IInv, TypeOK
      <3> QED BY <1>1, <3>1, <3>2, <3>3
    <2> QED BY <2>1, <2>2
  <1> QED BY <1>4, <1>5, <1>6, <1>7, <1>8

LEMMA StepGrounded == IInv /\ Grounded /\ [Next]_vars => Grounded'
  <1> SUFFICES ASSUME IInv, Grounded, [Next]_vars PROVE Grounded'
    OBVIOUS
  <1>1. CASE Land \/ NextSlot \/ Track \/ Untrack
    <2>1. UNCHANGED <<cursor, first, live, hist, walk, covered>>
      BY <1>1 DEF Land, NextSlot, Track, Untrack, liveVars, histVars
    <2>2. landed \in Nat /\ landed' \in Nat /\ landed <= landed'
      BY <1>1, Parameters DEF Land, NextSlot, Track, Untrack, IInv, TypeOK
    <2> QED BY <2>1, <2>2 DEF Grounded
  <1>2. CASE Restart
    <2>1. first' = cursor' /\ cursor' \in Nat
      BY <1>2, Parameters DEF Restart, IInv, TypeOK
    <2>2. live'.found = {} /\ hist'.page = {} /\ hist'.pc = "idle"
      BY <1>2 DEF Restart, NoPoll, NoWalk
    <2> QED BY <2>1, <2>2 DEF Grounded
  <1>3. CASE LivePoll \/ LivePollNothing \/ LiveFetch \/ LiveFetchFails \/ LiveProcess
    BY <1>3, LiveGrounded
  <1>4. CASE \/ HistPoll \/ HistBegin \/ HistDone \/ HistFetchLast
             \/ HistFetchUntimed \/ HistFetch \/ HistFetchFails \/ HistProcess
    BY <1>4, HistGrounded
  <1>5. CASE UNCHANGED vars
    BY <1>5 DEF vars, Grounded
  <1> QED BY <1>1, <1>2, <1>3, <1>4, <1>5 DEF Next

LEMMA AlwaysGrounded == Spec => []Grounded
  BY InitGrounded, StepGrounded, Invariance, PTL DEF Spec

(* Time passes and signatures land.                                        *)
LEMMA ChainGrows ==
  ASSUME IInv, Land \/ NextSlot \/ Track \/ Untrack
  PROVE  Promise!Grow
  <1>1. /\ UNCHANGED <<cursor, first, handed, excused, covered>>
        /\ ~Untrack => UNCHANGED trouble
    BY DEF Land, NextSlot, Track, Untrack, liveVars, histVars
  <1>2. landed \in Nat /\ head \in Nat /\ landed <= Len(Slot) /\ Len(Slot) \in Nat
    BY Parameters DEF IInv, TypeOK
  <1>3. CASE Land
    <2>1. /\ landed' = landed + 1 /\ landed < Len(Slot)
          /\ UNCHANGED <<tracked, trouble>>
          /\ head' = Slot[landed + 1] /\ head <= Slot[landed + 1]
      BY <1>3 DEF Land
    <2>2. landed + 1 \in Sig /\ Slot[landed + 1] \in Nat
      BY <1>2, <2>1, Parameters
    <2>3. \A s \in 1..landed' \ 1..landed : s = landed + 1
      BY <1>2, <2>1
    <2> QED BY <1>1, <1>2, <2>1, <2>2, <2>3 DEF Promise!Grow, Promise!OnChain
  <1>4. CASE NextSlot \/ Track
    <2>1. /\ landed' = landed /\ head <= head' /\ tracked \subseteq tracked'
          /\ trouble' = trouble
      BY <1>2, <1>4 DEF NextSlot, Track
    <2> QED BY <1>1, <1>2, <2>1 DEF Promise!Grow, Promise!OnChain
  <1>5. CASE Untrack
    <2>1. UNCHANGED <<landed, head>> /\ trouble' = trouble + 1
      BY <1>5 DEF Untrack, Trouble
    <2> QED BY <1>1, <1>2, <2>1 DEF Promise!Grow, Promise!OnChain
  <1> QED BY <1>3, <1>4, <1>5

(* A transaction that cannot be fetched or read is a failure.              *)
LEMMA ProcessDeals ==
  ASSUME NEW S \in SUBSET (1..landed), Process(S), UNCHANGED <<chain, first>>
  PROVE  Promise!Deal
  <1>1. PICK F \in SUBSET S :
          /\ \/ F = {} /\ UNCHANGED trouble
             \/ F # {} /\ Trouble
          /\ handed' = handed \union (S \ F)
          /\ excused' = excused \union F
    BY DEF Process
  <1>2. /\ handed \subseteq handed' /\ handed' \ handed \subseteq 1..landed
        /\ excused \subseteq excused' /\ excused' \ excused \subseteq 1..landed
    BY <1>1
  <1>3. \/ trouble' = trouble + 1
        \/ trouble' = trouble /\ excused' \ excused = {}
    BY <1>1 DEF Trouble
  <1> QED BY <1>2, <1>3 DEF Promise!Deal, Promise!OnChain, Promise!chain, chain

(* Coverage counts as Discovery does.                                      *)
LEMMA SameCount == \A S : Promise!Cardinality(S) = Cardinality(S)
  BY DEF Promise!Cardinality, Cardinality

(* What a request does not reach has too many newer ones.                  *)
LEMMA NotAmongNewest ==
  ASSUME IInv, NEW a, NEW s \in Of(a), s \notin Newest(Of(a), LiveLimit)
  PROVE  Promise!OutOfReach(s)
  <1>1. landed \in Nat /\ Of(a) \in SUBSET (1..landed)
    BY OnChain DEF IInv
  <1> DEFINE Newer == {t \in Of(a) : t > s}
  <1>2. ~(Cardinality(Newer) < LiveLimit)
    BY DEF Newest
  <1>3. Cardinality(Newer) \in Nat
    <2>1. IsFiniteSet(1..landed) /\ Newer \subseteq 1..landed
      BY <1>1, FS_Interval
    <2> QED BY <2>1, FS_Subset, FS_CardinalityType
  <1>4. Newer = {t \in Promise!Of(a) : t > s}
    BY DEF Of, Promise!Of, Promise!OnChain
  <1> HIDE DEF Newer
  <1>5. Cardinality(Newer) >= LiveLimit
    BY <1>2, <1>3, Parameters
  <1>6. Cardinality({t \in Promise!Of(a) : t > s}) >= LiveLimit
    BY <1>4, <1>5
  <1>7. a \in Parties[s]
    BY DEF Of
  <1> QED BY <1>6, <1>7, SameCount DEF Promise!OutOfReach

(* The steps of a poll before the last deal with signatures only.          *)
LEMMA AskingDeals ==
  ASSUME IInv, Grounded, LivePoll \/ LiveFetch \/ LiveFetchFails
  PROVE  Promise!Deal /\ UNCHANGED <<cursor, covered>>
  <1>1. /\ UNCHANGED <<chain, cursor, first, covered, handed>>
        /\ UNCHANGED <<landed, head, tracked>>
    BY DEF LivePoll, LiveFetch, LiveFetchFails, histVars, chain
  <1>2. CASE LivePoll
    <2>1. /\ trouble' = trouble
          /\ excused' = excused \union {s \in InSlots(1..landed, PollFrom, head) :
                                         Parties[s] \intersect tracked = {}}
      BY <1>2 DEF LivePoll
    <2>2. \A s \in excused' \ excused : s \in 1..landed /\ Promise!Unwatched(s)
      BY <2>1 DEF InSlots, Promise!Unwatched
    <2> QED BY <1>1, <2>1, <2>2
            DEF Promise!Deal, Promise!OnChain, Promise!chain
  <1>3. CASE LiveFetch
    <2>1. PICK a \in live.todo :
            /\ excused' = excused \union
                 InSlots(Of(a) \ Newest(Of(a), LiveLimit), live.start, RangeEnd)
            /\ trouble' = trouble
      BY <1>3 DEF LiveFetch
    <2>2. \A s \in excused' \ excused : s \in Of(a) /\ s \notin Newest(Of(a), LiveLimit)
      BY <2>1 DEF InSlots
    <2>3. \A s \in excused' \ excused : s \in 1..landed /\ Promise!OutOfReach(s)
      BY <2>2, NotAmongNewest DEF Of
    <2> QED BY <1>1, <2>1, <2>3
            DEF Promise!Deal, Promise!OnChain, Promise!chain
  <1>4. CASE LiveFetchFails
    <2>1. PICK a \in live.todo :
            /\ excused' = excused \union InSlots(Of(a), live.start, RangeEnd)
            /\ trouble' = trouble + 1
      BY <1>4 DEF LiveFetchFails, Trouble
    <2>2. \A s \in excused' \ excused : s \in 1..landed
      BY <2>1 DEF InSlots, Of
    <2> QED BY <1>1, <2>1, <2>2
            DEF Promise!Deal, Promise!OnChain, Promise!chain
  <1> QED BY <1>2, <1>3, <1>4

(* When the cursor moves, what it moves over does not slip through.        *)
LEMMA CursorAdvances ==
  ASSUME IInv, Grounded, NothingSlips', Promise!Deal,
         UNCHANGED <<landed, head, first, covered>>,
         cursor < cursor', cursor' <= head, cursor' \in Nat
  PROVE  Promise!Advance
  <1>1. ASSUME NEW s \in 1..landed, cursor <= Slot[s], Slot[s] < cursor'
        PROVE  s \in handed' \union excused'
    <2>1. /\ cursor \in Nat /\ first \in Nat /\ first <= cursor
          /\ Slot[s] \in Nat
      BY LiveTypes DEF IInv, Grounded
    <2>2. first <= Slot[s] /\ Slot[s] <= cursor'
      BY <1>1, <2>1
    <2> QED BY <1>1, <2>2 DEF NothingSlips, InSlots
  <1> QED BY <1>1 DEF Promise!Advance, Promise!OnChain

LEMMA LiveImplements ==
  ASSUME IInv, Grounded, NothingSlips',
         LivePoll \/ LivePollNothing \/ LiveFetch \/ LiveFetchFails \/ LiveProcess
  PROVE  Promise!Next
  <1>1. CASE LivePoll \/ LiveFetch \/ LiveFetchFails
    BY <1>1, AskingDeals DEF Promise!Next
  <1>2. CASE LivePollNothing
    <2>1. /\ head > cursor /\ cursor' = head
          /\ \/ tracked = {} /\ trouble' = trouble
             \/ trouble' = trouble + 1
          /\ excused' = excused \union InSlots(1..landed, PollFrom, head)
          /\ UNCHANGED <<landed, head, tracked, first, covered, handed>>
      BY <1>2 DEF LivePollNothing, Trouble, chain, histVars
    <2>2. /\ excused' \ excused \subseteq 1..landed
          /\ tracked = {} => \A s : Promise!Unwatched(s)
      BY <2>1 DEF InSlots, Promise!Unwatched
    <2>3. Promise!Deal
      BY <2>1, <2>2 DEF Promise!Deal, Promise!OnChain, Promise!chain
    <2>4. cursor < cursor' /\ cursor' <= head /\ cursor' \in Nat
      BY <2>1, LiveTypes DEF IInv
    <2> QED BY <2>1, <2>3, <2>4, CursorAdvances DEF Promise!Next
  <1>3. CASE LiveProcess
    <2>1. /\ Process(live.found) /\ UNCHANGED <<chain, first, covered>>
          /\ UNCHANGED <<landed, head>>
      BY <1>3 DEF LiveProcess, histVars, chain
    <2>2. Promise!Deal
      BY <2>1, ProcessDeals DEF Grounded
    <2>3. CASE cursor' = cursor
      BY <2>1, <2>2, <2>3 DEF Promise!Next
    <2>4. CASE cursor' = live.end
      <3>1. cursor < live.end /\ live.end <= head /\ live.end \in Nat
        BY <1>3, LiveTypes DEF LiveProcess, IInv, LiveInv, PollPlace
      <3> QED BY <2>1, <2>2, <2>4, <3>1, CursorAdvances DEF Promise!Next
    <2> QED BY <1>3, <2>3, <2>4 DEF LiveProcess
  <1> QED BY <1>1, <1>2, <1>3

(* A walk that ends clean covers its address as far as it knew the chain.  *)
LEMMA EndWalkCovers ==
  ASSUME IInv, Grounded, WalkIsComplete', hist.pc \in {"fetch", "process"},
         NEW clean \in BOOLEAN, EndWalk(clean), Promise!Deal,
         UNCHANGED <<landed, head, cursor>>
  PROVE  Promise!Next
  <1>1. CASE ~clean
    <2>1. covered' = covered
      BY <1>1 DEF EndWalk
    <2> QED BY <2>1 DEF Promise!Next
  <1>2. CASE clean
    <2> DEFINE n == walk.from
    <2>1. PICK a \in Address : a = hist.addr
      BY DEF IInv, Walking
    <2>2. covered' = [covered EXCEPT ![a] = n] /\ covered'[a] = n
      BY <1>2, <2>1 DEF EndWalk, IInv, TypeOK
    <2>3. n \in 0..landed /\ covered[a] <= n
      BY <2>1, Parameters DEF IInv, Grounded, WalkInv, WalkPlace, TypeOK
    <2>4. ASSUME NEW s \in Of(a), s <= n, s \notin handed'
          PROVE  Promise!TooOldFor(a, s)
      <3>1. Of(a)' = Of(a)
        BY DEF Of
      <3>2. PICK t \in Of(a) : ~Young(t) /\ SharesPage(a, t, s)
        BY <2>2, <2>4, <3>1 DEF WalkIsComplete, Young, SharesPage
      <3>3. Slot[t] + MaxAge < head
        <4>1. Slot[t] \in Nat /\ MaxAge \in Nat /\ head \in Nat
          BY LiveTypes, Parameters DEF IInv, Of
        <4> QED BY <3>2, <4>1 DEF Young
      <3>4. Promise!Of(a) = Of(a)
        BY DEF Of, Promise!Of, Promise!OnChain
      <3> QED BY <3>2, <3>3, <3>4, SameCount DEF SharesPage, Promise!TooOldFor
    <2>5. Promise!Cover(a, n)
      BY <2>2, <2>3, <2>4 DEF Promise!Cover, Of, Promise!Of, Promise!OnChain
    <2> QED BY <2>1, <2>3, <2>5 DEF Promise!Next
  <1> QED BY <1>1, <1>2

LEMMA HistImplements ==
  ASSUME IInv, Grounded, WalkIsComplete',
         \/ HistPoll \/ HistBegin \/ HistDone \/ HistFetchLast
         \/ HistFetchUntimed \/ HistFetch \/ HistFetchFails \/ HistProcess
  PROVE  Promise!Next
  <1>1. /\ UNCHANGED <<chain, landed, head, tracked, cursor, first>>
        /\ HistProcess \/ UNCHANGED <<handed, excused>>
    BY DEF HistPoll, HistBegin, HistDone, HistFetchLast, HistFetchUntimed,
           HistFetch, HistFetchFails, HistProcess, chain, liveVars
  <1>2. ASSUME UNCHANGED <<handed, excused>>,
               trouble' = trouble \/ trouble' = trouble + 1
        PROVE  Promise!Deal
    BY <1>1, <1>2 DEF Promise!Deal, Promise!chain
  <1>3. CASE HistPoll \/ HistBegin \/ HistDone \/ HistFetch
    <2>1. UNCHANGED <<handed, excused, trouble, covered>>
      BY <1>3 DEF HistPoll, HistBegin, HistDone, HistFetch
    <2> QED BY <1>1, <1>2, <2>1 DEF Promise!Next
  <1>4. CASE HistFetchLast \/ HistFetchUntimed \/ HistFetchFails
    <2>1. /\ hist.pc = "fetch" /\ UNCHANGED <<handed, excused>>
          /\ trouble' = trouble \/ trouble' = trouble + 1
          /\ EndWalk(walk.clean) \/ EndWalk(FALSE)
      BY <1>4 DEF HistFetchLast, HistFetchUntimed, HistFetchFails, Trouble
    <2>2. Promise!Deal
      BY <1>2, <2>1
    <2>3. walk.clean \in BOOLEAN
      BY DEF IInv, TypeOK
    <2> QED BY <1>1, <2>1, <2>2, <2>3, EndWalkCovers
  <1>5. CASE HistProcess
    <2>1. hist.pc = "process" /\ Process(hist.page)
      BY <1>5 DEF HistProcess
    <2>2. Promise!Deal
      BY <1>1, <2>1, ProcessDeals DEF Grounded
    <2>3. CASE IsShort(hist.page)
      <3> DEFINE clean == walk.clean /\ handed' = handed \union hist.page
      <3>1. EndWalk(clean) /\ clean \in BOOLEAN
        BY <1>5, <2>3 DEF HistProcess
      <3> HIDE DEF clean
      <3> QED BY <1>1, <2>1, <2>2, <3>1, EndWalkCovers
    <2>4. CASE ~IsShort(hist.page)
      <3>1. covered' = covered
        BY <1>5, <2>4 DEF HistProcess
      <3> QED BY <1>1, <2>2, <3>1 DEF Promise!Next
    <2> QED BY <2>3, <2>4
  <1> QED BY <1>3, <1>4, <1>5

(* Every step of the two tasks is a step of Coverage, or none.             *)
LEMMA StepImplements ==
  ASSUME IInv, Grounded, IInv', [Next]_vars
  PROVE  [Promise!Next]_(Promise!vars)
  <1>1. NothingSlips' /\ WalkIsComplete'
    BY DEF IInv, LiveInv, WalkInv
  <1>2. CASE Land \/ NextSlot \/ Track \/ Untrack
    BY <1>2, ChainGrows DEF Promise!Next
  <1>3. CASE Restart
    BY <1>3 DEF Restart, Trouble, Promise!Restart, Promise!Next, Promise!chain, chain
  <1>4. CASE LivePoll \/ LivePollNothing \/ LiveFetch \/ LiveFetchFails \/ LiveProcess
    BY <1>1, <1>4, LiveImplements
  <1>5. CASE \/ HistPoll \/ HistBegin \/ HistDone \/ HistFetchLast
             \/ HistFetchUntimed \/ HistFetch \/ HistFetchFails \/ HistProcess
    BY <1>1, <1>5, HistImplements
  <1>6. CASE UNCHANGED vars
    BY <1>6 DEF vars, Promise!vars
  <1> QED BY <1>2, <1>3, <1>4, <1>5, <1>6 DEF Next

(* The two polling tasks keep what Coverage promises, for every chain and  *)
(* all limits: the cursor passes only over slots that are dealt with, an   *)
(* address is covered only when its history is, and nothing is given up    *)
(* without one of the three excuses.                                       *)
THEOREM DiscoveryImplementsCoverage == Spec => ImplementsCoverage
  <1>1. Init => Promise!Init
    BY DEF Init, Promise!Init
  <1>2. IInv /\ Grounded /\ IInv' /\ [Next]_vars => [Promise!Next]_(Promise!vars)
    BY StepImplements
  <1>3. Spec => []IInv
    BY Invariance
  <1>4. Spec => []Grounded
    BY AlwaysGrounded
  <1> QED BY <1>1, <1>2, <1>3, <1>4, PTL DEF Spec, ImplementsCoverage, Promise!Spec

-----------------------------------------------------------------------------
(* What the promise is good for.  As long as nothing fails, what was       *)
(* tracked at the start still is, a signature of it is given up only when  *)
(* it is out of reach, and then it stays out of reach.                     *)

ExcusedWithReason(W) ==
  trouble = 0 =>
    /\ W \subseteq tracked
    /\ \A s \in excused : Parties[s] \intersect W = {} \/ Promise!OutOfReach(s)

LEMMA StaysOutOfReach ==
  ASSUME TypeOK', landed' \in Nat, landed <= landed', landed \in Nat,
         NEW s, Promise!OutOfReach(s)
  PROVE  Promise!OutOfReach(s)'
  <1>1. PICK a \in Parties[s] :
          Cardinality({t \in Promise!Of(a) : t > s}) >= LiveLimit
    BY SameCount DEF Promise!OutOfReach
  <1> DEFINE Old == {t \in 1..landed : a \in Parties[t] /\ t > s}
             New == {t \in 1..landed' : a \in Parties[t] /\ t > s}
  <1>2. Cardinality(Old) >= LiveLimit
    BY <1>1 DEF Promise!Of, Promise!OnChain
  <1>3. Old \subseteq New /\ New \subseteq 1..landed'
    OBVIOUS
  <1>4. {t \in Promise!Of(a)' : t > s} = New
    BY DEF Promise!Of, Promise!OnChain
  <1> HIDE DEF Old, New
  <1>5. IsFiniteSet(New)
    <2>1. IsFiniteSet(1..landed')
      BY FS_Interval
    <2> QED BY <1>3, <2>1, FS_Subset
  <1>6. /\ Cardinality(Old) <= Cardinality(New)
        /\ Cardinality(Old) \in Nat /\ Cardinality(New) \in Nat
    BY <1>3, <1>5, FS_Subset, FS_CardinalityType
  <1>7. Cardinality(New) >= LiveLimit
    BY <1>2, <1>6, Parameters
  <1>8. Cardinality({t \in Promise!Of(a)' : t > s}) >= LiveLimit
    BY <1>4, <1>7
  <1> QED BY <1>1, <1>8, SameCount DEF Promise!OutOfReach

LEMMA StepReasons ==
  ASSUME IInv, IInv', [Promise!Next]_(Promise!vars),
         NEW W, ExcusedWithReason(W)
  PROVE  ExcusedWithReason(W)'
  <1> USE DEF ExcusedWithReason
  <1>1. /\ trouble \in Nat /\ trouble' \in Nat /\ landed \in Nat /\ landed' \in Nat
        /\ TypeOK'
    <2>1. TypeOK /\ TypeOK'
      BY DEF IInv
    <2>2. trouble \in Nat /\ landed \in Nat
      BY <2>1, Parameters DEF TypeOK
    <2>3. trouble' \in Nat /\ landed' \in Nat
      BY <2>1, Parameters DEF TypeOK
    <2> QED BY <2>1, <2>2, <2>3
  <1>2. CASE Promise!Grow
    <2>1. landed <= landed' /\ excused' = excused
      BY <1>2 DEF Promise!Grow
    <2>2. \A s : Promise!OutOfReach(s) => Promise!OutOfReach(s)'
      BY <1>1, <2>1, StaysOutOfReach
    <2>3. \/ tracked \subseteq tracked' /\ trouble' = trouble
          \/ trouble' = trouble + 1
      BY <1>2 DEF Promise!Grow
    <2> QED BY <1>1, <2>1, <2>2, <2>3
  <1>3. CASE Promise!Deal
    <2>1. landed' = landed /\ tracked' = tracked
      BY <1>3 DEF Promise!Deal, Promise!chain
    <2>2. \A s : Promise!OutOfReach(s) => Promise!OutOfReach(s)'
      BY <1>1, <2>1, StaysOutOfReach
    <2>3. CASE trouble' = trouble + 1
      BY <1>1, <2>1, <2>3
    <2>4. CASE /\ trouble' = trouble
               /\ \A s \in excused' \ excused :
                    Promise!Unwatched(s) \/ Promise!OutOfReach(s)
      BY <2>1, <2>2, <2>4 DEF Promise!Unwatched
    <2> QED BY <1>3, <2>3, <2>4 DEF Promise!Deal
  <1>4. CASE Promise!Restart
    BY <1>1, <1>4 DEF Promise!Restart, Promise!chain
  <1>5. CASE UNCHANGED Promise!vars
    <2>1. UNCHANGED <<landed, tracked, excused, trouble>>
      BY <1>5 DEF Promise!vars
    <2>2. \A s : Promise!OutOfReach(s) => Promise!OutOfReach(s)'
      BY <1>1, <2>1, StaysOutOfReach
    <2> QED BY <2>1, <2>2
  <1>6. Promise!Next => Promise!Grow \/ Promise!Deal \/ Promise!Restart
    BY DEF Promise!Next, Promise!Advance, Promise!Cover
  <1> QED BY <1>2, <1>3, <1>4, <1>5, <1>6

(* While nothing fails and no address is removed, the live task hands over *)
(* every transaction of an address tracked from the start before it passes *)
(* its slot, but for those that a request no longer reached back to.       *)
THEOREM WatchedAlwaysHanded ==
  ASSUME NEW W
  PROVE  Spec /\ W \subseteq tracked => []WatchedAreHanded(W)
  <1>1. Init /\ W \subseteq tracked => ExcusedWithReason(W)
    BY DEF Init, ExcusedWithReason
  <1>2. /\ IInv /\ Grounded /\ IInv' /\ [Next]_vars /\ ExcusedWithReason(W)
        => ExcusedWithReason(W)'
    BY StepImplements, StepReasons
  <1>3. IInv /\ ExcusedWithReason(W) => WatchedAreHanded(W)
    BY DEF IInv, LiveInv, NothingSlips, InSlots, ExcusedWithReason, WatchedAreHanded
  <1>4. Spec => []IInv
    BY Invariance
  <1>5. Spec => []Grounded
    BY AlwaysGrounded
  <1> QED BY <1>1, <1>2, <1>3, <1>4, <1>5, PTL DEF Spec

=============================================================================
