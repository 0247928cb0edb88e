------------------------- MODULE BatchManagerProofs -------------------------
(***************************************************************************)
(* Proofs about BatchManager.tla, for every set of deliveries, addresses   *)
(* and callers, every batch size and every channel capacity.               *)
(***************************************************************************)
EXTENDS BatchManager, FiniteSetTheorems, TLAPS

USE SourceAssumption, TaskAssumption, SizeAssumption, CapacityAssumption

-----------------------------------------------------------------------------
(* What the actions do to the three places a delivery can be in.           *)

Contents(b) == UNION {b[a] : a \in Address}

(* A push adds exactly the pushed delivery to the contents of the buffer.  *)
LEMMA PushContents ==
  ASSUME NEW b \in [Address -> SUBSET Delivery], NEW d \in Delivery
  PROVE  LET added == [b EXCEPT ![Source[d]] = @ \union {d}]
         IN /\ added \in [Address -> SUBSET Delivery]
            /\ Contents(added) = Contents(b) \union {d}
  BY DEF Contents

(* Collecting empties the buffer into the hand of the collecting task.     *)
LEMMA CollectEffect ==
  ASSUME TypeOK, NEW t \in Task, hand[t] = {},
         NEW b \in [Address -> SUBSET Delivery], Collect(t, b)
  PROVE  /\ pending' \in [Address -> SUBSET Delivery]
         /\ hand' \in [Task -> SUBSET Delivery]
         /\ hand'[t] = Contents(b)
         /\ \A u \in Task \ {t} : hand'[u] = hand[u]
         /\ Buffered' = {}
         /\ InHand' = InHand \union Contents(b)
  <1>1. hand' \in [Task -> SUBSET Delivery] /\ hand'[t] = Contents(b)
    BY DEF Collect, TypeOK, Contents
  <1>2. \A u \in Task \ {t} : hand'[u] = hand[u]
    BY DEF Collect, TypeOK
  <1>3. pending' \in [Address -> SUBSET Delivery] /\ Buffered' = {}
    BY DEF Collect, EmptyPending, Buffered
  <1>4. InHand' = InHand \union Contents(b)
    BY <1>1, <1>2 DEF InHand
  <1> QED BY <1>1, <1>2, <1>3, <1>4

(* Emptying the hand of t takes its batch, and nothing else, out of the    *)
(* hands, because no other task holds any of it.                           *)
LEMMA ReleaseEffect ==
  ASSUME TypeOK, NoDuplicates, NEW t \in Task,
         hand' = [hand EXCEPT ![t] = {}]
  PROVE  /\ hand' \in [Task -> SUBSET Delivery]
         /\ hand'[t] = {}
         /\ \A u \in Task \ {t} : hand'[u] = hand[u]
         /\ InHand' = InHand \ hand[t]
         /\ hand[t] \subseteq InHand
  <1>1. hand' \in [Task -> SUBSET Delivery] /\ hand'[t] = {}
    BY DEF TypeOK
  <1>2. \A u \in Task \ {t} : hand'[u] = hand[u]
    BY DEF TypeOK
  <1>3. \A u \in Task \ {t} : hand[u] \intersect hand[t] = {}
    BY DEF NoDuplicates
  <1>4. InHand' = InHand \ hand[t]
    BY <1>1, <1>2, <1>3 DEF InHand
  <1> QED BY <1>1, <1>2, <1>4 DEF InHand

(* A batch appended to the channel joins the deliveries that are in it.    *)
LEMMA AppendEffect ==
  ASSUME TypeOK, NEW B \in SUBSET Delivery, channel' = Append(channel, B)
  PROVE  /\ channel' \in Seq(SUBSET Delivery)
         /\ Len(channel') = Len(channel) + 1
         /\ \A i \in DOMAIN channel : channel'[i] = channel[i]
         /\ channel'[Len(channel) + 1] = B
         /\ DOMAIN channel' = DOMAIN channel \union {Len(channel) + 1}
         /\ InChannel' = InChannel \union B
  <1>1. /\ channel' \in Seq(SUBSET Delivery)
        /\ Len(channel') = Len(channel) + 1
        /\ \A i \in DOMAIN channel : channel'[i] = channel[i]
        /\ channel'[Len(channel) + 1] = B
    BY DEF TypeOK
  <1>2. DOMAIN channel' = DOMAIN channel \union {Len(channel) + 1}
    BY <1>1 DEF TypeOK
  <1>3. InChannel' = InChannel \union B
    BY <1>1, <1>2 DEF InChannel, TypeOK
  <1> QED BY <1>1, <1>2, <1>3

(* The head of the channel leaves it whole, because no other batch of the  *)
(* channel holds any of it.                                                *)
LEMMA TailEffect ==
  ASSUME TypeOK, NoDuplicates, channel # <<>>, channel' = Tail(channel)
  PROVE  /\ Head(channel) \in SUBSET Delivery
         /\ Head(channel) \subseteq InChannel
         /\ channel' \in Seq(SUBSET Delivery)
         /\ Len(channel') = Len(channel) - 1
         /\ \A i \in DOMAIN channel' :
              i + 1 \in DOMAIN channel /\ channel'[i] = channel[i + 1]
         /\ InChannel' = InChannel \ Head(channel)
  <1>1. /\ Head(channel) = channel[1]
        /\ 1 \in DOMAIN channel
        /\ Head(channel) \in SUBSET Delivery
        /\ channel' \in Seq(SUBSET Delivery)
        /\ Len(channel') = Len(channel) - 1
    BY DEF TypeOK
  <1>2. \A i \in DOMAIN channel' :
          i + 1 \in DOMAIN channel /\ channel'[i] = channel[i + 1]
    BY DEF TypeOK
  <1>3. \A i \in DOMAIN channel : i # 1 =>
          i - 1 \in DOMAIN channel' /\ channel'[i - 1] = channel[i]
    BY <1>1 DEF TypeOK
  <1>4. \A i \in DOMAIN channel' :
          channel[i + 1] \intersect channel[1] = {}
    <2>1. SUFFICES ASSUME NEW i \in DOMAIN channel'
                   PROVE  channel[i + 1] \intersect channel[1] = {}
      OBVIOUS
    <2>2. i + 1 \in DOMAIN channel /\ i + 1 # 1
      BY <1>1, <1>2
    <2> QED BY <1>1, <2>2 DEF NoDuplicates
  <1>5. InChannel' \subseteq InChannel \ Head(channel)
    BY <1>1, <1>2, <1>4 DEF InChannel
  <1>6. InChannel \ Head(channel) \subseteq InChannel'
    <2>1. SUFFICES ASSUME NEW x \in InChannel, x \notin Head(channel)
                   PROVE  x \in InChannel'
      OBVIOUS
    <2>2. PICK i \in DOMAIN channel : x \in channel[i]
      BY DEF InChannel
    <2>3. i # 1
      BY <1>1, <2>1, <2>2
    <2> QED BY <1>3, <2>2, <2>3 DEF InChannel
  <1> QED BY <1>1, <1>2, <1>5, <1>6 DEF InChannel

-----------------------------------------------------------------------------
(* The inductive invariant: the checked invariants together; that the      *)
(* buffer is finite, which Cardinality needs; and that a dropped receiver  *)
(* leaves nothing in the channel, so that whoever receives finds it open.  *)

ClosedIsEmpty == ~rxOpen => channel = <<>>

IInv ==
  /\ TypeOK
  /\ ClosedIsEmpty
  /\ IsFiniteSet(Buffered)
  /\ SizeIsExact
  /\ BatchesBounded
  /\ NothingVanishes
  /\ NoDuplicates

(* What any collection preserves, whoever collects and wherever it goes.   *)
LEMMA CollectKeeps ==
  ASSUME IInv, NEW t \in Task, hand[t] = {},
         NEW b \in [Address -> SUBSET Delivery],
         Contents(b) \intersect (InHand \union InChannel \union taken \union lost) = {},
         Collect(t, b), UNCHANGED <<channel, taken, lost>>
  PROVE  IsFiniteSet(Buffered)' /\ SizeIsExact' /\ NoDuplicates'
  <1>1. /\ Buffered' = {}
        /\ InHand' = InHand \union Contents(b)
        /\ InChannel' = InChannel
        /\ hand'[t] = Contents(b)
        /\ \A u \in Task \ {t} : hand'[u] = hand[u]
    BY CollectEffect DEF IInv, InChannel
  <1>2. IsFiniteSet(Buffered)' /\ SizeIsExact'
    BY <1>1, FS_EmptySet DEF SizeIsExact, Collect
  <1>3. \A x, y \in Address : x # y => pending'[x] \intersect pending'[y] = {}
    BY DEF Collect, EmptyPending
  <1>4. \A u, v \in Task : u # v => hand'[u] \intersect hand'[v] = {}
    <2>1. \A u \in Task \ {t} : hand'[u] \intersect hand'[t] = {}
      BY <1>1 DEF InHand
    <2> QED BY <1>1, <2>1 DEF IInv, NoDuplicates
  <1>5. \A i, j \in DOMAIN channel' :
          i # j => channel'[i] \intersect channel'[j] = {}
    BY DEF IInv, NoDuplicates
  <1>6. /\ Buffered' \intersect (InHand' \union InChannel' \union taken' \union lost') = {}
        /\ InHand' \intersect (InChannel' \union taken' \union lost') = {}
        /\ InChannel' \intersect (taken' \union lost') = {}
        /\ taken' \intersect lost' = {}
    BY <1>1 DEF IInv, NoDuplicates
  <1> QED BY <1>2, <1>3, <1>4, <1>5, <1>6 DEF NoDuplicates

(* A push of a delivery that was never offered keeps the invariant, with   *)
(* or without the flush it may trigger.                                    *)
LEMMA AddTransactionStep ==
  ASSUME IInv, NEW c \in Caller, NEW d \in Delivery, AddTransaction(c, d)
  PROVE  IInv'
  <1> DEFINE added == [pending EXCEPT ![Source[d]] = @ \union {d}]
             here == Contents(added)
  <1> USE DEF IInv
  <1>1. /\ added \in [Address -> SUBSET Delivery]
        /\ here = Buffered \union {d}
    BY PushContents DEF TypeOK, Buffered, Contents
  <1>2. /\ d \notin Buffered
        /\ d \notin InHand \union InChannel \union taken \union lost
        /\ offered' = offered \union {d}
    BY DEF AddTransaction, NothingVanishes
  <1>3. /\ IsFiniteSet(here)
        /\ Cardinality(here) = totalSize + 1
        /\ totalSize + 1 <= MaxBatchSize
    <2>1. /\ IsFiniteSet(Buffered \union {d})
          /\ Cardinality(Buffered \union {d}) = Cardinality(Buffered) + 1
      BY <1>2, FS_AddElement, Zenon
    <2>2. totalSize \in Nat /\ Cardinality(Buffered) = totalSize
      BY DEF TypeOK, SizeIsExact
    <2>3. totalSize + 1 <= MaxBatchSize
      BY <2>2 DEF SizeIsExact
    <2> QED BY <1>1, <2>1, <2>2, <2>3
  <1>4. /\ c \in Task /\ hand[c] = {} /\ pc[c] = "idle"
        /\ UNCHANGED <<channel, rxOpen, cancelled, taken, lost>>
        /\ InChannel' = InChannel
    BY DEF AddTransaction, BatchesBounded, Sending, Task, InChannel
  <1>5. CASE Collect(c, added) /\ Goto(c, "sending")
    <2>1. /\ pending' \in [Address -> SUBSET Delivery]
          /\ hand' \in [Task -> SUBSET Delivery]
          /\ hand'[c] = here
          /\ \A u \in Task \ {c} : hand'[u] = hand[u]
          /\ Buffered' = {}
          /\ InHand' = InHand \union here
      BY <1>1, <1>4, <1>5, CollectEffect
    <2>2. TypeOK'
      BY <1>2, <1>4, <1>5, <2>1 DEF TypeOK, Collect, Goto, Task
    <2>3. IsFiniteSet(Buffered)' /\ SizeIsExact' /\ NoDuplicates'
      <3>1. here \intersect (InHand \union InChannel \union taken \union lost) = {}
        BY <1>1, <1>2 DEF NoDuplicates
      <3> QED BY <1>1, <1>4, <1>5, <3>1, CollectKeeps
    <2>4. BatchesBounded'
      <3>1. GoodBatch(here)
        BY <1>1, <1>3 DEF GoodBatch
      <3>2. pc'[c] = "sending" /\ \A u \in Task \ {c} : pc'[u] = pc[u]
        BY <1>4, <1>5 DEF Goto, TypeOK
      <3> QED BY <1>4, <2>1, <3>1, <3>2 DEF BatchesBounded, Sending
    <2>5. NothingVanishes'
      BY <1>1, <1>2, <1>4, <2>1 DEF NothingVanishes
    <2>6. ClosedIsEmpty'
      BY <1>4 DEF ClosedIsEmpty
    <2> QED BY <2>2, <2>3, <2>4, <2>5, <2>6
  <1>6. CASE /\ ~ShouldFlush(totalSize + 1)
             /\ pending' = added
             /\ totalSize' = totalSize + 1
             /\ UNCHANGED <<due, hand, pc>>
    <2>1. Buffered' = Buffered \union {d} /\ InHand' = InHand
      BY <1>1, <1>6 DEF Buffered, Contents, InHand
    <2>2. TypeOK'
      BY <1>1, <1>2, <1>4, <1>6 DEF TypeOK
    <2>3. IsFiniteSet(Buffered)' /\ SizeIsExact'
      <3>1. ~(totalSize + 1 >= MaxBatchSize)
        BY <1>6 DEF ShouldFlush
      <3>2. totalSize' < MaxBatchSize /\ totalSize' = Cardinality(here)
        BY <1>3, <1>6, <3>1 DEF TypeOK
      <3> QED BY <1>1, <1>3, <2>1, <3>2 DEF SizeIsExact
    <2>4. BatchesBounded'
      BY <1>4, <1>6 DEF BatchesBounded, Sending
    <2>5. NothingVanishes'
      BY <1>2, <1>4, <2>1 DEF NothingVanishes
    <2>6. NoDuplicates'
      <3>1. \A x, y \in Address : x # y => added[x] \intersect added[y] = {}
        BY <1>2 DEF NoDuplicates, TypeOK, Buffered
      <3> QED BY <1>2, <1>4, <1>6, <2>1, <3>1 DEF NoDuplicates
    <2>7. ClosedIsEmpty'
      BY <1>4 DEF ClosedIsEmpty
    <2> QED BY <2>2, <2>3, <2>4, <2>5, <2>6, <2>7
  <1> QED BY <1>5, <1>6 DEF AddTransaction

(* force_flush keeps the invariant, also on an empty buffer.               *)
LEMMA ForceFlushStep ==
  ASSUME IInv, NEW c \in Caller, ForceFlush(c)
  PROVE  IInv'
  <1> USE DEF IInv
  <1>1. /\ c \in Task /\ hand[c] = {} /\ pc[c] = "idle"
        /\ Collect(c, pending)
        /\ UNCHANGED <<channel, rxOpen, cancelled, offered, taken, lost>>
        /\ InChannel' = InChannel
        /\ pending \in [Address -> SUBSET Delivery]
        /\ Contents(pending) = Buffered
    BY DEF ForceFlush, BatchesBounded, Sending, Task, InChannel, history,
           TypeOK, Contents, Buffered
  <1>2. /\ pending' \in [Address -> SUBSET Delivery]
        /\ hand' \in [Task -> SUBSET Delivery]
        /\ hand'[c] = Buffered
        /\ \A u \in Task \ {c} : hand'[u] = hand[u]
        /\ Buffered' = {}
        /\ InHand' = InHand \union Buffered
    BY <1>1, CollectEffect
  <1>3. pc' = [pc EXCEPT ![c] = IF Buffered = {} THEN "idle" ELSE "sending"]
    BY <1>1 DEF ForceFlush, Goto, TypeOK
  <1>4. TypeOK'
    BY <1>1, <1>2, <1>3 DEF TypeOK, Collect, Task
  <1>5. IsFiniteSet(Buffered)' /\ SizeIsExact' /\ NoDuplicates'
    <2>1. Buffered \intersect (InHand \union InChannel \union taken \union lost) = {}
      BY DEF NoDuplicates
    <2> QED BY <1>1, <2>1, CollectKeeps
  <1>6. BatchesBounded'
    <2>1. Buffered # {} => GoodBatch(Buffered)
      BY DEF GoodBatch, SizeIsExact, TypeOK
    <2>2. /\ pc'[c] = IF Buffered = {} THEN "idle" ELSE "sending"
          /\ \A u \in Task \ {c} : pc'[u] = pc[u]
      BY <1>1, <1>3 DEF TypeOK
    <2> QED BY <1>1, <1>2, <2>1, <2>2 DEF BatchesBounded, Sending
  <1>7. NothingVanishes'
    BY <1>1, <1>2 DEF NothingVanishes
  <1>8. ClosedIsEmpty'
    BY <1>1 DEF ClosedIsEmpty
  <1> QED BY <1>4, <1>5, <1>6, <1>7, <1>8

(* A check by the manager keeps the invariant wherever it leads: it goes   *)
(* to a sending label exactly when it collected something.                 *)
LEMMA FlushCheckStep ==
  ASSUME IInv, pc[Manager] \in {"new", "loop"},
         NEW send \in {"sending", "lastSend"}, NEW skip \in {"loop", "done"},
         FlushCheck(send, skip)
  PROVE  IInv'
  <1> USE DEF IInv
  <1>1. /\ Manager \in Task /\ hand[Manager] = {}
        /\ UNCHANGED <<channel, rxOpen, cancelled, offered, taken, lost>>
        /\ InChannel' = InChannel
        /\ pending \in [Address -> SUBSET Delivery]
        /\ Contents(pending) = Buffered
    BY DEF FlushCheck, BatchesBounded, Sending, Task, InChannel, history,
           TypeOK, Contents, Buffered
  <1>2. CASE /\ totalSize # 0
             /\ Collect(Manager, pending)
             /\ Goto(Manager, send)
    <2>1. /\ pending' \in [Address -> SUBSET Delivery]
          /\ hand' \in [Task -> SUBSET Delivery]
          /\ hand'[Manager] = Buffered
          /\ \A u \in Task \ {Manager} : hand'[u] = hand[u]
          /\ Buffered' = {}
          /\ InHand' = InHand \union Buffered
      BY <1>1, <1>2, CollectEffect
    <2>2. /\ pc' \in [Task -> {"idle", "new", "loop", "sending", "lastSend", "done"}]
          /\ pc'[Manager] = send
          /\ \A u \in Task \ {Manager} : pc'[u] = pc[u]
      BY <1>1, <1>2 DEF Goto, TypeOK
    <2>3. TypeOK'
      BY <1>1, <1>2, <2>1, <2>2 DEF TypeOK, Collect, Task
    <2>4. IsFiniteSet(Buffered)' /\ SizeIsExact' /\ NoDuplicates'
      <3>1. Buffered \intersect (InHand \union InChannel \union taken \union lost) = {}
        BY DEF NoDuplicates
      <3> QED BY <1>1, <1>2, <3>1, CollectKeeps
    <2>5. BatchesBounded'
      <3>1. GoodBatch(Buffered)
        BY <1>2, FS_EmptySet DEF GoodBatch, SizeIsExact, TypeOK
      <3> QED BY <1>1, <2>1, <2>2, <3>1 DEF BatchesBounded, Sending
    <2>6. NothingVanishes'
      BY <1>1, <2>1 DEF NothingVanishes
    <2>7. ClosedIsEmpty'
      BY <1>1 DEF ClosedIsEmpty
    <2> QED BY <2>3, <2>4, <2>5, <2>6, <2>7
  <1>3. CASE Goto(Manager, skip) /\ UNCHANGED <<buffer, hand>>
    <2>1. UNCHANGED <<pending, totalSize, due, hand, Buffered, InHand>>
      BY <1>3 DEF buffer, Buffered, InHand
    <2>2. /\ pc' \in [Task -> {"idle", "new", "loop", "sending", "lastSend", "done"}]
          /\ pc'[Manager] = skip
          /\ \A u \in Task \ {Manager} : pc'[u] = pc[u]
      BY <1>1, <1>3 DEF Goto, TypeOK
    <2>3. TypeOK'
      BY <1>1, <2>1, <2>2 DEF TypeOK, Task
    <2>4. BatchesBounded'
      BY <1>1, <2>1, <2>2 DEF BatchesBounded, Sending
    <2>5. NoDuplicates' /\ NothingVanishes'
      BY <1>1, <2>1 DEF NoDuplicates, NothingVanishes
    <2>6. IsFiniteSet(Buffered)' /\ SizeIsExact'
      BY <2>1 DEF SizeIsExact
    <2>7. ClosedIsEmpty'
      BY <1>1 DEF ClosedIsEmpty
    <2> QED BY <2>3, <2>4, <2>5, <2>6, <2>7
  <1> QED BY <1>2, <1>3 DEF FlushCheck

(* Where a send returns to: a label at which nothing is in hand.           *)
LEMMA ResumeEffect ==
  ASSUME TypeOK, NEW t \in Task, Sending(t), Resume(t)
  PROVE  /\ pc' \in [Task -> {"idle", "new", "loop", "sending", "lastSend", "done"}]
         /\ pc'[t] \in {"idle", "loop", "done"}
         /\ pc'[t] = "idle" <=> t # Manager
         /\ \A u \in Task \ {t} : pc'[u] = pc[u]
  BY DEF Resume, Goto, TypeOK

(* A successful send moves one whole batch from a hand to the channel.     *)
LEMMA SendStep ==
  ASSUME IInv, NEW t \in Task, Send(t)
  PROVE  IInv'
  <1> USE DEF IInv
  <1>1. /\ Sending(t) /\ Resume(t) /\ rxOpen /\ Len(channel) < ChannelCapacity
        /\ hand' = [hand EXCEPT ![t] = {}]
        /\ channel' = Append(channel, hand[t])
        /\ UNCHANGED <<pending, totalSize, due, rxOpen, cancelled, offered, taken, lost>>
        /\ Buffered' = Buffered
        /\ hand[t] \in SUBSET Delivery
    BY DEF Send, HasRoom, buffer, history, Buffered, TypeOK
  <1>2. /\ hand' \in [Task -> SUBSET Delivery]
        /\ hand'[t] = {}
        /\ \A u \in Task \ {t} : hand'[u] = hand[u]
        /\ InHand' = InHand \ hand[t]
        /\ hand[t] \subseteq InHand
    BY <1>1, ReleaseEffect
  <1>3. /\ channel' \in Seq(SUBSET Delivery)
        /\ Len(channel') = Len(channel) + 1
        /\ \A i \in DOMAIN channel : channel'[i] = channel[i]
        /\ channel'[Len(channel) + 1] = hand[t]
        /\ DOMAIN channel' = DOMAIN channel \union {Len(channel) + 1}
        /\ InChannel' = InChannel \union hand[t]
    BY <1>1, AppendEffect
  <1>4. /\ pc' \in [Task -> {"idle", "new", "loop", "sending", "lastSend", "done"}]
        /\ pc'[t] \in {"idle", "loop", "done"}
        /\ pc'[t] = "idle" <=> t # Manager
        /\ \A u \in Task \ {t} : pc'[u] = pc[u]
    BY <1>1, ResumeEffect
  <1>5. TypeOK'
    BY <1>1, <1>2, <1>3, <1>4 DEF TypeOK, Task
  <1>6. IsFiniteSet(Buffered)' /\ SizeIsExact'
    BY <1>1 DEF SizeIsExact
  <1>7. BatchesBounded'
    <2>1. GoodBatch(hand[t])
      BY <1>1 DEF BatchesBounded
    <2>2. \A i \in DOMAIN channel' : GoodBatch(channel'[i])
      BY <1>3, <2>1 DEF BatchesBounded
    <2> QED BY <1>2, <1>4, <2>2 DEF BatchesBounded, Sending
  <1>8. NothingVanishes'
    BY <1>1, <1>2, <1>3 DEF NothingVanishes
  <1>9. NoDuplicates'
    <2>1. \A u, v \in Task : u # v => hand'[u] \intersect hand'[v] = {}
      BY <1>2 DEF NoDuplicates
    <2>2. \A i \in DOMAIN channel : channel[i] \intersect hand[t] = {}
      BY <1>2 DEF NoDuplicates, InChannel
    <2>3. \A i, j \in DOMAIN channel' :
            i # j => channel'[i] \intersect channel'[j] = {}
      BY <1>3, <2>2 DEF NoDuplicates
    <2> QED BY <1>1, <1>2, <1>3, <2>1, <2>3 DEF NoDuplicates
  <1>10. ClosedIsEmpty'
    BY <1>1 DEF ClosedIsEmpty
  <1> QED BY <1>5, <1>6, <1>7, <1>8, <1>9, <1>10

(* A failed send moves the batch from the hand to the lost ones.           *)
LEMMA SendFailsStep ==
  ASSUME IInv, NEW t \in Task, SendFails(t)
  PROVE  IInv'
  <1> USE DEF IInv
  <1>1. /\ Sending(t) /\ Resume(t)
        /\ hand' = [hand EXCEPT ![t] = {}]
        /\ lost' = lost \union hand[t]
        /\ UNCHANGED <<pending, totalSize, due, channel, rxOpen, cancelled, offered, taken>>
        /\ Buffered' = Buffered /\ InChannel' = InChannel
        /\ hand[t] \in SUBSET Delivery
    BY DEF SendFails, buffer, Buffered, InChannel, TypeOK
  <1>2. /\ hand' \in [Task -> SUBSET Delivery]
        /\ hand'[t] = {}
        /\ \A u \in Task \ {t} : hand'[u] = hand[u]
        /\ InHand' = InHand \ hand[t]
        /\ hand[t] \subseteq InHand
    BY <1>1, ReleaseEffect
  <1>3. /\ pc' \in [Task -> {"idle", "new", "loop", "sending", "lastSend", "done"}]
        /\ pc'[t] \in {"idle", "loop", "done"}
        /\ pc'[t] = "idle" <=> t # Manager
        /\ \A u \in Task \ {t} : pc'[u] = pc[u]
    BY <1>1, ResumeEffect
  <1>4. TypeOK'
    BY <1>1, <1>2, <1>3 DEF TypeOK, Task
  <1>5. IsFiniteSet(Buffered)' /\ SizeIsExact'
    BY <1>1 DEF SizeIsExact
  <1>6. BatchesBounded'
    BY <1>1, <1>2, <1>3 DEF BatchesBounded, Sending
  <1>7. NothingVanishes'
    BY <1>1, <1>2 DEF NothingVanishes
  <1>8. NoDuplicates'
    <2>1. \A u, v \in Task : u # v => hand'[u] \intersect hand'[v] = {}
      BY <1>2 DEF NoDuplicates
    <2> QED BY <1>1, <1>2, <2>1 DEF NoDuplicates
  <1>9. ClosedIsEmpty'
    BY <1>1 DEF ClosedIsEmpty
  <1> QED BY <1>4, <1>5, <1>6, <1>7, <1>8, <1>9

(* A worker's receive moves the head batch to the taken deliveries.        *)
LEMMA RecvStep ==
  ASSUME IInv, Recv
  PROVE  IInv'
  <1> USE DEF IInv
  <1>1. /\ channel # <<>> /\ channel' = Tail(channel)
        /\ taken' = taken \union Head(channel)
        /\ UNCHANGED <<pending, totalSize, due, hand, pc, rxOpen, cancelled, offered, lost>>
        /\ Buffered' = Buffered /\ InHand' = InHand
    BY DEF Recv, buffer, Buffered, InHand
  <1>2. /\ Head(channel) \in SUBSET Delivery
        /\ Head(channel) \subseteq InChannel
        /\ channel' \in Seq(SUBSET Delivery)
        /\ Len(channel') = Len(channel) - 1
        /\ \A i \in DOMAIN channel' :
             i + 1 \in DOMAIN channel /\ channel'[i] = channel[i + 1]
        /\ InChannel' = InChannel \ Head(channel)
    BY <1>1, TailEffect
  <1>3. TypeOK'
    BY <1>1, <1>2 DEF TypeOK
  <1>4. IsFiniteSet(Buffered)' /\ SizeIsExact'
    BY <1>1 DEF SizeIsExact
  <1>5. BatchesBounded'
    BY <1>1, <1>2 DEF BatchesBounded, Sending
  <1>6. NothingVanishes'
    BY <1>1, <1>2 DEF NothingVanishes
  <1>7. NoDuplicates'
    <2>1. \A i, j \in DOMAIN channel' :
            i # j => channel'[i] \intersect channel'[j] = {}
      <3>1. SUFFICES ASSUME NEW i \in DOMAIN channel', NEW j \in DOMAIN channel',
                            i # j
                     PROVE  channel'[i] \intersect channel'[j] = {}
        OBVIOUS
      <3>2. i + 1 # j + 1
        BY <1>2, <3>1 DEF TypeOK
      <3> QED BY <1>2, <3>2 DEF NoDuplicates
    <2> QED BY <1>1, <1>2, <2>1 DEF NoDuplicates
  <1>8. ClosedIsEmpty'
    BY <1>1 DEF ClosedIsEmpty
  <1> QED BY <1>3, <1>4, <1>5, <1>6, <1>7, <1>8

(* The empty channel is a channel.                                         *)
LEMMA EmptyChannel ==
  <<>> \in Seq(SUBSET Delivery) /\ Len(<<>>) <= ChannelCapacity
  OBVIOUS

(* Dropping the receiver moves everything queued to the lost deliveries.   *)
LEMMA CloseReceiverStep ==
  ASSUME IInv, CloseReceiver
  PROVE  IInv'
  <1> USE DEF IInv
  <1>1. /\ channel' = <<>> /\ rxOpen' = FALSE
        /\ lost' = lost \union InChannel
        /\ UNCHANGED <<pending, totalSize, due, hand, pc, cancelled, offered, taken>>
        /\ Buffered' = Buffered /\ InHand' = InHand
    BY DEF CloseReceiver, buffer, Buffered, InHand
  <1>2. InChannel' = {} /\ InChannel \in SUBSET Delivery
    BY <1>1 DEF InChannel, TypeOK
  <1>3. TypeOK'
    BY <1>1, <1>2, EmptyChannel DEF TypeOK
  <1>4. IsFiniteSet(Buffered)' /\ SizeIsExact' /\ ClosedIsEmpty'
    BY <1>1 DEF SizeIsExact, ClosedIsEmpty
  <1>5. BatchesBounded' /\ NothingVanishes' /\ NoDuplicates'
    BY <1>1, <1>2 DEF BatchesBounded, Sending, NothingVanishes, NoDuplicates
  <1> QED BY <1>3, <1>4, <1>5

-----------------------------------------------------------------------------
(* Invariance.                                                             *)

(* The clock, the shutdown token and stuttering touch no delivery.         *)
LEMMA OutsideStep ==
  ASSUME IInv, Elapse \/ Cancel \/ UNCHANGED vars
  PROVE  IInv'
  <1>1. /\ UNCHANGED <<pending, totalSize, hand, pc, channel, rxOpen, offered, taken, lost>>
        /\ due' \in BOOLEAN /\ cancelled' \in BOOLEAN
    BY DEF Elapse, Cancel, vars, history, buffer, IInv, TypeOK
  <1>2. UNCHANGED <<Buffered, InHand, InChannel>>
    BY <1>1 DEF Buffered, InHand, InChannel
  <1>3. TypeOK'
    BY <1>1 DEF IInv, TypeOK
  <1> QED BY <1>1, <1>2, <1>3 DEF IInv, SizeIsExact, BatchesBounded, Sending,
        NothingVanishes, NoDuplicates, ClosedIsEmpty

(* The service starts with everything empty.                               *)
LEMMA InitIInv == Init => IInv
  <1> SUFFICES ASSUME Init PROVE IInv
    OBVIOUS
  <1>1. Buffered = {} /\ InHand = {} /\ InChannel = {}
    BY DEF Init, EmptyPending, Buffered, InHand, InChannel
  <1>2. TypeOK
    <2>1. channel \in Seq(SUBSET Delivery) /\ Len(channel) <= ChannelCapacity
      BY EmptyChannel DEF Init
    <2>2. pc \in [Task -> {"idle", "new", "loop", "sending", "lastSend", "done"}]
      BY DEF Init
    <2>3. /\ \A c \in Caller : pc[c] \in {"idle", "sending"}
          /\ pc[Manager] # "idle"
      BY DEF Init, Task
    <2> QED BY <2>1, <2>2, <2>3 DEF Init, TypeOK, EmptyPending
  <1>3. IsFiniteSet(Buffered) /\ SizeIsExact
    BY <1>1, FS_EmptySet DEF Init, SizeIsExact
  <1>4. BatchesBounded /\ NothingVanishes /\ ClosedIsEmpty
    BY <1>1 DEF Init, BatchesBounded, Sending, NothingVanishes, ClosedIsEmpty
  <1>5. NoDuplicates
    BY <1>1 DEF Init, NoDuplicates, EmptyPending
  <1> QED BY <1>2, <1>3, <1>4, <1>5 DEF IInv

(* Every step keeps the inductive invariant.                               *)
LEMMA StepIInv == IInv /\ [Next]_vars => IInv'
  <1> SUFFICES ASSUME IInv, [Next]_vars PROVE IInv'
    OBVIOUS
  <1>1. ASSUME NEW c \in Caller, NEW d \in Delivery, AddTransaction(c, d)
        PROVE  IInv'
    BY <1>1, AddTransactionStep
  <1>2. ASSUME NEW c \in Caller, ForceFlush(c) PROVE IInv'
    BY <1>2, ForceFlushStep
  <1>3. CASE Startup
    BY <1>3, FlushCheckStep DEF Startup
  <1>4. CASE Tick
    BY <1>4, FlushCheckStep DEF Tick
  <1>5. CASE Final
    BY <1>5, FlushCheckStep DEF Final
  <1>6. ASSUME NEW t \in Task, Send(t) PROVE IInv'
    BY <1>6, SendStep
  <1>7. ASSUME NEW t \in Task, SendFails(t) PROVE IInv'
    BY <1>7, SendFailsStep
  <1>8. CASE Recv
    BY <1>8, RecvStep
  <1>9. CASE CloseReceiver
    BY <1>9, CloseReceiverStep
  <1>10. CASE Elapse \/ Cancel \/ UNCHANGED vars
    BY <1>10, OutsideStep
  <1> QED BY <1>1, <1>2, <1>3, <1>4, <1>5, <1>6, <1>7, <1>8, <1>9, <1>10
          DEF Next

THEOREM Invariance == SafeSpec => []IInv
  BY InitIInv, StepIInv, PTL DEF SafeSpec

(* In every reachable state total_size is the number of buffered           *)
(* transactions and below the batch size.                                  *)
THEOREM SizeAlwaysExact == Spec => []SizeIsExact
  <1>1. IInv => SizeIsExact
    BY DEF IInv
  <1> QED BY <1>1, Invariance, PTL DEF Spec

(* No batch is ever empty or larger than max_batch_size, and a task holds  *)
(* one exactly while it sends it.                                          *)
THEOREM BatchesAlwaysBounded == Spec => []BatchesBounded
  <1>1. IInv => BatchesBounded
    BY DEF IInv
  <1> QED BY <1>1, Invariance, PTL DEF Spec

(* Every offered transaction is always somewhere: no interleaving of       *)
(* callers, forced flushes and timer flushes makes one vanish.             *)
THEOREM NothingEverVanishes == Spec => []NothingVanishes
  <1>1. IInv => NothingVanishes
    BY DEF IInv
  <1> QED BY <1>1, Invariance, PTL DEF Spec

(* And it is in one place only, so that it is delivered at most once.      *)
THEOREM ExactlyOnce == Spec => []NoDuplicates
  <1>1. IInv => NoDuplicates
    BY DEF IInv
  <1> QED BY <1>1, Invariance, PTL DEF Spec

(* The variables keep their types.                                         *)
THEOREM TypeCorrect == Spec => []TypeOK
  <1>1. IInv => TypeOK
    BY DEF IInv
  <1> QED BY <1>1, Invariance, PTL DEF Spec

-----------------------------------------------------------------------------
(* The refinement: each step of the batch manager is a step of the         *)
(* abstract hand-over, or leaves its variables alone.                      *)

(* A collection moves deliveries from the buffer to a hand: both count as  *)
(* held.                                                                   *)
LEMMA CollectIsHeld ==
  ASSUME IInv, NEW t \in Task, hand[t] = {}, Collect(t, pending)
  PROVE  Buffered' \union InHand' = Buffered \union InHand
  <1>1. /\ pending \in [Address -> SUBSET Delivery]
        /\ Contents(pending) = Buffered
    BY DEF IInv, TypeOK, Contents, Buffered
  <1>2. Buffered' = {} /\ InHand' = InHand \union Contents(pending)
    BY <1>1, CollectEffect DEF IInv
  <1> QED BY <1>1, <1>2

(* A push, flushing or not, accepts one new delivery.                      *)
LEMMA AddIsAccept ==
  ASSUME IInv, NEW c \in Caller, NEW d \in Delivery, AddTransaction(c, d)
  PROVE  Abstract!Accept(d)
  <1> DEFINE added == [pending EXCEPT ![Source[d]] = @ \union {d}]
  <1>1. /\ added \in [Address -> SUBSET Delivery]
        /\ Contents(added) = Buffered \union {d}
    BY PushContents DEF IInv, TypeOK, Buffered, Contents
  <1>2. d \notin Abstract!Known
    BY DEF AddTransaction, IInv, NothingVanishes, Abstract!Known
  <1>3. InChannel' = InChannel /\ UNCHANGED <<taken, lost, rxOpen>>
    BY DEF AddTransaction, InChannel
  <1>4. Buffered' \union InHand' = (Buffered \union InHand) \union {d}
    <2>1. c \in Task /\ hand[c] = {}
      BY DEF AddTransaction, IInv, BatchesBounded, Sending, Task
    <2>2. CASE Collect(c, added)
      <3> HIDE DEF added
      <3>1. Buffered' = {} /\ InHand' = InHand \union Contents(added)
        BY <1>1, <2>1, <2>2, CollectEffect DEF IInv
      <3> QED BY <1>1, <3>1
    <2>3. CASE pending' = added /\ UNCHANGED hand
      BY <1>1, <2>3 DEF Buffered, InHand, Contents
    <2> QED BY <2>2, <2>3 DEF AddTransaction
  <1> QED BY <1>2, <1>3, <1>4 DEF Abstract!Accept

(* A forced flush and a check by the manager are invisible.                *)
LEMMA ForceFlushIsStutter ==
  ASSUME IInv, NEW c \in Caller, ForceFlush(c)
  PROVE  UNCHANGED Abstract!vars
  <1>1. c \in Task /\ hand[c] = {} /\ Collect(c, pending)
    BY DEF ForceFlush, IInv, BatchesBounded, Sending, Task
  <1>2. InChannel' = InChannel /\ UNCHANGED <<taken, lost, rxOpen>>
    BY DEF ForceFlush, InChannel, history
  <1> QED BY <1>1, <1>2, CollectIsHeld DEF Abstract!vars

LEMMA FlushCheckIsStutter ==
  ASSUME IInv, pc[Manager] \in {"new", "loop"}, NEW send, NEW skip,
         FlushCheck(send, skip)
  PROVE  UNCHANGED Abstract!vars
  <1>1. Manager \in Task /\ hand[Manager] = {}
    BY DEF IInv, BatchesBounded, Sending, Task
  <1>2. InChannel' = InChannel /\ UNCHANGED <<taken, lost, rxOpen>>
    BY DEF FlushCheck, InChannel, history
  <1>3. CASE Collect(Manager, pending)
    BY <1>1, <1>2, <1>3, CollectIsHeld DEF Abstract!vars
  <1>4. CASE UNCHANGED <<buffer, hand>>
    BY <1>2, <1>4 DEF buffer, Buffered, InHand, Abstract!vars
  <1> QED BY <1>3, <1>4 DEF FlushCheck

(* A send that succeeds queues the batch; one that fails loses it, and     *)
(* only because the receiver is gone.                                      *)
LEMMA SendIsQueueOrLose ==
  ASSUME IInv, NEW t \in Task, Send(t) \/ SendFails(t)
  PROVE  \E S \in SUBSET (Buffered \union InHand) :
           Abstract!Queue(S) \/ Abstract!Lose(S)
  <1>1. hand' = [hand EXCEPT ![t] = {}] /\ Buffered' = Buffered
    BY DEF Send, SendFails, buffer, Buffered
  <1>2. InHand' = InHand \ hand[t] /\ hand[t] \subseteq InHand
    BY <1>1, ReleaseEffect DEF IInv
  <1>3. Buffered' \union InHand' = (Buffered \union InHand) \ hand[t]
    BY <1>1, <1>2 DEF IInv, NoDuplicates
  <1>4. CASE Send(t)
    <2>1. hand[t] \in SUBSET Delivery /\ channel' = Append(channel, hand[t])
      BY <1>4 DEF Send, IInv, TypeOK
    <2>2. InChannel' = InChannel \union hand[t]
      BY <2>1, AppendEffect DEF IInv
    <2>3. Abstract!Queue(hand[t])
      BY <1>3, <1>4, <2>2 DEF Abstract!Queue, Send, history
    <2> QED BY <1>2, <2>3
  <1>5. CASE SendFails(t)
    <2>1. Abstract!Lose(hand[t])
      BY <1>3, <1>5 DEF Abstract!Lose, SendFails, InChannel
    <2> QED BY <1>2, <2>1
  <1> QED BY <1>4, <1>5

(* A worker's receive takes one queued batch.                              *)
LEMMA RecvIsTake ==
  ASSUME IInv, Recv
  PROVE  \E S \in SUBSET InChannel : Abstract!Take(S)
  <1>1. /\ Head(channel) \subseteq InChannel
        /\ InChannel' = InChannel \ Head(channel)
    BY TailEffect DEF Recv, IInv
  <1>2. /\ rxOpen /\ UNCHANGED <<rxOpen, lost, Buffered, InHand>>
        /\ taken' = taken \union Head(channel)
    BY DEF Recv, IInv, ClosedIsEmpty, TypeOK, buffer, Buffered, InHand
  <1>3. Abstract!Take(Head(channel))
    BY <1>1, <1>2 DEF Abstract!Take
  <1> QED BY <1>1, <1>3

LEMMA StepSimulation ==
  IInv /\ [Next]_vars => [Abstract!Next]_(Abstract!vars)
  <1> SUFFICES ASSUME IInv, [Next]_vars
               PROVE  Abstract!Next \/ UNCHANGED Abstract!vars
    OBVIOUS
  <1>1. ASSUME NEW c \in Caller, NEW d \in Delivery, AddTransaction(c, d)
        PROVE  Abstract!Next
    BY <1>1, AddIsAccept DEF Abstract!Next
  <1>2. ASSUME NEW c \in Caller, ForceFlush(c) PROVE UNCHANGED Abstract!vars
    BY <1>2, ForceFlushIsStutter
  <1>3. CASE Startup \/ Tick \/ Final
    BY <1>3, FlushCheckIsStutter DEF Startup, Tick, Final
  <1>4. ASSUME NEW t \in Task, Send(t) \/ SendFails(t) PROVE Abstract!Next
    BY <1>4, SendIsQueueOrLose DEF Abstract!Next
  <1>5. CASE Recv
    BY <1>5, RecvIsTake DEF Abstract!Next
  <1>6. CASE CloseReceiver
    <2>1. UNCHANGED <<Buffered, InHand, taken>> /\ InChannel' = {}
      BY <1>6 DEF CloseReceiver, buffer, Buffered, InHand, InChannel
    <2> QED BY <1>6, <2>1 DEF CloseReceiver, Abstract!Close, Abstract!Next
  <1>7. CASE Elapse \/ Cancel \/ UNCHANGED vars
    BY <1>7 DEF Elapse, Cancel, vars, history, buffer, Buffered, InHand,
                InChannel, Abstract!vars
  <1> QED BY <1>1, <1>2, <1>3, <1>4, <1>5, <1>6, <1>7 DEF Next

(* The batch manager keeps the promise of HandOver.tla: what it accepts is *)
(* held until it is queued, and lost only when no worker is left.          *)
THEOREM Refinement == Spec => ImplementsHandOver
  <1>1. Init => Abstract!Init
    BY DEF Init, EmptyPending, Buffered, InHand, InChannel, Abstract!Init
  <1> QED BY <1>1, Invariance, StepSimulation, PTL
          DEF Spec, SafeSpec, ImplementsHandOver, Abstract!Spec

(* The promise by itself includes delivery at most once: whoever keeps it  *)
(* never hands the same transaction to the workers twice, nor after losing *)
(* it.                                                                     *)
THEOREM AtMostOnce == Abstract!Spec => []Abstract!ExactlyOnePlace
  <1>1. Abstract!Init => Abstract!ExactlyOnePlace
    BY DEF Abstract!Init, Abstract!ExactlyOnePlace
  <1>2. Abstract!ExactlyOnePlace /\ [Abstract!Next]_(Abstract!vars)
          => Abstract!ExactlyOnePlace'
    <2>1. SUFFICES ASSUME Abstract!ExactlyOnePlace,
                          [Abstract!Next]_(Abstract!vars)
                   PROVE  Abstract!ExactlyOnePlace'
      OBVIOUS
    <2>2. ASSUME NEW d \in Delivery, Abstract!Accept(d)
          PROVE  Abstract!ExactlyOnePlace'
      BY <2>1, <2>2
         DEF Abstract!ExactlyOnePlace, Abstract!Accept, Abstract!Known
    <2>3. ASSUME NEW S \in SUBSET (Buffered \union InHand),
                 Abstract!Queue(S) \/ Abstract!Lose(S)
          PROVE  Abstract!ExactlyOnePlace'
      BY <2>1, <2>3
         DEF Abstract!ExactlyOnePlace, Abstract!Queue, Abstract!Lose
    <2>4. ASSUME NEW S \in SUBSET InChannel, Abstract!Take(S)
          PROVE  Abstract!ExactlyOnePlace'
      BY <2>1, <2>4 DEF Abstract!ExactlyOnePlace, Abstract!Take
    <2>5. CASE Abstract!Close
      BY <2>1, <2>5 DEF Abstract!ExactlyOnePlace, Abstract!Close
    <2>6. CASE UNCHANGED Abstract!vars
      BY <2>1, <2>6 DEF Abstract!ExactlyOnePlace, Abstract!vars
    <2> QED BY <2>1, <2>2, <2>3, <2>4, <2>5, <2>6 DEF Abstract!Next
  <1> QED BY <1>1, <1>2, PTL DEF Abstract!Spec

=============================================================================
