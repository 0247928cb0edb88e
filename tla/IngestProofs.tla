---------------------------- MODULE IngestProofs ----------------------------
(***************************************************************************)
(* Proofs about Ingest.tla, for every chain of transactions, every number  *)
(* of workers and every bound on batches and trouble.                      *)
(***************************************************************************)
EXTENDS Ingest, TLAPS

USE ChainAssumption, WorkerAssumption, BoundAssumption

(* What workers carry between their steps is linked to the requested       *)
(* addresses, like the tracked ones: TrackedIsLinked is not inductive      *)
(* without it, because a stale snapshot or a pending registration could    *)
(* bring in any address.                                                   *)
WorkIsLinked ==
  \A C \in SUBSET Address :
    requested \subseteq C /\ ClosedUnderLinks(C) =>
      \A w \in Worker : snapshot[w] \subseteq C /\ register[w] \subseteq C

(* Why a refusal lasts: a stored transaction names the address.            *)
RefusedIsStored == refused \subseteq AddressesOf(stored)

IInv ==
  /\ TypeOK
  /\ StoredIsTracked
  /\ RefusedIsStored
  /\ TrackedIsLinked
  /\ WorkIsLinked
  /\ NoBatchLeftBehind

-----------------------------------------------------------------------------
(* The addresses of transactions are addresses, and more transactions have *)
(* more of them.                                                           *)
LEMMA AddressesAreAddresses ==
  ASSUME NEW T \in SUBSET Tx
  PROVE  AddressesOf(T) \in SUBSET Address
  BY DEF AddressesOf, Touches

LEMMA AddressesOfUnion ==
  ASSUME NEW T \in SUBSET Tx, NEW U \in SUBSET Tx
  PROVE  AddressesOf(T \union U) = AddressesOf(T) \union AddressesOf(U \ T)
  BY DEF AddressesOf

(* In a closed set, transactions that touch it have all their addresses.   *)
LEMMA TouchingIsInside ==
  ASSUME NEW C, ClosedUnderLinks(C), NEW S, S \subseteq C,
         NEW T \in SUBSET Tx, \A t \in T : Touches(t) \intersect S # {}
  PROVE  AddressesOf(T) \subseteq C
  BY DEF ClosedUnderLinks, AddressesOf

-----------------------------------------------------------------------------
(* Type correctness, one group of actions after the other.                 *)

LEMMA InitIInv == Init => IInv
  <1> SUFFICES ASSUME Init PROVE IInv
    OBVIOUS
  <1>1. TypeOK
    BY DEF Init, TypeOK, Nothing
  <1>2. StoredIsTracked /\ TrackedIsLinked /\ WorkIsLinked /\ NoBatchLeftBehind
    BY DEF Init, StoredIsTracked, AddressesOf, TrackedIsLinked, WorkIsLinked,
           NoBatchLeftBehind, Nothing
  <1>3. RefusedIsStored
    BY DEF Init, RefusedIsStored
  <1> QED BY <1>1, <1>2, <1>3 DEF IInv

(* Requests, sends and the end of the senders.                             *)
LEMMA OutsideType ==
  ASSUME TypeOK,
         \/ \E a \in Address : TrackAdd(a) \/ TrackRemove(a)
         \/ \E S \in SUBSET Tx : SendBatch(S)
         \/ DropSenders
  PROVE  TypeOK'
  <1>1. ASSUME NEW a \in Address, TrackAdd(a) PROVE TypeOK'
    BY <1>1 DEF TypeOK, TrackAdd, work
  <1>2. ASSUME NEW a \in Address, TrackRemove(a) PROVE TypeOK'
    BY <1>2 DEF TypeOK, TrackRemove, Trouble, NoTrouble, work
  <1>3. ASSUME NEW S \in SUBSET Tx, SendBatch(S) PROVE TypeOK'
    BY <1>3 DEF TypeOK, SendBatch, db, work, history
  <1>4. CASE DropSenders
    BY <1>4 DEF TypeOK, DropSenders, db, work, history
  <1> QED BY <1>1, <1>2, <1>3, <1>4

(* The steps of Worker::run.                                               *)
LEMMA RunType ==
  ASSUME TypeOK, NEW w \in Worker,
         LockReceiver(w) \/ Receive(w) \/ ReceiveNone(w)
  PROVE  TypeOK'
  <1>1. CASE LockReceiver(w)
    BY <1>1 DEF TypeOK, LockReceiver, Goto, db, work, history
  <1>2. CASE Receive(w)
    <2>1. Head(queue) \in SUBSET Tx /\ Tail(queue) \in Seq(SUBSET Tx)
      BY <1>2 DEF TypeOK, Receive
    <2> QED BY <1>2, <2>1 DEF TypeOK, Receive, Goto, db, history
  <1>3. CASE ReceiveNone(w)
    BY <1>3 DEF TypeOK, ReceiveNone, Goto, db, work, history
  <1> QED BY <1>1, <1>2, <1>3

(* The end of a batch, whatever became of it.                              *)
LEMMA DoneType ==
  ASSUME TypeOK, NEW w \in Worker, pc[w] # "recv", Done(w),
         tracked' = tracked, stored' \in SUBSET Tx, trouble' \in 0 .. MaxTrouble,
         UNCHANGED <<queue, open, receiver, history, sends>>
  PROVE  TypeOK'
  BY DEF TypeOK, Done, Goto, history

(* The steps of a batch.                                                   *)
LEMMA BatchType ==
  ASSUME TypeOK, NEW w \in Worker,
         \/ Snapshot(w) \/ SnapshotFails(w)
         \/ \E failed \in SUBSET Tx : Fetch(w, failed)
         \/ \E a \in Address : Register(w, a) \/ RegisterFails(w, a)
         \/ Insert(w) \/ InsertFails(w)
  PROVE  TypeOK'
  <1>1. CASE Snapshot(w)
    BY <1>1 DEF TypeOK, Snapshot, Goto, db, history
  <1>2. CASE SnapshotFails(w)
    BY <1>2, DoneType DEF SnapshotFails, Trouble, db, TypeOK
  <1>3. ASSUME NEW failed \in SUBSET Tx, Fetch(w, failed) PROVE TypeOK'
    <2> DEFINE found == {t \in batch[w] \ failed : Touches(t) \intersect snapshot[w] # {}}
    <2>1. found \in SUBSET Tx /\ AddressesOf(found) \in SUBSET Address
      BY AddressesAreAddresses DEF TypeOK
    <2>2. trouble' \in 0 .. MaxTrouble
      BY <1>3 DEF Fetch, Trouble, NoTrouble, TypeOK
    <2>3. CASE Done(w)
      BY <1>3, <2>2, <2>3, DoneType DEF Fetch, db, TypeOK
    <2>4. CASE /\ relevant' = [relevant EXCEPT ![w] = found]
               /\ register' = [register EXCEPT ![w] = AddressesOf(found)]
               /\ Goto(w, "store")
               /\ UNCHANGED <<batch, snapshot>>
      <3> HIDE DEF found
      <3> QED BY <1>3, <2>1, <2>2, <2>4 DEF Fetch, Goto, db, history, TypeOK
    <2> QED BY <1>3, <2>3, <2>4 DEF Fetch
  <1>4. ASSUME NEW a \in Address, Register(w, a) PROVE TypeOK'
    BY <1>4 DEF TypeOK, Register, history
  <1>5. ASSUME NEW a \in Address, RegisterFails(w, a) PROVE TypeOK'
    BY <1>5 DEF TypeOK, RegisterFails, Trouble, db, history
  <1>6. CASE Insert(w)
    <2>1. stored' \in SUBSET Tx
      BY <1>6 DEF Insert, TypeOK
    <2> QED BY <1>6, <2>1, DoneType DEF Insert, TypeOK
  <1>7. CASE InsertFails(w)
    BY <1>7, DoneType DEF InsertFails, Trouble, db, TypeOK
  <1> QED BY <1>1, <1>2, <1>3, <1>4, <1>5, <1>6, <1>7

LEMMA StepType == TypeOK /\ [Next]_vars => TypeOK'
  <1> SUFFICES ASSUME TypeOK, [Next]_vars PROVE TypeOK'
    OBVIOUS
  <1>1. CASE Restart
    BY <1>1 DEF TypeOK, Restart, Trouble, Nothing, db, history
  <1>2. CASE UNCHANGED vars
    BY <1>2 DEF TypeOK, vars
  <1> QED BY <1>1, <1>2, OutsideType, RunType, BatchType DEF Next, WorkerStep

-----------------------------------------------------------------------------
(* Foreign keys: what is stored stays tracked.                             *)

LEMMA StepStored ==
  ASSUME TypeOK, StoredIsTracked, [Next]_vars
  PROVE  StoredIsTracked'
  <1>1. ASSUME stored' = stored, tracked \subseteq tracked'
        PROVE  StoredIsTracked'
    BY <1>1 DEF StoredIsTracked
  <1>2. ASSUME NEW a \in Address, TrackRemove(a) PROVE StoredIsTracked'
    BY <1>2 DEF TrackRemove, StoredIsTracked
  <1>3. ASSUME NEW w \in Worker, Insert(w) PROVE StoredIsTracked'
    <2>1. tracked' = tracked
      BY <1>3 DEF Insert
    <2>2. CASE stored' = stored
      BY <1>1, <2>1, <2>2
    <2>3. CASE /\ AddressesOf(relevant[w] \ stored) \subseteq tracked
               /\ stored' = stored \union relevant[w]
      <3>1. AddressesOf(stored') = AddressesOf(stored) \union AddressesOf(relevant[w] \ stored)
        BY <2>3, AddressesOfUnion DEF TypeOK
      <3> QED BY <2>1, <2>3, <3>1 DEF StoredIsTracked
    <2> QED BY <1>3, <2>2, <2>3 DEF Insert
  <1>4. ASSUME NEW a \in Address, TrackAdd(a) PROVE StoredIsTracked'
    BY <1>1, <1>4 DEF TrackAdd
  <1>5. ASSUME NEW w \in Worker, NEW a \in Address, Register(w, a)
        PROVE  StoredIsTracked'
    BY <1>1, <1>5 DEF Register
  <1>6. CASE db' = db
    BY <1>1, <1>6 DEF db
  <1>7. ASSUME NEW w \in Worker,
               \/ LockReceiver(w) \/ Receive(w) \/ ReceiveNone(w)
               \/ Snapshot(w) \/ SnapshotFails(w) \/ InsertFails(w)
               \/ \E failed \in SUBSET Tx : Fetch(w, failed)
               \/ \E a \in Address : RegisterFails(w, a)
        PROVE  db' = db
    BY <1>7 DEF LockReceiver, Receive, ReceiveNone, Snapshot, SnapshotFails,
                InsertFails, Fetch, RegisterFails
  <1>8. ASSUME \/ \E S \in SUBSET Tx : SendBatch(S)
               \/ DropSenders \/ Restart \/ UNCHANGED vars
        PROVE  db' = db
    BY <1>8 DEF SendBatch, DropSenders, Restart, vars, db
  <1> QED BY <1>2, <1>3, <1>4, <1>5, <1>6, <1>7, <1>8 DEF Next, WorkerStep

-----------------------------------------------------------------------------
(* Refusals: nothing that is stored is ever deleted.                       *)

LEMMA StoredGrows == [Next]_vars => stored \subseteq stored'
  BY DEF Next, WorkerStep, vars, db, TrackAdd, TrackRemove, SendBatch, DropSenders,
         LockReceiver, Receive, ReceiveNone, Snapshot, SnapshotFails, Fetch,
         Register, RegisterFails, Insert, InsertFails, Restart

LEMMA StepRefused ==
  ASSUME RefusedIsStored, [Next]_vars
  PROVE  RefusedIsStored'
  <1>1. refused' \subseteq AddressesOf(stored)
    <2>1. ASSUME NEW a \in Address, TrackRemove(a)
          PROVE  refused' \subseteq AddressesOf(stored)
      BY <2>1 DEF TrackRemove, RefusedIsStored
    <2>2. ASSUME refused' = refused PROVE refused' \subseteq AddressesOf(stored)
      BY <2>2 DEF RefusedIsStored
    <2>3. CASE ~ \E a \in Address : TrackRemove(a)
      <3>1. refused' = refused
        BY <2>3 DEF Next, WorkerStep, vars, history, TrackAdd, SendBatch, DropSenders,
               LockReceiver, Receive, ReceiveNone, Snapshot, SnapshotFails, Fetch,
               Register, RegisterFails, Insert, InsertFails, Restart
      <3> QED BY <2>2, <3>1
    <2> QED BY <2>1, <2>3
  <1>2. AddressesOf(stored) \subseteq AddressesOf(stored')
    BY StoredGrows DEF AddressesOf
  <1> QED BY <1>1, <1>2 DEF RefusedIsStored

-----------------------------------------------------------------------------
(* Links: what is tracked, and what workers are about to track.            *)

(* The tracked addresses and the workers' addresses lie in C.              *)
Within(C) ==
  /\ tracked \subseteq C
  /\ \A w \in Worker : snapshot[w] \subseteq C /\ register[w] \subseteq C

LEMMA StepWithin ==
  ASSUME TypeOK, [Next]_vars,
         NEW C \in SUBSET Address, ClosedUnderLinks(C), Within(C),
         requested' \subseteq C
  PROVE  Within(C)'
  <1>1. ASSUME NEW a \in Address, TrackAdd(a) \/ TrackRemove(a)
        PROVE  Within(C)'
    BY <1>1 DEF TrackAdd, TrackRemove, work, Within, TypeOK
  <1>2. ASSUME \/ \E S \in SUBSET Tx : SendBatch(S)
               \/ DropSenders \/ UNCHANGED vars
        PROVE  Within(C)'
    BY <1>2 DEF SendBatch, DropSenders, vars, db, work, Within
  <1>3. CASE Restart
    BY <1>3 DEF Restart, Nothing, db, Within
  <1>4. ASSUME NEW w \in Worker, LockReceiver(w) \/ Receive(w) \/ ReceiveNone(w)
        PROVE  Within(C)'
    BY <1>4 DEF LockReceiver, Receive, ReceiveNone, db, work, Within
  <1>5. ASSUME NEW w \in Worker, Snapshot(w) PROVE Within(C)'
    BY <1>5 DEF Snapshot, db, Within, TypeOK
  <1>6. ASSUME NEW w \in Worker, Done(w), tracked' = tracked
        PROVE  Within(C)'
    BY <1>6 DEF Done, Within, TypeOK
  <1>7. ASSUME NEW w \in Worker,
               SnapshotFails(w) \/ Insert(w) \/ InsertFails(w)
        PROVE  Within(C)'
    BY <1>6, <1>7 DEF SnapshotFails, Insert, InsertFails, db
  <1>8. ASSUME NEW w \in Worker, NEW failed \in SUBSET Tx, Fetch(w, failed)
        PROVE  Within(C)'
    <2> DEFINE found == {t \in batch[w] \ failed : Touches(t) \intersect snapshot[w] # {}}
    <2>1. AddressesOf(found) \subseteq C
      <3>1. found \in SUBSET Tx /\ snapshot[w] \subseteq C
        BY DEF TypeOK, Within
      <3> QED BY <3>1, TouchingIsInside
    <2>2. tracked' = tracked
      BY <1>8 DEF Fetch, db
    <2>3. CASE Done(w)
      BY <1>6, <2>2, <2>3
    <2>4. CASE /\ register' = [register EXCEPT ![w] = AddressesOf(found)]
               /\ UNCHANGED <<batch, snapshot>>
      <3> HIDE DEF found
      <3> QED BY <2>1, <2>2, <2>4 DEF Within, TypeOK
    <2> QED BY <1>8, <2>3, <2>4 DEF Fetch
  <1>9. ASSUME NEW w \in Worker, NEW a \in Address,
               Register(w, a) \/ RegisterFails(w, a)
        PROVE  Within(C)'
    BY <1>9 DEF Register, RegisterFails, db, Within, TypeOK
  <1> QED BY <1>1, <1>2, <1>3, <1>4, <1>5, <1>7, <1>8, <1>9
          DEF Next, WorkerStep

(* Requests are never forgotten.                                           *)
LEMMA RequestedGrows == [Next]_vars => requested \subseteq requested'
  BY DEF Next, WorkerStep, vars, TrackAdd, TrackRemove, SendBatch, DropSenders,
         LockReceiver, Receive, ReceiveNone, Snapshot, SnapshotFails, Fetch,
         Register, RegisterFails, Insert, InsertFails, Restart, history

LEMMA StepLinked ==
  ASSUME TypeOK, TrackedIsLinked, WorkIsLinked, [Next]_vars
  PROVE  TrackedIsLinked' /\ WorkIsLinked'
  <1>1. ASSUME NEW C \in SUBSET Address, requested' \subseteq C, ClosedUnderLinks(C)
        PROVE  Within(C)'
    <2>1. requested \subseteq C
      BY <1>1, RequestedGrows
    <2>2. Within(C)
      BY <1>1, <2>1 DEF TrackedIsLinked, WorkIsLinked, Within
    <2> QED BY <1>1, <2>2, StepWithin
  <1> QED BY <1>1 DEF TrackedIsLinked, WorkIsLinked, Within, ClosedUnderLinks

-----------------------------------------------------------------------------
(* Shutdown: nobody leaves while there is work.                            *)

LEMMA StepLeft ==
  ASSUME TypeOK, NoBatchLeftBehind, [Next]_vars
  PROVE  NoBatchLeftBehind'
  <1>1. ASSUME NEW w \in Worker, ReceiveNone(w) PROVE NoBatchLeftBehind'
    BY <1>1 DEF ReceiveNone, NoBatchLeftBehind
  <1>2. ASSUME NEW S \in SUBSET Tx, SendBatch(S) PROVE NoBatchLeftBehind'
    BY <1>2 DEF SendBatch, NoBatchLeftBehind
  <1>3. CASE DropSenders
    BY <1>3 DEF DropSenders, NoBatchLeftBehind
  <1>4. CASE Restart
    BY <1>4 DEF Restart, NoBatchLeftBehind
  <1>5. ASSUME NEW w \in Worker, Receive(w) PROVE NoBatchLeftBehind'
    BY <1>5 DEF Receive, Goto, NoBatchLeftBehind, TypeOK
  <1>6. ASSUME UNCHANGED <<queue, open>>,
               \A w \in Worker : pc'[w] = "exited" => pc[w] = "exited"
        PROVE  NoBatchLeftBehind'
    BY <1>6 DEF NoBatchLeftBehind
  <1>7. ASSUME NEW a \in Address, TrackAdd(a) \/ TrackRemove(a)
        PROVE  NoBatchLeftBehind'
    BY <1>6, <1>7 DEF TrackAdd, TrackRemove
  <1>8. ASSUME NEW w \in Worker,
               \/ LockReceiver(w) \/ Snapshot(w)
               \/ \E a \in Address : Register(w, a) \/ RegisterFails(w, a)
        PROVE  NoBatchLeftBehind'
    BY <1>6, <1>8 DEF LockReceiver, Snapshot, Register, RegisterFails, Goto, TypeOK
  <1>9. ASSUME NEW w \in Worker, Done(w), UNCHANGED <<queue, open>>
        PROVE  NoBatchLeftBehind'
    BY <1>6, <1>9 DEF Done, Goto, TypeOK
  <1>10. ASSUME NEW w \in Worker,
                SnapshotFails(w) \/ Insert(w) \/ InsertFails(w)
         PROVE  NoBatchLeftBehind'
    BY <1>9, <1>10 DEF SnapshotFails, Insert, InsertFails
  <1>11. ASSUME NEW w \in Worker, NEW failed \in SUBSET Tx, Fetch(w, failed)
         PROVE  NoBatchLeftBehind'
    BY <1>6, <1>9, <1>11 DEF Fetch, Goto, TypeOK
  <1>12. CASE UNCHANGED vars
    BY <1>6, <1>12 DEF vars
  <1> QED BY <1>1, <1>2, <1>3, <1>4, <1>5, <1>7, <1>8, <1>10, <1>11, <1>12
          DEF Next, WorkerStep

-----------------------------------------------------------------------------
(* Every step keeps the inductive invariant, and so does every behaviour.  *)
THEOREM Invariance == SafeSpec => []IInv
  <1>1. IInv /\ [Next]_vars => IInv'
    BY StepType, StepStored, StepRefused, StepLinked, StepLeft DEF IInv
  <1> QED BY <1>1, InitIInv, PTL DEF SafeSpec

(* Every variable keeps its type, and a worker waits for a batch exactly    *)
(* when it holds the receiver.                                             *)
THEOREM TypeCorrect == SafeSpec => []TypeOK
  <1>1. IInv => TypeOK
    BY DEF IInv
  <1> QED BY <1>1, Invariance, PTL

(* An address whose removal was refused once stays tracked for ever, across *)
(* further removals, stored batches and restarts.                          *)
THEOREM RefusedStaysTracked == SafeSpec => []RefusedForGood
  <1>1. IInv => RefusedForGood
    BY DEF IInv, RefusedIsStored, StoredIsTracked, RefusedForGood
  <1> QED BY <1>1, Invariance, PTL

(* Stored transactions keep both their addresses tracked, across removals, *)
(* failed statements, concurrent batches and restarts.                     *)
THEOREM StoredAlwaysTracked == SafeSpec => []StoredIsTracked
  <1>1. IInv => StoredIsTracked
    BY DEF IInv
  <1> QED BY <1>1, Invariance, PTL

(* The service tracks nothing that is not linked by transactions to an     *)
(* address some client asked it to track.                                  *)
THEOREM TrackedAlwaysLinked == SafeSpec => []TrackedIsLinked
  <1>1. IInv => TrackedIsLinked
    BY DEF IInv
  <1> QED BY <1>1, Invariance, PTL

(* A worker exits only when no batch is left and none can come.            *)
THEOREM ExitLeavesNothing == SafeSpec => []NoBatchLeftBehind
  <1>1. IInv => NoBatchLeftBehind
    BY DEF IInv
  <1> QED BY <1>1, Invariance, PTL

-----------------------------------------------------------------------------
(* The tables keep the promise of Ledger.tla.                              *)

LEMMA SameNames ==
  ASSUME TypeOK
  PROVE  Table!Named = AddressesOf(stored)
  BY DEF TypeOK, Table!Named, AddressesOf

(* Four steps of the service are steps of the ledger; the others leave the *)
(* tables alone.                                                           *)
LEMMA StepIsLedgerStep ==
  ASSUME IInv, [Next]_vars
  PROVE  [Table!Next]_(Table!vars)
  <1> USE DEF Table!vars
  <1>1. ASSUME NEW a \in Address, TrackAdd(a) PROVE Table!Next
    BY <1>1 DEF TrackAdd, Table!Next, Table!Add
  <1>2. ASSUME NEW a \in Address, TrackRemove(a)
        PROVE  Table!Next \/ UNCHANGED Table!vars
    <2>1. CASE a \in AddressesOf(stored)
      BY <1>2, <2>1 DEF TrackRemove
    <2>2. CASE a \notin AddressesOf(stored)
      <3>1. a \notin Table!Named
        BY <2>2, SameNames DEF IInv
      <3> QED BY <1>2, <2>2, <3>1 DEF TrackRemove, Table!Next, Table!Remove
    <2> QED BY <2>1, <2>2
  <1>3. ASSUME NEW w \in Worker, NEW a \in Address, Register(w, a)
        PROVE  Table!Next
    BY <1>3 DEF Register, Table!Next, Table!Add
  <1>4. ASSUME NEW w \in Worker, Insert(w)
        PROVE  Table!Next \/ UNCHANGED Table!vars
    <2>1. tracked' = tracked
      BY <1>4 DEF Insert
    <2>2. CASE stored' = stored
      BY <2>1, <2>2
    <2>3. CASE /\ AddressesOf(relevant[w] \ stored) \subseteq tracked
               /\ stored' = stored \union relevant[w]
      <3> DEFINE T == relevant[w] \ stored
      <3>1. T \in SUBSET Tx
        BY DEF IInv, TypeOK
      <3>2. \A t \in T : Touches(t) \subseteq tracked
        BY <2>3 DEF AddressesOf
      <3>3. stored' = stored \union T
        BY <2>3
      <3> HIDE DEF T
      <3>4. Table!Store(T)
        BY <2>1, <3>1, <3>2, <3>3 DEF Table!Store
      <3> QED BY <3>1, <3>4 DEF Table!Next
    <2> QED BY <1>4, <2>2, <2>3 DEF Insert
  <1>5. ASSUME NEW w \in Worker,
               \/ LockReceiver(w) \/ Receive(w) \/ ReceiveNone(w)
               \/ Snapshot(w) \/ SnapshotFails(w) \/ InsertFails(w)
               \/ \E failed \in SUBSET Tx : Fetch(w, failed)
               \/ \E a \in Address : RegisterFails(w, a)
        PROVE  UNCHANGED Table!vars
    BY <1>5 DEF LockReceiver, Receive, ReceiveNone, Snapshot, SnapshotFails,
                InsertFails, Fetch, RegisterFails, db
  <1>6. ASSUME \/ \E S \in SUBSET Tx : SendBatch(S)
               \/ DropSenders \/ Restart \/ UNCHANGED vars
        PROVE  UNCHANGED Table!vars
    BY <1>6 DEF SendBatch, DropSenders, Restart, vars, db
  <1> QED BY <1>1, <1>2, <1>3, <1>4, <1>5, <1>6 DEF Next, WorkerStep

(* The ledger's own steps suffice for what readers rely on.                *)
LEMMA LedgerKeepsNames == ImplementsLedger => []Table!NamedIsTracked
  <1> USE DEF Table!NamedIsTracked, Table!Named
  <1>1. Table!Init => Table!NamedIsTracked
    BY DEF Table!Init
  <1>2. ASSUME Table!NamedIsTracked, [Table!Next]_(Table!vars)
        PROVE  Table!NamedIsTracked'
    <2>1. ASSUME NEW a \in Address, Table!Add(a) \/ Table!Remove(a)
          PROVE  Table!NamedIsTracked'
      BY <1>2, <2>1 DEF Table!Add, Table!Remove
    <2>2. ASSUME NEW T \in SUBSET Tx, Table!Store(T)
          PROVE  Table!NamedIsTracked'
      BY <1>2, <2>2 DEF Table!Store
    <2>3. CASE UNCHANGED Table!vars
      BY <1>2, <2>3 DEF Table!vars
    <2> QED BY <1>2, <2>1, <2>2, <2>3 DEF Table!Next
  <1> QED BY <1>1, <1>2, PTL DEF ImplementsLedger, Table!Spec

(* Whatever workers, handlers, failed statements and restarts do to each   *)
(* other, a reader of the tables sees a ledger: complete inserts between   *)
(* tracked addresses, nothing deleted that is named, and so every stored   *)
(* transaction to be found under both its addresses.                       *)
THEOREM IngestImplementsLedger ==
  SafeSpec => ImplementsLedger /\ []Table!NamedIsTracked
  <1>1. Init => Table!Init
    BY DEF Init, Table!Init
  <1>2. SafeSpec => ImplementsLedger
    BY <1>1, StepIsLedgerStep, Invariance, PTL
       DEF SafeSpec, ImplementsLedger, Table!Spec
  <1> QED BY <1>2, LedgerKeepsNames, PTL

-----------------------------------------------------------------------------
(* Workers get through their batches.                                      *)

LEMMA StepOnward ==
  ASSUME TypeOK, Next, NEW w \in Worker, ~UNCHANGED <<pc[w], register[w]>>
  PROVE  Onward(w)
  <1> USE DEF Onward
  <1>1. ASSUME NEW v \in Worker, v # w, WorkerStep(v) PROVE FALSE
    BY <1>1 DEF WorkerStep, LockReceiver, Receive, ReceiveNone, Snapshot, SnapshotFails,
                Fetch, Register, RegisterFails, Insert, InsertFails, Done, Goto, work,
                TypeOK
  <1>2. CASE LockReceiver(w)
    BY <1>2 DEF LockReceiver, Goto, TypeOK
  <1>3. CASE Receive(w)
    <2>1. pc[w] = "recv" /\ pc'[w] = "snapshot"
      BY <1>3 DEF Receive, Goto, TypeOK
    <2>2. Len(Tail(queue)) < Len(queue)
      BY <1>3 DEF Receive, TypeOK
    <2>3. queue' = Tail(queue)
      BY <1>3 DEF Receive
    <2> QED BY <2>1, <2>2, <2>3
  <1>4. CASE ReceiveNone(w)
    BY <1>4 DEF ReceiveNone, Goto, TypeOK
  <1>5. CASE Snapshot(w)
    BY <1>5 DEF Snapshot, Goto, TypeOK
  <1>6. CASE Done(w)
    BY <1>6 DEF Done, Goto, TypeOK
  <1>7. CASE SnapshotFails(w) \/ Insert(w) \/ InsertFails(w)
    BY <1>6, <1>7 DEF SnapshotFails, Insert, InsertFails
  <1>8. ASSUME NEW failed \in SUBSET Tx, Fetch(w, failed) PROVE Onward(w)
    <2>1. Done(w) \/ (pc[w] = "fetch" /\ Goto(w, "store"))
      BY <1>8 DEF Fetch
    <2> QED BY <1>6, <2>1 DEF Goto, TypeOK
  <1>9. ASSUME NEW a \in Address, Register(w, a) \/ RegisterFails(w, a)
        PROVE  Onward(w)
    BY <1>9 DEF Register, RegisterFails, TypeOK
  <1>10. CASE Restart
    BY <1>10 DEF Restart
  <1>11. ASSUME \/ \E a \in Address : TrackAdd(a) \/ TrackRemove(a)
                \/ \E S \in SUBSET Tx : SendBatch(S)
                \/ DropSenders
         PROVE  FALSE
    BY <1>11 DEF TrackAdd, TrackRemove, SendBatch, DropSenders, work
  <1> QED BY <1>1, <1>2, <1>3, <1>4, <1>5, <1>7, <1>8, <1>9, <1>10, <1>11
          DEF Next, WorkerStep

(* A worker is done with a batch after finitely many of its own steps, and *)
(* each batch it begins is one fewer in the channel.                       *)
THEOREM BatchesAlwaysAdvance == SafeSpec => BatchesAdvance
  <1>1. TypeOK /\ [Next]_vars =>
          [\A w \in Worker : ~UNCHANGED <<pc[w], register[w]>> => Onward(w)]_vars
    BY StepOnward
  <1> QED BY <1>1, TypeCorrect, PTL DEF SafeSpec, BatchesAdvance

-----------------------------------------------------------------------------
(* Without a failure a batch is stored whole.                              *)

(* Since trouble was n: a worker that registers has dropped nothing of its *)
(* batch, and the addresses it has registered are tracked still.           *)
CalmSince(w, n) ==
  \/ n < trouble
  \/ /\ trouble = n
     /\ pc[w] = "store" =>
          /\ relevant[w] = ToStore(w)
          /\ AddressesOf(relevant[w]) \subseteq tracked \union register[w]

(* Steps that neither remove an address nor are this worker's.             *)
LEMMA CalmFrame ==
  ASSUME NEW w \in Worker, NEW n \in 0 .. MaxTrouble, CalmSince(w, n),
         trouble' = trouble, tracked \subseteq tracked',
         UNCHANGED <<pc[w], batch[w], snapshot[w], relevant[w], register[w]>>
  PROVE  CalmSince(w, n)'
  <1>1. CASE n < trouble
    BY <1>1 DEF CalmSince
  <1>2. CASE ~(n < trouble)
    <2>1. trouble' = n /\ ToStore(w)' = ToStore(w)
      BY <1>2 DEF CalmSince, ToStore
    <2>2. AddressesOf(relevant[w])' = AddressesOf(relevant[w])
      BY DEF AddressesOf
    <2> QED BY <1>2, <2>1, <2>2 DEF CalmSince
  <1> QED BY <1>1, <1>2

(* Trouble is the end of the calm.                                         *)
LEMMA CalmEnds ==
  ASSUME TypeOK, NEW w \in Worker, NEW n \in 0 .. MaxTrouble,
         CalmSince(w, n), Trouble
  PROVE  n < trouble'
  BY DEF TypeOK, CalmSince, Trouble

LEMMA StepKeepsCalm ==
  ASSUME TypeOK, [Next]_vars, NEW w \in Worker, NEW n \in 0 .. MaxTrouble,
         CalmSince(w, n)
  PROVE  CalmSince(w, n)'
  <1>1. CASE Trouble
    BY <1>1, CalmEnds DEF CalmSince
  <1>2. ASSUME pc'[w] # "store", trouble' = trouble PROVE CalmSince(w, n)'
    BY <1>2 DEF CalmSince
  <1>3. ASSUME NEW a \in Address, TrackAdd(a) \/ TrackRemove(a), ~Trouble
        PROVE  CalmSince(w, n)'
    <2>1. tracked \subseteq tracked' /\ trouble' = trouble /\ UNCHANGED <<pc, work>>
      BY <1>3 DEF TrackAdd, TrackRemove, NoTrouble
    <2> QED BY <2>1, CalmFrame DEF work
  <1>4. CASE \/ \E S \in SUBSET Tx : SendBatch(S)
             \/ DropSenders \/ UNCHANGED vars
    <2>1. UNCHANGED <<tracked, trouble, pc, work>>
      BY <1>4 DEF SendBatch, DropSenders, vars, db, work
    <2> QED BY <2>1, CalmFrame DEF work
  <1>5. ASSUME NEW v \in Worker, v # w, WorkerStep(v), ~Trouble
        PROVE  CalmSince(w, n)'
    <2>1. UNCHANGED <<pc[w], batch[w], snapshot[w], relevant[w], register[w]>>
      BY <1>5 DEF WorkerStep, LockReceiver, Receive, ReceiveNone, Snapshot,
                  SnapshotFails, Fetch, Register, RegisterFails, Insert,
                  InsertFails, Done, Goto, work, TypeOK
    <2>2. tracked \subseteq tracked' /\ trouble' = trouble
      BY <1>5 DEF WorkerStep, LockReceiver, Receive, ReceiveNone, Snapshot,
                  SnapshotFails, Fetch, Register, RegisterFails, Insert,
                  InsertFails, db, NoTrouble
    <2> QED BY <2>1, <2>2, CalmFrame
  <1>6. CASE LockReceiver(w) \/ Receive(w) \/ ReceiveNone(w) \/ Snapshot(w) \/ Insert(w)
    <2>1. pc'[w] # "store" /\ trouble' = trouble
      BY <1>6 DEF LockReceiver, Receive, ReceiveNone, Snapshot, Insert, Done, Goto, TypeOK
    <2> QED BY <1>2, <2>1
  <1>7. CASE SnapshotFails(w) \/ InsertFails(w) \/ Restart
    BY <1>1, <1>7 DEF SnapshotFails, InsertFails, Restart
  <1>8. ASSUME NEW failed \in SUBSET Tx, Fetch(w, failed), ~Trouble
        PROVE  CalmSince(w, n)'
    <2>1. failed = {} /\ trouble' = trouble
      BY <1>8 DEF Fetch, NoTrouble
    <2> DEFINE found == {t \in batch[w] \ failed : Touches(t) \intersect snapshot[w] # {}}
    <2>2. found = ToStore(w)
      BY <2>1 DEF ToStore
    <2> HIDE DEF found
    <2>3. CASE Done(w)
      BY <1>2, <2>1, <2>3 DEF Done, Goto, TypeOK
    <2>4. CASE /\ relevant' = [relevant EXCEPT ![w] = found]
               /\ register' = [register EXCEPT ![w] = AddressesOf(found)]
               /\ UNCHANGED <<batch, snapshot>>
      <3>1. relevant'[w] = found /\ register'[w] = AddressesOf(found)
        BY <2>4 DEF TypeOK
      <3>2. ToStore(w)' = ToStore(w)
        BY <2>4 DEF ToStore
      <3>3. AddressesOf(relevant[w])' = AddressesOf(found)
        BY <3>1 DEF AddressesOf
      <3> QED BY <2>1, <2>2, <3>1, <3>2, <3>3 DEF CalmSince
    <2> QED BY <1>8, <2>3, <2>4 DEF Fetch, found
  <1>9. ASSUME NEW a \in Address, Register(w, a) PROVE CalmSince(w, n)'
    <2>1. /\ pc[w] = "store" /\ UNCHANGED <<trouble, pc, batch, snapshot, relevant>>
          /\ tracked' = tracked \union {a} /\ register'[w] = register[w] \ {a}
      BY <1>9 DEF Register, TypeOK
    <2>2. ToStore(w)' = ToStore(w) /\ AddressesOf(relevant[w])' = AddressesOf(relevant[w])
      BY <2>1 DEF ToStore, AddressesOf
    <2> QED BY <2>1, <2>2 DEF CalmSince
  <1>10. ASSUME NEW a \in Address, RegisterFails(w, a) PROVE CalmSince(w, n)'
    BY <1>1, <1>10 DEF RegisterFails
  <1> QED BY <1>1, <1>3, <1>4, <1>5, <1>6, <1>7, <1>8, <1>9, <1>10
          DEF Next, WorkerStep

(* A batch that ends in the calm is stored: what it names is tracked, so   *)
(* that the foreign keys let all of it in.                                 *)
LEMMA CalmStores ==
  ASSUME TypeOK, Next, NEW w \in Worker, NEW n \in 0 .. MaxTrouble,
         CalmSince(w, n), trouble' = n,
         pc[w] \in {"fetch", "store"}, pc'[w] = "lock"
  PROVE  ToStore(w) \subseteq stored'
  <1>1. ~Trouble
    BY CalmEnds
  <1>2. trouble = n
    <2>1. trouble' = trouble \/ trouble' = trouble + 1
      BY DEF Next, WorkerStep, TrackAdd, TrackRemove, SendBatch, DropSenders, Restart,
             LockReceiver, Receive, ReceiveNone, Snapshot, SnapshotFails, Fetch,
             Register, RegisterFails, Insert, InsertFails, Trouble, NoTrouble
    <2> QED BY <1>1, <2>1 DEF TypeOK, CalmSince
  <1>3. Insert(w) \/ \E failed \in SUBSET Tx : Fetch(w, failed)
    <2>1. ASSUME NEW v \in Worker, v # w, WorkerStep(v) PROVE FALSE
      BY <2>1 DEF WorkerStep, LockReceiver, Receive, ReceiveNone, Snapshot, SnapshotFails,
                  Fetch, Register, RegisterFails, Insert, InsertFails, Done, Goto, TypeOK
    <2>2. CASE \/ \E a \in Address : TrackAdd(a) \/ TrackRemove(a)
               \/ \E S \in SUBSET Tx : SendBatch(S)
               \/ DropSenders \/ Restart
      BY <1>1, <2>2 DEF TrackAdd, TrackRemove, SendBatch, DropSenders, Restart
    <2>3. CASE WorkerStep(w)
      BY <1>1, <2>3 DEF WorkerStep, LockReceiver, Receive, ReceiveNone, Snapshot,
                        SnapshotFails, Register, RegisterFails, InsertFails, Goto, TypeOK
    <2> QED BY <2>1, <2>2, <2>3 DEF Next
  <1>4. ASSUME NEW failed \in SUBSET Tx, Fetch(w, failed) PROVE ToStore(w) = {}
    <2>1. failed = {}
      BY <1>1, <1>4 DEF Fetch
    <2> QED BY <1>4, <2>1 DEF Fetch, ToStore, Goto, TypeOK
  <1>5. CASE Insert(w)
    <2>1. relevant[w] = ToStore(w) /\ AddressesOf(relevant[w]) \subseteq tracked
      BY <1>2, <1>5 DEF Insert, CalmSince
    <2>2. AddressesOf(relevant[w] \ stored) \subseteq tracked
      BY <2>1 DEF AddressesOf
    <2> QED BY <1>5, <2>1, <2>2 DEF Insert
  <1> QED BY <1>3, <1>4, <1>5

(* Nothing but a failure, a removal or a crash costs a queued transaction  *)
(* its place in the table, whichever workers and requests interleave.      *)
THEOREM CalmAlwaysStores == SafeSpec => CalmBatchesAreStored
  <1> SUFFICES ASSUME NEW w \in Worker, NEW n \in 0 .. MaxTrouble
               PROVE  SafeSpec =>
                        [](pc[w] # "store" /\ trouble = n
                             => [][trouble' = n => StoresItsBatch(w)]_vars)
    BY DEF CalmBatchesAreStored
  <1>1. pc[w] # "store" /\ trouble = n => CalmSince(w, n)
    BY DEF CalmSince
  <1>2. TypeOK /\ CalmSince(w, n) /\ [Next]_vars => CalmSince(w, n)'
    BY StepKeepsCalm
  <1>3. TypeOK /\ CalmSince(w, n) /\ [Next]_vars
          => [trouble' = n => StoresItsBatch(w)]_vars
    BY CalmStores DEF StoresItsBatch
  <1> QED BY <1>1, <1>2, <1>3, TypeCorrect, PTL DEF SafeSpec

=============================================================================
