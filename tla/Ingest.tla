------------------------------- MODULE Ingest -------------------------------
(***************************************************************************)
(* From the worker channel to the database: src/blockchain/worker_pool.rs, *)
(* processor.rs, and the tables of src/db that the workers and the /track  *)
(* handler of src/api/route.rs share.                                      *)
(*                                                                         *)
(* Workers share one receiver behind a mutex and wait for a batch while    *)
(* holding it.  A batch is then processed in steps that other workers and  *)
(* requests interleave with: read the tracked addresses, fetch every       *)
(* signature again, register both ends of every relevant transaction, one  *)
(* statement each, insert all of them in one database transaction.         *)
(*                                                                         *)
(* Foreign keys are on (db/connection.rs), so a transaction can be stored  *)
(* only while both its addresses are tracked, and an address cannot be     *)
(* deleted once a stored transaction names it.                             *)
(*                                                                         *)
(* Bounds.  MaxSends batches are sent in all.  MaxTrouble bounds failed    *)
(* fetches and statements, removals that succeed and crashes together.     *)
(***************************************************************************)
EXTENDS Naturals, Sequences, FiniteSets

CONSTANTS Tx,         \* transactions on the chain, by signature
          Address,
          Source,     \* source_address of each transaction
          Dest,       \* destination_address: a set of at most one address
          Worker,
          NoWorker,   \* nobody holds the receiver
          MaxSends,
          MaxTrouble

ASSUME ChainAssumption ==
  /\ Source \in [Tx -> Address]
  /\ Dest \in [Tx -> SUBSET Address]
ASSUME WorkerAssumption == NoWorker \notin Worker
ASSUME BoundAssumption == MaxSends \in Nat /\ MaxTrouble \in Nat

Touches(t) == {Source[t]} \union Dest[t]
AddressesOf(T) == UNION {Touches(t) : t \in T}

VARIABLES
  tracked,    \* table tracked_addresses
  stored,     \* table transactions
  queue,      \* the worker channel
  open,       \* some Sender of the channel is alive
  receiver,   \* the worker that holds the receiver's mutex
  pc,         \* where each worker is
  batch,      \* the signatures a worker processes
  snapshot,   \* tracked addresses as the worker read them
  relevant,   \* fetched transactions that touch the snapshot
  register,   \* addresses it has still to register
  requested,  \* history: addresses clients asked to track
  refused,    \* history: addresses whose removal failed
  sends, trouble

db == <<tracked, stored>>
work == <<batch, snapshot, relevant, register>>
history == <<requested, refused>>
vars == <<tracked, stored, queue, open, receiver, pc, batch, snapshot,
          relevant, register, requested, refused, sends, trouble>>

Nothing == [w \in Worker |-> {}]

Init ==
  /\ tracked = {}
  /\ stored = {}
  /\ queue = <<>>
  /\ open = TRUE
  /\ receiver = NoWorker
  /\ pc = [w \in Worker |-> "lock"]
  /\ batch = Nothing
  /\ snapshot = Nothing
  /\ relevant = Nothing
  /\ register = Nothing
  /\ requested = {}
  /\ refused = {}
  /\ sends = 0
  /\ trouble = 0

Goto(w, label) == pc' = [pc EXCEPT ![w] = label]
Trouble == trouble < MaxTrouble /\ trouble' = trouble + 1
NoTrouble == UNCHANGED trouble

-----------------------------------------------------------------------------
(* The /track handler and the batching side of the channel.                *)

TrackAdd(a) ==
  /\ tracked' = tracked \union {a}
  /\ requested' = requested \union {a}
  /\ UNCHANGED <<stored, queue, open, receiver, pc, work, refused, sends, trouble>>

(* Mutant of TrackRemove: foreign keys are not enforced. *)
TrackRemoveAnyway(a) ==
  /\ Trouble
  /\ tracked' = tracked \ {a}
  /\ UNCHANGED <<stored, queue, open, receiver, pc, work, history, sends>>

(* DELETE FROM tracked_addresses: refused by the foreign keys as soon as a *)
(* stored transaction names the address.                                   *)
TrackRemove(a) ==
  /\ IF a \in AddressesOf(stored)
     THEN refused' = refused \union {a} /\ UNCHANGED tracked /\ NoTrouble
     ELSE tracked' = tracked \ {a} /\ UNCHANGED refused /\ Trouble
  /\ UNCHANGED <<stored, queue, open, receiver, pc, work, requested, sends>>

SendBatch(S) ==
  /\ open
  /\ S # {}
  /\ sends < MaxSends
  /\ sends' = sends + 1
  /\ queue' = Append(queue, S)
  /\ UNCHANGED <<db, open, receiver, pc, work, history, trouble>>

(* start_polling and its tasks have returned: the last Sender is dropped. *)
DropSenders ==
  /\ open
  /\ open' = FALSE
  /\ UNCHANGED <<db, queue, receiver, pc, work, history, sends, trouble>>

-----------------------------------------------------------------------------
(* Worker::run                                                             *)

LockReceiver(w) ==
  /\ pc[w] = "lock"
  /\ receiver = NoWorker
  /\ receiver' = w
  /\ Goto(w, "recv")
  /\ UNCHANGED <<db, queue, open, work, history, sends, trouble>>

(* Mutant of Receive: the guard lives on while the batch is processed. *)
ReceiveHolding(w) ==
  /\ pc[w] = "recv"
  /\ queue # <<>>
  /\ batch' = [batch EXCEPT ![w] = Head(queue)]
  /\ queue' = Tail(queue)
  /\ Goto(w, "snapshot")
  /\ UNCHANGED <<db, open, receiver, snapshot, relevant, register, history, sends, trouble>>

Receive(w) ==
  /\ pc[w] = "recv"
  /\ queue # <<>>
  /\ batch' = [batch EXCEPT ![w] = Head(queue)]
  /\ queue' = Tail(queue)
  /\ receiver' = NoWorker
  /\ Goto(w, "snapshot")
  /\ UNCHANGED <<db, open, snapshot, relevant, register, history, sends, trouble>>

(* Mutants of ReceiveNone: the worker leaves as soon as the channel is     *)
(* closed; it leaves with the receiver locked.                             *)
ReceiveNoneEarly(w) ==
  /\ pc[w] = "recv"
  /\ ~open
  /\ receiver' = NoWorker
  /\ Goto(w, "exited")
  /\ UNCHANGED <<db, queue, open, work, history, sends, trouble>>
ReceiveNoneLocked(w) ==
  /\ pc[w] = "recv"
  /\ queue = <<>>
  /\ ~open
  /\ Goto(w, "exited")
  /\ UNCHANGED <<db, queue, open, receiver, work, history, sends, trouble>>

(* recv() yields None only when the channel is closed and drained. *)
ReceiveNone(w) ==
  /\ pc[w] = "recv"
  /\ queue = <<>>
  /\ ~open
  /\ receiver' = NoWorker
  /\ Goto(w, "exited")
  /\ UNCHANGED <<db, queue, open, work, history, sends, trouble>>

-----------------------------------------------------------------------------
(* process_batch and process_transaction_batch                             *)

Done(w) ==
  /\ batch' = [batch EXCEPT ![w] = {}]
  /\ snapshot' = [snapshot EXCEPT ![w] = {}]
  /\ relevant' = [relevant EXCEPT ![w] = {}]
  /\ register' = [register EXCEPT ![w] = {}]
  /\ Goto(w, "lock")

Snapshot(w) ==
  /\ pc[w] = "snapshot"
  /\ snapshot' = [snapshot EXCEPT ![w] = tracked]
  /\ Goto(w, "fetch")
  /\ UNCHANGED <<db, queue, open, receiver, batch, relevant, register, history, sends, trouble>>

(* The query fails: the error is logged and the batch dropped. *)
SnapshotFails(w) ==
  /\ pc[w] = "snapshot"
  /\ Trouble
  /\ Done(w)
  /\ UNCHANGED <<db, queue, open, receiver, history, sends>>

(* Mutants of Fetch: every fetched transaction counts as relevant; only    *)
(* source addresses are to be registered.                                  *)
FetchAll(w, failed) ==
  LET found == batch[w] \ failed
  IN /\ pc[w] = "fetch"
     /\ failed \subseteq batch[w]
     /\ IF failed = {} THEN NoTrouble ELSE Trouble
     /\ IF found = {}
        THEN Done(w)
        ELSE /\ relevant' = [relevant EXCEPT ![w] = found]
             /\ register' = [register EXCEPT ![w] = AddressesOf(found)]
             /\ Goto(w, "store")
             /\ UNCHANGED <<batch, snapshot>>
     /\ UNCHANGED <<db, queue, open, receiver, history, sends>>
FetchSources(w, failed) ==
  LET found == {t \in batch[w] \ failed : Touches(t) \intersect snapshot[w] # {}}
  IN /\ pc[w] = "fetch"
     /\ failed \subseteq batch[w]
     /\ IF failed = {} THEN NoTrouble ELSE Trouble
     /\ IF found = {}
        THEN Done(w)
        ELSE /\ relevant' = [relevant EXCEPT ![w] = found]
             /\ register' = [register EXCEPT ![w] = {Source[t] : t \in found}]
             /\ Goto(w, "store")
             /\ UNCHANGED <<batch, snapshot>>
     /\ UNCHANGED <<db, queue, open, receiver, history, sends>>

(* get_transaction for every signature of the batch, in which the ones in  *)
(* "failed" are skipped; is_transaction_relevant against the snapshot.     *)
Fetch(w, failed) ==
  LET found == {t \in batch[w] \ failed : Touches(t) \intersect snapshot[w] # {}}
  IN /\ pc[w] = "fetch"
     /\ failed \subseteq batch[w]
     /\ IF failed = {} THEN NoTrouble ELSE Trouble
     /\ IF found = {}
        THEN Done(w)
        ELSE /\ relevant' = [relevant EXCEPT ![w] = found]
             /\ register' = [register EXCEPT ![w] = AddressesOf(found)]
             /\ Goto(w, "store")
             /\ UNCHANGED <<batch, snapshot>>
     /\ UNCHANGED <<db, queue, open, receiver, history, sends>>

(* add_address for one end of a relevant transaction. *)
Register(w, a) ==
  /\ pc[w] = "store"
  /\ a \in register[w]
  /\ register' = [register EXCEPT ![w] = @ \ {a}]
  /\ tracked' = tracked \union {a}
  /\ UNCHANGED <<stored, queue, open, receiver, pc, batch, snapshot, relevant, history, sends, trouble>>

(* A registration fails: logged, and the loop goes on. *)
RegisterFails(w, a) ==
  /\ pc[w] = "store"
  /\ a \in register[w]
  /\ Trouble
  /\ register' = [register EXCEPT ![w] = @ \ {a}]
  /\ UNCHANGED <<db, queue, open, receiver, pc, batch, snapshot, relevant, history, sends>>

(* add_transactions: one database transaction.  Rows that exist are left   *)
(* alone; one row that violates a foreign key rolls all of them back.      *)
Insert(w) ==
  /\ pc[w] = "store"
  /\ register[w] = {}
  /\ stored' = IF AddressesOf(relevant[w] \ stored) \subseteq tracked
               THEN stored \union relevant[w]
               ELSE stored
  /\ Done(w)
  /\ UNCHANGED <<tracked, queue, open, receiver, history, sends, trouble>>

InsertFails(w) ==
  /\ pc[w] = "store"
  /\ register[w] = {}
  /\ Trouble
  /\ Done(w)
  /\ UNCHANGED <<db, queue, open, receiver, history, sends>>

-----------------------------------------------------------------------------
(* Mutant of Restart: the migrations recreate the tables. *)
RestartRecreating ==
  /\ Trouble
  /\ tracked' = {} /\ stored' = {}
  /\ queue' = <<>>
  /\ open' = TRUE
  /\ receiver' = NoWorker
  /\ pc' = [w \in Worker |-> "lock"]
  /\ batch' = Nothing
  /\ snapshot' = Nothing
  /\ relevant' = Nothing
  /\ register' = Nothing
  /\ UNCHANGED <<history, sends>>

(* The process dies and is started again: the tables are all that is left. *)
Restart ==
  /\ Trouble
  /\ queue' = <<>>
  /\ open' = TRUE
  /\ receiver' = NoWorker
  /\ pc' = [w \in Worker |-> "lock"]
  /\ batch' = Nothing
  /\ snapshot' = Nothing
  /\ relevant' = Nothing
  /\ register' = Nothing
  /\ UNCHANGED <<db, history, sends>>

WorkerStep(w) ==
  \/ LockReceiver(w)
  \/ Receive(w)
  \/ ReceiveNone(w)
  \/ Snapshot(w)
  \/ SnapshotFails(w)
  \/ \E failed \in SUBSET Tx : Fetch(w, failed)
  \/ \E a \in Address : Register(w, a)
  \/ \E a \in Address : RegisterFails(w, a)
  \/ Insert(w)
  \/ InsertFails(w)

Next ==
  \/ \E a \in Address : TrackAdd(a)
  \/ \E a \in Address : TrackRemove(a)
  \/ \E S \in SUBSET Tx : SendBatch(S)
  \/ DropSenders
  \/ \E w \in Worker : WorkerStep(w)
  \/ Restart

(* Workers are tasks of a fair scheduler and every await in a batch ends:  *)
(* requests have timeouts and bounded retries, statements a busy timeout.  *)
Fairness == \A w \in Worker : WF_vars(WorkerStep(w))

SafeSpec == Init /\ [][Next]_vars
Spec == SafeSpec /\ Fairness

-----------------------------------------------------------------------------
(* Correctness.                                                            *)

TypeOK ==
  /\ tracked \in SUBSET Address
  /\ stored \in SUBSET Tx
  /\ queue \in Seq(SUBSET Tx)
  /\ open \in BOOLEAN
  /\ receiver \in Worker \union {NoWorker}
  /\ pc \in [Worker -> {"lock", "recv", "snapshot", "fetch", "store", "exited"}]
  /\ \A w \in Worker : receiver = w <=> pc[w] = "recv"
  /\ batch \in [Worker -> SUBSET Tx]
  /\ snapshot \in [Worker -> SUBSET Address]
  /\ relevant \in [Worker -> SUBSET Tx]
  /\ register \in [Worker -> SUBSET Address]
  /\ requested \in SUBSET Address
  /\ refused \in SUBSET Address
  /\ sends \in 0 .. MaxSends
  /\ trouble \in 0 .. MaxTrouble

(* Every stored transaction can be queried by both of its addresses: they  *)
(* stay tracked whatever is removed, or fails, between registration and    *)
(* insertion.                                                              *)
StoredIsTracked == AddressesOf(stored) \subseteq tracked

(* The workers track counterparties on their own, but only counterparties: *)
(* whatever is tracked is linked by transactions to an address a client    *)
(* asked for.  In every set that has those and is closed under links.      *)
ClosedUnderLinks(C) ==
  \A t \in Tx : Touches(t) \intersect C # {} => Touches(t) \subseteq C

TrackedIsLinked ==
  \A C \in SUBSET Address :
    requested \subseteq C /\ ClosedUnderLinks(C) => tracked \subseteq C

(* The pool exits only with the channel closed and drained: no batch that  *)
(* was sent is left behind by a shutdown in which workers come to their end*)
(* one by one.                                                             *)
NoBatchLeftBehind ==
  (\E w \in Worker : pc[w] = "exited") => queue = <<>> /\ ~open

(* A removal that was refused is refused for good: the address stays       *)
(* tracked, whatever is asked, stored or restarted later, because nothing  *)
(* ever deletes a stored transaction.                                      *)
RefusedForGood == refused \subseteq tracked

(* What the two tables promise (Ledger.tla) is kept by every statement of  *)
(* every worker, handler and restart, in whatever order they interleave.   *)
Table == INSTANCE Ledger WITH Ends <- [t \in Tx |-> Touches(t)]

ImplementsLedger == Table!Spec

(* Once the last Sender is gone every worker exits, each waiting for the   *)
(* receiver another one holds, unless the process restarts.                *)
WorkersExit == ~open ~> (\A w \in Worker : pc[w] = "exited") \/ open

(* With no failure, removal or crash to come, a queued transaction of a    *)
(* tracked source is stored in the end, whatever the workers interleave.   *)
Calm == trouble = MaxTrouble

QueuedIsStored ==
  \A t \in Tx :
    /\ Calm
    /\ Source[t] \in tracked
    /\ \E i \in DOMAIN queue : t \in queue[i]
    ~> t \in stored

(* What it takes to lose a queued transaction: from any moment at which a   *)
(* worker registers nothing, and as long as nothing fails, is removed or   *)
(* crashes, each batch the worker ends is stored whole, the transactions   *)
(* that touch its snapshot, whatever the other workers and requests do.    *)
ToStore(w) == {t \in batch[w] : Touches(t) \intersect snapshot[w] # {}}

StoresItsBatch(w) ==
  pc[w] \in {"fetch", "store"} /\ pc'[w] = "lock" => ToStore(w) \subseteq stored'

CalmBatchesAreStored ==
  \A w \in Worker, n \in 0 .. MaxTrouble :
    [](pc[w] # "store" /\ trouble = n
         => [][trouble' = n => StoresItsBatch(w)]_vars)

(* "Continue with other addresses rather than failing completely"          *)
(* (processor.rs:78): when a registration failed, the transactions whose   *)
(* addresses are all registered are stored nevertheless.  The insert of    *)
(* the whole batch is rolled back.                                         *)
OthersAreStored ==
  [][\A w \in Worker :
       pc[w] = "store" /\ pc'[w] = "lock" /\ trouble' = trouble
         => {t \in relevant[w] : Touches(t) \subseteq tracked} \subseteq stored']_vars

(* A worker goes through a batch without turning back: each step leaves    *)
(* one address less to register, begins the next stage or ends the batch,  *)
(* whatever failed; and only a batch fewer in the channel begins another.  *)
Onward(w) ==
  \/ pc'[w] = "lock"
  \/ <<pc[w], pc'[w]>> \in {<<"lock", "recv">>, <<"snapshot", "fetch">>,
                           <<"fetch", "store">>, <<"recv", "exited">>}
  \/ pc[w] = "recv" /\ pc'[w] = "snapshot" /\ Len(queue') < Len(queue)
  \/ /\ pc[w] = "store" /\ pc'[w] = "store"
     /\ register'[w] \subseteq register[w] /\ register'[w] # register[w]

BatchesAdvance ==
  [][\A w \in Worker : ~UNCHANGED <<pc[w], register[w]>> => Onward(w)]_vars

=============================================================================
