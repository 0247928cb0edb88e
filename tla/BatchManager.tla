---------------------------- MODULE BatchManager ----------------------------
(***************************************************************************)
(* src/blockchain/batch_manager.rs: the buffer that collects transactions  *)
(* per source address and hands them in batches to the worker channel.     *)
(*                                                                         *)
(* Tasks.  Callers run add_transaction and force_flush; Manager runs       *)
(* start(), the timer loop with its final check on cancellation.  All of   *)
(* them share the TransactionBuffer behind one mutex.  No critical section *)
(* of that mutex awaits, so "lock, change, unlock" is one action, and the  *)
(* send that follows, outside the lock, is another.                        *)
(*                                                                         *)
(* Abstractions.  A Delivery stands for one add_transaction call.  The     *)
(* order inside a batch (HashMap::drain) is arbitrary, so a batch is a     *)
(* set.  Time is the flag due: last_flush lies at least flush_interval     *)
(* back; Elapse raises it at any moment, a collection resets it.           *)
(***************************************************************************)
EXTENDS Naturals, Sequences, FiniteSets

CONSTANTS Delivery,         \* one per call of add_transaction
          Address,          \* source addresses, the keys of the buffer
          Source,           \* the source address of each delivery
          Caller,           \* tasks that call add_transaction, force_flush
          Manager,          \* the task that runs BatchManager::start
          MaxBatchSize,     \* BatchConfig.max_batch_size
          ChannelCapacity   \* the bound of the worker channel

ASSUME SourceAssumption == Source \in [Delivery -> Address]
ASSUME TaskAssumption == Manager \notin Caller
ASSUME SizeAssumption == MaxBatchSize \in Nat \ {0}
ASSUME CapacityAssumption == ChannelCapacity \in Nat \ {0}

Task == Caller \union {Manager}

VARIABLES
  pending,    \* TransactionBuffer.pending: Address -> transactions
  totalSize,  \* TransactionBuffer.total_size
  due,        \* last_flush.elapsed() >= flush_interval
  hand,       \* the batch a task has collected and not yet sent
  pc,         \* where each task is
  channel,    \* the bounded worker channel: a queue of batches
  rxOpen,     \* some worker still holds the receiver
  cancelled,  \* the shutdown CancellationToken
  offered,    \* history: every delivery add_transaction was called with
  taken,      \* history: deliveries a worker received
  lost        \* history: deliveries that went down with a failed send

buffer == <<pending, totalSize, due>>
history == <<offered, taken, lost>>
vars == <<pending, totalSize, due, hand, pc, channel, rxOpen, cancelled,
          offered, taken, lost>>

-----------------------------------------------------------------------------
(* The places a delivery can be in.                                        *)

Buffered == UNION {pending[a] : a \in Address}
InHand == UNION {hand[t] : t \in Task}
InChannel == UNION {channel[i] : i \in DOMAIN channel}

EmptyPending == [a \in Address |-> {}]

Init ==
  /\ pending = EmptyPending
  /\ totalSize = 0
  /\ due = FALSE
  /\ hand = [t \in Task |-> {}]
  /\ pc = [t \in Task |-> IF t = Manager THEN "new" ELSE "idle"]
  /\ channel = <<>>
  /\ rxOpen = TRUE
  /\ cancelled = FALSE
  /\ offered = {}
  /\ taken = {}
  /\ lost = {}

-----------------------------------------------------------------------------
(* The critical sections on the buffer.                                    *)

(* Mutants of ShouldFlush: the size test off by one, the age test missing. *)
ShouldFlushLate(size) == size > MaxBatchSize \/ due
ShouldFlushOnSize(size) == size >= MaxBatchSize

ShouldFlush(size) == size >= MaxBatchSize \/ due

(* Mutants of Collect: total_size is not reset; the map is copied, not     *)
(* drained.                                                                *)
CollectKeepsSize(t, b) ==
  /\ hand' = [hand EXCEPT ![t] = UNION {b[a] : a \in Address}]
  /\ pending' = EmptyPending
  /\ due' = FALSE
  /\ UNCHANGED totalSize
CollectCopies(t, b) ==
  /\ hand' = [hand EXCEPT ![t] = UNION {b[a] : a \in Address}]
  /\ pending' = b
  /\ totalSize' = 0
  /\ due' = FALSE

(* collect_transactions_for_flush, called with the buffer contents b: task *)
(* t leaves the critical section with everything, to send it next.         *)
Collect(t, b) ==
  /\ hand' = [hand EXCEPT ![t] = UNION {b[a] : a \in Address}]
  /\ pending' = EmptyPending
  /\ totalSize' = 0
  /\ due' = FALSE

Goto(t, label) == pc' = [pc EXCEPT ![t] = label]

(* Mutant of AddTransaction: the batch is collected before the push. *)
AddAfterCollect(c, d) ==
  /\ pc[c] = "idle"
  /\ d \notin offered
  /\ offered' = offered \union {d}
  /\ LET added == [pending EXCEPT ![Source[d]] = @ \union {d}]
     IN \/ /\ ShouldFlush(totalSize + 1)
           /\ Collect(c, pending)
           /\ Goto(c, "sending")
        \/ /\ ~ShouldFlush(totalSize + 1)
           /\ pending' = added
           /\ totalSize' = totalSize + 1
           /\ UNCHANGED <<due, hand, pc>>
  /\ UNCHANGED <<channel, rxOpen, cancelled, taken, lost>>

AddTransaction(c, d) ==
  /\ pc[c] = "idle"
  /\ d \notin offered
  /\ offered' = offered \union {d}
  /\ LET added == [pending EXCEPT ![Source[d]] = @ \union {d}]
     IN \/ /\ ShouldFlush(totalSize + 1)
           /\ Collect(c, added)
           /\ Goto(c, "sending")
        \/ /\ ~ShouldFlush(totalSize + 1)
           /\ pending' = added
           /\ totalSize' = totalSize + 1
           /\ UNCHANGED <<due, hand, pc>>
  /\ UNCHANGED <<channel, rxOpen, cancelled, taken, lost>>

(* force_flush collects unconditionally, which also restarts the interval  *)
(* of an empty buffer.                                                     *)
ForceFlush(c) ==
  /\ pc[c] = "idle"
  /\ Collect(c, pending)
  /\ IF Buffered = {} THEN UNCHANGED pc ELSE Goto(c, "sending")
  /\ UNCHANGED <<channel, rxOpen, cancelled, history>>

(* perform_flush_check by the manager: it goes to "send" with a batch when *)
(* one is due, and straight to "skip" otherwise.                           *)
FlushCheck(send, skip) ==
  /\ \/ /\ totalSize # 0
        /\ ShouldFlush(totalSize)
        /\ Collect(Manager, pending)
        /\ Goto(Manager, send)
     \/ /\ totalSize = 0 \/ ~ShouldFlush(totalSize)
        /\ Goto(Manager, skip)
        /\ UNCHANGED <<buffer, hand>>
  /\ UNCHANGED <<channel, rxOpen, cancelled, history>>

(* start(): the check on startup, one per timer tick, one on cancellation. *)
Startup == pc[Manager] = "new" /\ FlushCheck("sending", "loop")
Tick == pc[Manager] = "loop" /\ FlushCheck("sending", "loop")

(* Mutant of Final: the cancelled branch does not leave the loop. *)
FinalContinues ==
  pc[Manager] = "loop" /\ cancelled /\ FlushCheck("sending", "loop")

Final == pc[Manager] = "loop" /\ cancelled /\ FlushCheck("lastSend", "done")

-----------------------------------------------------------------------------
(* send_transactions_to_worker: the send outside the lock.                 *)

Sending(t) == pc[t] \in {"sending", "lastSend"}

(* Where a task goes once its send has returned. *)
Resume(t) ==
  Goto(t, IF t # Manager THEN "idle"
          ELSE IF pc[t] = "lastSend" THEN "done" ELSE "loop")

(* Mutant of HasRoom: one batch too many. *)
HasRoomForOneMore == Len(channel) <= ChannelCapacity

HasRoom == Len(channel) < ChannelCapacity

Send(t) ==
  /\ Sending(t)
  /\ rxOpen
  /\ HasRoom
  /\ channel' = Append(channel, hand[t])
  /\ hand' = [hand EXCEPT ![t] = {}]
  /\ Resume(t)
  /\ UNCHANGED <<buffer, rxOpen, cancelled, history>>

(* Mutant of SendFails: try_send, which also gives up on a full channel. *)
TrySendFails(t) ==
  /\ Sending(t)
  /\ ~rxOpen \/ ~HasRoom
  /\ lost' = lost \union hand[t]
  /\ hand' = [hand EXCEPT ![t] = {}]
  /\ Resume(t)
  /\ UNCHANGED <<buffer, channel, rxOpen, cancelled, offered, taken>>

(* The receiver is gone: the error is logged and the batch dropped. *)
SendFails(t) ==
  /\ Sending(t)
  /\ ~rxOpen
  /\ lost' = lost \union hand[t]
  /\ hand' = [hand EXCEPT ![t] = {}]
  /\ Resume(t)
  /\ UNCHANGED <<buffer, channel, rxOpen, cancelled, offered, taken>>

-----------------------------------------------------------------------------
(* The environment: time, the shutdown token, the workers.                 *)

Elapse ==
  /\ ~due
  /\ due' = TRUE
  /\ UNCHANGED <<pending, totalSize, hand, pc, channel, rxOpen, cancelled,
                 history>>

Cancel ==
  /\ ~cancelled
  /\ cancelled' = TRUE
  /\ UNCHANGED <<buffer, hand, pc, channel, rxOpen, history>>

(* A worker receives the batch at the head of the channel. *)
Recv ==
  /\ channel # <<>>
  /\ taken' = taken \union Head(channel)
  /\ channel' = Tail(channel)
  /\ UNCHANGED <<buffer, hand, pc, rxOpen, cancelled, offered, lost>>

(* The last worker is gone: the receiver is dropped with what it held. *)
CloseReceiver ==
  /\ rxOpen
  /\ rxOpen' = FALSE
  /\ lost' = lost \union InChannel
  /\ channel' = <<>>
  /\ UNCHANGED <<buffer, hand, pc, cancelled, offered, taken>>

Next ==
  \/ \E c \in Caller, d \in Delivery : AddTransaction(c, d)
  \/ \E c \in Caller : ForceFlush(c)
  \/ Startup
  \/ Tick
  \/ Final
  \/ \E t \in Task : Send(t)
  \/ \E t \in Task : SendFails(t)
  \/ Elapse
  \/ Cancel
  \/ Recv
  \/ CloseReceiver

(* Time passes, the timer keeps ticking, workers keep receiving.  Strong   *)
(* fairness where the scheduler justifies it: select! picks at random      *)
(* among ready branches, so a cancelled token is seen in the end, and the  *)
(* channel's permits are handed out first come first served.  Nothing      *)
(* makes a caller call, a shutdown happen or a receiver close.             *)
Fairness ==
  /\ WF_vars(Elapse)
  /\ WF_vars(Startup)
  /\ WF_vars(Tick)
  /\ SF_vars(Final)
  /\ WF_vars(Recv)
  /\ \A t \in Task : SF_vars(Send(t)) /\ WF_vars(SendFails(t))

SafeSpec == Init /\ [][Next]_vars
Spec == SafeSpec /\ Fairness

-----------------------------------------------------------------------------
(* Correctness.                                                            *)

TypeOK ==
  /\ pending \in [Address -> SUBSET Delivery]
  /\ totalSize \in Nat
  /\ due \in BOOLEAN
  /\ hand \in [Task -> SUBSET Delivery]
  /\ pc \in [Task -> {"idle", "new", "loop", "sending", "lastSend", "done"}]
  /\ \A c \in Caller : pc[c] \in {"idle", "sending"}
  /\ pc[Manager] # "idle"
  /\ channel \in Seq(SUBSET Delivery)
  /\ Len(channel) <= ChannelCapacity
  /\ rxOpen \in BOOLEAN
  /\ cancelled \in BOOLEAN
  /\ offered \in SUBSET Delivery
  /\ taken \in SUBSET Delivery
  /\ lost \in SUBSET Delivery

(* total_size, which alone decides whether there is anything to flush, is  *)
(* the number of buffered transactions, and the buffer never reaches the   *)
(* batch size between two critical sections.                               *)
SizeIsExact ==
  /\ totalSize = Cardinality(Buffered)
  /\ totalSize < MaxBatchSize

(* A task has a batch in hand exactly while it is sending it; a batch is   *)
(* never empty and never larger than max_batch_size, in a task's hand or   *)
(* in the channel, however calls interleave.                               *)
GoodBatch(B) == B # {} /\ Cardinality(B) <= MaxBatchSize

BatchesBounded ==
  /\ \A t \in Task : IF Sending(t) THEN GoodBatch(hand[t]) ELSE hand[t] = {}
  /\ \A i \in DOMAIN channel : GoodBatch(channel[i])

(* Every transaction handed to add_transaction is in the buffer, in one    *)
(* task's hand, in one batch of the channel, taken, or lost: nothing       *)
(* vanishes between the critical section and the send.                     *)
NothingVanishes ==
  offered = Buffered \union InHand \union InChannel \union taken \union lost

(* No transaction is in two batches, nor in a batch and in the buffer, nor *)
(* delivered and lost: two flushes that race never both take it.           *)
NoDuplicates ==
  /\ \A a, b \in Address : a # b => pending[a] \intersect pending[b] = {}
  /\ \A t, u \in Task : t # u => hand[t] \intersect hand[u] = {}
  /\ \A i, j \in DOMAIN channel : i # j => channel[i] \intersect channel[j] = {}
  /\ Buffered \intersect (InHand \union InChannel \union taken \union lost) = {}
  /\ InHand \intersect (InChannel \union taken \union lost) = {}
  /\ InChannel \intersect (taken \union lost) = {}
  /\ taken \intersect lost = {}

(* The layer keeps the promise of HandOver.tla: what is accepted is held   *)
(* until it is queued or the receiver is gone.                             *)
Abstract == INSTANCE HandOver
              WITH held <- Buffered \union InHand,
                   queued <- InChannel,
                   open <- rxOpen

ImplementsHandOver == Abstract!Spec

(* As long as the service is not shutting down, no transaction stays in    *)
(* the buffer or in a task's hand for ever: the timer flushes it, and the  *)
(* send returns.                                                           *)
EventuallyHandedOver ==
  \A d \in Delivery :
    d \in Buffered \union InHand
      ~> d \in InChannel \union taken \union lost \/ cancelled

(* Once shutdown is signalled the manager's loop ends, even against a full *)
(* channel.                                                                *)
ManagerStops == cancelled ~> pc[Manager] = "done"

(* "BatchManager shutting down, performing final flush" (line 143): the    *)
(* last act of the manager leaves the buffer empty.  The code performs     *)
(* the same conditional check as on a tick.                                *)
FinalFlushDrains ==
  [][pc[Manager] = "loop" /\ pc'[Manager] \in {"lastSend", "done"}
       => totalSize' = 0]_vars

=============================================================================
