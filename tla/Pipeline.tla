------------------------------ MODULE Pipeline ------------------------------
(***************************************************************************)
(* src/blockchain/polling.rs: the tasks start_polling runs around one      *)
(* BatchManager.  The two pollers (new slots, history) and the background  *)
(* task that runs BatchManager::start share the manager behind a second,   *)
(* outer mutex.  A poller takes it for one add_transaction, send included; *)
(* the background task takes it once and keeps it for all of start().      *)
(*                                                                         *)
(* The actions below are those of BatchManager.tla with the outer lock     *)
(* around them.  tokio's Mutex is granted in the order of the requests.    *)
(* force_flush has no caller here, and start_polling owns a sender and the *)
(* workers for as long as these tasks run, so no send can fail.            *)
(***************************************************************************)
EXTENDS BatchManager

CONSTANTS ChunkSize,    \* signatures fetched together: chunks(10)
          NoTask        \* the lock is free

ASSUME ChunkAssumption == ChunkSize \in Nat \ {0}
ASSUME NoTaskAssumption == NoTask \notin Task

Poller == Caller

VARIABLES
  at,       \* where each task is with respect to the outer lock
  holder,   \* the task that holds the outer lock
  waiting,  \* tasks that wait for it, first come first served
  todo      \* transactions a poller has fetched and not yet added

inner == <<pending, totalSize, due, hand, pc, channel, rxOpen, cancelled,
           offered, taken, lost>>
pvars == <<pending, totalSize, due, hand, pc, channel, rxOpen, cancelled,
           offered, taken, lost, at, holder, waiting, todo>>

Fetched == offered \union UNION {todo[p] : p \in Poller}

PipelineInit ==
  /\ Init
  /\ at = [t \in Task |-> IF t = Manager THEN "wants" ELSE "select"]
  /\ holder = NoTask
  /\ waiting = <<>>
  /\ todo = [p \in Poller |-> {}]

Move(t, place) == at' = [at EXCEPT ![t] = place]

-----------------------------------------------------------------------------
(* The outer lock.                                                         *)

(* Mutant of Request: the background task only tries the lock, and ends if *)
(* a poller holds it.                                                      *)
RequestOrGiveUp(t) ==
  /\ at[t] = "wants"
  /\ IF t = Manager /\ holder # NoTask
     THEN Move(t, "stopped") /\ UNCHANGED waiting
     ELSE Move(t, "waits") /\ waiting' = Append(waiting, t)
  /\ UNCHANGED <<inner, holder, todo>>

Request(t) ==
  /\ at[t] = "wants"
  /\ Move(t, "waits")
  /\ waiting' = Append(waiting, t)
  /\ UNCHANGED <<inner, holder, todo>>

Grant ==
  /\ holder = NoTask
  /\ waiting # <<>>
  /\ holder' = Head(waiting)
  /\ waiting' = Tail(waiting)
  /\ Move(Head(waiting), "holds")
  /\ UNCHANGED <<inner, todo>>

-----------------------------------------------------------------------------
(* A poller: the select loop, the polls with their chunks, the additions.  *)

(* A tick of the interval: a poll begins. *)
PollTick(p) ==
  /\ at[p] = "select"
  /\ Move(p, "polls")
  /\ UNCHANGED <<inner, holder, waiting, todo>>

(* join_all on one chunk of signatures: those that could be fetched and    *)
(* extracted are to be added.                                              *)
FetchChunk(p, S) ==
  /\ at[p] = "polls"
  /\ S \intersect Fetched = {}
  /\ S # {} /\ Cardinality(S) <= ChunkSize
  /\ todo' = [todo EXCEPT ![p] = S]
  /\ Move(p, "wants")
  /\ UNCHANGED <<inner, holder, waiting>>

(* Mutant of LockedAdd: only the first transaction of a chunk is added. *)
LockedAddFirst(p) ==
  /\ at[p] = "holds"
  /\ \E d \in todo[p] : AddTransaction(p, d)
  /\ todo' = [todo EXCEPT ![p] = {}]
  /\ Move(p, "added")
  /\ UNCHANGED <<holder, waiting>>

(* add_transaction for one of them, under the lock. *)
LockedAdd(p) ==
  /\ at[p] = "holds"
  /\ \E d \in todo[p] :
       /\ AddTransaction(p, d)
       /\ todo' = [todo EXCEPT ![p] = @ \ {d}]
  /\ Move(p, "added")
  /\ UNCHANGED <<holder, waiting>>

(* Mutant of Release: the guard is dropped before the send. *)
ReleaseEarly(p) ==
  /\ at[p] = "added"
  /\ holder' = NoTask
  /\ Move(p, IF todo[p] = {} THEN "polls" ELSE "wants")
  /\ UNCHANGED <<inner, waiting, todo>>

(* The guard is dropped once add_transaction, with its send, has returned. *)
Release(p) ==
  /\ at[p] = "added"
  /\ pc[p] = "idle"
  /\ holder' = NoTask
  /\ Move(p, IF todo[p] = {} THEN "polls" ELSE "wants")
  /\ UNCHANGED <<inner, waiting, todo>>

(* No chunk is left. *)
PollEnds(p) ==
  /\ at[p] = "polls"
  /\ Move(p, "select")
  /\ UNCHANGED <<inner, holder, waiting, todo>>

(* Mutant of Stop: the poll is raced against the token and dropped. *)
StopAnywhere(p) ==
  /\ at[p] \in {"select", "polls", "wants"}
  /\ cancelled
  /\ Move(p, "stopped")
  /\ UNCHANGED <<inner, holder, waiting, todo>>

(* The cancelled branch of the select. *)
Stop(p) ==
  /\ at[p] = "select"
  /\ cancelled
  /\ Move(p, "stopped")
  /\ UNCHANGED <<inner, holder, waiting, todo>>

-----------------------------------------------------------------------------
(* The background task: lock, start() to its end, unlock.                  *)

Locked(A) == at[Manager] = "holds" /\ A /\ UNCHANGED <<at, holder, waiting, todo>>

(* Mutant of ManagerReturns: the guard is never dropped. *)
ManagerKeepsLock ==
  /\ at[Manager] = "holds"
  /\ pc[Manager] = "done"
  /\ Move(Manager, "stopped")
  /\ UNCHANGED <<inner, holder, waiting, todo>>

ManagerReturns ==
  /\ at[Manager] = "holds"
  /\ pc[Manager] = "done"
  /\ holder' = NoTask
  /\ Move(Manager, "stopped")
  /\ UNCHANGED <<inner, waiting, todo>>

Inside(A) == A /\ UNCHANGED <<at, holder, waiting, todo>>

(* Everything has returned; only here may the tasks come to a halt. *)
Finished ==
  /\ \A t \in Task : at[t] = "stopped"
  /\ channel = <<>>
  /\ UNCHANGED pvars

PipelineNext ==
  \/ \E t \in Task : Request(t)
  \/ Grant
  \/ \E p \in Poller : PollTick(p)
  \/ \E p \in Poller : \E S \in SUBSET Delivery : FetchChunk(p, S)
  \/ \E p \in Poller : LockedAdd(p)
  \/ \E p \in Poller : Release(p)
  \/ \E p \in Poller : PollEnds(p)
  \/ \E p \in Poller : Stop(p)
  \/ Locked(Startup)
  \/ Locked(Tick)
  \/ Locked(Final)
  \/ ManagerReturns
  \/ \E t \in Task : Inside(Send(t))
  \/ Inside(Elapse)
  \/ Inside(Cancel)
  \/ Inside(Recv)
  \/ Finished

(* Every task that can run does, polls have finitely many chunks, and a    *)
(* cancelled token is seen in the end by each select! (random among ready  *)
(* branches).  A poll need not begin or find anything.                     *)
PipelineFairness ==
  /\ WF_pvars(Grant)
  /\ \A t \in Task : WF_pvars(Request(t)) /\ WF_pvars(Inside(Send(t)))
  /\ \A p \in Poller :
       /\ WF_pvars(LockedAdd(p))
       /\ WF_pvars(Release(p))
       /\ SF_pvars(PollEnds(p))
       /\ SF_pvars(Stop(p))
  /\ WF_pvars(Locked(Startup))
  /\ WF_pvars(Locked(Tick))
  /\ SF_pvars(Locked(Final))
  /\ WF_pvars(ManagerReturns)
  /\ WF_pvars(Inside(Elapse))
  /\ WF_pvars(Inside(Recv))

PipelineSpec ==
  PipelineInit /\ [][PipelineNext]_pvars /\ PipelineFairness

-----------------------------------------------------------------------------
(* Correctness.                                                            *)

PipelineTypeOK ==
  /\ TypeOK
  /\ at \in [Task -> {"select", "polls", "wants", "waits", "holds", "added", "stopped"}]
  /\ holder \in Task \union {NoTask}
  /\ waiting \in Seq(Task)
  /\ todo \in [Poller -> SUBSET Delivery]
  /\ \A t \in Task : holder = t <=> at[t] \in {"holds", "added"}

(* The outer lock spans the send, so at most one batch is on its way to    *)
(* the channel: batches are queued in the order they were collected, which *)
(* the BatchManager alone does not ensure.                                 *)
OneBatchInFlight ==
  \A t, u \in Task : hand[t] # {} /\ hand[u] # {} => t = u

(* Stopping a poller loses nothing: it stops between polls, without        *)
(* fetched transactions, without a batch and out of the lock's queue.  And *)
(* once all tasks have stopped, whatever was accepted, by then or while    *)
(* the manager was already done, is with the workers or in their channel,  *)
(* except for less than one batch in the buffer: that much, and no more,   *)
(* the missing final flush can lose.                                       *)
StopsEmptyHanded ==
  /\ \A p \in Poller :
       at[p] = "stopped" =>
         /\ todo[p] = {}
         /\ hand[p] = {}
         /\ \A i \in DOMAIN waiting : waiting[i] # p
  /\ (\A t \in Task : at[t] = "stopped") =>
       /\ offered = Buffered \union InChannel \union taken
       /\ Cardinality(Buffered) < MaxBatchSize

(* A fetched transaction leaves a poller only by being accepted by the     *)
(* batch manager.                                                          *)
FetchedIsKept ==
  [][\A p \in Poller : todo[p] \ todo'[p] \subseteq offered']_pvars

(* What was accepted gets out: the background task comes to the outer lock *)
(* in the end, however the pollers take turns at it and whether or not one *)
(* of them holds it while the channel is full, and from then on its timer  *)
(* flushes the rest.                                                       *)
AcceptedIsHandedOver ==
  \A d \in Delivery :
    d \in Buffered \union InHand ~> d \in InChannel \union taken \/ cancelled

(* After the shutdown signal both pollers return, so that start_polling    *)
(* does: those that waited for the lock get it when the manager is done,   *)
(* and the channel keeps being drained.                                    *)
PollersStop == cancelled ~> \A p \in Poller : at[p] = "stopped"

(* Taking turns at the outer lock: a task that waits for it is in its      *)
(* queue, and the tasks that come before it only get fewer.  A poller that *)
(* adds one transaction and asks again goes behind all who wait, so a      *)
(* transaction waits for one hold of each of the other tasks at most.      *)
NobodyIsForgotten ==
  \A t \in Task : at[t] = "waits" => \E i \in DOMAIN waiting : waiting[i] = t

Ahead(t) == {u \in Task :
  holder = u \/ \E i, j \in DOMAIN waiting : i < j /\ waiting[i] = u /\ waiting[j] = t}

NobodyOvertakes ==
  [][\A t \in Task : at[t] = "waits" /\ at'[t] = "waits"
       => Ahead(t)' \subseteq Ahead(t)]_pvars

(* "Add each transaction to batch manager, holding the lock only briefly   *)
(* each time" (polling.rs:404): a fetched transaction is accepted in the   *)
(* end.  The background task never releases the lock while it runs.        *)
FetchedIsAccepted ==
  \A d \in Delivery : (\E p \in Poller : d \in todo[p]) ~> d \in offered

=============================================================================
