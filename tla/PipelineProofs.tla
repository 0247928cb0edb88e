--------------------------- MODULE PipelineProofs ---------------------------
(***************************************************************************)
(* Proofs about Pipeline.tla, for every number of pollers, of transactions *)
(* and of addresses, every batch, chunk and channel size.                  *)
(*                                                                         *)
(* What the pipeline does inside the outer lock are steps of BatchManager, *)
(* so its invariant, proved in BatchManagerProofs, is kept; what is new is *)
(* who may take such a step, and that is what LockInv says.                *)
(***************************************************************************)
EXTENDS Pipeline, BatchManagerProofs

Place == {"select", "polls", "wants", "waits", "holds", "added", "stopped"}

(* The variables that Pipeline adds. *)
LockTypeOK ==
  /\ at \in [Task -> Place]
  /\ holder \in Task \union {NoTask}
  /\ waiting \in Seq(Task)
  /\ todo \in [Poller -> SUBSET Delivery]

HolderIsInside ==
  \A t \in Task : holder = t <=> at[t] \in {"holds", "added"}

(* A poller sends only under the lock, between add_transaction and the     *)
(* drop of its guard; the manager leaves "new" only under the lock and     *)
(* gives it back when it is done.                                          *)
SendsInside ==
  /\ \A p \in Poller : pc[p] = "sending" => at[p] = "added"
  /\ pc[Manager] \in {"loop", "sending", "lastSend"} => at[Manager] = "holds"

(* The queue of the lock holds the tasks that wait for it, once each.      *)
QueueIsOfWaiters ==
  /\ \A i \in DOMAIN waiting : at[waiting[i]] = "waits"
  /\ \A i, j \in DOMAIN waiting : waiting[i] = waiting[j] => i = j

(* Between two chunks a poller has nothing left to add.                    *)
EmptyBetweenChunks ==
  \A p \in Poller : at[p] \in {"select", "polls", "stopped"} => todo[p] = {}

LockInv ==
  /\ LockTypeOK
  /\ HolderIsInside
  /\ SendsInside
  /\ QueueIsOfWaiters
  /\ EmptyBetweenChunks

PInv == IInv /\ LockInv

-----------------------------------------------------------------------------
(* The outer lock.                                                         *)

(* The empty queue is a queue.                                             *)
LEMMA EmptyQueue ==
  <<>> \in Seq(Task) /\ DOMAIN <<>> = {}
  OBVIOUS

(* A step that leaves the batch manager alone keeps its invariant.         *)
LEMMA InnerStutter ==
  ASSUME IInv, UNCHANGED inner
  PROVE  IInv'
  BY OutsideStep DEF inner, vars

LEMMA RequestStep ==
  ASSUME PInv, NEW t \in Task, Request(t)
  PROVE  LockInv'
  <1> USE DEF PInv, LockInv
  <1>1. /\ at' = [at EXCEPT ![t] = "waits"] /\ at[t] = "wants"
        /\ waiting' = Append(waiting, t)
        /\ UNCHANGED <<pc, holder, todo>>
    BY DEF Request, Move, inner
  <1>2. /\ at' \in [Task -> Place] /\ at'[t] = "waits"
        /\ \A u \in Task \ {t} : at'[u] = at[u]
    BY <1>1 DEF LockTypeOK, Place
  <1>3. /\ waiting' \in Seq(Task)
        /\ DOMAIN waiting' = DOMAIN waiting \union {Len(waiting) + 1}
        /\ Len(waiting) + 1 \notin DOMAIN waiting
        /\ waiting'[Len(waiting) + 1] = t
        /\ \A i \in DOMAIN waiting : waiting'[i] = waiting[i] /\ waiting[i] \in Task
    BY <1>1 DEF LockTypeOK
  <1>4. LockTypeOK'
    BY <1>1, <1>2, <1>3 DEF LockTypeOK
  <1>5. HolderIsInside'
    BY <1>1, <1>2 DEF HolderIsInside
  <1>6. SendsInside'
    BY <1>1, <1>2 DEF SendsInside, Poller, Task
  <1>7. QueueIsOfWaiters'
    <2>1. \A i \in DOMAIN waiting : waiting[i] # t
      BY <1>1 DEF QueueIsOfWaiters
    <2> QED BY <1>2, <1>3, <2>1 DEF QueueIsOfWaiters
  <1>8. EmptyBetweenChunks'
    BY <1>1, <1>2 DEF EmptyBetweenChunks, Poller, Task
  <1> QED BY <1>4, <1>5, <1>6, <1>7, <1>8

LEMMA GrantStep ==
  ASSUME PInv, Grant
  PROVE  LockInv'
  <1> USE DEF PInv, LockInv
  <1> DEFINE t == Head(waiting)
  <1>1. /\ t \in Task /\ t = waiting[1] /\ 1 \in DOMAIN waiting
        /\ waiting' \in Seq(Task)
        /\ \A i \in DOMAIN waiting' :
             /\ i + 1 \in DOMAIN waiting /\ i \in Nat /\ i + 1 # 1
             /\ waiting'[i] = waiting[i + 1] /\ waiting[i + 1] \in Task
    BY DEF Grant, LockTypeOK
  <1>2. /\ at' = [at EXCEPT ![t] = "holds"] /\ holder = NoTask /\ holder' = t
        /\ UNCHANGED <<pc, todo>>
    BY DEF Grant, Move, inner
  <1> HIDE DEF t
  <1>3. /\ at' \in [Task -> Place] /\ at'[t] = "holds" /\ at[t] = "waits"
        /\ \A u \in Task \ {t} : at'[u] = at[u]
    BY <1>1, <1>2 DEF LockTypeOK, Place, QueueIsOfWaiters
  <1>4. LockTypeOK'
    BY <1>1, <1>2, <1>3 DEF LockTypeOK
  <1>5. HolderIsInside'
    BY <1>1, <1>2, <1>3, NoTaskAssumption DEF HolderIsInside
  <1>6. SendsInside'
    BY <1>1, <1>2, <1>3 DEF SendsInside, Poller, Task
  <1>7. QueueIsOfWaiters'
    <2>1. \A i \in DOMAIN waiting' : waiting'[i] # t
      BY <1>1 DEF QueueIsOfWaiters
    <2>2. \A i \in DOMAIN waiting' : at'[waiting'[i]] = "waits"
      BY <1>1, <1>3, <2>1 DEF QueueIsOfWaiters
    <2>3. \A i, j \in DOMAIN waiting' : waiting'[i] = waiting'[j] => i = j
      BY <1>1 DEF QueueIsOfWaiters
    <2> QED BY <2>2, <2>3 DEF QueueIsOfWaiters
  <1>8. EmptyBetweenChunks'
    BY <1>1, <1>2, <1>3 DEF EmptyBetweenChunks, Poller, Task
  <1> QED BY <1>4, <1>5, <1>6, <1>7, <1>8

(* A task that neither waits nor starts to wait moves without the queue.   *)
LEMMA QueueKept ==
  ASSUME PInv, NEW t \in Task, NEW place \in Place, at[t] # "waits",
         Move(t, place), UNCHANGED waiting
  PROVE  /\ QueueIsOfWaiters'
         /\ at' \in [Task -> Place] /\ at'[t] = place
         /\ \A u \in Task \ {t} : at'[u] = at[u]
  <1>1. /\ at' \in [Task -> Place] /\ at'[t] = place
        /\ \A u \in Task \ {t} : at'[u] = at[u]
    BY DEF Move, PInv, LockInv, LockTypeOK
  <1>2. \A i \in DOMAIN waiting : waiting[i] \in Task /\ waiting[i] # t
    BY DEF PInv, LockInv, LockTypeOK, QueueIsOfWaiters
  <1> QED BY <1>1, <1>2 DEF PInv, LockInv, QueueIsOfWaiters

-----------------------------------------------------------------------------
(* The pollers and the manager.                                            *)

LEMMA PollerOutsideStep ==
  ASSUME PInv, NEW p \in Poller,
         PollTick(p) \/ PollEnds(p) \/ Stop(p) \/ (\E S \in SUBSET Delivery : FetchChunk(p, S))
  PROVE  LockInv'
  <1> USE DEF PInv, LockInv
  <1>1. p \in Task /\ p # Manager
    BY TaskAssumption DEF Task, Poller
  <1>2. PICK place \in {"select", "polls", "wants", "stopped"} :
          /\ at[p] \in {"select", "polls"} /\ Move(p, place)
          /\ todo' \in [Poller -> SUBSET Delivery]
          /\ \A q \in Poller \ {p} : todo'[q] = todo[q]
          /\ place # "wants" => todo'[p] = todo[p]
          /\ UNCHANGED <<pc, holder, waiting>>
    BY DEF PollTick, PollEnds, Stop, FetchChunk, inner, LockTypeOK
  <1>3. /\ QueueIsOfWaiters'
        /\ at' \in [Task -> Place] /\ at'[p] = place
        /\ \A u \in Task \ {p} : at'[u] = at[u]
    BY <1>1, <1>2, QueueKept DEF Place
  <1>4. LockTypeOK'
    BY <1>2, <1>3 DEF LockTypeOK
  <1>5. HolderIsInside'
    BY <1>1, <1>2, <1>3 DEF HolderIsInside
  <1>6. SendsInside'
    BY <1>1, <1>2, <1>3 DEF SendsInside, Poller, Task
  <1>7. EmptyBetweenChunks'
    BY <1>1, <1>2, <1>3 DEF EmptyBetweenChunks, Poller, Task
  <1> QED BY <1>3, <1>4, <1>5, <1>6, <1>7

LEMMA LockedAddStep ==
  ASSUME PInv, NEW p \in Poller, LockedAdd(p)
  PROVE  PInv'
  <1>1. PICK d \in todo[p] : AddTransaction(p, d) /\ todo' = [todo EXCEPT ![p] = @ \ {d}]
    BY DEF LockedAdd
  <1>2. d \in Delivery /\ p \in Caller /\ p \in Task /\ p # Manager
    BY TaskAssumption DEF PInv, LockInv, LockTypeOK, Poller, Task
  <1>3. IInv'
    BY <1>1, <1>2, AddTransactionStep DEF PInv
  <1> USE DEF PInv, LockInv
  <1>4. \A u \in Task \ {p} : pc'[u] = pc[u]
    BY <1>1, <1>2 DEF AddTransaction, Goto, IInv, TypeOK
  <1>5. at[p] = "holds" /\ Move(p, "added") /\ UNCHANGED <<holder, waiting>>
    BY DEF LockedAdd
  <1>6. /\ QueueIsOfWaiters'
        /\ at' \in [Task -> Place] /\ at'[p] = "added"
        /\ \A u \in Task \ {p} : at'[u] = at[u]
    BY <1>2, <1>5, QueueKept DEF Place
  <1>7. LockTypeOK'
    BY <1>1, <1>5, <1>6 DEF LockTypeOK
  <1>8. HolderIsInside'
    BY <1>2, <1>5, <1>6 DEF HolderIsInside
  <1>9. SendsInside'
    BY <1>2, <1>4, <1>6 DEF SendsInside, Poller, Task
  <1>10. EmptyBetweenChunks'
    BY <1>1, <1>2, <1>6 DEF EmptyBetweenChunks, Poller, Task, LockTypeOK
  <1> QED BY <1>3, <1>6, <1>7, <1>8, <1>9, <1>10

LEMMA ReleaseStep ==
  ASSUME PInv, NEW p \in Poller, Release(p)
  PROVE  LockInv'
  <1> USE DEF PInv, LockInv
  <1>1. p \in Task /\ p # Manager
    BY TaskAssumption DEF Task, Poller
  <1>2. /\ at[p] = "added" /\ pc[p] = "idle" /\ holder' = NoTask
        /\ UNCHANGED <<pc, waiting, todo>>
    BY DEF Release, inner
  <1>3. PICK place \in {"polls", "wants"} :
          Move(p, place) /\ (place = "polls" => todo[p] = {})
    BY DEF Release
  <1>4. /\ QueueIsOfWaiters'
        /\ at' \in [Task -> Place] /\ at'[p] = place
        /\ \A u \in Task \ {p} : at'[u] = at[u]
    BY <1>1, <1>2, <1>3, QueueKept DEF Place
  <1>5. LockTypeOK'
    BY <1>2, <1>4 DEF LockTypeOK
  <1>6. HolderIsInside'
    BY <1>1, <1>2, <1>3, <1>4, NoTaskAssumption DEF HolderIsInside
  <1>7. SendsInside'
    BY <1>1, <1>2, <1>4 DEF SendsInside, Poller, Task
  <1>8. EmptyBetweenChunks'
    BY <1>1, <1>2, <1>3, <1>4 DEF EmptyBetweenChunks, Poller, Task
  <1> QED BY <1>4, <1>5, <1>6, <1>7, <1>8

LEMMA ManagerReturnsStep ==
  ASSUME PInv, ManagerReturns
  PROVE  LockInv'
  <1> USE DEF PInv, LockInv
  <1>1. /\ Manager \in Task /\ at[Manager] = "holds" /\ pc[Manager] = "done"
        /\ Move(Manager, "stopped") /\ holder' = NoTask
        /\ UNCHANGED <<pc, waiting, todo>>
    BY DEF ManagerReturns, inner, Task
  <1>2. /\ QueueIsOfWaiters'
        /\ at' \in [Task -> Place] /\ at'[Manager] = "stopped"
        /\ \A u \in Task \ {Manager} : at'[u] = at[u]
    BY <1>1, QueueKept DEF Place
  <1>3. LockTypeOK'
    BY <1>1, <1>2 DEF LockTypeOK
  <1>4. HolderIsInside'
    BY <1>1, <1>2, NoTaskAssumption DEF HolderIsInside
  <1>5. SendsInside'
    BY <1>1, <1>2, TaskAssumption DEF SendsInside, Poller, Task
  <1>6. EmptyBetweenChunks'
    BY <1>1, <1>2, TaskAssumption DEF EmptyBetweenChunks, Poller, Task
  <1> QED BY <1>2, <1>3, <1>4, <1>5, <1>6

(* A check of the manager: only its own place in start() changes.          *)
LEMMA ManagerStep ==
  ASSUME PInv, Locked(Startup) \/ Locked(Tick) \/ Locked(Final)
  PROVE  PInv'
  <1> USE DEF PInv, LockInv
  <1>1. at[Manager] = "holds" /\ UNCHANGED <<at, holder, waiting, todo>>
    BY DEF Locked
  <1>2. PICK send \in {"sending", "lastSend"}, skip \in {"loop", "done"} :
          pc[Manager] \in {"new", "loop"} /\ FlushCheck(send, skip)
    BY DEF Locked, Startup, Tick, Final
  <1>3. IInv'
    BY <1>2, FlushCheckStep
  <1>4. \A u \in Task \ {Manager} : pc'[u] = pc[u]
    BY <1>2 DEF FlushCheck, Goto, IInv, TypeOK
  <1>5. SendsInside'
    BY <1>1, <1>4, TaskAssumption DEF SendsInside, Poller, Task
  <1>6. LockTypeOK' /\ HolderIsInside' /\ QueueIsOfWaiters' /\ EmptyBetweenChunks'
    BY <1>1 DEF LockTypeOK, HolderIsInside, QueueIsOfWaiters, EmptyBetweenChunks
  <1> QED BY <1>3, <1>5, <1>6

(* A send returns to a label that nothing is said of, or to the loop.      *)
LEMMA InsideSendStep ==
  ASSUME PInv, NEW t \in Task, Inside(Send(t))
  PROVE  PInv'
  <1> USE DEF PInv, LockInv
  <1>1. UNCHANGED <<at, holder, waiting, todo>> /\ Send(t)
    BY DEF Inside
  <1>2. IInv'
    BY <1>1, SendStep
  <1>3. /\ Sending(t)
        /\ pc'[t] \in {"idle", "loop", "done"}
        /\ pc'[t] = "idle" <=> t # Manager
        /\ \A u \in Task \ {t} : pc'[u] = pc[u]
    BY <1>1, ResumeEffect DEF Send, IInv
  <1>4. SendsInside'
    BY <1>1, <1>3 DEF SendsInside, Sending, Poller, Task
  <1>5. LockTypeOK' /\ HolderIsInside' /\ QueueIsOfWaiters' /\ EmptyBetweenChunks'
    BY <1>1 DEF LockTypeOK, HolderIsInside, QueueIsOfWaiters, EmptyBetweenChunks
  <1> QED BY <1>2, <1>4, <1>5

(* Time, the shutdown token, a worker, and no step at all.                 *)
LEMMA AroundStep ==
  ASSUME PInv, Inside(Elapse) \/ Inside(Cancel) \/ Inside(Recv) \/ UNCHANGED pvars
  PROVE  PInv'
  <1> USE DEF PInv, LockInv
  <1>1. UNCHANGED <<at, holder, waiting, todo, pc>>
    BY DEF Inside, Elapse, Cancel, Recv, pvars
  <1>2. IInv'
    BY OutsideStep, RecvStep DEF Inside, pvars, vars
  <1> QED BY <1>1, <1>2
          DEF LockTypeOK, HolderIsInside, SendsInside, QueueIsOfWaiters,
              EmptyBetweenChunks

-----------------------------------------------------------------------------
(* Invariance.                                                             *)

LEMMA PipelineInitPInv == PipelineInit => PInv
  <1> SUFFICES ASSUME PipelineInit PROVE PInv
    OBVIOUS
  <1>1. IInv
    BY InitIInv DEF PipelineInit
  <1>2. LockTypeOK
    BY EmptyQueue DEF PipelineInit, LockTypeOK, Place
  <1>3. HolderIsInside
    BY NoTaskAssumption DEF PipelineInit, HolderIsInside
  <1>4. SendsInside
    BY TaskAssumption DEF PipelineInit, Init, SendsInside, Poller, Task
  <1>5. QueueIsOfWaiters
    BY EmptyQueue DEF PipelineInit, QueueIsOfWaiters
  <1>6. EmptyBetweenChunks
    BY DEF PipelineInit, EmptyBetweenChunks
  <1> QED BY <1>1, <1>2, <1>3, <1>4, <1>5, <1>6 DEF PInv, LockInv

LEMMA PipelineStepPInv == PInv /\ [PipelineNext]_pvars => PInv'
  <1> SUFFICES ASSUME PInv, [PipelineNext]_pvars PROVE PInv'
    OBVIOUS
  <1>1. ASSUME NEW t \in Task, Request(t) PROVE PInv'
    BY <1>1, RequestStep, InnerStutter DEF Request, PInv
  <1>2. CASE Grant
    BY <1>2, GrantStep, InnerStutter DEF Grant, PInv
  <1>3. ASSUME NEW p \in Poller,
               PollTick(p) \/ PollEnds(p) \/ Stop(p) \/ (\E S \in SUBSET Delivery : FetchChunk(p, S))
        PROVE  PInv'
    <2>1. UNCHANGED inner
      BY <1>3 DEF PollTick, PollEnds, Stop, FetchChunk
    <2> QED BY <1>3, <2>1, PollerOutsideStep, InnerStutter DEF PInv
  <1>4. ASSUME NEW p \in Poller, LockedAdd(p) PROVE PInv'
    BY <1>4, LockedAddStep
  <1>5. ASSUME NEW p \in Poller, Release(p) PROVE PInv'
    BY <1>5, ReleaseStep, InnerStutter DEF Release, PInv
  <1>6. CASE ManagerReturns
    BY <1>6, ManagerReturnsStep, InnerStutter DEF ManagerReturns, PInv
  <1>7. CASE Locked(Startup) \/ Locked(Tick) \/ Locked(Final)
    BY <1>7, ManagerStep
  <1>8. ASSUME NEW t \in Task, Inside(Send(t)) PROVE PInv'
    BY <1>8, InsideSendStep
  <1>9. CASE Inside(Elapse) \/ Inside(Cancel) \/ Inside(Recv) \/ UNCHANGED pvars
    BY <1>9, AroundStep
  <1> QED BY <1>1, <1>2, <1>3, <1>4, <1>5, <1>6, <1>7, <1>8, <1>9
          DEF PipelineNext, Finished

(* The inductive invariant of the composition.                             *)
THEOREM PipelineInvariance == PipelineSpec => []PInv
  BY PipelineInitPInv, PipelineStepPInv, PTL DEF PipelineSpec

(* The variables keep their types, and the lock is held by the task that   *)
(* is between its grant and its release.                                   *)
THEOREM PipelineTypeCorrect == PipelineSpec => []PipelineTypeOK
  <1>1. PInv => PipelineTypeOK
    BY DEF PInv, IInv, LockInv, LockTypeOK, HolderIsInside, Place, PipelineTypeOK
  <1> QED BY <1>1, PipelineInvariance, PTL

(* At most one batch is between the buffer and the channel, however many   *)
(* pollers there are: a send happens under the outer lock.                 *)
THEOREM AlwaysOneBatchInFlight == PipelineSpec => []OneBatchInFlight
  <1>1. ASSUME PInv, NEW t \in Task, hand[t] # {} PROVE holder = t
    <2>1. Sending(t)
      BY <1>1 DEF PInv, IInv, BatchesBounded
    <2>2. CASE t = Manager
      <3>1. at[t] = "holds"
        BY <2>1, <2>2, <1>1 DEF PInv, LockInv, SendsInside, Sending
      <3> QED BY <3>1, <1>1 DEF PInv, LockInv, HolderIsInside
    <2>3. CASE t # Manager
      <3>1. t \in Poller /\ pc[t] = "sending"
        BY <2>1, <2>3, <1>1 DEF PInv, IInv, TypeOK, Sending, Poller, Task
      <3>2. at[t] = "added"
        BY <3>1, <1>1 DEF PInv, LockInv, SendsInside
      <3> QED BY <3>2, <1>1 DEF PInv, LockInv, HolderIsInside
    <2> QED BY <2>2, <2>3
  <1>2. PInv => OneBatchInFlight
    BY <1>1 DEF OneBatchInFlight
  <1> QED BY <1>2, PipelineInvariance, PTL

(* Nothing is lost on the way to the channel, which stays open; and the    *)
(* background task drops the lock for good only when start() has returned. *)
EndInv ==
  /\ rxOpen /\ lost = {}
  /\ at[Manager] = "stopped" => pc[Manager] = "done"

LEMMA PipelineInitEndInv == PipelineInit => EndInv
  BY DEF PipelineInit, Init, EndInv, Task

LEMMA PipelineStepEndInv == PInv /\ EndInv /\ [PipelineNext]_pvars => EndInv'
  <1> SUFFICES ASSUME PInv, EndInv, [PipelineNext]_pvars PROVE EndInv'
    OBVIOUS
  <1> USE DEF EndInv
  <1>1. Manager \in Task /\ Manager \notin Poller
    BY TaskAssumption DEF Task, Poller
  <1>2. at \in [Task -> Place] /\ pc \in [Task -> {"idle", "new", "loop", "sending", "lastSend", "done"}]
    BY DEF PInv, LockInv, LockTypeOK, IInv, TypeOK
  <1>3. ASSUME NEW t \in Task, Request(t) PROVE EndInv'
    BY <1>1, <1>2, <1>3 DEF Request, Move, inner
  <1>4. CASE Grant
    <2>1. Head(waiting) \in Task
      BY <1>4 DEF Grant, PInv, LockInv, LockTypeOK
    <2> QED BY <1>1, <1>2, <1>4, <2>1 DEF Grant, Move, inner
  <1>5. ASSUME NEW p \in Poller,
               \/ PollTick(p) \/ PollEnds(p) \/ Stop(p) \/ Release(p)
               \/ \E S \in SUBSET Delivery : FetchChunk(p, S)
        PROVE  EndInv'
    BY <1>1, <1>2, <1>5
       DEF PollTick, PollEnds, Stop, Release, FetchChunk, Move, inner
  <1>6. ASSUME NEW p \in Poller, LockedAdd(p) PROVE EndInv'
    BY <1>1, <1>2, <1>6 DEF LockedAdd, AddTransaction, Goto, Move, Task, Poller
  <1>7. CASE ManagerReturns
    BY <1>7 DEF ManagerReturns, inner
  <1>8. CASE Locked(Startup) \/ Locked(Tick) \/ Locked(Final)
    BY <1>8 DEF Locked, Startup, Tick, Final, FlushCheck, history
  <1>9. ASSUME NEW t \in Task, Inside(Send(t)) PROVE EndInv'
    BY <1>1, <1>2, <1>9 DEF Inside, Send, Sending, Resume, Goto, history
  <1>10. CASE Inside(Elapse) \/ Inside(Cancel) \/ Inside(Recv) \/ UNCHANGED pvars
    BY <1>10 DEF Inside, Elapse, Cancel, Recv, history, pvars
  <1> QED BY <1>3, <1>4, <1>5, <1>6, <1>7, <1>8, <1>9, <1>10
          DEF PipelineNext, Finished

(* A poller that stops leaves nothing behind: no fetched transaction, no   *)
(* batch, no place in the queue of the lock.  All of them together leave   *)
(* less than one batch, in the buffer.                                     *)
THEOREM AlwaysStopsEmptyHanded == PipelineSpec => []StopsEmptyHanded
  <1>1. ASSUME PInv, NEW p \in Poller, at[p] = "stopped"
        PROVE  /\ todo[p] = {}
               /\ hand[p] = {}
               /\ \A i \in DOMAIN waiting : waiting[i] # p
    <2>1. p \in Caller /\ p \in Task
      BY <1>1 DEF Poller, Task
    <2>2. todo[p] = {}
      BY <1>1 DEF PInv, LockInv, EmptyBetweenChunks
    <2>3. pc[p] # "sending"
      BY <1>1 DEF PInv, LockInv, SendsInside
    <2>4. hand[p] = {}
      BY <1>1, <2>1, <2>3 DEF PInv, IInv, TypeOK, BatchesBounded, Sending
    <2>5. \A i \in DOMAIN waiting : waiting[i] # p
      BY <1>1 DEF PInv, LockInv, QueueIsOfWaiters
    <2> QED BY <2>2, <2>4, <2>5
  <1>2. ASSUME PInv, EndInv, \A t \in Task : at[t] = "stopped"
        PROVE  /\ offered = Buffered \union InChannel \union taken
               /\ Cardinality(Buffered) < MaxBatchSize
    <2>1. hand[Manager] = {}
      BY <1>2 DEF EndInv, PInv, IInv, BatchesBounded, Sending, Task
    <2>2. \A t \in Task : hand[t] = {}
      BY <1>1, <1>2, <2>1 DEF Task, Poller
    <2>3. InHand = {}
      BY <2>2 DEF InHand
    <2> QED BY <1>2, <2>3 DEF EndInv, PInv, IInv, NothingVanishes, SizeIsExact
  <1>3. PInv /\ EndInv => StopsEmptyHanded
    BY <1>1, <1>2 DEF StopsEmptyHanded
  <1> QED BY <1>3, PipelineInvariance, PipelineInitEndInv, PipelineStepEndInv, PTL
          DEF PipelineSpec

(* A fetched transaction leaves a poller only by being accepted.           *)
THEOREM FetchedAlwaysKept == PipelineSpec => FetchedIsKept
  <1>1. ASSUME PInv, [PipelineNext]_pvars, NEW p \in Poller
        PROVE  todo[p] \ todo'[p] \subseteq offered'
    <2>1. ASSUME NEW q \in Poller, NEW S \in SUBSET Delivery, FetchChunk(q, S)
          PROVE  todo[p] \ todo'[p] \subseteq offered'
      <3>1. todo' = [todo EXCEPT ![q] = S] /\ todo[q] = {}
        BY <1>1, <2>1 DEF FetchChunk, PInv, LockInv, EmptyBetweenChunks
      <3> QED BY <1>1, <3>1 DEF PInv, LockInv, LockTypeOK
    <2>2. ASSUME NEW q \in Poller, LockedAdd(q)
          PROVE  todo[p] \ todo'[p] \subseteq offered'
      <3>1. PICK d \in todo[q] : AddTransaction(q, d) /\ todo' = [todo EXCEPT ![q] = @ \ {d}]
        BY <2>2 DEF LockedAdd
      <3>2. d \in offered'
        BY <3>1 DEF AddTransaction
      <3> QED BY <1>1, <3>1, <3>2 DEF PInv, LockInv, LockTypeOK
    <2>3. CASE UNCHANGED todo
      BY <2>3
    <2> QED BY <1>1, <2>1, <2>2, <2>3
            DEF PipelineNext, Request, Grant, PollTick, Release, PollEnds,
                Stop, Locked, ManagerReturns, Inside, Finished, pvars
  <1>2. PInv /\ [PipelineNext]_pvars
          => [\A p \in Poller : todo[p] \ todo'[p] \subseteq offered']_pvars
    BY <1>1
  <1> QED BY <1>2, PipelineInvariance, PTL DEF PipelineSpec, FetchedIsKept

-----------------------------------------------------------------------------
(* The composition implements its parts' promises.                         *)

(* What a task does around and inside the outer lock is, for the batch     *)
(* manager, one of its own steps or nothing.                               *)
LEMMA StepIsInner == PInv /\ [PipelineNext]_pvars => [Next]_vars
  <1> SUFFICES ASSUME PInv, [PipelineNext]_pvars PROVE Next \/ UNCHANGED vars
    OBVIOUS
  <1>1. ASSUME NEW p \in Poller, LockedAdd(p) PROVE Next
    <2>1. PICK d \in todo[p] : AddTransaction(p, d)
      BY <1>1 DEF LockedAdd
    <2>2. d \in Delivery
      BY <2>1 DEF PInv, LockInv, LockTypeOK
    <2> QED BY <2>1, <2>2 DEF Next, Poller
  <1>2. CASE Locked(Startup) \/ Locked(Tick) \/ Locked(Final)
    BY <1>2 DEF Locked, Next
  <1>3. ASSUME NEW t \in Task, Inside(Send(t)) PROVE Next
    BY <1>3 DEF Inside, Next
  <1>4. CASE Inside(Elapse) \/ Inside(Cancel) \/ Inside(Recv)
    BY <1>4 DEF Inside, Next
  <1>5. CASE UNCHANGED inner
    BY <1>5 DEF inner, vars
  <1> QED BY <1>1, <1>2, <1>3, <1>4, <1>5
          DEF PipelineNext, Request, Grant, PollTick, FetchChunk, Release,
              PollEnds, Stop, ManagerReturns, Finished, pvars, inner

(* The pollers and the background task use the batch manager as it is      *)
(* meant to be used: whatever they do is a behaviour of BatchManager, so   *)
(* that all that is proved of it holds of the composition.                 *)
THEOREM PipelineIsBatchManager == PipelineSpec => SafeSpec
  BY PipelineInvariance, StepIsInner, PTL DEF PipelineSpec, PipelineInit, SafeSpec

(* Around the outer lock the promise of HandOver.tla is kept too: between  *)
(* a poller's fetch and the workers no transaction is dropped, and none is *)
(* handed over twice, whatever waits for what.                             *)
THEOREM PipelineImplementsHandOver ==
  PipelineSpec => ImplementsHandOver /\ []Abstract!ExactlyOnePlace
  <1>1. Init => Abstract!Init
    BY DEF Init, EmptyPending, Buffered, InHand, InChannel, Abstract!Init
  <1>2. SafeSpec => []IInv
    BY InitIInv, StepIInv, PTL DEF SafeSpec
  <1>3. SafeSpec => ImplementsHandOver
    BY <1>1, <1>2, StepSimulation, PTL
       DEF SafeSpec, ImplementsHandOver, Abstract!Spec
  <1> QED BY <1>3, PipelineIsBatchManager, AtMostOnce, PTL
          DEF ImplementsHandOver

-----------------------------------------------------------------------------
(* Turns at the outer lock.                                                *)

LEMMA InitNobodyForgotten == PipelineInit => NobodyIsForgotten
  BY DEF PipelineInit, NobodyIsForgotten

(* Only a request and a grant touch the queue, and only they begin and end *)
(* a wait; elsewhere the lock changes hands at most to nobody.             *)
LEMMA OtherSteps ==
  ASSUME PInv, [PipelineNext]_pvars, ~Grant, \A t \in Task : ~Request(t)
  PROVE  /\ waiting' = waiting
         /\ holder' = holder \/ holder' = NoTask
         /\ \A t \in Task : at'[t] = "waits" => at[t] = "waits"
  <1>0. at \in [Task -> Place]
    BY DEF PInv, LockInv, LockTypeOK
  <1>1. ASSUME NEW t \in Task, NEW place \in Place, place # "waits", Move(t, place)
        PROVE  \A u \in Task : at'[u] = "waits" => at[u] = "waits"
    BY <1>0, <1>1 DEF Move
  <1>2. CASE \E p \in Poller : PollTick(p) \/ PollEnds(p) \/ Stop(p)
                            \/ \E S \in SUBSET Delivery : FetchChunk(p, S)
    <2>1. PICK p \in Poller :
            /\ \E place \in Place \ {"waits"} : Move(p, place)
            /\ waiting' = waiting /\ holder' = holder
      BY <1>2 DEF PollTick, PollEnds, Stop, FetchChunk, Place
    <2>2. p \in Task
      BY DEF Task, Poller
    <2> QED BY <1>1, <2>1, <2>2
  <1>3. CASE \E p \in Poller : LockedAdd(p) \/ Release(p)
    <2>1. PICK p \in Poller :
            /\ \E place \in Place \ {"waits"} : Move(p, place)
            /\ waiting' = waiting /\ (holder' = holder \/ holder' = NoTask)
      BY <1>3 DEF LockedAdd, Release, Place
    <2>2. p \in Task
      BY DEF Task, Poller
    <2> QED BY <1>1, <2>1, <2>2
  <1>4. CASE ManagerReturns
    <2>1. Move(Manager, "stopped") /\ waiting' = waiting /\ holder' = NoTask
      BY <1>4 DEF ManagerReturns
    <2>2. Manager \in Task
      BY DEF Task
    <2> QED BY <1>1, <2>1, <2>2 DEF Place
  <1>5. CASE \/ Locked(Startup) \/ Locked(Tick) \/ Locked(Final)
             \/ (\E t \in Task : Inside(Send(t)))
             \/ Inside(Elapse) \/ Inside(Cancel) \/ Inside(Recv)
             \/ Finished \/ UNCHANGED pvars
    <2>1. UNCHANGED <<at, holder, waiting>>
      BY <1>5 DEF Locked, Inside, Finished, pvars
    <2> QED BY <2>1
  <1> QED BY <1>2, <1>3, <1>4, <1>5 DEF PipelineNext

(* A request goes to the end of the queue.                                 *)
LEMMA RequestTurn ==
  ASSUME PInv, NobodyIsForgotten, NEW u \in Task, Request(u)
  PROVE  /\ NobodyIsForgotten'
         /\ \A t \in Task : at[t] = "waits" => Ahead(t)' \subseteq Ahead(t)
  <1>1. /\ at[u] = "wants" /\ at' = [at EXCEPT ![u] = "waits"]
        /\ waiting' = Append(waiting, u) /\ holder' = holder
    BY DEF Request, Move
  <1>2. waiting \in Seq(Task) /\ at \in [Task -> Place]
    BY DEF PInv, LockInv, LockTypeOK
  <1>3. /\ DOMAIN waiting = 1..Len(waiting) /\ Len(waiting) \in Nat
        /\ DOMAIN waiting' = 1..Len(waiting) + 1
        /\ waiting'[Len(waiting) + 1] = u
        /\ \A i \in DOMAIN waiting : waiting'[i] = waiting[i]
    BY <1>1, <1>2
  <1>4. NobodyIsForgotten'
    <2>1. SUFFICES ASSUME NEW t \in Task, at'[t] = "waits"
                   PROVE  \E i \in DOMAIN waiting' : waiting'[i] = t
      BY DEF NobodyIsForgotten
    <2>2. CASE t = u
      BY <1>3, <2>2
    <2>3. CASE t # u
      <3>1. PICK i \in DOMAIN waiting : waiting[i] = t
        BY <1>1, <1>2, <2>1, <2>3 DEF NobodyIsForgotten
      <3> QED BY <1>3, <3>1
    <2> QED BY <2>2, <2>3
  <1>5. ASSUME NEW t \in Task, at[t] = "waits", NEW v \in Ahead(t)'
        PROVE  v \in Ahead(t)
    <2>1. t # u
      BY <1>1, <1>5
    <2>2. CASE holder' = v
      BY <1>1, <1>5, <2>2 DEF Ahead
    <2>3. ASSUME NEW i \in DOMAIN waiting', NEW j \in DOMAIN waiting',
                 i < j, waiting'[i] = v, waiting'[j] = t
          PROVE  v \in Ahead(t)
      <3>1. j # Len(waiting) + 1
        BY <1>3, <2>1, <2>3
      <3>2. i \in DOMAIN waiting /\ j \in DOMAIN waiting
        BY <1>3, <2>3, <3>1
      <3>3. waiting[i] = v /\ waiting[j] = t
        BY <1>3, <2>3, <3>2
      <3> QED BY <1>5, <2>3, <3>2, <3>3 DEF Ahead
    <2> QED BY <1>5, <2>2, <2>3 DEF Ahead
  <1> QED BY <1>4, <1>5

(* The lock goes to the first in the queue, who was ahead of all others.   *)
LEMMA GrantTurn ==
  ASSUME PInv, NobodyIsForgotten, Grant
  PROVE  /\ NobodyIsForgotten'
         /\ \A t \in Task : at'[t] = "waits" => Ahead(t)' \subseteq Ahead(t)
  <1> DEFINE h == Head(waiting)
  <1>1. /\ waiting # <<>> /\ at' = [at EXCEPT ![h] = "holds"]
        /\ waiting' = Tail(waiting) /\ holder' = h
    BY DEF Grant, Move
  <1>2. waiting \in Seq(Task) /\ at \in [Task -> Place]
    BY DEF PInv, LockInv, LockTypeOK
  <1>3. /\ DOMAIN waiting = 1..Len(waiting) /\ Len(waiting) \in Nat \ {0}
        /\ DOMAIN waiting' = 1..Len(waiting) - 1
        /\ h = waiting[1] /\ h \in Task
        /\ \A i \in DOMAIN waiting' : waiting'[i] = waiting[i + 1]
    BY <1>1, <1>2
  <1> HIDE DEF h
  <1>4. ASSUME NEW t \in Task, at'[t] = "waits"
        PROVE  \E i \in DOMAIN waiting : i # 1 /\ waiting[i] = t
    <2>1. t # h /\ at[t] = "waits"
      BY <1>1, <1>2, <1>3, <1>4
    <2>2. PICK i \in DOMAIN waiting : waiting[i] = t
      BY <2>1 DEF NobodyIsForgotten
    <2> QED BY <1>3, <2>1, <2>2
  <1>5. NobodyIsForgotten'
    <2>1. SUFFICES ASSUME NEW t \in Task, at'[t] = "waits"
                   PROVE  \E i \in DOMAIN waiting' : waiting'[i] = t
      BY DEF NobodyIsForgotten
    <2>2. PICK i \in DOMAIN waiting : i # 1 /\ waiting[i] = t
      BY <1>4, <2>1
    <2>3. i - 1 \in DOMAIN waiting' /\ waiting'[i - 1] = t
      BY <1>3, <2>2
    <2> QED BY <2>3
  <1>6. ASSUME NEW t \in Task, at'[t] = "waits", NEW v \in Ahead(t)'
        PROVE  v \in Ahead(t)
    <2>1. v \in Task
      BY <1>6 DEF Ahead
    <2>2. CASE v = h
      <3>1. PICK i \in DOMAIN waiting : i # 1 /\ waiting[i] = t
        BY <1>4, <1>6
      <3>2. 1 \in DOMAIN waiting /\ 1 < i
        BY <1>3, <3>1
      <3> QED BY <1>3, <2>1, <2>2, <3>1, <3>2 DEF Ahead
    <2>3. ASSUME NEW i \in DOMAIN waiting', NEW j \in DOMAIN waiting',
                 i < j, waiting'[i] = v, waiting'[j] = t
          PROVE  v \in Ahead(t)
      <3>1. /\ i + 1 \in DOMAIN waiting /\ j + 1 \in DOMAIN waiting
            /\ i + 1 < j + 1
        BY <1>3, <2>3
      <3>2. waiting[i + 1] = v /\ waiting[j + 1] = t
        BY <1>3, <2>3
      <3> QED BY <2>1, <3>1, <3>2 DEF Ahead
    <2> QED BY <1>1, <1>6, <2>2, <2>3 DEF Ahead
  <1> QED BY <1>5, <1>6

LEMMA StepTurns ==
  ASSUME PInv, NobodyIsForgotten, [PipelineNext]_pvars
  PROVE  /\ NobodyIsForgotten'
         /\ \A t \in Task : at[t] = "waits" /\ at'[t] = "waits"
              => Ahead(t)' \subseteq Ahead(t)
  <1>1. CASE Grant
    BY <1>1, GrantTurn
  <1>2. CASE \E t \in Task : Request(t)
    BY <1>2, RequestTurn
  <1>3. CASE ~Grant /\ \A t \in Task : ~Request(t)
    <2>1. /\ waiting' = waiting
          /\ holder' = holder \/ holder' = NoTask
          /\ \A t \in Task : at'[t] = "waits" => at[t] = "waits"
      BY <1>3, OtherSteps
    <2>2. NobodyIsForgotten'
      BY <2>1 DEF NobodyIsForgotten
    <2>3. \A t : Ahead(t)' \subseteq Ahead(t)
      BY <2>1, NoTaskAssumption DEF Ahead
    <2> QED BY <2>2, <2>3
  <1> QED BY <1>1, <1>2, <1>3

(* Nobody waits for the outer lock without a place in its queue, and       *)
(* nobody is overtaken there, whatever the pollers fetch and the manager   *)
(* does.                                                                   *)
THEOREM TurnsAlwaysComeNearer ==
  PipelineSpec => []NobodyIsForgotten /\ NobodyOvertakes
  <1>1. PInv /\ NobodyIsForgotten /\ [PipelineNext]_pvars => NobodyIsForgotten'
    BY StepTurns
  <1>2. PInv /\ NobodyIsForgotten /\ [PipelineNext]_pvars
        => [\A t \in Task : at[t] = "waits" /\ at'[t] = "waits"
              => Ahead(t)' \subseteq Ahead(t)]_pvars
    BY StepTurns
  <1> QED BY <1>1, <1>2, InitNobodyForgotten, PipelineInvariance, PTL
          DEF PipelineSpec, NobodyOvertakes

=============================================================================
