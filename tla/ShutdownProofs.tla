--------------------------- MODULE ShutdownProofs ---------------------------
(***************************************************************************)
(* Proofs about Shutdown.tla, for every number of workers, every timeout   *)
(* and every amount of work.                                               *)
(***************************************************************************)
EXTENDS Shutdown, TLAPS

LEMMA Parameters == Timeout \in Nat /\ MaxTx \in Nat
  BY ShutdownAssumption

(* The tasks main has already waited for when it is at m.                  *)
Passed(m) ==
  CASE m = "polling" -> {"batch"}
    [] m = "server" -> {"batch", "polling"}
    [] m = "pool" -> {"batch", "polling", "server"}
    [] m = "returned" -> Awaited
    [] OTHER -> {}

(* The tasks follow main: nothing runs before Start; and once shutdown has *)
(* begun, main has passed a task only when that has ended or was late.     *)
MainPlace ==
  /\ main = "start" => \A t \in Task : task[t] = "off"
  /\ main \in Awaited => token
  /\ ~token => late = {}
  /\ token => /\ main \in Awaited \union {"returned"}
              /\ late \subseteq Passed(main)
              /\ \A t \in Passed(main) : task[t] = "ended" \/ t \in late

(* start_polling and what it starts: the workers and the manager are there *)
(* as soon as the history task is, and it ends only after the history task.*)
PollingPlace ==
  /\ task["history"] = "off" =>
       /\ task["manager"] = "off" /\ task["polling"] # "joining"
       /\ \A w \in Worker : worker[w] = "off"
  /\ task["history"] # "off" => \A w \in Worker : worker[w] # "off"
  /\ task["polling"] = "off" => task["history"] = "off"
  /\ task["polling"] = "ended" => task["history"] \in {"off", "ended"}

(* A worker has left only when nobody can send any more.                   *)
ExitedLast ==
  \A w \in Worker : worker[w] = "exited" => Senders = {}

IInv ==
  /\ TypeOK
  /\ MainPlace
  /\ PollingPlace
  /\ ExitedLast

-----------------------------------------------------------------------------
(* Invariance.                                                             *)

LEMMA InitIInv == Init => IInv
  <1> SUFFICES ASSUME Init PROVE IInv
    OBVIOUS
  <1>1. TypeOK
    <2>1. timer \in 0..Timeout /\ accepted \in 0..MaxTx
      BY Parameters DEF Init
    <2>2. /\ task \in [Task -> {"off", "waiting", "on", "joining", "ended"}]
          /\ worker \in [Worker -> {"off", "idle", "busy", "exited"}]
      BY DEF Init
    <2>3. {buffer, queue} \subseteq Nat /\ buffer + queue <= accepted
      BY DEF Init
    <2>4. /\ main \in {"start", "bind", "serve", "returned"} \union Awaited
          /\ token \in BOOLEAN /\ late \subseteq Awaited
      BY DEF Init
    <2> QED BY <2>1, <2>2, <2>3, <2>4 DEF TypeOK
  <1>2. MainPlace /\ PollingPlace /\ ExitedLast
    BY DEF Init, MainPlace, PollingPlace, ExitedLast, Task, Awaited
  <1> QED BY <1>1, <1>2 DEF IInv

(* main before the signal.                                                 *)
LEMMA BeforeStep ==
  ASSUME IInv, Start \/ Bind \/ BindFails \/ Signal
  PROVE  IInv'
  <1> USE DEF IInv
  <1>1. CASE Start
    <2>1. /\ main = "start" /\ main' = "bind" /\ ~token
          /\ task' = [t \in Task |-> IF t \in {"batch", "polling", "pool"}
                                     THEN "on" ELSE "off"]
          /\ UNCHANGED <<token, timer, late, worker, buffer, queue, accepted>>
      BY <1>1 DEF Start, waits, data, MainPlace, Awaited
    <2>2. TypeOK'
      BY <2>1 DEF TypeOK
    <2>3. MainPlace'
      BY <2>1 DEF MainPlace, Awaited
    <2>4. \A w \in Worker : worker[w] = "off"
      BY <2>1 DEF MainPlace, PollingPlace, Task
    <2>5. PollingPlace' /\ ExitedLast'
      BY <2>1, <2>4 DEF PollingPlace, ExitedLast, Task, Awaited
    <2> QED BY <2>2, <2>3, <2>5
  <1>2. CASE Bind
    <2>1. /\ main = "bind" /\ main' = "serve" /\ ~token
          /\ task' = [task EXCEPT !["server"] = "on"]
          /\ UNCHANGED <<token, timer, late, worker, buffer, queue, accepted>>
      BY <1>2 DEF Bind, waits, data, MainPlace, Awaited
    <2>2. TypeOK'
      BY <2>1 DEF TypeOK
    <2>3. MainPlace'
      BY <2>1 DEF MainPlace, Awaited
    <2>4. /\ task'["history"] = task["history"] /\ task'["manager"] = task["manager"]
          /\ task'["polling"] = task["polling"]
      BY <2>1 DEF TypeOK
    <2>5. PollingPlace' /\ ExitedLast'
      BY <2>1, <2>4 DEF PollingPlace, ExitedLast, Senders
    <2> QED BY <2>2, <2>3, <2>5
  <1>3. CASE BindFails
    <2>1. /\ main = "bind" /\ main' = "returned" /\ ~token
          /\ UNCHANGED <<token, timer, late, task, worker, buffer, queue, accepted>>
      BY <1>3 DEF BindFails, waits, data, MainPlace, Awaited
    <2>2. TypeOK'
      BY <2>1 DEF TypeOK
    <2> QED BY <2>1, <2>2
            DEF MainPlace, PollingPlace, ExitedLast, Senders, Awaited
  <1>4. CASE Signal
    <2>1. /\ main = "serve" /\ main' = "batch" /\ ~token /\ token'
          /\ timer' = Timeout /\ late = {}
          /\ UNCHANGED <<late, task, worker, buffer, queue, accepted>>
      BY <1>4 DEF Signal, data, MainPlace, Awaited
    <2>2. TypeOK'
      BY <2>1, Parameters DEF TypeOK, Awaited
    <2>3. MainPlace'
      BY <2>1 DEF MainPlace, Passed, Awaited
    <2> QED BY <2>1, <2>2, <2>3 DEF PollingPlace, ExitedLast, Senders
  <1> QED BY <1>1, <1>2, <1>3, <1>4

(* main after the signal: it goes on past a task that has ended, or that   *)
(* it has given its full timeout.                                          *)
LEMMA GoOnStep ==
  ASSUME IInv, NEW t \in Awaited, main = t, GoOn(t),
         \/ task[t] = "ended" /\ late' = late
         \/ timer = 0 /\ late' = late \union {t},
         UNCHANGED <<token, task, worker, data>>
  PROVE  IInv'
  <1> USE DEF IInv
  <1>1. /\ token /\ timer' = Timeout /\ main' = After(t)
        /\ timer \in 0..Timeout /\ late \in SUBSET Awaited
        /\ UNCHANGED <<token, task, worker, buffer, queue, accepted>>
    BY DEF GoOn, MainPlace, TypeOK, data
  <1>2. late' \in SUBSET Awaited
    BY <1>1
  <1>3. /\ main' \in Awaited \union {"returned"}
        /\ Passed(main') = Passed(main) \union {t}
        /\ t \notin Passed(main)
    BY <1>1 DEF After, Passed, Awaited
  <1>4. TypeOK'
    BY <1>1, <1>2, <1>3, Parameters DEF TypeOK
  <1>5. MainPlace'
    <2>1. main' # "start"
      BY <1>3 DEF Awaited
    <2>2. late' \subseteq Passed(main')
      BY <1>1, <1>3 DEF MainPlace
    <2>3. \A u \in Passed(main') : task'[u] = "ended" \/ u \in late'
      BY <1>1, <1>3 DEF MainPlace
    <2> QED BY <1>1, <1>3, <2>1, <2>2, <2>3 DEF MainPlace
  <1>6. PollingPlace' /\ ExitedLast'
    BY <1>1 DEF PollingPlace, ExitedLast, Senders
  <1> QED BY <1>4, <1>5, <1>6

LEMMA TickStep ==
  ASSUME IInv, Tick
  PROVE  IInv'
  <1> USE DEF IInv
  <1>1. /\ main \in Awaited /\ token /\ main # "returned"
        /\ timer' = IF timer = 0 THEN 0 ELSE timer - 1
        /\ timer \in 0..Timeout
        /\ UNCHANGED <<main, token, late, task, worker, buffer, queue, accepted>>
    BY DEF Tick, MainPlace, TypeOK, data, Awaited
  <1>2. timer' \in 0..Timeout
    BY <1>1, Parameters
  <1>3. TypeOK'
    BY <1>1, <1>2 DEF TypeOK
  <1>4. MainPlace' /\ PollingPlace' /\ ExitedLast'
    BY <1>1 DEF MainPlace, PollingPlace, ExitedLast, Senders
  <1> QED BY <1>3, <1>4

(* A step of the tasks keeps what is said of main, as long as what has     *)
(* ended stays so.                                                         *)
LEMMA TasksOnly ==
  ASSUME IInv, UNCHANGED <<main, token, timer, late>>,
         \E t \in Task : task[t] # "off",
         \A t \in Awaited : task[t] = "ended" => task'[t] = "ended"
  PROVE  MainPlace'
  BY DEF IInv, MainPlace, Passed, Awaited, Task

(* A task changes its state; nothing else does.                            *)
LEMMA TaskStep ==
  ASSUME IInv,
         \/ \E t \in Awaited : TaskEnds(t)
         \/ PollingPanics \/ ManagerLocks \/ ManagerEnds \/ HistoryEnds
         \/ PollingStops \/ PollingEnds
  PROVE  IInv'
  <1> USE DEF IInv
  <1>1. PICK t \in Task, s \in {"on", "joining", "ended"} :
          /\ task' = [task EXCEPT ![t] = s] /\ task[t] \notin {"off", "ended"}
          /\ UNCHANGED <<main, token, timer, late, worker, buffer, queue, accepted>>
    BY DEF TaskEnds, PollingPanics, ManagerLocks, ManagerEnds, HistoryEnds,
           PollingStops, PollingEnds, Ends, waits, data, Task, Awaited
  <1>2. TypeOK'
    BY <1>1 DEF TypeOK
  <1>3. task'[t] = s /\ \A u \in Task \ {t} : task'[u] = task[u]
    BY <1>1 DEF TypeOK
  <1>4. MainPlace'
    BY <1>1, <1>3, TasksOnly DEF Task
  <1>5. Senders' \subseteq Senders
    BY <1>1, <1>3 DEF Senders, Task
  <1>6. ExitedLast'
    BY <1>1, <1>5 DEF ExitedLast
  <1>7. PollingPlace'
    BY <1>1, <1>3 DEF PollingPlace, Task, Awaited, TaskEnds, PollingPanics, ManagerLocks,
       ManagerEnds, HistoryEnds, PollingStops, PollingEnds, Ends
  <1> QED BY <1>2, <1>4, <1>6, <1>7

LEMMA PollingStartsStep ==
  ASSUME IInv, PollingStarts
  PROVE  IInv'
  <1> USE DEF IInv
  <1>1. /\ task["polling"] = "on" /\ task["history"] = "off"
        /\ task' = [task EXCEPT !["history"] = "on", !["manager"] = "waiting"]
        /\ worker' = [w \in Worker |-> "idle"]
        /\ UNCHANGED <<main, token, timer, late, buffer, queue, accepted>>
    BY DEF PollingStarts, waits, data
  <1>2. TypeOK'
    BY <1>1 DEF TypeOK
  <1>3. /\ task'["history"] = "on" /\ task'["manager"] = "waiting"
        /\ \A t \in Awaited : task'[t] = task[t]
    BY <1>1 DEF TypeOK, Task, Awaited
  <1>4. MainPlace'
    BY <1>1, <1>3, TasksOnly DEF Task, Awaited
  <1>5. PollingPlace' /\ ExitedLast'
    BY <1>1, <1>3 DEF PollingPlace, ExitedLast, Awaited
  <1> QED BY <1>2, <1>4, <1>5

(* Transactions and workers.                                               *)
LEMMA WorkStep ==
  ASSUME IInv,
         \/ Accept \/ Flush
         \/ \E w \in Worker : Receive(w) \/ Process(w) \/ WorkerExits(w)
  PROVE  IInv'
  <1> USE DEF IInv
  <1>1. UNCHANGED <<main, token, timer, late, task>>
    BY DEF Accept, Flush, Receive, Process, WorkerExits, waits
  <1>2. /\ buffer \in Nat /\ queue \in Nat /\ accepted \in 0..MaxTx
        /\ buffer + queue <= accepted
    BY DEF TypeOK
  <1>3. /\ buffer' \in Nat /\ queue' \in Nat /\ accepted' \in 0..MaxTx
        /\ buffer' + queue' <= accepted'
    BY <1>2, Parameters DEF Accept, Flush, Receive, Process, WorkerExits, data
  <1>4. worker' \in [Worker -> {"off", "idle", "busy", "exited"}]
    BY DEF Accept, Flush, Receive, Process, WorkerExits, TypeOK
  <1>5. TypeOK'
    BY <1>1, <1>3, <1>4 DEF TypeOK
  <1>6. MainPlace'
    BY <1>1 DEF MainPlace
  <1>7. \A w \in Worker :
          /\ worker'[w] = "off" <=> worker[w] = "off"
          /\ worker'[w] = "exited" => worker[w] = "exited" \/ Closed
    BY DEF Accept, Flush, Receive, Process, WorkerExits, TypeOK
  <1>8. PollingPlace' /\ ExitedLast'
    BY <1>1, <1>7 DEF PollingPlace, ExitedLast, Closed, Senders
  <1> QED BY <1>5, <1>6, <1>8

LEMMA StepIInv == IInv /\ [Next]_vars => IInv'
  <1> SUFFICES ASSUME IInv, [Next]_vars PROVE IInv'
    OBVIOUS
  <1>1. CASE Start \/ Bind \/ BindFails \/ Signal
    BY <1>1, BeforeStep
  <1>2. CASE Main
    BY <1>2, GoOnStep DEF Main, Joined, TimesOut
  <1>3. CASE Tick
    BY <1>3, TickStep
  <1>4. CASE \/ \E t \in Awaited : TaskEnds(t)
             \/ PollingPanics \/ ManagerLocks \/ ManagerEnds \/ HistoryEnds
             \/ PollingStops \/ PollingEnds
    BY <1>4, TaskStep
  <1>5. CASE PollingStarts
    BY <1>5, PollingStartsStep
  <1>6. CASE \/ Accept \/ Flush
             \/ \E w \in Worker : Receive(w) \/ Process(w) \/ WorkerExits(w)
    BY <1>6, WorkStep
  <1>7. CASE UNCHANGED vars
    BY <1>7 DEF vars, waits, data, IInv, TypeOK, MainPlace, PollingPlace,
                ExitedLast, Senders
  <1> QED BY <1>1, <1>2, <1>3, <1>4, <1>5, <1>6, <1>7 DEF Next

(* The inductive invariant of the life cycle.                              *)
THEOREM Invariance == Spec => []IInv
  BY InitIInv, StepIInv, PTL DEF Spec

(* The variables keep their types, and what is buffered or queued was      *)
(* accepted.                                                               *)
THEOREM TypeCorrect == Spec => []TypeOK
  <1>1. IInv => TypeOK
    BY DEF IInv
  <1> QED BY <1>1, Invariance, PTL

(* In whatever order the tasks end, no worker is gone while one is left    *)
(* that may send to it.                                                    *)
THEOREM SendsAlwaysSucceed == Spec => []SendsSucceed
  <1>1. IInv => SendsSucceed
    BY DEF IInv, TypeOK, PollingPlace, ExitedLast, SendsSucceed
  <1> QED BY <1>1, Invariance, PTL

(* A shutdown in which no wait ran out leaves only the manager and the     *)
(* workers running, which nobody waits for.                                *)
THEOREM AlwaysCleanReturn == Spec => []CleanReturn
  <1>1. IInv => CleanReturn
    BY DEF IInv, MainPlace, PollingPlace, Passed, CleanReturn, Task, Awaited
  <1> QED BY <1>1, Invariance, PTL

-----------------------------------------------------------------------------
(* The four waits pass one after the other.                                *)

LEMMA StepGoesOn ==
  ASSUME IInv, Next, token
  PROVE  /\ token' /\ main # "returned"
         /\ ~UNCHANGED <<main, timer>> =>
              \/ main' = main /\ timer' < timer
              \/ main' = After(main) /\ timer' = Timeout
  <1>1. main \in Awaited \union {"returned"} /\ timer \in Nat
    BY DEF IInv, MainPlace, TypeOK
  <1>2. ASSUME NEW t \in Awaited, Joined(t) \/ TimesOut(t)
        PROVE  /\ token' /\ main = t
               /\ main' = After(main) /\ timer' = Timeout
    BY <1>2 DEF Joined, TimesOut, GoOn
  <1>3. CASE Main
    BY <1>2, <1>3 DEF Main, Awaited
  <1>4. CASE Tick
    <2>1. UNCHANGED <<main, token>> /\ main \in Awaited
          /\ timer' = IF timer = 0 THEN 0 ELSE timer - 1
      BY <1>4 DEF Tick
    <2> QED BY <1>1, <2>1 DEF Awaited
  <1>5. CASE Start \/ Bind \/ BindFails \/ Signal
    BY <1>1, <1>5 DEF Start, Bind, BindFails, Signal, Awaited
  <1>6. ASSUME \/ \E t \in Awaited : TaskEnds(t)
               \/ PollingStarts \/ PollingPanics \/ ManagerLocks
               \/ Accept \/ Flush
               \/ ManagerEnds \/ HistoryEnds \/ PollingStops \/ PollingEnds
               \/ \E w \in Worker : Receive(w) \/ Process(w) \/ WorkerExits(w)
        PROVE  Alive /\ UNCHANGED <<main, token, timer>>
    BY <1>6 DEF TaskEnds, PollingStarts, PollingPanics, ManagerLocks, Accept, Flush,
                ManagerEnds, HistoryEnds, PollingStops, PollingEnds, Receive, Process,
                WorkerExits, waits
  <1> QED BY <1>3, <1>4, <1>5, <1>6 DEF Next, Alive

(* After the signal every change of main or its timer is a step towards    *)
(* the end of the process, whatever the tasks do.                          *)
THEOREM MainAlwaysGoesOn == Spec => MainGoesOn
  <1>1. IInv /\ [Next]_vars =>
          [token =>
             /\ token' /\ main # "returned"
             /\ ~UNCHANGED <<main, timer>> =>
                  \/ main' = main /\ timer' < timer
                  \/ main' = After(main) /\ timer' = Timeout]_vars
    BY StepGoesOn
  <1> QED BY <1>1, Invariance, PTL DEF Spec, MainGoesOn

=============================================================================
