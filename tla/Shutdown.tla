------------------------------- MODULE Shutdown -------------------------------
(***************************************************************************)
(* The life of the process: main of src/main.rs, the tasks it spawns and   *)
(* the tasks start_polling (src/blockchain/polling.rs) spawns in turn.     *)
(*                                                                         *)
(* main waits for four tasks, one after the other, each for Timeout at     *)
(* most.  The history and manager tasks and the workers belong to          *)
(* start_polling, which waits only for the first; when main returns, the   *)
(* runtime drops whatever still runs, and what is in memory is lost.       *)
(*                                                                         *)
(* The channel to the workers stays open as long as some task has a Sender,*)
(* on its own or through the batch manager.  Transactions are counted, not *)
(* told apart: Pipeline and BatchManager say which are where.  The second  *)
(* pool and batch manager, which main makes itself, are never given any.   *)
(*                                                                         *)
(* A Flush is collecting a batch and sending it in one step, to a channel  *)
(* without a limit: Pipeline has the wait for room, here every task may    *)
(* hang anyway.                                                            *)
(*                                                                         *)
(* Bound: MaxTx transactions are accepted.                                 *)
(***************************************************************************)
EXTENDS Naturals, FiniteSets

CONSTANTS Worker,     \* of the pool start_polling makes
          Timeout,    \* 10 s
          MaxTx

ASSUME ShutdownAssumption ==
  /\ Worker # {}
  /\ {Timeout, MaxTx} \subseteq Nat

Awaited == {"batch", "polling", "server", "pool"}
Task == Awaited \union {"history", "manager"}

VARIABLES
  main,      \* where main is: "start", "bind", "serve", a task of Awaited
             \* it waits for, or "returned"
  token,     \* the cancellation token has been cancelled
  timer,     \* ticks left of the sleep main selects on
  task,      \* "off", "on", "ended"; polling: "joining" history;
             \* manager: "waiting" for the outer mutex before it is on
  worker,    \* "off", "idle", "busy", "exited"
  buffer,    \* transactions in the batch manager
  queue,     \* batches in the channel
  accepted,  \* history: transactions passed to add_transaction
  late       \* history: the tasks main gave up waiting for

data == <<buffer, queue, accepted>>
waits == <<timer, late>>
vars == <<main, token, waits, task, worker, data>>

Init ==
  /\ main = "start" /\ token = FALSE /\ timer = 0
  /\ task = [t \in Task |-> "off"]
  /\ worker = [w \in Worker |-> "off"]
  /\ buffer = 0 /\ queue = 0 /\ accepted = 0
  /\ late = {}

Alive == main # "returned"
Ends(t) == task' = [task EXCEPT ![t] = "ended"]

-----------------------------------------------------------------------------
(* main.                                                                   *)

Start ==
  /\ main = "start"
  /\ main' = "bind"
  /\ task' = [t \in Task |-> IF t \in {"batch", "polling", "pool"} THEN "on"
                             ELSE "off"]
  /\ UNCHANGED <<token, waits, worker, data>>

Bind ==
  /\ main = "bind"
  /\ main' = "serve"
  /\ task' = [task EXCEPT !["server"] = "on"]
  /\ UNCHANGED <<token, waits, worker, data>>

(* The address is taken: main returns the error, whatever runs already.    *)
BindFails ==
  /\ main = "bind"
  /\ main' = "returned"
  /\ UNCHANGED <<token, waits, task, worker, data>>

Signal ==
  /\ main = "serve"
  /\ token' = TRUE
  /\ main' = "batch" /\ timer' = Timeout
  /\ UNCHANGED <<late, task, worker, data>>

After(t) ==
  CASE t = "batch" -> "polling"
    [] t = "polling" -> "server"
    [] t = "server" -> "pool"
    [] t = "pool" -> "returned"

GoOn(t) ==
  /\ main' = After(t)
  /\ timer' = Timeout

Joined(t) ==
  /\ main = t
  /\ task[t] = "ended"
  /\ GoOn(t)
  /\ UNCHANGED <<token, late, task, worker, data>>

(* Mutant of TimesOut: main waits for the server as long as it takes. *)
TimesOutExceptServer(t) ==
  /\ main = t /\ t # "server"
  /\ timer = 0
  /\ GoOn(t)
  /\ late' = late \union {t}
  /\ UNCHANGED <<token, task, worker, data>>

TimesOut(t) ==
  /\ main = t
  /\ timer = 0
  /\ GoOn(t)
  /\ late' = late \union {t}
  /\ UNCHANGED <<token, task, worker, data>>

-----------------------------------------------------------------------------
(* The tasks of main.  The server ends when its connections have, which    *)
(* may be never; so may every task that hangs.                             *)

TaskEnds(t) ==
  /\ Alive /\ token
  /\ t \in {"batch", "server", "pool"} /\ task[t] = "on"
  /\ Ends(t)
  /\ UNCHANGED <<main, token, waits, worker, data>>

-----------------------------------------------------------------------------
(* start_polling and its tasks.                                            *)

PollingStarts ==
  /\ Alive
  /\ task["polling"] = "on" /\ task["history"] = "off"
  /\ task' = [task EXCEPT !["history"] = "on", !["manager"] = "waiting"]
  /\ worker' = [w \in Worker |-> "idle"]
  /\ UNCHANGED <<main, token, waits, data>>

(* A rate limit of 0 is a panic in SolanaClient::new, and nobody notices   *)
(* before the handle is awaited.                                           *)
PollingPanics ==
  /\ Alive
  /\ task["polling"] = "on" /\ task["history"] = "off"
  /\ Ends("polling")
  /\ UNCHANGED <<main, token, waits, worker, data>>

(* The manager has the outer mutex to its end. *)
ManagerLocks ==
  /\ Alive
  /\ task["manager"] = "waiting"
  /\ task' = [task EXCEPT !["manager"] = "on"]
  /\ UNCHANGED <<main, token, waits, worker, data>>

Polling == {t \in {"polling", "history"} : task[t] = "on" /\ task["history"] # "off"}

Accept ==
  /\ Alive
  /\ Polling # {} /\ task["manager"] # "on"
  /\ accepted < MaxTx
  /\ accepted' = accepted + 1 /\ buffer' = buffer + 1
  /\ UNCHANGED <<main, token, waits, task, worker, queue>>

(* Mutant of Flush: what is sent stays in the buffer. *)
FlushKeeping ==
  /\ Alive
  /\ buffer > 0
  /\ Polling # {} \/ task["manager"] = "on"
  /\ queue' = queue + 1
  /\ UNCHANGED <<main, token, waits, task, worker, buffer, accepted>>

(* A poller or the manager sends the buffer to the workers. *)
Flush ==
  /\ Alive
  /\ buffer > 0
  /\ \/ task["manager"] = "on"
     \/ Polling # {} /\ task["manager"] # "on"
  /\ buffer' = 0 /\ queue' = queue + 1
  /\ UNCHANGED <<main, token, waits, task, worker, accepted>>

ManagerEnds ==
  /\ Alive /\ token
  /\ task["manager"] = "on"
  /\ Ends("manager")
  /\ UNCHANGED <<main, token, waits, worker, data>>

HistoryEnds ==
  /\ Alive /\ token
  /\ task["history"] = "on"
  /\ Ends("history")
  /\ UNCHANGED <<main, token, waits, worker, data>>

PollingStops ==
  /\ Alive /\ token
  /\ task["polling"] = "on" /\ task["history"] # "off"
  /\ task' = [task EXCEPT !["polling"] = "joining"]
  /\ UNCHANGED <<main, token, waits, worker, data>>

(* Mutant of PollingEnds: the handle of the history task is dropped. *)
PollingEndsAlone ==
  /\ Alive
  /\ task["polling"] = "joining"
  /\ Ends("polling")
  /\ UNCHANGED <<main, token, waits, worker, data>>

PollingEnds ==
  /\ Alive
  /\ task["polling"] = "joining" /\ task["history"] = "ended"
  /\ Ends("polling")
  /\ UNCHANGED <<main, token, waits, worker, data>>

-----------------------------------------------------------------------------
(* The workers.                                                            *)

Senders == {t \in {"polling", "history", "manager"} : task[t] \notin {"off", "ended"}}

(* Mutant of Closed: a worker looks at the token. *)
ClosedByToken == token
Closed == Senders = {}

Receive(w) ==
  /\ Alive
  /\ worker[w] = "idle" /\ queue > 0
  /\ queue' = queue - 1
  /\ worker' = [worker EXCEPT ![w] = "busy"]
  /\ UNCHANGED <<main, token, waits, task, buffer, accepted>>

Process(w) ==
  /\ Alive
  /\ worker[w] = "busy"
  /\ worker' = [worker EXCEPT ![w] = "idle"]
  /\ UNCHANGED <<main, token, waits, task, data>>

WorkerExits(w) ==
  /\ Alive
  /\ worker[w] = "idle" /\ queue = 0 /\ Closed
  /\ worker' = [worker EXCEPT ![w] = "exited"]
  /\ UNCHANGED <<main, token, waits, task, data>>

-----------------------------------------------------------------------------
Tick ==
  /\ main \in Awaited
  /\ timer' = IF timer = 0 THEN 0 ELSE timer - 1
  /\ UNCHANGED <<main, token, late, task, worker, data>>

Main == \E t \in Awaited : Joined(t) \/ TimesOut(t)

Next ==
  \/ Start \/ Bind \/ BindFails \/ Signal \/ Main \/ Tick
  \/ \E t \in Awaited : TaskEnds(t)
  \/ PollingStarts \/ PollingPanics \/ ManagerLocks
  \/ Accept \/ Flush
  \/ ManagerEnds \/ HistoryEnds \/ PollingStops \/ PollingEnds
  \/ \E w \in Worker : Receive(w) \/ Process(w) \/ WorkerExits(w)

(* Time passes and main is scheduled; any other task may hang for ever.    *)
Spec == Init /\ [][Next]_vars /\ WF_vars(Main) /\ WF_vars(Tick)

-----------------------------------------------------------------------------
(* Correctness.                                                            *)

TypeOK ==
  /\ main \in {"start", "bind", "serve", "returned"} \union Awaited
  /\ token \in BOOLEAN
  /\ timer \in 0 .. Timeout
  /\ task \in [Task -> {"off", "waiting", "on", "joining", "ended"}]
  /\ worker \in [Worker -> {"off", "idle", "busy", "exited"}]
  /\ {buffer, queue} \subseteq Nat /\ accepted \in 0 .. MaxTx
  /\ buffer + queue <= accepted
  /\ late \subseteq Awaited

(* A send to the workers never fails for want of a receiver: as long as a  *)
(* task is left that may send, in whatever order the tasks end, every      *)
(* worker is still there.  BatchManager's failing sends need the process   *)
(* to come to its end.                                                     *)
SendsSucceed ==
  Senders # {} /\ task["history"] # "off" =>
    \A w \in Worker : worker[w] \in {"idle", "busy"}

(* A return that no wait ran out before leaves nothing running but the     *)
(* manager and the workers, which nobody waits for: the history task has   *)
(* ended too, and the tasks that fetch transactions fetch no more.         *)
CleanReturn ==
  main = "returned" /\ token /\ late = {} =>
    \A t \in Task \ {"manager"} : task[t] \in {"off", "ended"}

(* Whatever hangs, a signal ends the process.                              *)
SignalEnds == token ~> main = "returned"

(* "Shutdown timed out after {:?}, forcing exit" (main.rs:167, and again   *)
(* at 176, 185 and 194): a wait that ran out is the last thing main does.  *)
(* The code goes on to the next wait, with a full timeout for that one.    *)
ForcedExit == late # {} => main = "returned"

(* "All components shut down, exiting" (main.rs:201): when main returns    *)
(* and no wait ran out, every task has ended, and every worker has left,   *)
(* so that no batch is lost with the channel.  Nobody waits for the        *)
(* manager and the workers that start_polling makes.                       *)
AllComponentsShutDown ==
  main = "returned" /\ token /\ late = {} =>
    /\ \A t \in Task : task[t] \in {"off", "ended"}
    /\ \A w \in Worker : worker[w] \in {"off", "exited"}

(* After the signal main only goes on: a wait gets shorter, or it is over  *)
(* and the next one begins with the full timeout; and a process that has   *)
(* ended does nothing.                                                     *)
MainGoesOn ==
  [][token =>
       /\ token' /\ main # "returned"
       /\ ~UNCHANGED <<main, timer>> =>
            \/ main' = main /\ timer' < timer
            \/ main' = After(main) /\ timer' = Timeout]_vars

=============================================================================
