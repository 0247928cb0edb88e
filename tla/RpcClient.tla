------------------------------ MODULE RpcClient ------------------------------
(***************************************************************************)
(* SolanaClient of src/blockchain/client.rs: the rate limiter in front of  *)
(* every request and the retries behind it.                                *)
(*                                                                         *)
(* A limiter (crate governor) holds at most Burst cells and gains one per  *)
(* Interval.  A caller that gets a cell runs at once; one that does not    *)
(* sleeps until the next cell is due and then runs without taking it.  A   *)
(* request that fails, for whatever reason, is tried again after a growing *)
(* delay (crate backon), through the limiter.                              *)
(*                                                                         *)
(* The calls of a task are futures joined by one join_all (the chunks of   *)
(* polling.rs) or awaited one by one (processor.rs).  The requests block   *)
(* the task they run in, so one task has one request under way at a time.  *)
(* Both polling tasks share one client; a worker builds one per batch, and *)
(* every client has a limiter of its own.                                  *)
(*                                                                         *)
(* Time passes in ticks; timers may fire late, never early.  charged, free *)
(* and span observe a window of time that begins at any tick.  Bound: a    *)
(* window is at most MaxSpan ticks long.                                   *)
(***************************************************************************)
EXTENDS Naturals, FiniteSets
LOCAL INSTANCE Functions

CONSTANTS Caller,     \* one future calling the client
          Task,
          TaskOf,     \* the task each caller belongs to
          Limiter,
          LimiterOf,  \* the limiter of the client a task uses
          Worker,     \* the tasks that build their client themselves
          Burst,      \* rpc_rate_limit cells
          Interval,   \* ticks per cell: a second / rpc_rate_limit
          MaxRetries, MinDelay, MaxDelay,  \* 5, 100 ms, 10 s
          MaxSpan

ASSUME TaskAssumption ==
  /\ TaskOf \in [Caller -> Task]
  /\ LimiterOf \in [Task -> Limiter]
  /\ Worker \subseteq Task
  /\ \A w \in Worker : \A t \in Task : LimiterOf[t] = LimiterOf[w] => t = w
ASSUME RateAssumption ==
  /\ Burst \in Nat \ {0} /\ Interval \in Nat \ {0}
  /\ {MaxRetries, MinDelay, MaxDelay, MaxSpan} \subseteq Nat

VARIABLES
  cells,    \* cells each limiter has to give
  next,     \* ticks to its next cell; Interval when it is full
  pc,       \* "idle", "wait" for a retry, "sleep" in the limiter, "run"
  left,     \* ticks a caller has still to wait or sleep
  retries,  \* retries of the call under way
  delay,    \* the last delay between them
  charged,  \* history: requests of each limiter's client that took a cell
  free,     \* history: requests of each caller that took none
  span      \* history: ticks since the window began

limiters == <<cells, next>>
callers == <<pc, left, retries, delay>>
window == <<charged, free, span>>
vars == <<limiters, callers, window>>

LimiterFor(c) == LimiterOf[TaskOf[c]]

Init ==
  /\ cells = [l \in Limiter |-> Burst]
  /\ next = [l \in Limiter |-> Interval]
  /\ pc = [c \in Caller |-> "idle"]
  /\ left = [c \in Caller |-> 0]
  /\ retries = [c \in Caller |-> 0]
  /\ delay = [c \in Caller |-> 0]
  /\ charged = [l \in Limiter |-> 0]
  /\ free = [c \in Caller |-> 0]
  /\ span = 0

-----------------------------------------------------------------------------
(* A task calls the client for the callers S and waits for all of them.  A *)
(* key or signature that does not parse is an error before any of this.    *)

Idle(t) == \A c \in Caller : TaskOf[c] = t => pc[c] = "idle"

Begin(t, S) ==
  /\ Idle(t)
  /\ S # {} /\ \A c \in S : TaskOf[c] = t
  /\ pc' = [c \in Caller |-> IF c \in S THEN "wait" ELSE pc[c]]
  /\ UNCHANGED <<limiters, left, retries, delay, window>>

(* SolanaClient::new for the batch of a worker: a full limiter.            *)
Build(t) ==
  LET l == LimiterOf[t]
  IN /\ t \in Worker /\ Idle(t)
     /\ cells' = [cells EXCEPT ![l] = Burst]
     /\ next' = [next EXCEPT ![l] = Interval]
     /\ charged' = [charged EXCEPT ![l] = 0]
     /\ UNCHANGED <<callers, free, span>>

-----------------------------------------------------------------------------
(* rate_limited: no request of the caller's task is running.               *)

CanRun(c) == \A d \in Caller : TaskOf[d] = TaskOf[c] => pc[d] # "run"

Run(c) == pc' = [pc EXCEPT ![c] = "run"]

Check(c) ==
  LET l == LimiterFor(c)
  IN /\ pc[c] = "wait" /\ left[c] = 0 /\ CanRun(c)
     /\ cells[l] > 0
     /\ cells' = [cells EXCEPT ![l] = @ - 1]
     /\ charged' = [charged EXCEPT ![l] = @ + 1]
     /\ Run(c)
     /\ UNCHANGED <<next, left, retries, delay, free, span>>

(* Mutant of CheckFails: the wait is what is left of the cell after next. *)
CheckFailsNow(c) ==
  /\ pc[c] = "wait" /\ left[c] = 0 /\ CanRun(c)
  /\ cells[LimiterFor(c)] = 0
  /\ pc' = [pc EXCEPT ![c] = "sleep"]
  /\ left' = [left EXCEPT ![c] = next[LimiterFor(c)] - 1]
  /\ UNCHANGED <<limiters, retries, delay, window>>

CheckFails(c) ==
  /\ pc[c] = "wait" /\ left[c] = 0 /\ CanRun(c)
  /\ cells[LimiterFor(c)] = 0
  /\ pc' = [pc EXCEPT ![c] = "sleep"]
  /\ left' = [left EXCEPT ![c] = next[LimiterFor(c)]]
  /\ UNCHANGED <<limiters, retries, delay, window>>

Wake(c) ==
  /\ pc[c] = "sleep" /\ left[c] = 0 /\ CanRun(c)
  /\ free' = [free EXCEPT ![c] = @ + 1]
  /\ Run(c)
  /\ UNCHANGED <<limiters, left, retries, delay, charged, span>>

-----------------------------------------------------------------------------
(* The end of a request and retry().                                       *)

Return(c) ==
  /\ pc' = [pc EXCEPT ![c] = "idle"]
  /\ retries' = [retries EXCEPT ![c] = 0]
  /\ delay' = [delay EXCEPT ![c] = 0]
  /\ UNCHANGED left

Succeeds(c) ==
  /\ pc[c] = "run"
  /\ Return(c)
  /\ UNCHANGED <<limiters, window>>

(* The first delay is MinDelay, and each one after it twice the last. *)
NextDelay(c) ==
  IF retries[c] = 0 THEN MinDelay
  ELSE IF 2 * delay[c] < MaxDelay THEN 2 * delay[c] ELSE MaxDelay

(* Mutant of Fails: retries are not counted. *)
FailsAgain(c) ==
  /\ pc[c] = "run"
  /\ pc' = [pc EXCEPT ![c] = "wait"]
  /\ left' = [left EXCEPT ![c] = NextDelay(c)]
  /\ delay' = [delay EXCEPT ![c] = NextDelay(c)]
  /\ UNCHANGED <<limiters, retries, window>>

(* Network errors and all others alike.  Jitter makes a delay longer.      *)
Fails(c) ==
  /\ pc[c] = "run"
  /\ IF retries[c] = MaxRetries
     THEN Return(c)
     ELSE \E jitter \in 0 .. MinDelay :
            /\ pc' = [pc EXCEPT ![c] = "wait"]
            /\ left' = [left EXCEPT ![c] = NextDelay(c) + jitter]
            /\ retries' = [retries EXCEPT ![c] = @ + 1]
            /\ delay' = [delay EXCEPT ![c] = NextDelay(c)]
  /\ UNCHANGED <<limiters, window>>

-----------------------------------------------------------------------------
(* Time.                                                                   *)

Less(n) == IF n = 0 THEN 0 ELSE n - 1
Refills(l) == next[l] = 1 /\ cells[l] < Burst

(* Mutant of Refill: a full limiter goes on collecting cells. *)
RefillAlways ==
  /\ cells' = [l \in Limiter |-> IF next[l] = 1 THEN cells[l] + 1 ELSE cells[l]]
  /\ next' = [l \in Limiter |-> IF next[l] = 1 THEN Interval ELSE next[l] - 1]

Refill ==
  /\ cells' = [l \in Limiter |-> IF Refills(l) THEN cells[l] + 1 ELSE cells[l]]
  /\ next' = [l \in Limiter |-> IF cells[l] = Burst \/ Refills(l) THEN Interval
                                ELSE next[l] - 1]

Observe ==
  \/ /\ span < MaxSpan /\ span' = span + 1
     /\ UNCHANGED <<charged, free>>
  \/ /\ span' = 0
     /\ charged' = [l \in Limiter |-> 0]
     /\ free' = [c \in Caller |-> 0]

Tick ==
  /\ Refill
  /\ left' = [c \in Caller |-> Less(left[c])]
  /\ Observe
  /\ UNCHANGED <<pc, retries, delay>>

CallerStep(c) ==
  Check(c) \/ CheckFails(c) \/ Wake(c) \/ Succeeds(c) \/ Fails(c)

Next ==
  \/ \E t \in Task : (\E S \in SUBSET Caller : Begin(t, S)) \/ Build(t)
  \/ \E c \in Caller : CallerStep(c)
  \/ Tick

(* The runtime polls every task that is ready, requests end by timeout at  *)
(* the latest, and time passes.                                            *)
Spec == /\ Init /\ [][Next]_vars
        /\ \A c \in Caller : WF_vars(CallerStep(c))
        /\ WF_vars(Tick)

-----------------------------------------------------------------------------
(* Correctness.                                                            *)

TypeOK ==
  /\ cells \in [Limiter -> 0 .. Burst]
  /\ next \in [Limiter -> 1 .. Interval]
  /\ pc \in [Caller -> {"idle", "wait", "sleep", "run"}]
  /\ left \in [Caller -> Nat]
  /\ retries \in [Caller -> 0 .. MaxRetries]
  /\ delay \in [Caller -> Nat]
  /\ charged \in [Limiter -> Nat]
  /\ free \in [Caller -> Nat]
  /\ span \in Nat

(* In any window of time, however calls, failures and retries interleave,  *)
(* the requests of one client that took a cell stay within its burst and   *)
(* one per interval.  The others are one per interval for each caller, and *)
(* two more at the edges of the window: that is how far the callers of a   *)
(* chunk can get past the limit together.                                  *)
WithinRate ==
  /\ \A l \in Limiter : charged[l] * Interval <= Burst * Interval + span
  /\ \A c \in Caller : free[c] * Interval <= span + 2 * Interval

(* "Maximum RPC requests per second" (src/README.md:193), taken with the   *)
(* burst a limiter allows: the requests of the whole process in a window   *)
(* stay within the one rate that is configured.  In the code each client   *)
(* has a limiter of its own, and a caller that slept in one takes no cell. *)
Requests == FoldFunction(+, 0, charged) + FoldFunction(+, 0, free)

ConfiguredRate == Requests * Interval <= Burst * Interval + span

(* Every call returns, and with it every chunk, even if every attempt      *)
(* fails and another caller takes each cell as soon as it is there.        *)
CallsReturn == \A c \in Caller : pc[c] # "idle" ~> pc[c] = "idle"

(* No wait is longer than the longest delay with its jitter, or than the   *)
(* time of one cell: doubling stops, and a caller in the limiter waits for *)
(* the next cell and not for a place in a queue.                           *)
LongestDelay == IF MinDelay < MaxDelay THEN MaxDelay ELSE MinDelay

WaitsAreBounded == \A c \in Caller :
  /\ pc[c] = "wait" => left[c] <= LongestDelay + MinDelay
  /\ pc[c] = "sleep" => left[c] <= Interval
  /\ pc[c] \in {"idle", "run"} => left[c] = 0

(* What happens to a call brings its end nearer: time shortens its wait,   *)
(* it goes on to sleep or run, or it has one retry less; it never returns  *)
(* to an earlier stage of the same attempt.                                *)
Closer(c) ==
  \/ pc'[c] = "idle"
  \/ pc[c] = "run" /\ pc'[c] = "wait" /\ retries'[c] = retries[c] + 1
  \/ /\ retries'[c] = retries[c]
     /\ \/ pc[c] = "wait" /\ pc'[c] \in {"sleep", "run"}
        \/ pc[c] = "sleep" /\ pc'[c] = "run"
        \/ pc'[c] = pc[c] /\ left'[c] < left[c]

CallsAdvance ==
  [][\A c \in Caller :
       pc[c] # "idle" /\ ~UNCHANGED <<pc[c], left[c], retries[c]>> => Closer(c)]_vars

=============================================================================
