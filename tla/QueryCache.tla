----------------------------- MODULE QueryCache -----------------------------
(***************************************************************************)
(* GET /transactions: the handler of src/api/route.rs, the two statements  *)
(* of db/transaction.rs and the cache of src/cache in front of them.       *)
(*                                                                         *)
(* A request is validated, its address is looked up, and then the handler  *)
(* holds the mutex around the cache until it has answered: on a miss both  *)
(* the COUNT and the SELECT run under it.  The two statements are not one  *)
(* database transaction, so a worker may commit between them.  Nothing     *)
(* invalidates an entry; it lives for the time to live the cache was built *)
(* with, whatever TTL is passed to insert, or until it is evicted.         *)
(*                                                                         *)
(* Bounds.  MaxClock bounds time.  MaxQueryTime is an assumption about the *)
(* database: from COUNT to insert no more ticks than that go by.           *)
(***************************************************************************)
EXTENDS Integers, Sequences, FiniteSets, SequencesExt

CONSTANTS Row,          \* transactions that may be stored
          Address,
          Parties,      \* source and destination of each row
          Time,         \* block_time of each row
          Query,        \* [address, start, end, offset, limit]
          Client,
          NoClient,     \* nobody holds the cache
          MaxLimit,     \* 1000 in validation.rs
          DefaultTtl,   \* Config.cache_ttl
          RecentSpan, DaySpan,          \* one hour, one day
          RecentTtl, DayTtl, OldTtl,    \* 30 s, 5 min, 30 min
          MaxQueryTime, MaxClock

ASSUME TableAssumption ==
  /\ Parties \in [Row -> SUBSET Address]
  /\ Time \in [Row -> Int]
  /\ IsFiniteSet(Row)
ASSUME QueryAssumption ==
  /\ Query \subseteq [address : Address, start : Int, end : Int,
                      offset : Int, limit : Int]
  /\ Query # {}
ASSUME ClientAssumption == NoClient \notin Client
ASSUME TimeAssumption ==
  /\ {DefaultTtl, RecentTtl, DayTtl, OldTtl} \subseteq Nat
  /\ {RecentSpan, DaySpan, MaxQueryTime, MaxClock, MaxLimit} \subseteq Nat

VARIABLES
  rows,       \* table transactions
  tracked,    \* table tracked_addresses
  now,        \* the clock
  cache,      \* entries [key, page, total, at, ttl]
  holder,     \* the request that holds the cache's mutex
  pc,         \* where each request is
  query,      \* its validated parameters
  total,      \* result of its COUNT
  page,       \* result of its SELECT
  began,      \* history: when its COUNT ran
  storedAt,   \* history: when each row was committed
  told,       \* history: the last total answered for each query
  answer      \* history: the 200 OK answer that the last step gave, if any

database == <<rows, tracked, storedAt>>
request == <<pc, query, total, page, began>>
vars == <<rows, tracked, now, cache, holder, pc, query, total, page, began,
          storedAt, told, answer>>

Locked == {"lookup", "count", "select", "insert"}
NoQuery == CHOOSE q \in Query : TRUE   \* the parameters of no request
NoAnswer == [query |-> NoQuery, entry |-> {}]

-----------------------------------------------------------------------------
(* The statements. *)

\* The WHERE clause.
Matching(q, R) == {r \in R : /\ q.address \in Parties[r]
                             /\ q.start <= Time[r]
                             /\ Time[r] < q.end}

\* ORDER BY block_time ASC: rows of equal block_time in any order.
Orderings(R) == {s \in SetToSeqs(R) :
                   \A i, j \in DOMAIN s : i < j => Time[s[i]] <= Time[s[j]]}

\* LIMIT and OFFSET.
Slice(q, s) == SubSeq(s, q.offset + 1,
                      IF q.offset + q.limit <= Len(s) THEN q.offset + q.limit
                                                      ELSE Len(s))

Pages(q, R) == {Slice(q, s) : s \in Orderings(Matching(q, R))}

ValidPart(q) == q.offset >= 0 /\ q.limit > 0 /\ q.limit <= MaxLimit

\* The handler checks each parameter first and then the two times together.
Valid(q) == ValidPart(q) /\ q.start < q.end

-----------------------------------------------------------------------------
(* The cache. *)

\* CacheKey::TransactionQuery compares all five parameters.
Key(q) == q

\* time_to_live: counted from the insertion.
Live(e) == now < e.at + DefaultTtl

\* The age an entry is last served at; an answer that is not cached has age 0.
Oldest == IF DefaultTtl > 0 THEN DefaultTtl - 1 ELSE 0

\* get_ttl_for_time_range
ChosenTtl(q) == IF q.end > now - RecentSpan THEN RecentTtl
                ELSE IF q.end > now - DaySpan THEN DayTtl
                ELSE OldTtl

EntryFor(c) == [key |-> Key(query[c]), page |-> page[c], total |-> total[c],
                at |-> now, ttl |-> ChosenTtl(query[c])]

-----------------------------------------------------------------------------
Init ==
  /\ rows = {} /\ tracked = {} /\ now = 0 /\ cache = {} /\ holder = NoClient
  /\ pc = [c \in Client |-> "idle"]
  /\ query = [c \in Client |-> NoQuery]
  /\ total = [c \in Client |-> 0]
  /\ page = [c \in Client |-> <<>>]
  /\ began = [c \in Client |-> 0]
  /\ storedAt = [r \in Row |-> 0]
  /\ told = [q \in Query |-> 0]
  /\ answer = NoAnswer

-----------------------------------------------------------------------------
(* One request. *)

Silent == answer' = NoAnswer

\* The parameters pass the validation; others are refused at once.
Ask(c) == \E q \in Query :
  /\ pc[c] = "idle" /\ Valid(q)
  /\ pc' = [pc EXCEPT ![c] = "check"]
  /\ query' = [query EXCEPT ![c] = q]
  /\ Silent
  /\ UNCHANGED <<database, now, cache, holder, total, page, began, told>>

\* The handler returns; its locals are gone and so is the mutex's guard.
Return(c, h) ==
  /\ pc' = [pc EXCEPT ![c] = "idle"]
  /\ query' = [query EXCEPT ![c] = NoQuery]
  /\ total' = [total EXCEPT ![c] = 0]
  /\ page' = [page EXCEPT ![c] = <<>>]
  /\ began' = [began EXCEPT ![c] = 0]
  /\ holder' = h

\* is_address_tracked
Check(c) ==
  /\ pc[c] = "check" /\ query[c].address \in tracked
  /\ pc' = [pc EXCEPT ![c] = "lock"]
  /\ Silent
  /\ UNCHANGED <<database, now, cache, holder, query, total, page, began, told>>

\* It answers no (404) or fails (500).
CheckFails(c) ==
  /\ pc[c] = "check"
  /\ Return(c, holder)
  /\ Silent
  /\ UNCHANGED <<database, now, cache, told>>

\* state.cache.lock()
Lock(c) ==
  /\ pc[c] = "lock" /\ holder = NoClient
  /\ holder' = c
  /\ pc' = [pc EXCEPT ![c] = "lookup"]
  /\ Silent
  /\ UNCHANGED <<database, now, cache, query, total, page, began, told>>

\* 200 OK with the page and the total of e.
Answer(c, e) ==
  /\ answer' = [query |-> query[c], entry |-> {e}]
  /\ told' = [told EXCEPT ![query[c]] = e.total]
  /\ Return(c, NoClient)

\* cache.get: an entry is the answer.
HitRefreshing(c) ==
  /\ pc[c] = "lookup"
  /\ \E e \in cache : /\ e.key = Key(query[c]) /\ Live(e)
                      /\ Answer(c, e)
                      /\ cache' = (cache \ {e}) \union {[e EXCEPT !.at = now]}
  /\ UNCHANGED <<database, now>>

Hit(c) ==
  /\ pc[c] = "lookup"
  /\ \E e \in cache : /\ e.key = Key(query[c]) /\ Live(e)
                      /\ Answer(c, e)
  /\ UNCHANGED <<database, now, cache>>

Missed(c) ==
  /\ pc[c] = "lookup"
  /\ \A e \in cache : e.key = Key(query[c]) => ~Live(e)
  /\ pc' = [pc EXCEPT ![c] = "count"]
  /\ Silent
  /\ UNCHANGED <<database, now, cache, query, total, page, began, told>>

MissUnlocked(c) == Missed(c) /\ holder' = NoClient

Miss(c) == Missed(c) /\ UNCHANGED holder

Count(c) ==
  /\ pc[c] = "count"
  /\ pc' = [pc EXCEPT ![c] = "select"]
  /\ total' = [total EXCEPT ![c] = Cardinality(Matching(query[c], rows))]
  /\ began' = [began EXCEPT ![c] = now]
  /\ Silent
  /\ UNCHANGED <<database, now, cache, holder, query, page, told>>

Select(c) ==
  /\ pc[c] = "select"
  /\ pc' = [pc EXCEPT ![c] = "insert"]
  /\ \E p \in Pages(query[c], rows) : page' = [page EXCEPT ![c] = p]
  /\ Silent
  /\ UNCHANGED <<database, now, cache, holder, query, total, began, told>>

\* Either statement fails: 500, and nothing is cached.
StatementFailsLocked(c) ==
  /\ pc[c] \in {"count", "select"}
  /\ Return(c, holder)
  /\ Silent
  /\ UNCHANGED <<database, now, cache, told>>

StatementFails(c) ==
  /\ pc[c] \in {"count", "select"}
  /\ Return(c, NoClient)
  /\ Silent
  /\ UNCHANGED <<database, now, cache, told>>

\* The client goes away: the server drops the handler where it waits, and
\* the guard of the mutex with it.
Hangup(c) ==
  /\ pc[c] # "idle"
  /\ Return(c, IF holder = c THEN NoClient ELSE holder)
  /\ Silent
  /\ UNCHANGED <<database, now, cache, told>>

\* The result replaces the entry of its key, and is the answer.
InsertBeside(c) ==
  /\ pc[c] = "insert"
  /\ cache' = cache \union {EntryFor(c)}
  /\ Answer(c, EntryFor(c))
  /\ UNCHANGED <<database, now>>

Insert(c) ==
  /\ pc[c] = "insert"
  /\ cache' = {e \in cache : e.key # Key(query[c])} \union {EntryFor(c)}
  /\ Answer(c, EntryFor(c))
  /\ UNCHANGED <<database, now>>

-----------------------------------------------------------------------------
(* Around the requests. *)

\* A worker's insert: one database transaction, foreign keys on.
Commit == \E R \in SUBSET (Row \ rows) :
  /\ R # {}
  /\ \A r \in R : Parties[r] \subseteq tracked
  /\ rows' = rows \union R
  /\ storedAt' = [r \in Row |-> IF r \in R THEN now ELSE storedAt[r]]
  /\ Silent
  /\ UNCHANGED <<tracked, now, cache, holder, request, told>>

\* add_address, by a request or by a worker.
Track == \E a \in Address \ tracked :
  /\ tracked' = tracked \union {a}
  /\ Silent
  /\ UNCHANGED <<rows, storedAt, now, cache, holder, request, told>>

\* remove_address; the foreign keys refuse it once a row names the address.
UntrackAnyway == \E a \in tracked :
  /\ tracked' = tracked \ {a}
  /\ Silent
  /\ UNCHANGED <<rows, storedAt, now, cache, holder, request, told>>

Untrack == \E a \in tracked :
  /\ \A r \in rows : a \notin Parties[r]
  /\ tracked' = tracked \ {a}
  /\ Silent
  /\ UNCHANGED <<rows, storedAt, now, cache, holder, request, told>>

\* The cache drops an entry: it is full, or the entry has expired.
Evict == \E e \in cache :
  /\ cache' = cache \ {e}
  /\ Silent
  /\ UNCHANGED <<database, now, holder, request, told>>

Tick ==
  /\ now < MaxClock
  /\ \A c \in Client : pc[c] \in {"select", "insert"}
                         => now < began[c] + MaxQueryTime
  /\ now' = now + 1
  /\ Silent
  /\ UNCHANGED <<database, cache, holder, request, told>>

-----------------------------------------------------------------------------
Step(c) == \/ Check(c) \/ CheckFails(c) \/ Hit(c) \/ Miss(c) \/ Count(c)
           \/ Select(c) \/ StatementFails(c) \/ Insert(c)

Next == \/ \E c \in Client : Ask(c) \/ Lock(c) \/ Step(c) \/ Hangup(c)
        \/ Commit \/ Track \/ Untrack \/ Evict \/ Tick

SafeSpec == Init /\ [][Next]_vars

(* A handler's task is always polled again; the cache's mutex is tokio's,  *)
(* which is granted in the order of the requests, so that one that waits   *)
(* while the mutex is released again and again gets it.                    *)
Fairness == \A c \in Client : WF_vars(Step(c)) /\ SF_vars(Lock(c))

Spec == SafeSpec /\ Fairness

-----------------------------------------------------------------------------
Entry == [key : Query, page : Seq(Row), total : Nat, at : Nat, ttl : Nat]

\* Everything has its type; the mutex is held exactly by the request that is
\* between lock and answer; the cache has one entry per key.
TypeOK ==
  /\ rows \subseteq Row /\ tracked \subseteq Address
  /\ now \in Nat
  /\ cache \subseteq Entry
  /\ \A e, f \in cache : e.key = f.key => e = f
  /\ holder \in Client \union {NoClient}
  /\ pc \in [Client -> {"idle", "check", "lock"} \union Locked]
  /\ \A c \in Client : holder = c <=> pc[c] \in Locked
  /\ query \in [Client -> Query]
  /\ total \in [Client -> Nat]
  /\ page \in [Client -> Seq(Row)]
  /\ began \in [Client -> Nat]
  /\ storedAt \in [Row -> Nat]
  /\ told \in [Query -> Nat]
  /\ answer \in [query : Query, entry : SUBSET Entry]

Settled(t) == {r \in rows : storedAt[r] < t}

\* p and n are what the two statements return for q, in this order, over
\* tables that hold at least the rows in Old and at most those in All.
Reflects(q, p, n, Old, All) == \E S \in SUBSET All : \E R \in SUBSET S :
  /\ Old \subseteq R
  /\ n = Cardinality(Matching(q, R))
  /\ p \in Pages(q, S)

(* Whatever was asked, cached, evicted and asked again, an answer is a     *)
(* page and a count of the very query that was asked, and misses no row    *)
(* stored longer ago than the time to live plus the time a query takes.    *)
ServedIsRecent == \A e \in answer.entry :
  Reflects(answer.query, e.page, e.total,
           Settled(now - Oldest - MaxQueryTime), rows)

(* A client that repeats its question, or several clients that ask the     *)
(* same, never see X-Total-Count go down: rows are only added, and the     *)
(* mutex keeps a count that is older than a cached one out of the cache.   *)
TotalsNeverGoBack == [][\A q \in Query : told[q] <= told'[q]]_vars

(* 404 for addresses that are not tracked: the check runs before the wait  *)
(* for the mutex, and yet no answer shows a row of an untracked address,   *)
(* from the database or from the cache.                                    *)
OnlyTrackedIsShown == \A e \in answer.entry :
  e.page # <<>> => answer.query.address \in tracked

(* The tables, as the handler may find them from one statement to the      *)
(* next: it relies on what Ledger.tla promises, and on nothing else.       *)
Tables == INSTANCE Ledger WITH Tx <- Row, Ends <- Parties, stored <- rows

(* To its clients the handler is the service of QueryService.tla: cache,   *)
(* mutex, separate statements, evictions and hangups show in nothing but   *)
(* the delay.                                                              *)
Replies == {[query |-> answer.query, page |-> e.page, total |-> e.total] :
              e \in answer.entry}

Service == INSTANCE QueryService WITH Delay <- Oldest + MaxQueryTime,
                                      Shows <- Reflects, reply <- Replies

ImplementsQueryService == Service!Spec

(* Every request ends, answered or refused or given up: no path through    *)
(* the handler, the failing ones included, keeps the mutex.                *)
EveryRequestEnds == \A c \in Client : pc[c] # "idle" ~> pc[c] = "idle"

(* A request only goes on, and the mutex is taken from nobody: between its *)
(* lock and its answer no other request gets into its place, and it is     *)
(* free again in the very step in which its holder ends.                   *)
Path == {<<"idle", "check">>, <<"check", "lock">>, <<"lock", "lookup">>,
         <<"lookup", "count">>, <<"count", "select">>, <<"select", "insert">>}

GoesOn(c) ==
  /\ pc'[c] # pc[c] => pc'[c] = "idle" \/ <<pc[c], pc'[c]>> \in Path
  /\ holder = c /\ holder' # c => holder' = NoClient /\ pc'[c] = "idle"

RequestsGoOn == [][\A c \in Client : GoesOn(c)]_vars

(* cache/transaction.rs: "Use dynamic TTL based on recency of data", the   *)
(* README's "Adaptive TTL": an answer from the cache is younger than the    *)
(* TTL that was chosen for its entry.                                      *)
AdaptiveTtl == \A e \in answer.entry : now < e.at + e.ttl
=============================================================================
