---------------------------- MODULE QueryService ----------------------------
(***************************************************************************)
(* What GET /transactions promises its clients, without cache, mutex,      *)
(* statements or requests in progress: an answer may be late, but by no    *)
(* more than Delay; the totals told for one question never go down; and a  *)
(* page shows something only about a tracked address.  Around the answers  *)
(* rows are only added, and only between tracked addresses.                *)
(* QueryCache.tla implements this module.                                  *)
(***************************************************************************)
EXTENDS Integers, Sequences

CONSTANTS Row,
          Address,
          Parties,                 \* the addresses of each row
          Query,                   \* questions, each about one address
          Delay,                   \* how late an answer may be
          Shows(_, _, _, _, _)     \* a page and a total answer a question
                                   \* over some rows at least, some at most

VARIABLES rows, storedAt, tracked, now,
          told,                    \* the last total told for each question
          reply                    \* what the last step answered, if it did

vars == <<rows, storedAt, tracked, now, told, reply>>

Init ==
  /\ rows = {} /\ tracked = {} /\ now = 0
  /\ storedAt = [r \in Row |-> 0]
  /\ told = [q \in Query |-> 0]
  /\ reply = {}

\* Stored before t.
Before(t) == {r \in rows : storedAt[r] < t}

Answer == [query : Query, page : Seq(Row), total : Nat]

\* One answer is given, whichever it is.
Serve ==
  /\ \E r \in reply' :
       /\ r \in Answer /\ reply' = {r}
       /\ Shows(r.query, r.page, r.total, Before(now - Delay), rows)
       /\ told[r.query] <= r.total
       /\ r.page # <<>> => r.query.address \in tracked
       /\ told' = [told EXCEPT ![r.query] = r.total]
  /\ UNCHANGED <<rows, storedAt, tracked, now>>

\* The reply was read.
Listen ==
  /\ reply' = {}
  /\ UNCHANGED <<rows, storedAt, tracked, now, told>>

Commit(R) ==
  /\ R \intersect rows = {}
  /\ \A r \in R : Parties[r] \subseteq tracked
  /\ rows' = rows \union R
  /\ storedAt' = [r \in Row |-> IF r \in R THEN now ELSE storedAt[r]]
  /\ reply' = {}
  /\ UNCHANGED <<tracked, now, told>>

Track(a) ==
  /\ tracked' = tracked \union {a}
  /\ reply' = {}
  /\ UNCHANGED <<rows, storedAt, now, told>>

Untrack(a) ==
  /\ \A r \in rows : a \notin Parties[r]
  /\ tracked' = tracked \ {a}
  /\ reply' = {}
  /\ UNCHANGED <<rows, storedAt, now, told>>

Tick ==
  /\ now' = now + 1
  /\ reply' = {}
  /\ UNCHANGED <<rows, storedAt, tracked, told>>

Next ==
  \/ Serve
  \/ \E R \in SUBSET Row : Commit(R)
  \/ \E a \in Address : Track(a) \/ Untrack(a)
  \/ Listen \/ Tick

Spec == Init /\ [][Next]_vars

=============================================================================
