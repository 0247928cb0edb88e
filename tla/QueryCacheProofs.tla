-------------------------- MODULE QueryCacheProofs --------------------------
(***************************************************************************)
(* Proofs about QueryCache.tla, for every set of rows, questions and       *)
(* clients, every time to live and every bound on the time of a query.     *)
(***************************************************************************)
EXTENDS QueryCache, FiniteSetTheorems, SequenceTheorems, TLAPS

USE TableAssumption, QueryAssumption, ClientAssumption, TimeAssumption

(* Foreign keys, seen from the rows; and no row comes from the future.     *)
RowsAreTracked == \A r \in rows : Parties[r] \subseteq tracked
RowsArePast == \A r \in rows : storedAt[r] <= now

(* A page that shows anything is about an address some row names, so that  *)
(* the foreign keys keep the address tracked.                              *)
IsNamed(q, p) == p # <<>> => \E r \in rows : q.address \in Parties[r]

(* What an entry promises to whoever will be answered with it.             *)
EntriesAreSound == \A e \in cache :
  /\ e.at <= now
  /\ Reflects(e.key, e.page, e.total, Settled(e.at - MaxQueryTime), rows)
  /\ IsNamed(e.key, e.page)
  /\ told[e.key] <= e.total

(* What a request has established between its statements.                  *)
Counted(c) == \E R \in SUBSET rows :
  /\ Settled(began[c]) \subseteq R
  /\ total[c] = Cardinality(Matching(query[c], R))

RequestIsSound(c) ==
  /\ pc[c] # "idle" => Valid(query[c])
  /\ pc[c] \in {"select", "insert"} =>
       /\ began[c] <= now /\ now <= began[c] + MaxQueryTime
       /\ told[query[c]] <= total[c]
  /\ pc[c] = "select" => Counted(c)
  /\ pc[c] = "insert" =>
       /\ Reflects(query[c], page[c], total[c], Settled(began[c]), rows)
       /\ IsNamed(query[c], page[c])

RequestsAreSound == \A c \in Client : RequestIsSound(c)

ToldIsStored == \A q \in Query : told[q] <= Cardinality(Matching(q, rows))

IInv ==
  /\ TypeOK
  /\ RowsAreTracked /\ RowsArePast
  /\ EntriesAreSound /\ RequestsAreSound
  /\ ToldIsStored
  /\ ServedIsRecent /\ OnlyTrackedIsShown

-----------------------------------------------------------------------------
(* The statements. *)

LEMMA MatchingIsFinite ==
  ASSUME NEW q, NEW R \in SUBSET Row
  PROVE  /\ IsFiniteSet(Matching(q, R))
         /\ Cardinality(Matching(q, R)) \in Nat
  BY FS_Subset, FS_CardinalityType DEF Matching

(* More rows, a larger count.                                              *)
LEMMA MatchingGrows ==
  ASSUME NEW q, NEW S \in SUBSET Row, NEW R \in SUBSET S
  PROVE  Cardinality(Matching(q, R)) <= Cardinality(Matching(q, S))
  <1>1. Matching(q, R) \subseteq Matching(q, S)
    BY DEF Matching
  <1> QED BY <1>1, MatchingIsFinite, FS_Subset

(* A page consists of rows that match, whatever the offset skips.          *)
LEMMA PageOfMatching ==
  ASSUME NEW q \in Query, Valid(q), NEW R \in SUBSET Row, NEW p \in Pages(q, R)
  PROVE  p \in Seq(Matching(q, R))
  <1> DEFINE M == Matching(q, R)
             N == Cardinality(M)
  <1>1. PICK s \in [1..N -> M] : p = Slice(q, s)
    BY DEF Pages, Orderings, SetToSeqs
  <1>2. N \in Nat
    BY MatchingIsFinite
  <1> HIDE DEF M, N
  <1>3. s \in Seq(M) /\ Len(s) = N
    BY <1>2
  <1> DEFINE k == IF q.offset + q.limit <= Len(s) THEN q.offset + q.limit
                                                  ELSE Len(s)
  <1>4. q.offset \in Nat /\ q.limit \in Int /\ k \in Int /\ k <= N
    <2>1. q.offset \in Nat /\ q.limit \in Int
      BY ONLY Valid(q), q \in Query, QueryAssumption DEF Valid, ValidPart
    <2>2. Len(s) \in Int /\ Len(s) = N
      BY <1>2, <1>3
    <2> QED BY ONLY <2>1, <2>2
  <1>5. ASSUME NEW i \in q.offset + 1 .. k PROVE s[i] \in M
    <2>1. i \in 1 .. N
      BY ONLY i \in q.offset + 1 .. k, <1>2, <1>4
    <2> QED BY <2>1
  <1> DEFINE j == q.offset + 1
  <1>6. j \in Int /\ k \in Int /\ \A i \in j .. k : s[i] \in M
    <2>1. j \in Int /\ k \in Int
      BY ONLY <1>4
    <2> HIDE DEF k
    <2> QED BY ONLY <1>5, <2>1
  <1>7. p = SubSeq(s, j, k)
    BY <1>1 DEF Slice
  <1> HIDE DEF j, k
  <1>8. SubSeq(s, j, k) \in Seq(M)
    BY ONLY <1>6, SubSeqProperties
  <1> QED BY <1>7, <1>8 DEF M

LEMMA PageShowsTracked ==
  ASSUME NEW q \in Query, Valid(q), NEW R \in SUBSET Row, NEW p \in Pages(q, R)
  PROVE  /\ p \in Seq(Row)
         /\ p # <<>> => \E r \in R : q.address \in Parties[r]
  <1>1. p \in Seq(Matching(q, R))
    BY PageOfMatching
  <1>2. Matching(q, R) \subseteq Row
    BY DEF Matching
  <1> DEFINE n == Len(p)
  <1>0. n \in Nat /\ p \in [1 .. n -> Matching(q, R)] /\ (p # <<>> => n # 0)
    BY ONLY <1>1
  <1>3. p \in Seq(Row)
    <2> HIDE DEF n
    <2>1. p \in [1 .. n -> Row]
      BY ONLY <1>0, <1>2
    <2> QED BY ONLY <1>0, <2>1
  <1>4. p # <<>> => p[1] \in Matching(q, R)
    <2> HIDE DEF n
    <2> QED BY ONLY <1>0
  <1> QED BY <1>3, <1>4 DEF Matching

(* What was true of fewer old rows and of less is true of more.            *)
LEMMA ReflectsMore ==
  ASSUME NEW q, NEW p, NEW n, NEW Old, NEW All, NEW Old2, NEW All2,
         Reflects(q, p, n, Old, All), Old2 \subseteq Old, All \subseteq All2
  PROVE  Reflects(q, p, n, Old2, All2)
  BY DEF Reflects

LEMMA SettledGrows ==
  ASSUME TypeOK, NEW t \in Int, NEW u \in Int, t <= u
  PROVE  Settled(t) \subseteq Settled(u)
  <1>1. rows \subseteq Row /\ storedAt \in [Row -> Nat]
    BY DEF TypeOK
  <1> QED BY ONLY <1>1, t \in Int, u \in Int, t <= u DEF Settled

-----------------------------------------------------------------------------
(* Type correctness.                                                       *)

LEMMA NothingIsTyped ==
  NoQuery \in Query /\ NoAnswer \in [query : Query, entry : SUBSET Entry]
  BY DEF NoQuery, NoAnswer

LEMMA InitIInv == Init => IInv
  <1> SUFFICES ASSUME Init PROVE IInv
    OBVIOUS
  <1>1. TypeOK
    BY NothingIsTyped DEF Init, TypeOK, Locked
  <1>2. RowsAreTracked /\ RowsArePast /\ EntriesAreSound /\ RequestsAreSound
    BY DEF Init, RowsAreTracked, RowsArePast, EntriesAreSound, RequestsAreSound,
           RequestIsSound
  <1>3. ToldIsStored
    BY MatchingIsFinite DEF Init, ToldIsStored
  <1>4. ServedIsRecent /\ OnlyTrackedIsShown
    BY DEF Init, ServedIsRecent, OnlyTrackedIsShown, NoAnswer
  <1> QED BY <1>1, <1>2, <1>3, <1>4 DEF IInv

(* What the handler returns with is typed, and the mutex is free when the  *)
(* request held it.                                                        *)
LEMMA ReturnType ==
  ASSUME TypeOK, NEW c \in Client, NEW h,
         Return(c, h),
         h = IF holder = c THEN NoClient ELSE holder
  PROVE  /\ holder' \in Client \union {NoClient}
         /\ pc' \in [Client -> {"idle", "check", "lock"} \union Locked]
         /\ \A d \in Client : holder' = d <=> pc'[d] \in Locked
         /\ query' \in [Client -> Query] /\ total' \in [Client -> Nat]
         /\ page' \in [Client -> Seq(Row)] /\ began' \in [Client -> Nat]
  <1>1. <<>> \in Seq(Row)
    OBVIOUS
  <1> QED BY <1>1, NothingIsTyped DEF TypeOK, Return, Locked

(* An answer and the entry it comes from are typed.                        *)
LEMMA AnswerType ==
  ASSUME TypeOK, NEW c \in Client, NEW e \in Entry, Answer(c, e)
  PROVE  /\ told' \in [Query -> Nat]
         /\ answer' \in [query : Query, entry : SUBSET Entry]
  BY DEF TypeOK, Answer, Entry

LEMMA EntryType ==
  ASSUME TypeOK, NEW c \in Client
  PROVE  EntryFor(c) \in Entry
  BY DEF TypeOK, EntryFor, Entry, Key, ChosenTtl

(* Steps of a request that goes on.                                        *)
LEMMA GoingOnType ==
  ASSUME TypeOK, NEW c \in Client, RequestsAreSound,
         Ask(c) \/ Check(c) \/ Lock(c) \/ Miss(c) \/ Count(c) \/ Select(c)
  PROVE  TypeOK'
  <1>1. CASE Ask(c)
    <2>1. PICK q \in Query : /\ pc[c] = "idle"
                             /\ pc' = [pc EXCEPT ![c] = "check"]
                             /\ query' = [query EXCEPT ![c] = q]
      BY <1>1 DEF Ask
    <2>2. /\ query' \in [Client -> Query]
          /\ pc' \in [Client -> {"idle", "check", "lock"} \union Locked]
          /\ \A d \in Client : pc'[d] \in Locked <=> pc[d] \in Locked
      BY <2>1 DEF TypeOK, Locked
    <2> QED
      BY <1>1, <2>2, NothingIsTyped DEF Ask, Silent, TypeOK, database
  <1>2. CASE Check(c)
    BY <1>2, NothingIsTyped DEF Check, Silent, TypeOK, Locked, database
  <1>3. CASE Lock(c)
    BY <1>3, NothingIsTyped DEF Lock, Silent, TypeOK, Locked, database
  <1>4. CASE Miss(c)
    BY <1>4, NothingIsTyped DEF Miss, Missed, Silent, TypeOK, Locked, database
  <1>5. CASE Count(c)
    <2>1. Cardinality(Matching(query[c], rows)) \in Nat
      BY MatchingIsFinite DEF TypeOK
    <2> QED
      BY <1>5, <2>1, NothingIsTyped DEF Count, Silent, TypeOK, Locked, database
  <1>6. CASE Select(c)
    <2>1. \A p \in Pages(query[c], rows) : p \in Seq(Row)
      BY <1>6, PageShowsTracked DEF Select, TypeOK, RequestsAreSound,
                                 RequestIsSound
    <2> QED
      BY <1>6, <2>1, NothingIsTyped DEF Select, Silent, TypeOK, Locked, database
  <1> QED BY <1>1, <1>2, <1>3, <1>4, <1>5, <1>6

(* Steps that end a request without an answer.                             *)
LEMMA EndingType ==
  ASSUME TypeOK, NEW c \in Client,
         CheckFails(c) \/ StatementFails(c) \/ Hangup(c)
  PROVE  TypeOK'
  <1>1. PICK h : /\ Return(c, h)
                 /\ h = IF holder = c THEN NoClient ELSE holder
    BY DEF CheckFails, StatementFails, Hangup, TypeOK, Locked
  <1>2. UNCHANGED <<rows, tracked, storedAt, now, cache, told>> /\ Silent
    BY DEF CheckFails, StatementFails, Hangup, database
  <1>3. /\ rows' \subseteq Row /\ tracked' \subseteq Address /\ now' \in Nat
        /\ cache' \subseteq Entry
        /\ \A e, f \in cache' : e.key = f.key => e = f
        /\ storedAt' \in [Row -> Nat] /\ told' \in [Query -> Nat]
        /\ answer' \in [query : Query, entry : SUBSET Entry]
    BY <1>2, NothingIsTyped DEF TypeOK, Silent
  <1> QED BY <1>1, <1>3, ReturnType DEF TypeOK

(* Steps that answer.                                                      *)
LEMMA AnswerStepType ==
  ASSUME TypeOK, NEW c \in Client, Hit(c) \/ Insert(c)
  PROVE  TypeOK'
  <1>1. PICK e \in Entry : Answer(c, e)
    BY EntryType DEF Hit, Insert, TypeOK
  <1>2. holder = c
    BY DEF Hit, Insert, TypeOK, Locked
  <1>3. Return(c, NoClient)
    BY <1>1 DEF Answer
  <1>4. UNCHANGED <<rows, tracked, storedAt, now>>
    BY DEF Hit, Insert, database
  <1>5. cache' \subseteq Entry /\ \A f, g \in cache' : f.key = g.key => f = g
    <2>1. CASE Hit(c)
      BY <2>1 DEF Hit, TypeOK
    <2>2. CASE Insert(c)
      <3>1. EntryFor(c).key = Key(query[c])
        BY DEF EntryFor
      <3>2. EntryFor(c) \in Entry
        BY EntryType
      <3> HIDE DEF EntryFor
      <3> QED BY <2>2, <3>1, <3>2 DEF Insert, TypeOK
    <2> QED BY <2>1, <2>2
  <1> QED BY <1>1, <1>2, <1>3, <1>4, <1>5, ReturnType, AnswerType DEF TypeOK

LEMMA AroundType ==
  ASSUME TypeOK, Commit \/ Track \/ Untrack \/ Evict \/ Tick
  PROVE  TypeOK'
  <1>1. /\ answer' \in [query : Query, entry : SUBSET Entry]
        /\ UNCHANGED <<holder, pc, query, total, page, began, told>>
    BY NothingIsTyped
    DEF Commit, Track, Untrack, Evict, Tick, Silent, request, database
  <1>2. /\ rows' \subseteq Row /\ tracked' \subseteq Address /\ now' \in Nat
        /\ storedAt' \in [Row -> Nat]
    <2>1. CASE Commit
      <3>1. /\ rows \subseteq Row /\ tracked \subseteq Address /\ now \in Nat
            /\ storedAt \in [Row -> Nat]
        BY DEF TypeOK
      <3> QED BY <2>1, <3>1 DEF Commit
    <2>2. CASE Track
      BY <2>2 DEF Track, TypeOK
    <2>3. CASE Untrack
      BY <2>3 DEF Untrack, TypeOK
    <2>4. CASE Evict
      BY <2>4 DEF Evict, TypeOK, database
    <2>5. CASE Tick
      <3>1. now \in Nat /\ now' = now + 1
        BY <2>5 DEF Tick, TypeOK
      <3>2. now' \in Nat
        BY <3>1
      <3> QED BY <2>5, <3>2 DEF Tick, TypeOK, database
    <2> QED BY <2>1, <2>2, <2>3, <2>4, <2>5
  <1>3. cache' \subseteq cache
    BY DEF Commit, Track, Untrack, Evict, Tick
  <1> QED BY <1>1, <1>2, <1>3 DEF TypeOK
-----------------------------------------------------------------------------
(* Steps of a request that change neither the tables nor the cache nor     *)
(* what was told: everything stands, but for the request itself.           *)

QuietStep(c) ==
  /\ UNCHANGED <<rows, tracked, storedAt, now, cache, told>>
  /\ Silent
  /\ \A d \in Client \ {c} :
       /\ pc'[d] = pc[d] /\ query'[d] = query[d] /\ total'[d] = total[d]
       /\ page'[d] = page[d] /\ began'[d] = began[d]

LEMMA RequestStepsAreQuiet ==
  ASSUME TypeOK, NEW c \in Client,
         \/ Ask(c) \/ Check(c) \/ Lock(c) \/ Miss(c) \/ Count(c) \/ Select(c)
         \/ CheckFails(c) \/ StatementFails(c) \/ Hangup(c)
  PROVE  QuietStep(c)
  <1>1. CASE Ask(c) \/ Check(c) \/ Lock(c)
    BY <1>1 DEF Ask, Check, Lock, QuietStep, TypeOK, database
  <1>2. CASE Miss(c) \/ Count(c) \/ Select(c)
    BY <1>2 DEF Miss, Missed, Count, Select, QuietStep, TypeOK, database
  <1>3. CASE CheckFails(c) \/ StatementFails(c) \/ Hangup(c)
    BY <1>3 DEF CheckFails, StatementFails, Hangup, Return, QuietStep, TypeOK,
                database
  <1> QED BY <1>1, <1>2, <1>3

LEMMA QuietStepIInv ==
  ASSUME IInv, TypeOK', NEW c \in Client, QuietStep(c), RequestIsSound(c)'
  PROVE  IInv'
  <1>1. UNCHANGED <<rows, tracked, storedAt, now, cache, told>> /\ Silent
    BY DEF QuietStep
  <1>2. RowsAreTracked' /\ RowsArePast' /\ ToldIsStored'
    BY <1>1 DEF IInv, RowsAreTracked, RowsArePast, ToldIsStored
  <1>3. EntriesAreSound'
    BY <1>1 DEF IInv, EntriesAreSound, Settled, IsNamed
  <1>4. ASSUME NEW d \in Client, d # c PROVE RequestIsSound(d)'
    <2>1. RequestIsSound(d)
      BY DEF IInv, RequestsAreSound
    <2> QED BY <1>1, <1>4, <2>1 DEF QuietStep, RequestIsSound, Counted, Settled,
                                    IsNamed
  <1>5. RequestsAreSound'
    BY <1>4 DEF RequestsAreSound
  <1>6. ServedIsRecent' /\ OnlyTrackedIsShown'
    BY <1>1 DEF Silent, NoAnswer, ServedIsRecent, OnlyTrackedIsShown
  <1> QED BY <1>2, <1>3, <1>5, <1>6 DEF IInv

LEMMA RequestStepIInv ==
  ASSUME IInv, NEW c \in Client,
         \/ Ask(c) \/ Check(c) \/ Lock(c) \/ Miss(c) \/ Count(c) \/ Select(c)
         \/ CheckFails(c) \/ StatementFails(c) \/ Hangup(c)
  PROVE  IInv'
  <1>1. TypeOK'
    BY GoingOnType, EndingType DEF IInv
  <1>2. QuietStep(c)
    BY RequestStepsAreQuiet DEF IInv
  <1>3. TypeOK /\ RequestIsSound(c)
    BY DEF IInv, RequestsAreSound
  <1> SUFFICES RequestIsSound(c)'
    BY <1>1, <1>2, QuietStepIInv
  <1>4. CASE Ask(c)
    BY <1>3, <1>4 DEF Ask, RequestIsSound, TypeOK
  <1>5. CASE Check(c) \/ Lock(c) \/ Miss(c)
    BY <1>3, <1>5 DEF Check, Lock, Miss, Missed, RequestIsSound, TypeOK
  <1>6. CASE Count(c)
    <2>1. Counted(c)'
      <3>1. rows \in SUBSET rows' /\ Settled(began[c])' \subseteq rows
        BY <1>6 DEF Count, database, Settled
      <3> QED BY <1>3, <1>6, <3>1 DEF Count, Counted, TypeOK
    <2>2. told[query[c]] <= Cardinality(Matching(query[c], rows))
      BY <1>3 DEF IInv, ToldIsStored, TypeOK
    <2>3. now <= now + MaxQueryTime
      BY <1>3 DEF TypeOK
    <2> QED BY <1>3, <1>6, <2>1, <2>2, <2>3 DEF Count, RequestIsSound, TypeOK
  <1>7. CASE Select(c)
    <2>1. PICK R \in SUBSET rows : /\ Settled(began[c]) \subseteq R
                                   /\ total[c] = Cardinality(Matching(query[c], R))
      BY <1>3, <1>7 DEF Select, RequestIsSound, Counted
    <2>2. page'[c] \in Pages(query[c], rows)
      BY <1>3, <1>7 DEF Select, TypeOK
    <2>3. Reflects(query[c], page'[c], total[c], Settled(began[c]), rows)
      BY <2>1, <2>2 DEF Reflects
    <2>4. page'[c] # <<>> => \E r \in rows : query[c].address \in Parties[r]
      BY <1>3, <1>7, <2>2, PageShowsTracked DEF Select, RequestIsSound, TypeOK
    <2>5. /\ pc'[c] = "insert" /\ Valid(query[c])
          /\ UNCHANGED <<rows, storedAt, now, query, total, began, told>>
      BY <1>3, <1>7 DEF Select, RequestIsSound, TypeOK, database
    <2>6. Settled(began[c])' = Settled(began[c])
      BY <2>5 DEF Settled
    <2> QED BY <1>3, <1>7, <2>3, <2>4, <2>5, <2>6
            DEF Select, RequestIsSound, IsNamed
  <1>8. CASE CheckFails(c) \/ StatementFails(c) \/ Hangup(c)
    BY <1>3, <1>8
    DEF CheckFails, StatementFails, Hangup, Return, RequestIsSound, TypeOK
  <1> QED BY <1>4, <1>5, <1>6, <1>7, <1>8
-----------------------------------------------------------------------------
(* Steps that answer.  The mutex makes the request that answers the only   *)
(* one between its COUNT and its answer, so that what it tells cannot      *)
(* overtake what another request has counted.                              *)

SoundAnswer(q, e) ==
  /\ e.key = q
  /\ Reflects(q, e.page, e.total, Settled(now - Oldest - MaxQueryTime), rows)
  /\ IsNamed(q, e.page)
  /\ told[q] <= e.total
  /\ e.total <= Cardinality(Matching(q, rows))

LEMMA OldestAge ==
  Oldest \in Nat /\ \A a \in Int : a < DefaultTtl /\ a >= 0 => a <= Oldest
  BY DEF Oldest

(* A count over some of the rows is at most the count over all.            *)
LEMMA ReflectedTotal ==
  ASSUME TypeOK, NEW q, NEW p, NEW n, NEW Old, Reflects(q, p, n, Old, rows)
  PROVE  n \in Nat /\ n <= Cardinality(Matching(q, rows))
  <1>1. PICK S \in SUBSET rows : \E R \in SUBSET S :
             n = Cardinality(Matching(q, R))
    BY DEF Reflects
  <1>2. PICK R \in SUBSET S : n = Cardinality(Matching(q, R))
    BY <1>1
  <1>3. R \in SUBSET rows /\ rows \in SUBSET Row /\ R \in SUBSET Row
    BY DEF TypeOK
  <1> QED BY <1>2, <1>3, MatchingIsFinite, MatchingGrows

LEMMA HitIsSound ==
  ASSUME IInv, NEW c \in Client, NEW e \in cache, e.key = query[c], Live(e)
  PROVE  SoundAnswer(query[c], e)
  <1>1. /\ TypeOK /\ e \in Entry /\ e.at \in Nat /\ now \in Nat
        /\ e.at <= now /\ now < e.at + DefaultTtl
    BY DEF IInv, TypeOK, EntriesAreSound, Live, Entry
  <1>2. /\ now - Oldest - MaxQueryTime \in Int /\ e.at - MaxQueryTime \in Int
        /\ now - Oldest - MaxQueryTime <= e.at - MaxQueryTime
    <2>1. now - e.at <= Oldest
      BY <1>1, OldestAge
    <2> QED BY <1>1, <2>1, OldestAge
  <1>3. Settled(now - Oldest - MaxQueryTime) \subseteq Settled(e.at - MaxQueryTime)
    BY <1>1, <1>2, SettledGrows
  <1>4. /\ Reflects(e.key, e.page, e.total, Settled(e.at - MaxQueryTime), rows)
        /\ IsNamed(e.key, e.page) /\ told[e.key] <= e.total
    BY DEF IInv, EntriesAreSound
  <1>5. Reflects(e.key, e.page, e.total, Settled(now - Oldest - MaxQueryTime), rows)
    BY <1>3, <1>4, ReflectsMore
  <1>6. e.total <= Cardinality(Matching(e.key, rows))
    BY <1>1, <1>4, ReflectedTotal
  <1> QED BY <1>4, <1>5, <1>6 DEF SoundAnswer

LEMMA InsertIsSound ==
  ASSUME IInv, NEW c \in Client, pc[c] = "insert"
  PROVE  /\ SoundAnswer(query[c], EntryFor(c))
         /\ Reflects(query[c], page[c], total[c], Settled(now - MaxQueryTime), rows)
  <1>1. /\ TypeOK /\ began[c] \in Nat /\ now \in Nat
        /\ now <= began[c] + MaxQueryTime
        /\ told[query[c]] <= total[c]
        /\ Reflects(query[c], page[c], total[c], Settled(began[c]), rows)
        /\ IsNamed(query[c], page[c])
    BY DEF IInv, TypeOK, RequestsAreSound, RequestIsSound
  <1>2. /\ now - MaxQueryTime \in Int /\ now - Oldest - MaxQueryTime \in Int
        /\ now - MaxQueryTime <= began[c]
        /\ now - Oldest - MaxQueryTime <= began[c]
    BY <1>1, OldestAge
  <1>3. /\ Settled(now - MaxQueryTime) \subseteq Settled(began[c])
        /\ Settled(now - Oldest - MaxQueryTime) \subseteq Settled(began[c])
    BY <1>1, <1>2, SettledGrows
  <1>4. Reflects(query[c], page[c], total[c], Settled(now - MaxQueryTime), rows)
    BY <1>1, <1>3, ReflectsMore
  <1>5. Reflects(query[c], page[c], total[c],
                 Settled(now - Oldest - MaxQueryTime), rows)
    BY <1>1, <1>3, ReflectsMore
  <1>6. total[c] <= Cardinality(Matching(query[c], rows))
    BY <1>1, ReflectedTotal
  <1> QED BY <1>1, <1>4, <1>5, <1>6 DEF SoundAnswer, EntryFor, Key

LEMMA AnsweringIInv ==
  ASSUME IInv, TypeOK', NEW c \in Client, NEW e \in Entry,
         holder = c, Answer(c, e), SoundAnswer(query[c], e),
         UNCHANGED <<rows, tracked, storedAt, now>>,
         \A f \in cache' : \/ f = e /\ f.at <= now
                              /\ Reflects(f.key, f.page, f.total,
                                          Settled(f.at - MaxQueryTime), rows)
                           \/ f \in cache /\ (f.key # e.key \/ f = e)
  PROVE  IInv' /\ \A q \in Query : told[q] <= told'[q]
  <1> DEFINE q == query[c]
  <1>1. TypeOK /\ q \in Query /\ told \in [Query -> Nat] /\ e.total \in Nat
    BY DEF IInv, TypeOK, Entry
  <1>2. /\ told' = [told EXCEPT ![q] = e.total]
        /\ answer' = [query |-> q, entry |-> {e}]
        /\ pc'[c] = "idle"
        /\ \A d \in Client \ {c} :
             /\ pc'[d] = pc[d] /\ query'[d] = query[d] /\ total'[d] = total[d]
             /\ page'[d] = page[d] /\ began'[d] = began[d]
    BY DEF Answer, Return, IInv, TypeOK
  <1>3. /\ e.key = q /\ told[q] <= e.total /\ IsNamed(q, e.page)
        /\ Reflects(q, e.page, e.total, Settled(now - Oldest - MaxQueryTime), rows)
        /\ e.total <= Cardinality(Matching(q, rows))
    BY DEF SoundAnswer
  <1>4. RowsAreTracked' /\ RowsArePast'
    BY DEF IInv, RowsAreTracked, RowsArePast
  <1>5. ToldIsStored'
    BY <1>1, <1>2, <1>3 DEF IInv, ToldIsStored
  <1>6. \A t : Settled(t)' = Settled(t)
    BY DEF Settled
  <1>7. EntriesAreSound'
    <2> SUFFICES ASSUME NEW f \in cache'
                 PROVE  /\ f.at <= now
                        /\ Reflects(f.key, f.page, f.total,
                                    Settled(f.at - MaxQueryTime), rows)
                        /\ IsNamed(f.key, f.page)
                        /\ told'[f.key] <= f.total
      BY DEF EntriesAreSound, Settled, IsNamed
    <2>1. CASE f = e
      BY <1>1, <1>2, <1>3, <2>1 DEF IInv, EntriesAreSound
    <2>2. CASE f \in cache /\ f.key # e.key
      BY <1>1, <1>2, <1>3, <2>2 DEF IInv, EntriesAreSound
    <2> QED BY <2>1, <2>2
  <1>8. RequestsAreSound'
    <2>1. RequestIsSound(c)'
      BY <1>2 DEF RequestIsSound
    <2>2. ASSUME NEW d \in Client, d # c PROVE RequestIsSound(d)'
      <3>1. RequestIsSound(d) /\ pc[d] \notin {"select", "insert"}
        BY <2>2 DEF IInv, RequestsAreSound, TypeOK, Locked
      <3> QED BY <1>2, <2>2, <3>1 DEF RequestIsSound
    <2> QED BY <2>1, <2>2 DEF RequestsAreSound
  <1>9. ServedIsRecent' /\ OnlyTrackedIsShown'
    <2>1. q.address \in tracked \/ e.page = <<>>
      BY <1>3 DEF IInv, IsNamed, RowsAreTracked
    <2> QED BY <1>2, <1>3, <2>1 DEF ServedIsRecent, OnlyTrackedIsShown, Settled
  <1>10. \A r \in Query : told[r] <= told'[r]
    BY <1>1, <1>2, <1>3
  <1> QED BY <1>4, <1>5, <1>7, <1>8, <1>9, <1>10 DEF IInv

LEMMA AnswerStepIInv ==
  ASSUME IInv, NEW c \in Client, Hit(c) \/ Insert(c)
  PROVE  IInv' /\ \A q \in Query : told[q] <= told'[q]
  <1>1. TypeOK /\ TypeOK'
    BY AnswerStepType DEF IInv
  <1>2. holder = c /\ UNCHANGED <<rows, tracked, storedAt, now>>
    BY <1>1 DEF Hit, Insert, TypeOK, Locked, database
  <1>3. CASE Hit(c)
    <2>1. PICK e \in cache : e.key = query[c] /\ Live(e) /\ Answer(c, e)
      BY <1>3 DEF Hit, Key
    <2>2. e \in Entry /\ SoundAnswer(query[c], e)
      BY <1>1, <2>1, HitIsSound DEF TypeOK
    <2>3. \A f \in cache' : f \in cache /\ (f.key # e.key \/ f = e)
      BY <1>1, <1>3, <2>1 DEF Hit, TypeOK
    <2> QED BY <1>1, <1>2, <2>1, <2>2, <2>3, AnsweringIInv
  <1>4. CASE Insert(c)
    <2> DEFINE e == EntryFor(c)
    <2>1. /\ e \in Entry /\ SoundAnswer(query[c], e) /\ Answer(c, e)
          /\ Reflects(query[c], page[c], total[c], Settled(now - MaxQueryTime), rows)
      BY <1>1, <1>4, EntryType, InsertIsSound DEF Insert
    <2>2. /\ e.at = now /\ e.key = query[c]
          /\ e.page = page[c] /\ e.total = total[c]
      BY DEF EntryFor, Key
    <2> HIDE DEF e
    <2>3. \A f \in cache' : f = e \/ (f \in cache /\ f.key # e.key)
      BY <1>4, <2>2 DEF Insert, Key, e
    <2>4. now <= now
      BY <1>1 DEF TypeOK
    <2> QED BY <1>1, <1>2, <2>1, <2>2, <2>3, <2>4, AnsweringIInv
  <1> QED BY <1>3, <1>4
-----------------------------------------------------------------------------
(* Steps around the requests.  A commit adds rows of this very moment, so  *)
(* that what was settled before stays what it was; a removal spares every  *)
(* address a row names, and so every address a page shows.                 *)
LEMMA AroundIInv ==
  ASSUME IInv, Commit \/ Track \/ Untrack \/ Evict \/ Tick
  PROVE  IInv' /\ told' = told
  <1>1. /\ TypeOK /\ TypeOK' /\ now \in Nat
        /\ rows \in SUBSET Row /\ storedAt \in [Row -> Nat]
        /\ rows' \in SUBSET Row
    <2>1. TypeOK /\ TypeOK'
      BY AroundType DEF IInv
    <2> QED BY <2>1 DEF TypeOK
  <1>2. /\ Silent /\ cache' \subseteq cache /\ rows \subseteq rows'
        /\ UNCHANGED <<pc, query, total, page, began, told>>
    BY DEF Commit, Track, Untrack, Evict, Tick, request, database
  <1>3. now' \in Nat /\ now <= now'
    <2>1. CASE Tick
      BY <1>1, <2>1 DEF Tick
    <2>2. CASE Commit \/ Track \/ Untrack \/ Evict
      <3>1. now' = now
        BY <2>2 DEF Commit, Track, Untrack, Evict
      <3> QED BY <1>1, <3>1
    <2> QED BY <2>1, <2>2
  <1>4. ASSUME NEW t \in Int, t <= now PROVE Settled(t)' = Settled(t)
    <2>1. CASE Commit
      <3>1. PICK R \in SUBSET (Row \ rows) :
                 /\ rows' = rows \union R
                 /\ storedAt' = [r \in Row |-> IF r \in R THEN now ELSE storedAt[r]]
        BY <2>1 DEF Commit
      <3>2. \A r \in R : ~(storedAt'[r] < t)
        BY <1>1, <1>4, <3>1
      <3>3. \A r \in rows : storedAt'[r] = storedAt[r]
        BY <1>1, <3>1
      <3> QED BY <3>1, <3>2, <3>3 DEF Settled
    <2>2. CASE Track \/ Untrack \/ Evict \/ Tick
      <3>1. UNCHANGED <<rows, storedAt>>
        BY <2>2 DEF Track, Untrack, Evict, Tick, database
      <3> QED BY <3>1 DEF Settled
    <2> QED BY <2>1, <2>2
  <1>5. RowsAreTracked'
    <2>1. CASE Commit
      BY <1>1, <2>1 DEF Commit, IInv, RowsAreTracked
    <2>2. CASE Track
      BY <2>2 DEF Track, IInv, RowsAreTracked
    <2>3. CASE Untrack
      BY <2>3 DEF Untrack, IInv, RowsAreTracked
    <2>4. CASE Evict
      BY <2>4 DEF Evict, IInv, RowsAreTracked, database
    <2>5. CASE Tick
      BY <2>5 DEF Tick, IInv, RowsAreTracked, database
    <2> QED BY <2>1, <2>2, <2>3, <2>4, <2>5
  <1>6. RowsArePast'
    <2>1. CASE Commit
      BY <1>1, <2>1 DEF Commit, IInv, RowsArePast
    <2>2. CASE Track \/ Untrack \/ Evict \/ Tick
      <3>1. UNCHANGED <<rows, storedAt>>
        BY <2>2 DEF Track, Untrack, Evict, Tick, database
      <3>2. \A r \in rows : storedAt[r] <= now /\ storedAt[r] \in Nat
        BY <1>1 DEF IInv, RowsArePast
      <3> QED BY <1>1, <1>3, <3>1, <3>2 DEF RowsArePast
    <2> QED BY <2>1, <2>2
  <1>7. ToldIsStored'
    <2>1. ASSUME NEW q \in Query
          PROVE  told[q] <= Cardinality(Matching(q, rows'))
      <3>1. told[q] \in Nat /\ told[q] <= Cardinality(Matching(q, rows))
        BY <1>1 DEF IInv, ToldIsStored, TypeOK
      <3>2. /\ Cardinality(Matching(q, rows)) \in Nat
            /\ Cardinality(Matching(q, rows')) \in Nat
            /\ Cardinality(Matching(q, rows)) <= Cardinality(Matching(q, rows'))
        BY <1>1, <1>2, MatchingIsFinite, MatchingGrows
      <3> QED BY <3>1, <3>2
    <2> QED BY <1>2, <2>1 DEF ToldIsStored
  <1>8. ASSUME NEW q, NEW p, IsNamed(q, p) PROVE IsNamed(q, p)'
    BY <1>2, <1>8 DEF IsNamed
  <1>9. EntriesAreSound'
    <2> SUFFICES ASSUME NEW e \in cache'
                 PROVE  /\ e.at <= now'
                        /\ Reflects(e.key, e.page, e.total,
                                    Settled(e.at - MaxQueryTime)', rows')
                        /\ IsNamed(e.key, e.page)'
                        /\ told'[e.key] <= e.total
      BY DEF EntriesAreSound
    <2>1. /\ e \in Entry /\ e.at \in Nat /\ e.at <= now
          /\ Reflects(e.key, e.page, e.total, Settled(e.at - MaxQueryTime), rows)
          /\ IsNamed(e.key, e.page) /\ told[e.key] <= e.total
      BY <1>1, <1>2 DEF IInv, EntriesAreSound, TypeOK, Entry
    <2>2. e.at <= now'
      BY <1>1, <1>3, <2>1
    <2>3. e.at - MaxQueryTime \in Int /\ e.at - MaxQueryTime <= now
      BY <1>1, <2>1
    <2>4. Settled(e.at - MaxQueryTime)' = Settled(e.at - MaxQueryTime)
      BY <1>4, <2>3
    <2>5. Reflects(e.key, e.page, e.total, Settled(e.at - MaxQueryTime)', rows')
      BY <1>2, <2>1, <2>4, ReflectsMore
    <2> QED BY <1>2, <1>8, <2>1, <2>2, <2>5
  <1>10. ASSUME NEW c \in Client PROVE RequestIsSound(c)'
    <2>1. RequestIsSound(c) /\ began[c] \in Nat
      BY <1>1 DEF IInv, RequestsAreSound, TypeOK
    <2>2. pc[c] \in {"select", "insert"} =>
            /\ began[c] <= now' /\ now' <= began[c] + MaxQueryTime
            /\ Settled(began[c])' = Settled(began[c])
      <3>1. ASSUME pc[c] \in {"select", "insert"}
            PROVE  began[c] <= now' /\ now' <= began[c] + MaxQueryTime
        <4>1. began[c] <= now /\ now <= began[c] + MaxQueryTime
          BY <2>1, <3>1 DEF RequestIsSound
        <4>2. CASE Tick
          BY <1>1, <2>1, <3>1, <4>1, <4>2 DEF Tick
        <4>3. CASE Commit \/ Track \/ Untrack \/ Evict
          <5>1. now' = now
            BY <4>3 DEF Commit, Track, Untrack, Evict
          <5> QED BY <4>1, <5>1
        <4> QED BY <4>2, <4>3
      <3>2. ASSUME pc[c] \in {"select", "insert"}
            PROVE  Settled(began[c])' = Settled(began[c])
        <4>1. began[c] \in Int /\ began[c] <= now
          BY <2>1, <3>2 DEF RequestIsSound
        <4>2. Settled(began[c])' = {r \in rows' : storedAt'[r] < began[c]}
          BY <1>2 DEF Settled
        <4>3. {r \in rows' : storedAt'[r] < began[c]} = Settled(began[c])
          BY <1>4, <4>1 DEF Settled
        <4> QED BY <4>2, <4>3
      <3> QED BY <3>1, <3>2
    <2>3. pc[c] = "select" => Counted(c)'
      BY <1>2, <2>1, <2>2 DEF RequestIsSound, Counted
    <2>4. pc[c] = "insert" =>
            /\ Reflects(query[c], page[c], total[c], Settled(began[c])', rows')
            /\ IsNamed(query[c], page[c])'
      BY <1>2, <1>8, <2>1, <2>2, ReflectsMore DEF RequestIsSound
    <2> QED BY <1>2, <2>1, <2>2, <2>3, <2>4 DEF RequestIsSound
  <1>11. RequestsAreSound'
    BY <1>10 DEF RequestsAreSound
  <1>12. ServedIsRecent' /\ OnlyTrackedIsShown'
    BY <1>2 DEF Silent, NoAnswer, ServedIsRecent, OnlyTrackedIsShown
  <1> QED BY <1>1, <1>2, <1>5, <1>6, <1>7, <1>9, <1>11, <1>12 DEF IInv

-----------------------------------------------------------------------------
LEMMA NextIInv ==
  ASSUME IInv, [Next]_vars
  PROVE  IInv' /\ \A q \in Query : told[q] <= told'[q]
  <1>0. \A q \in Query : told[q] <= told[q]
    BY DEF IInv, TypeOK
  <1>1. ASSUME NEW c \in Client,
               \/ Ask(c) \/ Check(c) \/ Lock(c) \/ Miss(c) \/ Count(c) \/ Select(c)
               \/ CheckFails(c) \/ StatementFails(c) \/ Hangup(c)
        PROVE  IInv' /\ told' = told
    BY <1>1, RequestStepIInv, RequestStepsAreQuiet DEF QuietStep, IInv
  <1>2. ASSUME NEW c \in Client, Hit(c) \/ Insert(c)
        PROVE  IInv' /\ \A q \in Query : told[q] <= told'[q]
    BY <1>2, AnswerStepIInv
  <1>3. CASE Commit \/ Track \/ Untrack \/ Evict \/ Tick
    BY <1>0, <1>3, AroundIInv
  <1>4. CASE UNCHANGED vars
    <2>1. /\ UNCHANGED <<rows, tracked, now, cache, holder, pc, query, total>>
          /\ UNCHANGED <<page, began, storedAt, told, answer>>
      BY <1>4 DEF vars
    <2>2. TypeOK'
      BY <2>1 DEF IInv, TypeOK
    <2>3. RowsAreTracked' /\ RowsArePast' /\ ToldIsStored'
      BY <2>1 DEF IInv, RowsAreTracked, RowsArePast, ToldIsStored
    <2>4. EntriesAreSound'
      BY <2>1 DEF IInv, EntriesAreSound, IsNamed, Settled
    <2>5. ASSUME NEW c \in Client PROVE RequestIsSound(c)'
      <3>1. RequestIsSound(c)
        BY DEF IInv, RequestsAreSound
      <3> QED BY <2>1, <3>1 DEF RequestIsSound, Counted, IsNamed, Settled
    <2>6. RequestsAreSound'
      BY <2>5 DEF RequestsAreSound
    <2>7. ServedIsRecent' /\ OnlyTrackedIsShown'
      BY <2>1 DEF IInv, ServedIsRecent, OnlyTrackedIsShown, Settled
    <2> QED BY <1>0, <2>1, <2>2, <2>3, <2>4, <2>6, <2>7 DEF IInv
  <1> QED BY <1>0, <1>1, <1>2, <1>3, <1>4 DEF Next, Step

(* The inductive invariant holds in every state of every execution.        *)
THEOREM Invariance == SafeSpec => []IInv
  <1>1. Init => IInv
    BY InitIInv
  <1>2. IInv /\ [Next]_vars => IInv'
    BY NextIInv
  <1> QED BY <1>1, <1>2, PTL DEF SafeSpec

(* Type correctness, the mutex held by exactly the request that is in its  *)
(* critical section, and one entry per key.                                *)
THEOREM TypeCorrect == SafeSpec => []TypeOK
  <1>1. IInv => TypeOK
    BY DEF IInv
  <1> QED BY <1>1, Invariance, PTL

(* No answer misses a row that was stored longer ago than the time to live *)
(* and the time of a query, whatever was cached or committed meanwhile.    *)
THEOREM AnswersAreRecent == SafeSpec => []ServedIsRecent
  <1>1. IInv => ServedIsRecent
    BY DEF IInv
  <1> QED BY <1>1, Invariance, PTL

(* No answer, cached or not, shows a row about an untracked address.       *)
THEOREM AnswersAreTracked == SafeSpec => []OnlyTrackedIsShown
  <1>1. IInv => OnlyTrackedIsShown
    BY DEF IInv
  <1> QED BY <1>1, Invariance, PTL

(* X-Total-Count never goes down for the same question.                    *)
THEOREM TotalsOnlyGrow == SafeSpec => TotalsNeverGoBack
  <1>1. IInv /\ [Next]_vars => [\A q \in Query : told[q] <= told'[q]]_vars
    BY NextIInv
  <1> QED BY <1>1, Invariance, PTL DEF SafeSpec, TotalsNeverGoBack

-----------------------------------------------------------------------------
(* To its clients the handler is the service of QueryService.tla.          *)

(* A sound answer is one the service may give.                             *)
LEMMA AnsweringServes ==
  ASSUME IInv, NEW c \in Client, NEW e \in Entry,
         Answer(c, e), SoundAnswer(query[c], e),
         UNCHANGED <<rows, tracked, storedAt, now>>
  PROVE  Service!Serve
  <1> DEFINE r == [query |-> query[c], page |-> e.page, total |-> e.total]
  <1>1. /\ query[c] \in Query /\ e.page \in Seq(Row) /\ e.total \in Nat
        /\ now \in Nat /\ Oldest \in Nat
    BY OldestAge DEF IInv, TypeOK, Entry
  <1>2. r \in Service!Answer
    BY <1>1 DEF Service!Answer
  <1>3. answer' = [query |-> query[c], entry |-> {e}]
    BY DEF Answer
  <1>4. Replies' = {r}
    BY <1>3 DEF Replies
  <1>5. Service!Before(now - (Oldest + MaxQueryTime))
          = Settled(now - Oldest - MaxQueryTime)
    <2>1. now - (Oldest + MaxQueryTime) = now - Oldest - MaxQueryTime
      BY <1>1
    <2> QED BY <2>1 DEF Service!Before, Settled
  <1>6. r.page # <<>> => r.query.address \in tracked
    BY DEF SoundAnswer, IsNamed, IInv, RowsAreTracked
  <1>7. Reflects(r.query, r.page, r.total,
                 Service!Before(now - (Oldest + MaxQueryTime)), rows)
    BY <1>5 DEF SoundAnswer
  <1>8. told[r.query] <= r.total /\ told' = [told EXCEPT ![r.query] = r.total]
    BY DEF SoundAnswer, Answer
  <1> HIDE DEF r
  <1> QED BY <1>2, <1>4, <1>6, <1>7, <1>8 DEF Service!Serve

LEMMA AnswerStepServes ==
  ASSUME IInv, NEW c \in Client, Hit(c) \/ Insert(c)
  PROVE  Service!Serve
  <1>1. TypeOK /\ UNCHANGED <<rows, tracked, storedAt, now>>
    BY DEF Hit, Insert, database, IInv
  <1>2. CASE Hit(c)
    <2>1. PICK e \in cache : e.key = query[c] /\ Live(e) /\ Answer(c, e)
      BY <1>2 DEF Hit, Key
    <2>2. e \in Entry /\ SoundAnswer(query[c], e)
      BY <1>1, <2>1, HitIsSound DEF TypeOK
    <2> QED BY <1>1, <2>1, <2>2, AnsweringServes
  <1>3. CASE Insert(c)
    <2>1. /\ EntryFor(c) \in Entry /\ SoundAnswer(query[c], EntryFor(c))
          /\ Answer(c, EntryFor(c))
      BY <1>1, <1>3, EntryType, InsertIsSound DEF Insert
    <2> QED BY <1>1, <2>1, AnsweringServes
  <1> QED BY <1>2, <1>3

(* Of the rest of a request the service shows nothing.                     *)
LEMMA QuietStepListens ==
  ASSUME NEW c \in Client, QuietStep(c)
  PROVE  Service!Listen
  BY DEF QuietStep, Silent, NoAnswer, Replies, Service!Listen

LEMMA AroundStepServes ==
  ASSUME IInv, Commit \/ Track \/ Untrack \/ Evict \/ Tick
  PROVE  Service!Next
  <1>1. Replies' = {} /\ told' = told
    BY DEF Commit, Track, Untrack, Evict, Tick, Silent, NoAnswer, Replies
  <1>2. CASE Commit
    <2>1. PICK R \in SUBSET (Row \ rows) :
            /\ \A r \in R : Parties[r] \subseteq tracked
            /\ rows' = rows \union R
            /\ storedAt' = [r \in Row |-> IF r \in R THEN now ELSE storedAt[r]]
            /\ UNCHANGED <<tracked, now>>
      BY <1>2 DEF Commit
    <2>2. Service!Commit(R) /\ R \in SUBSET Row
      BY <1>1, <2>1 DEF Service!Commit
    <2> QED BY <2>2 DEF Service!Next
  <1>3. CASE Track
    BY <1>1, <1>3 DEF Track, Service!Track, Service!Next
  <1>4. CASE Untrack
    BY <1>1, <1>4 DEF Untrack, Service!Untrack, Service!Next, IInv, TypeOK
  <1>5. CASE Evict
    BY <1>1, <1>5 DEF Evict, database, Service!Listen, Service!Next
  <1>6. CASE Tick
    BY <1>1, <1>6 DEF Tick, database, Service!Tick, Service!Next
  <1> QED BY <1>2, <1>3, <1>4, <1>5, <1>6

LEMMA StepServes == IInv /\ [Next]_vars => [Service!Next]_(Service!vars)
  <1> SUFFICES ASSUME IInv, [Next]_vars
               PROVE  Service!Next \/ UNCHANGED Service!vars
    OBVIOUS
  <1>1. ASSUME NEW c \in Client,
               \/ Ask(c) \/ Check(c) \/ Lock(c) \/ Miss(c) \/ Count(c) \/ Select(c)
               \/ CheckFails(c) \/ StatementFails(c) \/ Hangup(c)
        PROVE  Service!Next
    BY <1>1, RequestStepsAreQuiet, QuietStepListens DEF IInv, Service!Next
  <1>2. ASSUME NEW c \in Client, Hit(c) \/ Insert(c) PROVE Service!Next
    BY <1>2, AnswerStepServes DEF Service!Next
  <1>3. CASE Commit \/ Track \/ Untrack \/ Evict \/ Tick
    BY <1>3, AroundStepServes
  <1>4. CASE UNCHANGED vars
    BY <1>4 DEF vars, Replies, Service!vars
  <1> QED BY <1>1, <1>2, <1>3, <1>4 DEF Next, Step

(* The cache, its mutex, the two separate statements, evictions and        *)
(* clients that hang up show in nothing but the delay of an answer.        *)
THEOREM CacheImplementsService == SafeSpec => ImplementsQueryService
  <1>1. Init => Service!Init
    BY DEF Init, NoAnswer, Replies, Service!Init
  <1> QED BY <1>1, StepServes, Invariance, PTL
          DEF SafeSpec, ImplementsQueryService, Service!Spec

-----------------------------------------------------------------------------
(* The tables around the handler: exactly those of Ledger.tla.             *)

(* Requests leave the tables alone, and what goes on around them is what   *)
(* Ledger.tla allows.                                                      *)
LEMMA StepIsLedgerStep ==
  IInv /\ [Next]_vars => [Tables!Next]_(Tables!vars)
  <1> SUFFICES ASSUME IInv, [Next]_vars
               PROVE  Tables!Next \/ UNCHANGED <<tracked, rows>>
    BY DEF Tables!vars
  <1>1. TypeOK
    BY DEF IInv
  <1>2. ASSUME NEW c \in Client, Ask(c) \/ Lock(c) \/ Step(c) \/ Hangup(c)
        PROVE  UNCHANGED <<tracked, rows>>
    BY <1>2 DEF Ask, Lock, Step, Hangup, Check, CheckFails, Hit, Miss, Missed,
                Count, Select, StatementFails, Insert, database
  <1>3. CASE Commit
    BY <1>3 DEF Commit, Tables!Next, Tables!Store
  <1>4. CASE Track
    BY <1>4 DEF Track, Tables!Next, Tables!Add
  <1>5. CASE Untrack
    <2>1. PICK a \in tracked : /\ \A r \in rows : a \notin Parties[r]
                              /\ tracked' = tracked \ {a} /\ rows' = rows
      BY <1>5 DEF Untrack
    <2>2. a \in Address /\ Tables!Remove(a)
      BY <1>1, <2>1 DEF TypeOK, Tables!Remove, Tables!Named
    <2> QED BY <2>2 DEF Tables!Next
  <1>6. CASE Evict \/ Tick \/ UNCHANGED vars
    BY <1>6 DEF Evict, Tick, database, vars
  <1> QED BY <1>2, <1>3, <1>4, <1>5, <1>6 DEF Next

(* Serving requests shows in the tables as a ledger does, for every other  *)
(* reader and writer of them.                                              *)
THEOREM ReadersKeepLedger == SafeSpec => Tables!Spec
  <1>1. Init => Tables!Init
    BY DEF Init, Tables!Init
  <1> QED BY <1>1, StepIsLedgerStep, Invariance, PTL DEF SafeSpec, Tables!Spec

(* Conversely nothing that keeps the ledger can surprise the handler: every *)
(* step of Ledger.tla, made while requests wait between two statements, is  *)
(* one that the proofs above have dealt with.  With the writers' side,      *)
(* IngestImplementsLedger, they hold of the service as a whole.             *)
THEOREM AnyLedgerWillDo ==
  ASSUME TypeOK, Tables!Next, Silent,
         storedAt' = [r \in Row |-> IF r \in rows' \ rows THEN now ELSE storedAt[r]],
         UNCHANGED <<now, cache, holder, request, told>>
  PROVE  Commit \/ Track \/ Untrack \/ UNCHANGED database
  <1>1. storedAt \in [Row -> Nat] /\ rows \subseteq Row /\ tracked \subseteq Address
    BY DEF TypeOK
  <1>2. ASSUME rows' = rows PROVE storedAt' = storedAt
    BY <1>1, <1>2
  <1>3. ASSUME NEW a \in Address, Tables!Add(a)
        PROVE  Track \/ UNCHANGED database
    BY <1>2, <1>3 DEF Tables!Add, Track, database
  <1>4. ASSUME NEW a \in Address, Tables!Remove(a)
        PROVE  Untrack \/ UNCHANGED database
    BY <1>1, <1>2, <1>4 DEF Tables!Remove, Tables!Named, Untrack, database
  <1>5. ASSUME NEW T \in SUBSET Row, Tables!Store(T)
        PROVE  Commit \/ UNCHANGED database
    <2> DEFINE R == T \ rows
    <2>1. R \in SUBSET (Row \ rows) /\ rows' = rows \union R /\ rows' \ rows = R
      BY <1>5 DEF Tables!Store
    <2>2. tracked' = tracked /\ \A r \in R : Parties[r] \subseteq tracked
      BY <1>5 DEF Tables!Store
    <2>3. storedAt' = [r \in Row |-> IF r \in R THEN now ELSE storedAt[r]]
      BY <2>1
    <2> HIDE DEF R
    <2>4. CASE R = {}
      BY <1>2, <2>1, <2>2, <2>4 DEF database
    <2>5. CASE R # {}
      BY <2>1, <2>2, <2>3, <2>5 DEF Commit
    <2> QED BY <2>4, <2>5
  <1> QED BY <1>3, <1>4, <1>5 DEF Tables!Next

-----------------------------------------------------------------------------
(* Requests go on, one at a time behind the mutex.                         *)

LEMMA StepGoesOn ==
  ASSUME TypeOK, [Next]_vars, NEW c \in Client
  PROVE  GoesOn(c)
  <1>1. pc \in [Client -> {"idle", "check", "lock"} \union Locked] /\ c \in Client
    BY DEF TypeOK
  <1>2. ASSUME <<pc[c], pc'[c]>> \in Path, holder' = holder \/ holder # c
        PROVE  GoesOn(c)
    BY <1>2 DEF GoesOn
  <1>3. ASSUME NEW h, Return(c, h), holder' = holder \/ h = NoClient
        PROVE  GoesOn(c)
    BY <1>3 DEF GoesOn, Return, TypeOK
  <1>4. ASSUME pc'[c] = pc[c], holder' = holder \/ holder # c
        PROVE  GoesOn(c)
    BY <1>4 DEF GoesOn
  <1>5. CASE Ask(c)
    <2>1. pc[c] = "idle" /\ pc'[c] = "check" /\ holder' = holder
      BY <1>1, <1>5 DEF Ask, TypeOK
    <2> QED BY <1>2, <2>1 DEF Path
  <1>6. CASE Check(c)
    <2>1. pc[c] = "check" /\ pc'[c] = "lock" /\ holder' = holder
      BY <1>1, <1>6 DEF Check, TypeOK
    <2> QED BY <1>2, <2>1 DEF Path
  <1>7. CASE Lock(c)
    <2>1. pc[c] = "lock" /\ pc'[c] = "lookup" /\ holder # c
      BY <1>1, <1>7 DEF Lock, TypeOK
    <2> QED BY <1>2, <2>1 DEF Path
  <1>8. CASE Miss(c)
    <2>1. pc[c] = "lookup" /\ pc'[c] = "count" /\ holder' = holder
      BY <1>1, <1>8 DEF Miss, Missed, TypeOK
    <2> QED BY <1>2, <2>1 DEF Path
  <1>9. CASE Count(c)
    <2>1. pc[c] = "count" /\ pc'[c] = "select" /\ holder' = holder
      BY <1>1, <1>9 DEF Count, TypeOK
    <2> QED BY <1>2, <2>1 DEF Path
  <1>10. CASE Select(c)
    <2>1. pc[c] = "select" /\ pc'[c] = "insert" /\ holder' = holder
      BY <1>1, <1>10 DEF Select, TypeOK
    <2> QED BY <1>2, <2>1 DEF Path
  <1>11. CASE CheckFails(c) \/ StatementFails(c) \/ Hangup(c) \/ Hit(c) \/ Insert(c)
    <2>1. PICK h : Return(c, h) /\ (h = holder \/ h = NoClient)
      BY <1>11 DEF CheckFails, StatementFails, Hangup, Hit, Insert, Answer
    <2>2. holder' = h
      BY <2>1 DEF Return
    <2> QED BY <1>3, <2>1, <2>2
  <1>12. ASSUME NEW d \in Client, d # c, Ask(d) \/ Lock(d) \/ Step(d) \/ Hangup(d)
         PROVE  GoesOn(c)
    <2>1. pc'[c] = pc[c]
      BY <1>12 DEF Ask, Lock, Step, Hangup, Check, CheckFails, Hit, Miss, Missed,
                   Count, Select, StatementFails, Insert, Answer, Return, TypeOK
    <2>2. holder = c => pc[d] \notin Locked /\ holder # d
      BY <1>12 DEF TypeOK
    <2>3. CASE Ask(d) \/ Check(d) \/ CheckFails(d) \/ Miss(d) \/ Count(d) \/ Select(d)
      BY <1>4, <2>1, <2>3 DEF Ask, Check, CheckFails, Miss, Count, Select, Return
    <2>4. CASE Lock(d)
      BY <1>4, <2>1, <2>4, ClientAssumption DEF Lock
    <2>5. CASE Hit(d) \/ Insert(d) \/ StatementFails(d)
      BY <1>4, <2>1, <2>2, <2>5 DEF Hit, Insert, StatementFails, Locked
    <2>6. CASE Hangup(d)
      BY <1>4, <2>1, <2>2, <2>6 DEF Hangup, Return
    <2> QED BY <1>12, <2>3, <2>4, <2>5, <2>6 DEF Step
  <1>13. CASE Commit \/ Track \/ Untrack \/ Evict \/ Tick \/ UNCHANGED vars
    BY <1>4, <1>13 DEF Commit, Track, Untrack, Evict, Tick, vars, request
  <1> QED BY <1>5, <1>6, <1>7, <1>8, <1>9, <1>10, <1>11, <1>12, <1>13
          DEF Next, Step

(* Whatever fails, hangs up or waits, a request only goes on, and holds    *)
(* the mutex without a gap from its lookup to its answer.                  *)
THEOREM RequestsAlwaysGoOn == SafeSpec => RequestsGoOn
  <1>1. TypeOK /\ [Next]_vars => [\A c \in Client : GoesOn(c)]_vars
    BY StepGoesOn
  <1> QED BY <1>1, TypeCorrect, PTL DEF SafeSpec, RequestsGoOn

=============================================================================
