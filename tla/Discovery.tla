------------------------------ MODULE Discovery ------------------------------
(***************************************************************************)
(* What the two polling tasks of src/blockchain/polling.rs find on the     *)
(* chain.                                                                  *)
(*                                                                         *)
(* The live task remembers a slot.  On every tick it asks for the latest   *)
(* slot and walks from the remembered one to the latest in small ranges,   *)
(* the start included: the slot it stopped at may have been in progress.   *)
(* For every range and tracked address it fetches the newest signatures    *)
(* and keeps those of the range.  Whatever fails is skipped, and the       *)
(* remembered slot advances all the same.                                  *)
(*                                                                         *)
(* The historical task walks the signatures of each tracked address        *)
(* backwards, page by page, until a page is short, or empty, or ends with  *)
(* a signature that is too old.                                            *)
(*                                                                         *)
(* A signature counts as handed when its transaction is passed to          *)
(* add_transaction; what happens from there is Pipeline and BatchManager.  *)
(*                                                                         *)
(* Bounds.  The chain is as long as Slot says and stops at MaxSlot.        *)
(* MaxTrouble bounds failed requests, restarts and removed addresses.      *)
(***************************************************************************)
EXTENDS Naturals, Sequences, FiniteSets

CONSTANTS Address,
          Slot,        \* the slot of each signature, in the order they land
          Parties,     \* the addresses each signature is listed for
          Nobody,      \* the historical task is between addresses
          RangeSize,   \* 10
          LiveLimit,   \* 100 signatures per request
          PageLimit,   \* 50 signatures per request
          MaxAge,      \* 90 days
          DefaultSlot, \* 100_000, when the first get_slot fails
          MaxSlot, MaxTrouble

Sig == DOMAIN Slot      \* 1 is the oldest
Beyond == Len(Slot) + 1 \* newer than every signature

ASSUME ChainAssumption ==
  /\ Slot \in Seq(Nat)
  /\ \A s, t \in Sig : s <= t => Slot[s] <= Slot[t]
  /\ Parties \in [Sig -> SUBSET Address]
ASSUME LimitAssumption ==
  /\ {RangeSize, LiveLimit, PageLimit} \subseteq Nat \ {0}
  /\ {MaxAge, DefaultSlot, MaxSlot, MaxTrouble} \subseteq Nat
ASSUME NobodyAssumption == Nobody \notin Address

VARIABLES
  landed,     \* signatures 1..landed are on the chain
  head,       \* the latest slot; one slot is one unit of time
  tracked,    \* table tracked_addresses
  cursor,     \* current_slot of the live task
  live,       \* the poll under way: [pc, end, start, addrs, todo, found]
  hist,       \* the walk under way: [pc, todo, addr, now, before, seen, page]
  handed,     \* history: passed to add_transaction
  excused,    \* history: skipped because something failed or did not fit
  first,      \* history: where the cursor started
  polled,     \* history: processed by the live poll under way
  walk,       \* history: [from, clean] of the walk under way
  covered,    \* history: signatures on the chain before the last clean walk
  trouble

chain == <<landed, head, tracked>>
liveVars == <<cursor, live, first, polled>>
histVars == <<hist, walk, covered>>
vars == <<landed, head, tracked, cursor, live, hist, handed, excused, first,
          polled, walk, covered, trouble>>

Of(a) == {s \in 1..landed : a \in Parties[s]}
InSlots(S, lo, hi) == {s \in S : lo <= Slot[s] /\ Slot[s] <= hi}

\* getSignaturesForAddress: the newest n of S.
Newest(S, n) == {s \in S : Cardinality({t \in S : t > s}) < n}

NoPoll == [pc |-> "idle", end |-> 0, start |-> 0, addrs |-> {}, todo |-> {},
           found |-> {}]
NoWalk == [pc |-> "idle", todo |-> {}, addr |-> Nobody, now |-> 0,
           before |-> Beyond, seen |-> {}, page |-> {}]

-----------------------------------------------------------------------------
Init ==
  /\ landed = 0 /\ head = 0
  /\ tracked \in SUBSET Address
  /\ cursor \in {head, DefaultSlot} /\ first = cursor
  /\ live = NoPoll /\ hist = NoWalk
  /\ handed = {} /\ excused = {} /\ polled = {}
  /\ walk = [from |-> 0, clean |-> TRUE]
  /\ covered = [a \in Address |-> 0]
  /\ trouble = 0

\* One failure, restart or removal of those that MaxTrouble allows.
Trouble == trouble < MaxTrouble /\ trouble' = trouble + 1

\* The process starts again: nothing of the two tasks was persisted, and the
\* cursor is the latest slot, or the default one when get_slot fails.
Restart ==
  /\ Trouble
  /\ cursor' \in {head, DefaultSlot} /\ first' = cursor'
  /\ live' = NoPoll /\ hist' = NoWalk
  /\ polled' = {} /\ walk' = [from |-> 0, clean |-> TRUE]
  /\ UNCHANGED <<chain, handed, excused, covered>>

-----------------------------------------------------------------------------
(* The chain and the table. *)

\* A signature lands in the slot in progress or in a later one.
Land ==
  /\ landed < Len(Slot) /\ head <= Slot[landed + 1]
  /\ landed' = landed + 1 /\ head' = Slot[landed + 1]
  /\ UNCHANGED <<tracked, liveVars, histVars, handed, excused, trouble>>

NextSlot ==
  /\ head < MaxSlot
  /\ landed < Len(Slot) => head < Slot[landed + 1]
  /\ head' = head + 1
  /\ UNCHANGED <<landed, tracked, liveVars, histVars, handed, excused, trouble>>

Track == \E a \in Address \ tracked :
  /\ tracked' = tracked \union {a}
  /\ UNCHANGED <<landed, head, liveVars, histVars, handed, excused, trouble>>

\* An address without stored transactions is removed, perhaps in the middle
\* of a poll or a round that began with it.
Untrack == \E a \in tracked :
  /\ Trouble
  /\ tracked' = tracked \ {a}
  /\ UNCHANGED <<landed, head, liveVars, histVars, handed, excused>>

-----------------------------------------------------------------------------
(* The live task. *)

\* A poll starts with the slot the last one stopped at.
PollFromNext == cursor + 1
PollFrom == cursor

\* A tick finds new slots and tracked addresses.  The slot and the addresses are
\* read at one moment: the chain and the requests do not depend on each other,
\* and a step between the two reads could come before or after both.
LivePoll ==
  /\ live.pc = "idle" /\ head > cursor /\ tracked # {}
  /\ live' = [pc |-> "fetch", end |-> head, start |-> PollFrom,
              addrs |-> tracked, todo |-> tracked, found |-> {}]
  /\ excused' = excused \union {s \in InSlots(1..landed, PollFrom, head) :
                                 Parties[s] \intersect tracked = {}}
  /\ UNCHANGED <<chain, cursor, first, polled, histVars, handed, trouble>>

\* The addresses cannot be read, or there are none: Ok(0) all the same.
LivePollNothing ==
  /\ live.pc = "idle" /\ head > cursor
  /\ \/ tracked = {} /\ UNCHANGED trouble
     \/ tracked # {} /\ Trouble
  /\ cursor' = head
  /\ excused' = excused \union InSlots(1..landed, PollFrom, head)
  /\ UNCHANGED <<chain, live, first, polled, histVars, handed>>

\* A range ends where the next one starts.
RangeEndOverlapping == IF live.start + RangeSize <= live.end
                       THEN live.start + RangeSize ELSE live.end

RangeEnd == IF live.start + RangeSize - 1 <= live.end
            THEN live.start + RangeSize - 1 ELSE live.end

\* One address of the range: the newest signatures, those of the range kept.
LiveFetch == \E a \in live.todo :
  LET page == Newest(Of(a), LiveLimit)
  IN /\ live.pc = "fetch"
     /\ live' = [live EXCEPT !.todo = @ \ {a},
                   !.found = @ \union InSlots(page, live.start, RangeEnd)]
     /\ excused' = excused \union
                     InSlots(Of(a) \ page, live.start, RangeEnd)
     /\ UNCHANGED <<chain, cursor, first, polled, histVars, handed, trouble>>

LiveFetchFails == \E a \in live.todo :
  /\ live.pc = "fetch" /\ Trouble
  /\ live' = [live EXCEPT !.todo = @ \ {a}]
  /\ excused' = excused \union InSlots(Of(a), live.start, RangeEnd)
  /\ UNCHANGED <<chain, cursor, first, polled, histVars, handed>>

\* The transactions F of S cannot be fetched or read; the others are handed.
Process(S) == \E F \in SUBSET S :
  /\ \/ F = {} /\ UNCHANGED trouble
     \/ F # {} /\ Trouble
  /\ handed' = handed \union (S \ F)
  /\ excused' = excused \union F

\* The range is processed; the next one starts, or the cursor advances.
LiveProcess ==
  /\ live.pc = "fetch" /\ live.todo = {}
  /\ Process(live.found)
  /\ IF live.start + RangeSize <= live.end
     THEN /\ live' = [live EXCEPT !.start = @ + RangeSize,
                        !.todo = live.addrs, !.found = {}]
          /\ polled' = polled \union live.found
          /\ UNCHANGED cursor
     ELSE /\ live' = NoPoll
          /\ polled' = {}
          /\ cursor' = live.end
  /\ UNCHANGED <<chain, first, histVars>>

-----------------------------------------------------------------------------
(* The historical task. *)

\* A tick: the addresses as they are now.
HistPoll ==
  /\ hist.pc = "idle" /\ tracked # {}
  /\ hist' = [NoWalk EXCEPT !.pc = "next", !.todo = tracked]
  /\ UNCHANGED <<chain, liveVars, walk, covered, handed, excused, trouble>>

\* process_historical_address begins.
HistBegin == \E a \in hist.todo :
  /\ hist.pc = "next"
  /\ hist' = [NoWalk EXCEPT !.pc = "fetch", !.todo = hist.todo \ {a},
                            !.addr = a, !.now = head]
  /\ walk' = [from |-> landed, clean |-> TRUE]
  /\ UNCHANGED <<chain, liveVars, covered, handed, excused, trouble>>

HistDone ==
  /\ hist.pc = "next" /\ hist.todo = {}
  /\ hist' = NoWalk
  /\ UNCHANGED <<chain, liveVars, walk, covered, handed, excused, trouble>>

\* The walk of an address is over; clean says whether nothing failed in it and
\* every page had its block times.
EndWalk(clean) ==
  /\ hist' = [NoWalk EXCEPT !.pc = "next", !.todo = hist.todo]
  /\ walk' = [from |-> 0, clean |-> TRUE]
  /\ covered' = IF clean THEN [covered EXCEPT ![hist.addr] = walk.from]
                         ELSE covered

Page == Newest({s \in Of(hist.addr) : s < hist.before}, PageLimit)

\* The pagination cursor: the last signature of a page is its oldest.
NewestOf(P) == CHOOSE s \in P : \A t \in P : t <= s
LastOf(P) == CHOOSE s \in P : \A t \in P : s <= t

TooOld(s) == hist.now > Slot[s] + MaxAge

\* A page that is empty, ends too early, or brings nothing new ends the walk.
HistFetchLast ==
  /\ hist.pc = "fetch"
  /\ \/ Page = {}
     \/ Page # {} /\ TooOld(LastOf(Page))
     \/ Page \subseteq hist.seen
  /\ EndWalk(walk.clean)
  /\ UNCHANGED <<chain, liveVars, handed, excused, trouble>>

\* The last signature of a page comes without a block time, which counts as 0:
\* too old, and the walk ends.
HistFetchUntimed ==
  /\ hist.pc = "fetch" /\ Page # {}
  /\ EndWalk(FALSE)
  /\ UNCHANGED <<chain, liveVars, handed, excused, trouble>>

HistFetch ==
  /\ hist.pc = "fetch"
  /\ Page # {} /\ ~TooOld(LastOf(Page)) /\ ~(Page \subseteq hist.seen)
  /\ hist' = [hist EXCEPT !.pc = "process", !.before = LastOf(Page),
                !.seen = @ \union Page, !.page = Page]
  /\ UNCHANGED <<chain, liveVars, walk, covered, handed, excused, trouble>>

HistFetchFails ==
  /\ hist.pc = "fetch" /\ Trouble
  /\ EndWalk(FALSE)
  /\ UNCHANGED <<chain, liveVars, handed, excused>>

\* A page with fewer signatures than were asked for is the last.
IsShortOrFull(P) == Cardinality(P) <= PageLimit
IsShort(P) == Cardinality(P) < PageLimit

\* The signatures of a page are new to the walk, all of them (TypeOK).
HistProcess ==
  /\ hist.pc = "process"
  /\ Process(hist.page)
  /\ LET clean == walk.clean /\ handed' = handed \union hist.page
     IN IF IsShort(hist.page)
        THEN EndWalk(clean)
        ELSE /\ hist' = [hist EXCEPT !.pc = "fetch", !.page = {}]
             /\ walk' = [walk EXCEPT !.clean = clean]
             /\ UNCHANGED covered
  /\ UNCHANGED <<chain, liveVars>>

-----------------------------------------------------------------------------
Next == \/ Land \/ NextSlot \/ Track \/ Untrack \/ Restart
        \/ LivePoll \/ LivePollNothing \/ LiveFetch \/ LiveFetchFails
        \/ LiveProcess
        \/ HistPoll \/ HistBegin \/ HistDone \/ HistFetchLast
        \/ HistFetchUntimed \/ HistFetch \/ HistFetchFails \/ HistProcess

Spec == Init /\ [][Next]_vars

-----------------------------------------------------------------------------
Poll == [pc : {"idle", "fetch"}, end : Nat, start : Nat,
         addrs : SUBSET Address, todo : SUBSET Address, found : SUBSET Sig]
Walk == [pc : {"idle", "next", "fetch", "process"}, todo : SUBSET Address,
         addr : Address \union {Nobody}, now : Nat, before : Sig \union {Beyond},
         seen : SUBSET Sig, page : SUBSET Sig]

\* Everything has its type; the walk of an address keeps behind its cursor
\* everything it has seen, so that a page of it never repeats an earlier one.
TypeOK ==
  /\ landed \in Sig \union {0} /\ head \in Nat
  /\ tracked \subseteq Address
  /\ cursor \in Nat /\ first \in Nat
  /\ live \in Poll /\ hist \in Walk
  /\ handed \subseteq Sig /\ excused \subseteq Sig /\ polled \subseteq Sig
  /\ walk \in [from : Sig \union {0}, clean : BOOLEAN]
  /\ covered \in [Address -> Sig \union {0}]
  /\ trouble \in 0..MaxTrouble
  /\ \A s \in hist.seen : hist.before <= s

(* Slots behind the cursor are done with: what landed in them since the    *)
(* start was handed over, or one of the skips the code allows itself took  *)
(* it.  No signature falls between two polls, between two ranges, or into  *)
(* a slot that was still filling up when a poll ended in it.               *)
NothingSlips == \A s \in InSlots(1..landed, first, cursor) :
  Slot[s] < cursor => s \in handed \union excused

(* The ranges of one poll do not overlap: no transaction is fetched and    *)
(* handed over twice in it.                                                *)
EachOncePerPoll == live.found \intersect polled = {}

Young(s) == head <= Slot[s] + MaxAge

(* A walk in which nothing failed, and no page ended without a block time, *)
(* leaves nothing out that was there when it began, however many pages it  *)
(* took and whatever landed meanwhile, with one exception: the signatures  *)
(* that share a page with one past the age limit.  What is a page or more  *)
(* away from the newest signature that old is handed over.                 *)
SharesPage(addr, t, s) ==
  t <= s /\ Cardinality({u \in Of(addr) : t < u /\ u <= s}) < PageLimit

WalkIsComplete == \A addr \in Address : \A s \in Of(addr) :
  s <= covered[addr] /\ s \notin handed =>
    \E t \in Of(addr) : ~Young(t) /\ SharesPage(addr, t, s)

(* "Maximum age of transactions to process (90 days)" (polling.rs:208): a  *)
(* clean walk hands over every transaction that is not that old.  The code *)
(* looks at the last signature of a page before it processes the page, and *)
(* drops a page that straddles the limit whole.                            *)
YoungAreHanded == \A addr \in Address : \A s \in Of(addr) :
  s <= covered[addr] /\ Young(s) => s \in handed

(* The loops of a poll come to an end without counting their rounds: each  *)
(* step of the live task ends the poll, asks one address less, or begins a *)
(* later range that starts at a slot the poll is for.                      *)
NearerToEnd ==
  \/ live'.pc = "idle"
  \/ /\ live'.pc = "fetch" /\ live'.end = live.end
     /\ \/ live'.start = live.start /\ live'.todo \subseteq live.todo
                                  /\ live'.todo # live.todo
        \/ live.start < live'.start /\ live'.start <= live'.end

LivePollAdvances == [][live.pc = "fetch" /\ live' # live => NearerToEnd]_vars

(* The walks over the history end although it is the node that says where  *)
(* they go on: each step ends the round, begins with one of the addresses  *)
(* that are left, ends a walk, or deals with a page, and a page leaves the *)
(* pagination cursor at an older signature than it was asked with.         *)
FurtherBack ==
  \/ hist'.pc = "idle"
  \/ hist.pc = "next" /\ hist'.pc = "fetch"
       /\ hist'.todo \subseteq hist.todo /\ hist'.todo # hist.todo
  \/ hist.pc # "next" /\ hist'.pc = "next" /\ hist'.todo = hist.todo
  \/ /\ hist'.todo = hist.todo /\ hist'.addr = hist.addr
     /\ \/ hist.pc = "fetch" /\ hist'.pc = "process"
                             /\ hist'.before < hist.before
        \/ hist.pc = "process" /\ hist'.pc = "fetch"
                               /\ hist'.before = hist.before

WalksAdvance == [][hist.pc # "idle" /\ hist' # hist => FurtherBack]_vars

(* With the polls, ranges, pages and walks hidden, the two tasks keep what *)
(* Coverage promises: every step of theirs is one of its steps or none.    *)
Promise == INSTANCE Coverage WITH Reach <- LiveLimit, PageSize <- PageLimit

ImplementsCoverage == Promise!Spec

(* What an operator counts on: while nothing fails, no address is removed  *)
(* and the process runs, every transaction of the addresses W, tracked     *)
(* from the start, is handed over by the time the live task has passed its *)
(* slot, unless a request for its address no longer reached back to it.    *)
WatchedAreHanded(W) ==
  trouble = 0 =>
    \A s \in InSlots(1..landed, first, cursor) :
      Slot[s] < cursor /\ Parties[s] \intersect W # {} =>
        s \in handed \/ Promise!OutOfReach(s)

=============================================================================
