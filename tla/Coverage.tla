------------------------------ MODULE Coverage ------------------------------
(***************************************************************************)
(* What the two polling tasks promise about a growing chain, without       *)
(* polls, ranges, pages or walks.  The live task's slot moves forward only *)
(* over slots whose signatures have been dealt with, each handed over or   *)
(* excused; an excuse is that nobody watches the addresses of a signature, *)
(* that too many newer ones came for one of them, or that something        *)
(* failed.  An address is covered up to some point of the chain when all   *)
(* its signatures up to there are handed over, but for those that share a  *)
(* page with one past the age limit.  Discovery.tla implements this        *)
(* module.                                                                 *)
(***************************************************************************)
EXTENDS Naturals, Sequences, FiniteSets

CONSTANTS Address,
          Slot,         \* the slot of each signature, in the order they land
          Parties,      \* the addresses each signature is listed for
          Reach,        \* how many signatures of an address one request finds
          PageSize,     \* and how many of them share a page of the history
          MaxAge,       \* the age limit of the history
          DefaultSlot   \* where the live task starts when it knows no slot

VARIABLES landed,       \* signatures 1..landed are on the chain
          head,         \* the latest slot
          tracked,      \* the addresses watched
          cursor,       \* how far the live task has come
          first,        \* where it started
          handed,       \* signatures passed on
          excused,      \* signatures given up
          covered,      \* how much of its history each address has passed on
          trouble       \* failures, restarts and removals so far

chain == <<landed, head, tracked>>
vars == <<landed, head, tracked, cursor, first, handed, excused, covered, trouble>>

OnChain == 1..landed
Of(a) == {s \in OnChain : a \in Parties[s]}

Init ==
  /\ landed = 0 /\ head = 0
  /\ tracked \in SUBSET Address
  /\ cursor \in {head, DefaultSlot} /\ first = cursor
  /\ handed = {} /\ excused = {}
  /\ covered = [a \in Address |-> 0]
  /\ trouble = 0

(* Signatures land in the latest slot or in later ones, time passes, and   *)
(* addresses are watched, or given up.                                     *)
Grow ==
  /\ landed <= landed' /\ landed' <= Len(Slot) /\ head <= head'
  /\ \A s \in OnChain' \ OnChain : head <= Slot[s] /\ Slot[s] <= head'
  /\ \/ tracked \subseteq tracked' /\ trouble' = trouble
     \/ trouble' = trouble + 1
  /\ UNCHANGED <<cursor, first, handed, excused, covered>>

Unwatched(s) == Parties[s] \intersect tracked = {}

OutOfReach(s) ==
  \E a \in Parties[s] : Cardinality({t \in Of(a) : t > s}) >= Reach

(* Signatures of the chain are handed over or excused.                     *)
Deal ==
  /\ handed \subseteq handed' /\ handed' \ handed \subseteq OnChain
  /\ excused \subseteq excused' /\ excused' \ excused \subseteq OnChain
  /\ \/ trouble' = trouble + 1
     \/ /\ trouble' = trouble
        /\ \A s \in excused' \ excused : Unwatched(s) \/ OutOfReach(s)
  /\ UNCHANGED <<chain, first>>

(* The live task comes to a later slot, which may still be filling up.     *)
Advance ==
  /\ Deal
  /\ cursor < cursor' /\ cursor' <= head
  /\ \A s \in OnChain : cursor <= Slot[s] /\ Slot[s] < cursor'
       => s \in handed' \union excused'
  /\ UNCHANGED covered

TooOldFor(a, s) == \E t \in Of(a) :
  /\ Slot[t] + MaxAge < head
  /\ t <= s /\ Cardinality({u \in Of(a) : t < u /\ u <= s}) < PageSize

(* The history of an address is passed on up to signature n.               *)
Cover(a, n) ==
  /\ Deal
  /\ covered[a] <= n
  /\ \A s \in Of(a) : s <= n => s \in handed' \/ TooOldFor(a, s)
  /\ covered' = [covered EXCEPT ![a] = n]
  /\ UNCHANGED cursor

(* Only the chain and what was handed over outlive the process.            *)
Restart ==
  /\ trouble' = trouble + 1
  /\ cursor' \in {head, DefaultSlot} /\ first' = cursor'
  /\ UNCHANGED <<chain, handed, excused, covered>>

Next == \/ Grow
        \/ Deal /\ UNCHANGED <<cursor, covered>>
        \/ Advance
        \/ \E a \in Address, n \in 0..landed : Cover(a, n)
        \/ Restart

Spec == Init /\ [][Next]_vars

=============================================================================
