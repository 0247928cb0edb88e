------------------------------ MODULE HandOver ------------------------------
(***************************************************************************)
(* What the batching layer promises to the rest of the service, without    *)
(* batches, buffers or tasks: a delivery that was accepted is held until   *)
(* it is queued for the workers, stays queued until a worker takes it, and *)
(* may be lost only once the workers' end of the channel is gone.          *)
(* BatchManager.tla implements this module.                                *)
(***************************************************************************)

CONSTANT Delivery       \* the transactions handed to the batching layer

VARIABLES held,         \* accepted, not yet queued
          queued,       \* in the worker channel
          taken,        \* received by a worker
          lost,         \* dropped because nobody can receive any more
          open          \* the receiving end of the channel still exists

vars == <<held, queued, taken, lost, open>>

TypeOK ==
  /\ held \in SUBSET Delivery
  /\ queued \in SUBSET Delivery
  /\ taken \in SUBSET Delivery
  /\ lost \in SUBSET Delivery
  /\ open \in BOOLEAN

Init ==
  /\ held = {}
  /\ queued = {}
  /\ taken = {}
  /\ lost = {}
  /\ open = TRUE

Known == held \union queued \union taken \union lost

(* A caller hands over one transaction. *)
Accept(d) ==
  /\ d \notin Known
  /\ held' = held \union {d}
  /\ UNCHANGED <<queued, taken, lost, open>>

(* Some of the held transactions enter the channel together. *)
Queue(S) ==
  /\ open
  /\ held' = held \ S
  /\ queued' = queued \union S
  /\ UNCHANGED <<taken, lost, open>>

(* A worker receives transactions that were queued. *)
Take(S) ==
  /\ open
  /\ queued' = queued \ S
  /\ taken' = taken \union S
  /\ UNCHANGED <<held, lost, open>>

(* A send fails: allowed only when the receiving end is gone. *)
Lose(S) ==
  /\ ~open
  /\ held' = held \ S
  /\ lost' = lost \union S
  /\ UNCHANGED <<queued, taken, open>>

(* The receiving end goes away with whatever it still held. *)
Close ==
  /\ open
  /\ open' = FALSE
  /\ queued' = {}
  /\ lost' = lost \union queued
  /\ UNCHANGED <<held, taken>>

Next ==
  \/ \E d \in Delivery : Accept(d)
  \/ \E S \in SUBSET held : Queue(S) \/ Lose(S)
  \/ \E S \in SUBSET queued : Take(S)
  \/ Close

Spec == Init /\ [][Next]_vars

(* No transaction is in two places at once: it is never both still held    *)
(* and already with the workers, nor delivered and lost.                   *)
ExactlyOnePlace ==
  /\ held \intersect (queued \union taken \union lost) = {}
  /\ queued \intersect (taken \union lost) = {}
  /\ taken \intersect lost = {}

=============================================================================
