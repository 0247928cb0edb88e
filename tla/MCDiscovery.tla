----------------------------- MODULE MCDiscovery -----------------------------
(* A small instance of Discovery for TLC: two signatures in one slot; three *)
(* for one address, one more than a page or a request holds; and two for    *)
(* the other, which share a page that straddles the age limit in slot 3.    *)
EXTENDS Discovery
CONSTANTS a, b

MCSlot == <<1, 2, 2>>
MCParties == <<{a, b}, {a, b}, {a}>>
=============================================================================
