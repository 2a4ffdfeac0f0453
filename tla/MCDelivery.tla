----------------------------- MODULE MCDelivery -----------------------------
(* Delivery for TLC: keys of two bits. *)
EXTENDS Delivery, TLC

Symmetry == Permutations(Tab) \cup Permutations(Reader)
MCKey    == [s \in Switch |-> [i \in Bits |-> i = 1]]
MCShareA == [s \in Switch |-> [i \in Bits |-> TRUE]]
=============================================================================
