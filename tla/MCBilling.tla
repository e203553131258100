------------------------------ MODULE MCBilling ------------------------------
(* Model values, and the deliveries some runs restrict Billing to. *)
EXTENDS Billing, TLC

Symmetry == Permutations(Requests)

(* In the order of the moves reported. *)
Ordered(m) == \A n \in sent \ processed : n.move >= m.move
=============================================================================
