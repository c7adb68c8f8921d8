--------------------------- MODULE MCOutboxDelivery ---------------------------
(* Instances of OutboxDelivery for TLC. *)
EXTENDS OutboxDelivery, TLC

CONSTANTS e1, e2

Symmetry == Permutations({e1, e2})
=============================================================================
