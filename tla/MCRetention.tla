----------------------------- MODULE MCRetention ------------------------------
(* A client, its representative, and an order of theirs. *)
EXTENDS Retention, TLC

CONSTANTS ana, rui, o1, email, vat

ClientOfOrder == [o \in Order |-> ana]
RepOfOrder == [o \in Order |-> rui]
Symmetry == Permutations(Request)

=============================================================================
