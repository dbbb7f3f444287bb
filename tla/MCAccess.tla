------------------------------- MODULE MCAccess -------------------------------
(* An instance of Access for TLC. *)
EXTENDS Access, TLC

\* The third wait of the code, and its longer window, add no case.
Waits == <<[failures |-> 2, wait |-> 1], [failures |-> 3, wait |-> 3]>>

Symmetry == Permutations(Request)

=============================================================================
