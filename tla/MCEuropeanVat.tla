----------------------------- MODULE MCEuropeanVat -----------------------------
(* Two products, two rates, two approvers, one group. *)
EXTENDS VatOfOrders, TLC

CONSTANTS p1, p2, g1, low, high, u1, u2, r1

Symmetry ==
  Permutations(TaxedProduct) \cup Permutations(VatRate) \cup Permutations(Approver)

=============================================================================
