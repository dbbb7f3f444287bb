------------------------------ MODULE MCCatalogue ------------------------------
(* An instance of Catalogue for TLC. *)
EXTENDS Catalogue, TLC

\* One permutation serves both parts: types and categories have the same values,
\* as have names and codes, and prices and optionals.
Symmetry ==
  Permutations(Name) \cup Permutations(Type) \cup Permutations(Price) \cup Permutations(Rate)
    \cup Permutations(Request)

=============================================================================
