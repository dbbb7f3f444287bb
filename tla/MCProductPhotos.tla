---------------------------- MODULE MCProductPhotos ----------------------------
(* A row of each market; a Brazilian photo at first, and two European ones to come. *)
EXTENDS PhotoBuckets, TLC

CONSTANTS br, eu, b1, e1, e2, r1, r2

Symmetry == Permutations(Handler) \cup Permutations(EuPicture)

=============================================================================
