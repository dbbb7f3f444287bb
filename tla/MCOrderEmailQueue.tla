-------------------------- MODULE MCOrderEmailQueue --------------------------
(* Instances of OrderEmailQueue for TLC. *)
EXTENDS OrderEmailQueue, TLC

\* Workers, requests, renderings and webhook ids are interchangeable, and so
\* are the identities of delivery rows that are not in use.
Symmetry ==
  Permutations(Worker) \cup Permutations(Request) \cup Permutations(Pdf)
  \cup Permutations(Svix) \cup Permutations(Delivery)
=============================================================================
