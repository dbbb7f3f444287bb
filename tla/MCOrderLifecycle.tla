--------------------------- MODULE MCOrderLifecycle ---------------------------
(* The instance of OrderLifecycle for TLC: European orders of one user, which *)
(* contend for the same counters and client.                                 *)
EXTENDS OrderLifecycle, TLC

CONSTANTS u, eu

AllOfOneUser == [o \in Order |-> u]
AllEu == [o \in Order |-> eu]

Symmetric == Permutations(Request)
=============================================================================
