------------------------------ MODULE AtLeastOnce ------------------------------
(***************************************************************************)
(* What the integration outbox promises its receiver (the contract at the  *)
(* head of webhook_sender.py and of models/integration_outbox.py): an      *)
(* event may reach the receiver more than once and is never lost in        *)
(* silence.  It ends delivered, which only an event the receiver has taken *)
(* does, or in the dead letter, where it is seen by a person.              *)
(***************************************************************************)
CONSTANT Event

VARIABLES
  announced,     \* events whose business change was committed
  taken,         \* events the receiver has taken, at least once
  outcome        \* what the outbox says of an event

vars == <<announced, taken, outcome>>

Outcome == {"open", "delivered", "dead_letter"}

Init ==
  /\ announced = {}
  /\ taken = {}
  /\ outcome = [e \in Event |-> "open"]

Announce(e) ==
  /\ announced' = announced \cup {e}
  /\ UNCHANGED <<taken, outcome>>

\* The receiver takes an event, for the first time or again.
Take(e) ==
  /\ e \in announced
  /\ outcome[e] = "open"
  /\ taken' = taken \cup {e}
  /\ UNCHANGED <<announced, outcome>>

\* The outbox settles some events, and never revises what it settled.
Settle(S) ==
  /\ S \subseteq announced
  /\ \E to \in [S -> {"delivered", "dead_letter"}] :
       /\ \A e \in S : outcome[e] = "open" /\ (to[e] = "delivered" => e \in taken)
       /\ outcome' = [e \in Event |-> IF e \in S THEN to[e] ELSE outcome[e]]
  /\ UNCHANGED <<announced, taken>>

Next ==
  \/ \E e \in Event : Announce(e) \/ Take(e)
  \/ \E S \in SUBSET Event : Settle(S)

Safety == Init /\ [][Next]_vars

NothingStaysOpen == \A e \in Event : (e \in announced) ~> (outcome[e] # "open")

Spec == Safety /\ NothingStaysOpen
=============================================================================
