------------------------------- MODULE Revisions -------------------------------
(***************************************************************************)
(* The revisions of the database that make something other processes may   *)
(* meet half-way: those that build indexes concurrently, outside a         *)
(* transaction, and those that put a rule on data.  A revision is the      *)
(* sequence of its statements; alembic records it when they are through.   *)
(***************************************************************************)
EXTENDS Naturals, Sequences

Index == {"scale", "unread", "sort", "email"}
Unique == {"email"}
Rule == {"uf", "access", "market", "state"}

Statement ==
  [do : {"commit"}] \cup [do : {"require"}, on : SUBSET (Rule \cup Unique)]
    \cup [do : {"add", "validate", "enforce"}, on : Rule]
    \cup [do : {"look", "create"}, on : Index]

-----------------------------------------------------------------------------

Require(D) == <<[do |-> "require", on |-> D]>>    \* SELECT ... LIMIT 1, and raise
Autocommit == <<[do |-> "commit"]>>             \* autocommit_block commits what there is
Add(c) == <<[do |-> "add", on |-> c]>>          \* if there is none yet, NOT VALID
Validate(c) == <<[do |-> "validate", on |-> c]>>
Enforce(c) == <<[do |-> "enforce", on |-> c]>>  \* added and checked in the transaction

\* _create, _drop_invalid_index: an index that is not valid is dropped first.
Concurrently(i) == <<[do |-> "look", on |-> i], [do |-> "create", on |-> i]>>

\* uf: its three checks; scale: its indexes.
Scale == Require({"uf"}) \o Autocommit \o Add("uf") \o Validate("uf")
           \o Concurrently("scale")

Unread == Autocommit \o Concurrently("unread")

\* sort: the indexes to sort and to search by; email: the unique ones, on the
\* e-mail addresses and on the person of an account.
Directory == Require({"email"}) \o Autocommit
               \o Concurrently("sort") \o Concurrently("email")

AccessLinks == Require({"access"}) \o Enforce("access")
SameMarket == Require({"market"}) \o Enforce("market")
States == Require({"state"}) \o Enforce("state")

=============================================================================
