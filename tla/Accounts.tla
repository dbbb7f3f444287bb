------------------------------- MODULE Accounts -------------------------------
(***************************************************************************)
(* Accounts, the permission platform_admin, and the invitations with which *)
(* a client sets the first password of an account.  What may take the last *)
(* administrator away holds an advisory lock; invitations are serialised   *)
(* by the row lock of their user.  Not everything takes the two.           *)
(***************************************************************************)
EXTENDS Naturals, Sequences, FiniteSets

CONSTANTS
  Request,       \* transactions that can be open at once
  Person,        \* rows of users, the ones to come included
  Client,        \* those provisioned from a client's record
  Founder,       \* the administrators there are at first
  Linked,        \* those whom a link ties to a client's or representative's record
  MaxInvitations \* bound: invitations

ASSUME PersonAssumption ==
  Client \subseteq Linked /\ Linked \subseteq Person /\ Founder \subseteq Person \ Client /\ Founder # {}
ASSUME BoundAssumption == MaxInvitations \in Nat

VARIABLES
  user,          \* is the row there, is_active, must_change_password, platform_admin
  invitation,    \* the rows of client_access_invitations, in the order of insertion
  txn,           \* what each open transaction is doing
  stopped,       \* accounts deactivated with no reactivation or invitation since or beside
  unguarded      \* whether an active administrator went inactive without the advisory lock

vars == <<user, invitation, txn, stopped, unguarded>>

-----------------------------------------------------------------------------

Account == [there: BOOLEAN, active: BOOLEAN, pending: BOOLEAN, admin: BOOLEAN]
Invitation == [person: Client, state: {"open", "consumed", "revoked"}]

Idle == [op |-> "idle"]
Removal == {"revoke_admin", "deactivate", "delete", "delete_me"}
Open == {r \in Request : txn[r] # Idle}
Doing(ops) == {r \in Open : txn[r].op \in ops}
Starts(r, work) == txn[r] = Idle /\ txn' = [txn EXCEPT ![r] = work]

Admins == {p \in Person : user[p].there /\ user[p].active /\ user[p].admin}
Invitations == DOMAIN invitation
OpenOf(p) == {i \in Invitations : invitation[i].person = p /\ invitation[i].state = "open"}
Absent == [there |-> FALSE, active |-> FALSE, pending |-> FALSE, admin |-> FALSE]

\* Row locks: a user's, from SELECT ... FOR UPDATE; those of the invitations
\* an UPDATE has revoked and not yet committed.
UserLocked(r, p) == \E q \in Doing({"issue", "activate"}) \ {r} : txn[q].person = p
Revoking(r, p) ==
  \E q \in Doing({"deactivate"}) \ {r} : txn[q].guarded /\ OpenOf(p) \cap txn[q].revoked # {}

\* Who commits something of p beside an open deactivation of p leaves a trace in it.
Beside(r, p) ==
  [q \in Request |->
    IF q = r THEN Idle
    ELSE IF q \in Doing({"deactivate"}) /\ txn[q].person = p
      THEN [txn[q] EXCEPT !.beside = TRUE] ELSE txn[q]]

Init ==
  /\ user = [p \in Person |->
       IF p \in Client THEN Absent
       ELSE [there |-> TRUE, active |-> TRUE, pending |-> FALSE, admin |-> p \in Founder]]
  /\ invitation = <<>>
  /\ txn = [r \in Request |-> Idle]
  /\ stopped = {} /\ unguarded = FALSE

\* What a transaction is doing. A removal remembers whether it holds the guard,
\* whether it read an active account, the invitations it revoked and whether
\* anything was committed beside it.
Work ==
  {Idle}
    \cup [op: Removal, person: Person, guarded: BOOLEAN, active: BOOLEAN,
          revoked: SUBSET Invitations, beside: BOOLEAN]
    \cup [op: {"issue"}, person: Client, revoked: SUBSET Invitations]
    \cup [op: {"activate"}, person: Client, inv: Invitations]

TypeOK ==
  /\ user \in [Person -> Account]
  /\ invitation \in Seq(Invitation)
  /\ txn \in [Request -> Work]
  /\ stopped \subseteq Person /\ unguarded \in BOOLEAN

-----------------------------------------------------------------------------
(* Giving and taking away *)

\* replace_platform_permissions with platform_admin among the capabilities.
Grant(p) ==
  /\ Admins # {} /\ user[p].there
  /\ user' = [user EXCEPT ![p].admin = TRUE]
  /\ UNCHANGED <<invitation, txn, stopped, unguarded>>

\* The caller is authorised, and the row of the user is read without a lock.
\* Who deletes another account is not that account; who deletes his own is.
BeginRemoval(r, op, p) ==
  /\ user[p].there
  /\ op = "delete_me" => user[p].active /\ ~user[p].pending
  /\ op = "delete" => Admins \ {p} # {}
  /\ op \in {"revoke_admin", "deactivate"} => Admins # {}
  /\ Starts(r, [op |-> op, person |-> p, guarded |-> FALSE,
                active |-> op = "deactivate" /\ user[p].active, revoked |-> {}, beside |-> FALSE])
  /\ UNCHANGED <<user, invitation, stopped, unguarded>>

\* _would_remove_last_platform_admin
IsLastAdmin(p) == user[p].admin /\ Admins \ {p} = {}

\* Faulty variant: nothing serialises the ones that look for another administrator.
GuardUnlocked(r) ==
  /\ r \in Doing(Removal) /\ ~txn[r].guarded
  /\ LET p == txn[r].person
         seen == IF txn[r].op = "deactivate" THEN OpenOf(p) ELSE {}
     IN  /\ ~IsLastAdmin(p)
         /\ txn' = [txn EXCEPT ![r].guarded = TRUE, ![r].revoked = seen]
  /\ UNCHANGED <<user, invitation, stopped, unguarded>>

\* Faulty variant: a deactivation leaves the invitations as they are.
GuardOnly(r) ==
  /\ r \in Doing(Removal) /\ ~txn[r].guarded
  /\ \A q \in Doing(Removal) : ~txn[q].guarded
  /\ ~IsLastAdmin(txn[r].person)
  /\ txn' = [txn EXCEPT ![r].guarded = TRUE]
  /\ UNCHANGED <<user, invitation, stopped, unguarded>>

\* lock_platform_admin_guard, and the search for another administrator under
\* the lock; a deactivation then revokes the open invitations it sees.
Guard(r) ==
  /\ r \in Doing(Removal) /\ ~txn[r].guarded
  /\ \A q \in Doing(Removal) : ~txn[q].guarded
  /\ LET p == txn[r].person
         seen == IF txn[r].op = "deactivate" THEN OpenOf(p) ELSE {}
     IN  /\ ~IsLastAdmin(p)
         /\ txn' = [txn EXCEPT ![r].guarded = TRUE, ![r].revoked = seen]
  /\ UNCHANGED <<user, invitation, stopped, unguarded>>

\* What the transaction writes.  is_active is an attribute of an object of the
\* session: it is written when it differs from the value that was read.
CommitRemoval(r) ==
  /\ r \in Doing(Removal) /\ txn[r].guarded /\ user[txn[r].person].there
  /\ LET t == txn[r]
         p == t.person
     IN  /\ (t.op = "deactivate" /\ ~t.active) \/ ~UserLocked(r, p)
         /\ CASE t.op = "revoke_admin" -> user' = [user EXCEPT ![p].admin = FALSE]
              [] t.op = "deactivate"   -> user' = [user EXCEPT ![p].active = @ /\ ~t.active]
              [] OTHER                 -> user' = [user EXCEPT ![p] = Absent]
         /\ invitation' = [i \in Invitations |->
              IF i \in t.revoked THEN [invitation[i] EXCEPT !.state = "revoked"] ELSE invitation[i]]
         /\ stopped' = IF t.op # "deactivate" THEN stopped
                       ELSE IF t.beside \/ \E q \in Doing({"issue", "activate"}) : txn[q].person = p
                         THEN stopped \ {p} ELSE stopped \cup {p}
  /\ txn' = [txn EXCEPT ![r] = Idle]
  /\ UNCHANGED unguarded

\* update_user with is_active true.
Reactivate(r, p) ==
  /\ txn[r] = Idle /\ Admins # {}
  /\ user[p].there /\ ~user[p].active /\ ~UserLocked(r, p)
  /\ user' = [user EXCEPT ![p].active = TRUE]
  /\ txn' = Beside(r, p)
  /\ stopped' = stopped \ {p}
  /\ UNCHANGED <<invitation, unguarded>>

\* anonymize_my_data: the holder of a linked account ends it, and no guard is
\* held; the permissions and the invitations of the account stay as they are.
AnonymizeMyData(p) ==
  /\ p \in Linked /\ user[p].there /\ user[p].active /\ ~user[p].pending
  /\ \A r \in Request : ~UserLocked(r, p)
  /\ user' = [user EXCEPT ![p].active = FALSE]
  /\ unguarded' = (unguarded \/ user[p].admin)
  /\ UNCHANGED <<invitation, txn, stopped>>

-----------------------------------------------------------------------------
(* Invitations of clients *)

\* create_user_from_client
Provision(p) ==
  /\ p \in Client /\ user[p] = Absent /\ \A i \in Invitations : invitation[i].person # p
  /\ user' = [user EXCEPT ![p] = [Absent EXCEPT !.there = TRUE, !.pending = TRUE]]
  /\ UNCHANGED <<invitation, txn, stopped, unguarded>>

\* Nothing is left to invite in an account its holder already opened, nor in
\* one with a platform permission (client_identity_isolated).
Invitable(p) ==
  user[p].there /\ ~user[p].admin /\ (user[p].active => user[p].pending)

\* issue_client_invitation, up to the message that carries the link: the open
\* invitations are revoked.
BeginIssue(r, p) ==
  /\ p \in Client /\ Invitable(p)
  /\ Len(invitation) + Cardinality(Doing({"issue"})) < MaxInvitations
  /\ ~UserLocked(r, p) /\ ~Revoking(r, p)
  /\ Starts(r, [op |-> "issue", person |-> p, revoked |-> OpenOf(p)])
  /\ UNCHANGED <<user, invitation, stopped, unguarded>>

\* The message was accepted: the former links are dead, the account waits for
\* its holder again, the new row is there.
CommitIssue(r) ==
  /\ r \in Doing({"issue"}) /\ user[txn[r].person].there
  /\ LET p == txn[r].person
     IN  /\ user' = [user EXCEPT ![p].active = FALSE, ![p].pending = TRUE]
         /\ invitation' = Append(
              [i \in Invitations |->
                 IF i \in txn[r].revoked THEN [invitation[i] EXCEPT !.state = "revoked"] ELSE invitation[i]],
              [person |-> p, state |-> "open"])
         /\ unguarded' = (unguarded \/ (user[p].active /\ user[p].admin))
         /\ txn' = Beside(r, p)
         /\ stopped' = stopped \ {p}

\* activate_client takes the lock of the user first, as the issue does.
BeginActivation(r, i) ==
  /\ i \in Invitations /\ user[invitation[i].person].there
  /\ ~UserLocked(r, invitation[i].person)
  /\ Starts(r, [op |-> "activate", person |-> invitation[i].person, inv |-> i])
  /\ UNCHANGED <<user, invitation, stopped, unguarded>>

\* Then that of the invitation, whose state is read under it.  A link that is
\* spent, revoked or expired opens nothing.
CommitActivation(r) ==
  /\ r \in Doing({"activate"})
  /\ LET p == txn[r].person
         j == txn[r].inv
     IN  /\ ~Revoking(r, p)
         /\ invitation[j].state = "open"
         /\ user[p].there /\ user[p].pending /\ ~user[p].admin
         /\ user' = [user EXCEPT ![p].active = TRUE, ![p].pending = FALSE]
         /\ invitation' = [i \in Invitations |->
              CASE i = j                 -> [invitation[i] EXCEPT !.state = "consumed"]
                [] i \in OpenOf(p) \ {j} -> [invitation[i] EXCEPT !.state = "revoked"]
                [] OTHER                 -> invitation[i]]
         /\ txn' = Beside(r, p)
  /\ UNCHANGED <<stopped, unguarded>>

\* A refusal, a message not accepted, a deadlock PostgreSQL breaks, a lost
\* connection: the transaction leaves nothing.
Abort(r) ==
  /\ r \in Open
  /\ txn' = [txn EXCEPT ![r] = Idle]
  /\ UNCHANGED <<user, invitation, stopped, unguarded>>

-----------------------------------------------------------------------------

Next ==
  \/ \E p \in Person : Grant(p) \/ Provision(p) \/ AnonymizeMyData(p)
  \/ \E r \in Request :
       \/ \E p \in Person : Reactivate(r, p) \/ BeginIssue(r, p)
       \/ \E p \in Person, op \in Removal : BeginRemoval(r, op, p)
       \/ \E i \in Invitations : BeginActivation(r, i)
       \/ Guard(r) \/ CommitRemoval(r) \/ CommitIssue(r) \/ CommitActivation(r) \/ Abort(r)

Spec == Init /\ [][Next]_vars

-----------------------------------------------------------------------------

\* The platform keeps an administrator whose account is active, whatever runs
\* at the same time, as long as no administrator's account was made inactive by
\* what does not take the advisory lock: the anonymisation of one's own data,
\* or an invitation that overlaps the grant.
AdminRemains == unguarded \/ Admins # {}

\* The accounts that were deactivated stay so: no link sent before brings one
\* back, unless it was being issued or used at that very time.
DeactivationHolds == \A p \in stopped : ~user[p].active
=============================================================================
