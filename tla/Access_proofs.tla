----------------------------- MODULE Access_proofs -----------------------------
(***************************************************************************)
(* What holds of accounts, sessions and logins for any number of people,   *)
(* requests, invitations, tokens and pairs: the advisory lock keeps an     *)
(* active administrator, the locks of the invitations keep an account      *)
(* stopped that was stopped, a family of tokens does not fork, a session   *)
(* outlives what was to end it only by a race, and guesses are rationed.   *)
(***************************************************************************)
EXTENDS Access, FiniteSetTheorems, SequenceTheorems, WellFoundedInduction,
        TLAPS

Guarded == {r \in Request : txn[r].op \in Removal /\ txn[r].guarded}

\* One removal at a time is past the search for another administrator, and that
\* one is still there.
AdminInv ==
  \/ unguarded
  \/ /\ Admins # {}
     /\ \A r \in Guarded : Admins \ {txn[r].person} # {}
     /\ \A r, q \in Guarded : r = q

\* A deactivation knows the invitations and the state of its account, unless
\* somebody committed beside it.
DeactivationsKnow ==
  \A r \in Request :
    LET t == txn[r]
    IN  t.op = "deactivate" /\ ~t.beside =>
          /\ ~t.active => ~user[t.person].active
          /\ t.guarded => OpenOf(t.person) \subseteq t.revoked

\* An activation is of the person its invitation is for.
ActivationsAreInvited ==
  \A r \in Request : txn[r].op = "activate" => invitation[txn[r].inv].person = txn[r].person

StoppedInv ==
  /\ DeactivationsKnow
  /\ ActivationsAreInvited
  /\ DeactivationHolds
  /\ \A p \in stopped : OpenOf(p) = {}

Holding == {"rotate", "replay"}

\* Transactions that lock a token.
Holders == {r \in Request : work[r].op \in Holding}

\* The families of the rows, and of the replays, are known ones.
KnownFamilies ==
  /\ \A t \in Session!Tokens : token[t].family \in Session!Tokens
  /\ replayed \subseteq Session!Tokens

\* FOR UPDATE: a token is locked by one transaction.
OneAtAToken == \A r, q \in Holders : work[r].tok = work[q].tok => r = q

\* A token that is being exchanged stays live until it is.
RotatedIsLive == \A r \in Holders : work[r].op = "rotate" => token[work[r].tok].live

\* A replay reaches every live token of its family, but one of a renewal that
\* was in the middle.
ReplayReaches ==
  \A r \in Holders :
    work[r].op = "replay" =>
      \A s \in Session!Live :
        token[s].family = token[work[r].tok].family =>
          s \in work[r].seen \/ "replay" \in token[s].raced

FamilyInv ==
  /\ KnownFamilies
  /\ OneAtAToken
  /\ RotatedIsLive
  /\ ReplayReaches
  /\ Session!FamiliesDoNotFork

\* What a change is about: rights of one scope, or the person.
ChangesAreScoped ==
  \A r \in Request :
    LET c == work[r]
    IN  /\ c.op \in {"change", "revoke"} =>
             /\ c.by # "rights" => c.drop = {}
             /\ c.drop \subseteq Market \/ c.drop \subseteq {Platform}
        /\ c.op = "switch" => token[c.tok].right \in Market

\* A revocation has seen every live token within its reach, but those whose
\* opening or renewal it overlaps with.
RevocationReaches ==
  \A r \in Request :
    work[r].op = "revoke" =>
      \A t \in Session!Live :
        token[t].right \in Session!Reach(work[r]) =>
          t \in work[r].seen \/ "change" \in token[t].raced

\* No session outlives what was to end it, but by such a race.
SessionsEnd ==
  \A t \in Session!Live :
    token[t].password # holder.password \/ ~holder.active \/ token[t].right \notin rights
      => "change" \in token[t].raced

\* A switch to a market that was lost meanwhile is of such a session.
SwitchesEnd ==
  \A r \in Request :
    work[r].op = "switch" /\ token[work[r].tok].live /\ work[r].right \notin rights
      => "change" \in token[work[r].tok].raced

\* A token of another password has no access token of the present version, nor
\* is a switch about to issue one.
VersionsEnd ==
  \A t \in Session!Tokens :
    token[t].password # holder.password /\ {"change", "lost"} \cap token[t].raced = {} =>
      /\ \A a \in token[t].issued : a.ver # holder.version
      /\ \A r \in Request :
           work[r].op = "switch" /\ work[r].tok = t => work[r].ver # holder.version

RaceInv ==
  /\ ChangesAreScoped
  /\ RevocationReaches
  /\ SessionsEnd
  /\ SwitchesEnd
  /\ VersionsEnd

\* Of one pair: its row s, its wrong passwords w, the logins under way u.
\* Wrong passwords come one after the other.
Chronicle(w, now) ==
  /\ \A i \in DOMAIN w : w[i].at <= now /\ w[i].nth >= 1
  /\ \A i, j \in DOMAIN w : i <= j => w[i].at <= w[j].at

\* The row tells of the last of them, unless that one is out of the window.
RowFollows(s, w, now) ==
  LET m == Len(w)
  IN  /\ s.count > 0 =>
           /\ m > 0 /\ s.count = w[m].nth /\ s.last = w[m].at
           /\ s.until = IF Login!Wait(w[m].nth) = 0 THEN 0 ELSE w[m].at + Login!Wait(w[m].nth)
      /\ s.count = 0 => s.until = 0 /\ (m > 0 => w[m].at < now - Window)

\* While the wait of the i-th lasts, no count starts again, and what came since
\* and is under way are fewer than the requests there can be.
Rationed(w, u, now) ==
  \A i \in DOMAIN w :
    now < w[i].at + Login!Wait(w[i].nth) =>
      /\ w[i].nth <= w[Len(w)].nth
      /\ (Len(w) - i) + Cardinality(u) < Cardinality(Request)

\* Whatever came after it, further away, came after the wait.
Spaced(w) ==
  \A i, j \in DOMAIN w :
    j >= i + Cardinality(Request) => w[j].at >= w[i].at + Login!Wait(w[i].nth)

Protected(s, w, u, now) ==
  Chronicle(w, now) /\ RowFollows(s, w, now) /\ Rationed(w, u, now) /\ Spaced(w)

\* The logins under way with a pair.
With(k) == {r \in Login!Under : login[r].pair = k}

LoginInv == \A k \in Pair : Protected(row[k], wrong[k], With(k), clock)

-----------------------------------------------------------------------------
(* Rows and transactions *)

\* A function on the first numbers is a sequence.
LEMMA Sequences ==
  ASSUME NEW S, NEW n \in Nat, NEW f \in [1 .. n -> S]
  PROVE  f \in Seq(S) /\ Len(f) = n /\ DOMAIN f = 1 .. n
<1>1. f \in Seq(S)
  OBVIOUS
<1>2. DOMAIN f = 1 .. n
  OBVIOUS
<1>3. Len(f) \in Nat /\ DOMAIN f = 1 .. Len(f)
  BY <1>1, LenProperties
<1>4. Len(f) = n
  <2>1. 1 .. Len(f) = 1 .. n
    BY <1>2, <1>3
  <2>2. Len(f) <= n
    BY <1>3, <2>1
  <2>3. n <= Len(f)
    BY <1>3, <2>1
  <2> QED  BY <1>3, <2>2, <2>3
<1> QED  BY <1>1, <1>2, <1>4

LEMMA Rows ==
  ASSUME TypeOK
  PROVE  /\ Len(invitation) \in Nat /\ Invitations = 1 .. Len(invitation)
         /\ \A i \in Invitations : /\ invitation[i] \in Invitation
                                   /\ invitation[i].person \in Client
<1>1. invitation \in Seq(Invitation)
  BY DEF TypeOK
<1>2. Len(invitation) \in Nat /\ Invitations = 1 .. Len(invitation)
  BY <1>1, LenProperties DEF Invitations
<1>3. \A i \in Invitations : invitation[i] \in Invitation
  BY <1>1, <1>2, ElementOfSeq
<1> QED  BY <1>2, <1>3 DEF Invitation

\* What each kind of transaction carries.
LEMMA Works ==
  ASSUME NEW t \in Work
  PROVE  /\ t.op \in Removal => /\ t.person \in Person /\ t.guarded \in BOOLEAN /\ t.active \in BOOLEAN
                                /\ t.revoked \in SUBSET Invitations /\ t.beside \in BOOLEAN
                                /\ t = [op |-> t.op, person |-> t.person, guarded |-> t.guarded,
                                        active |-> t.active, revoked |-> t.revoked, beside |-> t.beside]
         /\ t.op = "issue" => t.person \in Client /\ t.revoked \in SUBSET Invitations
         /\ t.op = "activate" => t.person \in Client /\ t.inv \in Invitations
         /\ t.op = "idle" \/ t.op \in Removal \/ t.op \in {"issue", "activate"}
  BY DEF Work, Idle, Removal

LEMMA WorkGrows ==
  Invitations \subseteq Invitations' => Work \subseteq Work'
  BY DEF Work

LEMMA StartedWork ==
  ASSUME TypeOK, NEW r \in Request, NEW t \in Work, Starts(r, t)
  PROVE  /\ txn' \in [Request -> Work]
         /\ txn[r] = Idle /\ txn'[r] = t
         /\ \A q \in Request : q # r => txn'[q] = txn[q]
  BY DEF TypeOK, Starts

LEMMA EndedWork ==
  ASSUME TypeOK, NEW r \in Request, txn' = [txn EXCEPT ![r] = Idle]
  PROVE  /\ txn' \in [Request -> Work]
         /\ txn'[r] = Idle
         /\ \A q \in Request : q # r => txn'[q] = txn[q]
  BY DEF TypeOK, Work

\* Only deactivations of the same account notice what is committed.
LEMMA WorkBeside ==
  ASSUME TypeOK, NEW r \in Request, NEW p, txn' = Beside(r, p)
  PROVE  /\ txn' \in [Request -> Work]
         /\ txn'[r] = Idle
         /\ \A q \in Request : q # r =>
              txn'[q] = IF txn[q].op = "deactivate" /\ txn[q].person = p
                        THEN [txn[q] EXCEPT !.beside = TRUE] ELSE txn[q]
<1>1. \A q \in Request : txn[q] \in Work
  BY DEF TypeOK
<1>2. \A q \in Request : txn[q].op = "deactivate" <=> q \in Doing({"deactivate"})
  BY DEF Doing, Open, Idle
<1>3. /\ txn'[r] = Idle
      /\ \A q \in Request : q # r =>
              txn'[q] = IF txn[q].op = "deactivate" /\ txn[q].person = p
                        THEN [txn[q] EXCEPT !.beside = TRUE] ELSE txn[q]
  BY <1>2 DEF Beside
<1>4. ASSUME NEW q \in Request, txn[q].op = "deactivate"
      PROVE  [txn[q] EXCEPT !.beside = TRUE] \in Work
  <2>1. txn[q] \in [op: Removal, person: Person, guarded: BOOLEAN, active: BOOLEAN,
                    revoked: SUBSET Invitations, beside: BOOLEAN]
    BY <1>1, <1>4, Works DEF Removal
  <2> QED  BY <2>1 DEF Work
<1>5. \A q \in Request : txn'[q] \in Work
  <2>1. Idle \in Work
    BY DEF Work
  <2> QED  BY <1>1, <1>3, <1>4, <2>1
<1>6. txn' = [q \in Request |-> txn'[q]]
  BY DEF Beside
<1> QED  BY <1>3, <1>5, <1>6

\* ... and nothing but that they were not alone changes in them.
LEMMA OnlyBesides ==
  ASSUME TypeOK, NEW r \in Request, NEW p, txn' = Beside(r, p)
  PROVE  /\ \A q \in Request : q # r => txn'[q].op = txn[q].op
         /\ \A q \in Request : q # r /\ txn[q].op \notin Removal => txn'[q] = txn[q]
         /\ \A q \in Request : q # r /\ txn[q].op \in Removal =>
              /\ txn'[q].person = txn[q].person /\ txn'[q].guarded = txn[q].guarded
              /\ txn'[q].active = txn[q].active /\ txn'[q].revoked = txn[q].revoked
              /\ txn[q].op = "deactivate" /\ txn[q].person = p => txn'[q].beside
              /\ txn'[q].beside => txn[q].beside \/ txn[q].person = p
              /\ txn[q].beside => txn'[q].beside
<1>1. \A q \in Request : txn[q] \in Work
  BY DEF TypeOK
<1>2. ASSUME NEW q \in Request, q # r, txn[q].op = "deactivate", txn[q].person = p
      PROVE  /\ txn'[q].op = txn[q].op
             /\ txn'[q].person = txn[q].person /\ txn'[q].guarded = txn[q].guarded
             /\ txn'[q].active = txn[q].active /\ txn'[q].revoked = txn[q].revoked
             /\ txn'[q].beside
  <2>1. txn'[q] = [txn[q] EXCEPT !.beside = TRUE]
    BY <1>2, WorkBeside
  <2>2. txn[q] = [op |-> txn[q].op, person |-> txn[q].person, guarded |-> txn[q].guarded,
                  active |-> txn[q].active, revoked |-> txn[q].revoked, beside |-> txn[q].beside]
    BY <1>1, <1>2, Works DEF Removal
  <2>3. txn'[q] = [op |-> txn[q].op, person |-> txn[q].person, guarded |-> txn[q].guarded,
                   active |-> txn[q].active, revoked |-> txn[q].revoked, beside |-> TRUE]
    BY <2>1, <2>2
  <2> QED  BY <2>3
<1>3. ASSUME NEW q \in Request, q # r, ~(txn[q].op = "deactivate" /\ txn[q].person = p)
      PROVE  txn'[q] = txn[q]
  BY <1>3 DEF Beside, Doing
<1> QED  BY <1>2, <1>3 DEF Removal

-----------------------------------------------------------------------------
(* Types, and what becomes of invitations *)

LEMMA InitTypes ==
  Init => TypeOK
<1> SUFFICES ASSUME Init  PROVE TypeOK
  OBVIOUS
<1>1. user \in [Person -> Account]
  BY DEF Init, Account, Absent
<1>2. txn \in [Request -> Work]
  BY DEF Init, Work
<1>3. invitation \in Seq(Invitation)
  BY DEF Init
<1> QED  BY <1>1, <1>2, <1>3 DEF Init, TypeOK

\* A row keeps its person, and an invitation that is no longer open stays so.
\* Only an issue adds a row, one of the person it is for.
LEMMA Committed ==
  ASSUME TypeOK, NEW r \in Request, CommitRemoval(r) \/ CommitActivation(r)
  PROVE  /\ invitation' \in Seq(Invitation) /\ Invitations' = Invitations
         /\ \A i \in Invitations : /\ invitation'[i].person = invitation[i].person
                                   /\ invitation'[i].state = "open" => invitation[i].state = "open"
<1>1. /\ DOMAIN invitation' = Invitations
      /\ invitation' = [i \in Invitations |-> invitation'[i]]
      /\ \A i \in Invitations :
           invitation'[i] \in {invitation[i], [invitation[i] EXCEPT !.state = "revoked"],
                               [invitation[i] EXCEPT !.state = "consumed"]}
  BY DEF CommitRemoval, CommitActivation
<1>2. \A i \in Invitations :
        /\ invitation'[i] \in Invitation
        /\ invitation'[i].person = invitation[i].person
        /\ invitation'[i].state = "open" => invitation[i].state = "open"
  BY <1>1, Rows DEF Invitation
<1>3. invitation' \in Seq(Invitation)
  BY <1>1, <1>2, Rows, Sequences
<1> QED  BY <1>1, <1>2, <1>3 DEF Invitations

LEMMA Issued ==
  ASSUME TypeOK, NEW r \in Request, CommitIssue(r)
  PROVE  /\ invitation' \in Seq(Invitation) /\ Invitations \subseteq Invitations'
         /\ \A i \in Invitations : /\ invitation'[i].person = invitation[i].person
                                   /\ invitation'[i].state = "open" => invitation[i].state = "open"
         /\ \A i \in Invitations' \ Invitations : invitation'[i].person = txn[r].person
<1> DEFINE p == txn[r].person
           old == [i \in Invitations |->
                     IF i \in txn[r].revoked THEN [invitation[i] EXCEPT !.state = "revoked"]
                                             ELSE invitation[i]]
           new == [person |-> p, state |-> "open"]
<1>1. invitation' = Append(old, new)
  BY DEF CommitIssue
<1>2. txn[r].op = "issue" /\ p \in Client
  BY Works DEF CommitIssue, Doing, TypeOK
<1>3. new \in Invitation /\ new.person = p
  BY <1>2 DEF Invitation
<1>4. \A i \in Invitations :
        /\ old[i] \in Invitation
        /\ old[i].person = invitation[i].person
        /\ old[i].state = "open" => invitation[i].state = "open"
  BY Rows DEF Invitation
<1>5. old \in [Invitations -> Invitation]
  BY <1>4
<1> HIDE DEF old, new
<1>6. old \in Seq(Invitation) /\ Len(old) = Len(invitation)
  BY <1>5, Rows, Sequences
<1>7. /\ invitation' \in Seq(Invitation) /\ Len(invitation') = Len(invitation) + 1
      /\ \A i \in Invitations : invitation'[i] = old[i]
      /\ invitation'[Len(invitation) + 1] = new
  BY <1>1, <1>3, <1>6, Rows, AppendProperties
<1>8. Invitations' = 1 .. (Len(invitation) + 1)
  BY <1>7, LenProperties DEF Invitations
<1>9. \A i \in Invitations' \ Invitations : i = Len(invitation) + 1
  BY <1>8, Rows
<1> QED  BY <1>3, <1>4, <1>7, <1>8, <1>9, Rows

LEMMA Types ==
  TypeOK /\ [Next]_vars => TypeOK'
<1> SUFFICES ASSUME TypeOK, [Next]_vars  PROVE TypeOK'
  OBVIOUS
<1>1. ASSUME UNCHANGED invitation, txn' \in [Request -> Work], user' \in [Person -> Account],
             stopped' \subseteq Person, unguarded' \in BOOLEAN
      PROVE  TypeOK'
  BY <1>1 DEF TypeOK, Work, Invitations
<1>2. \A p \in Person : user[p] \in Account
  BY DEF TypeOK
<1>3. ASSUME NEW p \in Person, Grant(p) \/ Provision(p) \/ AnonymizeMyData(p)
      PROVE  TypeOK'
  <2>1. user' \in [Person -> Account]
    <3>1. user \in [Person -> Account] /\ Absent \in Account
      BY DEF TypeOK, Account, Absent
    <3>2. CASE Grant(p)
      BY <1>2, <3>1, <3>2 DEF Grant, Account
    <3>3. CASE Provision(p)
      BY <1>2, <3>1, <3>3 DEF Provision, Account
    <3>4. CASE AnonymizeMyData(p)
      BY <1>2, <3>1, <3>4 DEF AnonymizeMyData, Account
    <3> QED  BY <1>3, <3>2, <3>3, <3>4
  <2>2. unguarded' \in BOOLEAN
    BY <1>2, <1>3 DEF Grant, Provision, AnonymizeMyData, TypeOK, Account
  <2> QED  BY <1>1, <1>3, <2>1, <2>2 DEF Grant, Provision, AnonymizeMyData, TypeOK
<1>4. ASSUME NEW r \in Request, NEW p \in Person, Reactivate(r, p)
      PROVE  TypeOK'
  <2>1. user' \in [Person -> Account]
    BY <1>2, <1>4 DEF Reactivate, TypeOK, Account
  <2> QED  BY <1>1, <1>4, <2>1, WorkBeside DEF Reactivate, TypeOK
<1>5. ASSUME NEW r \in Request, NEW p \in Person, BeginIssue(r, p)
      PROVE  TypeOK'
  <2>1. [op |-> "issue", person |-> p, revoked |-> OpenOf(p)] \in Work
    BY <1>5 DEF BeginIssue, OpenOf, Work
  <2> QED  BY <1>1, <1>5, <2>1, StartedWork DEF BeginIssue, TypeOK
<1>6. ASSUME NEW r \in Request, NEW p \in Person, NEW op \in Removal, BeginRemoval(r, op, p)
      PROVE  TypeOK'
  <2>1. [op |-> op, person |-> p, guarded |-> FALSE, active |-> op = "deactivate" /\ user[p].active,
         revoked |-> {}, beside |-> FALSE] \in Work
    BY <1>2 DEF Work, Account
  <2> QED  BY <1>1, <1>6, <2>1, StartedWork DEF BeginRemoval, TypeOK
<1>7. ASSUME NEW r \in Request, NEW i \in Invitations, BeginActivation(r, i)
      PROVE  TypeOK'
  <2>1. [op |-> "activate", person |-> invitation[i].person, inv |-> i] \in Work
    BY Rows DEF Work
  <2> QED  BY <1>1, <1>7, <2>1, StartedWork DEF BeginActivation, TypeOK
<1>8. ASSUME NEW r \in Request, Guard(r)
      PROVE  TypeOK'
  <2>1. txn[r] \in [op: Removal, person: Person, guarded: BOOLEAN, active: BOOLEAN,
                    revoked: SUBSET Invitations, beside: BOOLEAN]
    BY <1>8, Works DEF Guard, Doing, TypeOK
  <2>2. PICK seen \in SUBSET Invitations :
          txn' = [txn EXCEPT ![r] = [@ EXCEPT !.guarded = TRUE, !.revoked = seen]]
    BY <1>8 DEF Guard, OpenOf, TypeOK
  <2>3. [txn[r] EXCEPT !.guarded = TRUE, !.revoked = seen] \in Work
    BY <2>1 DEF Work
  <2>4. txn' \in [Request -> Work]
    BY <2>2, <2>3 DEF TypeOK
  <2> QED  BY <1>1, <1>8, <2>4 DEF Guard, TypeOK
<1>9. ASSUME NEW r \in Request, CommitRemoval(r)
      PROVE  TypeOK'
  <2>1. txn[r].person \in Person /\ txn[r].active \in BOOLEAN
    BY <1>9, Works DEF CommitRemoval, Doing, TypeOK
  <2>2. user' \in [Person -> Account]
    <3>1. user \in [Person -> Account] /\ Absent \in Account
      BY DEF TypeOK, Account, Absent
    <3>2. CASE txn[r].op = "revoke_admin"
      <4>1. user' = [user EXCEPT ![txn[r].person] = [@ EXCEPT !.admin = FALSE]]
        BY <1>9, <3>2 DEF CommitRemoval
      <4>2. [user[txn[r].person] EXCEPT !.admin = FALSE] \in Account
        BY <1>2, <2>1 DEF Account
      <4> QED  BY <2>1, <3>1, <4>1, <4>2
    <3>3. CASE txn[r].op = "deactivate"
      <4>1. user' = [user EXCEPT ![txn[r].person].active = @ /\ ~txn[r].active]
        BY <1>9, <3>3 DEF CommitRemoval
      <4>2. [user[txn[r].person] EXCEPT !.active = @ /\ ~txn[r].active] \in Account
        BY <1>2, <2>1 DEF Account
      <4> QED  BY <2>1, <3>1, <4>1, <4>2
    <3>4. CASE txn[r].op \notin {"revoke_admin", "deactivate"}
      BY <1>9, <2>1, <3>1, <3>4 DEF CommitRemoval
    <3> QED  BY <3>2, <3>3, <3>4
  <2>3. stopped' \subseteq Person
    BY <1>9, <2>1 DEF CommitRemoval, TypeOK
  <2>4. txn' \in [Request -> Work']
    BY <1>9, EndedWork, Committed, WorkGrows DEF CommitRemoval
  <2> QED  BY <1>9, <2>2, <2>3, <2>4, Committed DEF CommitRemoval, TypeOK
<1>10. ASSUME NEW r \in Request, CommitIssue(r)
       PROVE  TypeOK'
  <2>1. txn[r].person \in Person
    BY <1>10, Works, PersonAssumption DEF CommitIssue, Doing, TypeOK
  <2>2. user' \in [Person -> Account] /\ unguarded' \in BOOLEAN
    <3>1. user' = [user EXCEPT ![txn[r].person] = [@ EXCEPT !.active = FALSE, !.pending = TRUE]]
      BY <1>10 DEF CommitIssue
    <3>2. [user[txn[r].person] EXCEPT !.active = FALSE, !.pending = TRUE] \in Account
      BY <1>2, <2>1 DEF Account
    <3>3. user[txn[r].person].active \in BOOLEAN /\ user[txn[r].person].admin \in BOOLEAN
      BY <1>2, <2>1 DEF Account
    <3>4. unguarded' \in BOOLEAN
      BY <1>10, <3>3 DEF CommitIssue, TypeOK
    <3> QED  BY <2>1, <3>1, <3>2, <3>4 DEF TypeOK
  <2>3. txn' \in [Request -> Work']
    BY <1>10, WorkBeside, Issued, WorkGrows DEF CommitIssue
  <2> QED  BY <1>10, <2>2, <2>3, Issued DEF CommitIssue, TypeOK
<1>11. ASSUME NEW r \in Request, CommitActivation(r)
       PROVE  TypeOK'
  <2>1. txn[r].person \in Person
    BY <1>11, Works, PersonAssumption DEF CommitActivation, Doing, TypeOK
  <2>2. user' \in [Person -> Account]
    BY <1>2, <1>11, <2>1 DEF CommitActivation, TypeOK, Account
  <2>3. txn' \in [Request -> Work']
    BY <1>11, WorkBeside, Committed, WorkGrows DEF CommitActivation
  <2> QED  BY <1>11, <2>2, <2>3, Committed DEF CommitActivation, TypeOK
<1>12. ASSUME NEW r \in Request, Abort(r)
       PROVE  TypeOK'
  BY <1>1, <1>12, EndedWork DEF Abort, TypeOK
<1>13. CASE UNCHANGED vars
  BY <1>1, <1>13 DEF vars, TypeOK
<1> QED  BY <1>3, <1>4, <1>5, <1>6, <1>7, <1>8, <1>9, <1>10, <1>11, <1>12, <1>13 DEF Next

-----------------------------------------------------------------------------
(* Administrators *)

\* Steps that take the permission from nobody who is active.
LEMMA AdminsKept ==
  ASSUME AdminInv, unguarded' = unguarded, Admins \subseteq Admins',
         \A r \in Guarded' : r \in Guarded /\ txn'[r].person = txn[r].person
  PROVE  AdminInv'
<1>1. \A r \in Guarded' : Admins \ {txn[r].person} \subseteq Admins' \ {txn'[r].person}
  OBVIOUS
<1> QED  BY <1>1 DEF AdminInv

\* Who looked for another administrator goes on while others commit.
LEMMA GuardedBeside ==
  ASSUME TypeOK, NEW r \in Request, NEW p, txn' = Beside(r, p)
  PROVE  \A q \in Guarded' : q \in Guarded /\ txn'[q].person = txn[q].person
<1>1. txn'[r] = Idle
  BY WorkBeside
<1> QED  BY <1>1, OnlyBesides DEF Guarded, Idle, Removal

LEMMA AdminStep ==
  TypeOK /\ AdminInv /\ [Next]_vars => AdminInv'
<1> SUFFICES ASSUME TypeOK, AdminInv, [Next]_vars  PROVE AdminInv'
  OBVIOUS
<1>1. \A p \in Person : user[p] \in Account
  BY DEF TypeOK
<1>2. ASSUME NEW p \in Person, Grant(p) \/ Provision(p)
      PROVE  AdminInv'
  <2>1. Admins \subseteq Admins'
    <3>1. \A x \in Person : x # p => user'[x] = user[x]
      BY <1>2 DEF Grant, Provision, TypeOK
    <3>2. p \in Admins => p \in Admins'
      <4>1. CASE Grant(p)
        BY <1>1, <4>1 DEF Grant, Admins, TypeOK, Account
      <4>2. CASE Provision(p)
        BY <4>2 DEF Provision, Admins, Absent
      <4> QED  BY <1>2, <4>1, <4>2
    <3> QED  BY <3>1, <3>2 DEF Admins
  <2>2. unguarded' = unguarded /\ txn' = txn
    BY <1>2 DEF Grant, Provision
  <2> QED  BY <2>1, <2>2, AdminsKept DEF Guarded
<1>3. ASSUME NEW p \in Person, AnonymizeMyData(p)
      PROVE  AdminInv'
  <2>1. CASE user[p].admin
    BY <1>3, <2>1 DEF AnonymizeMyData, AdminInv
  <2>2. CASE ~user[p].admin
    <3>1. Admins \subseteq Admins'
      BY <1>1, <1>3, <2>2 DEF AnonymizeMyData, Admins, TypeOK, Account
    <3>2. unguarded' = unguarded /\ txn' = txn
      BY <1>1, <1>3, <2>2 DEF AnonymizeMyData, TypeOK
    <3> QED  BY <3>1, <3>2, AdminsKept DEF Guarded
  <2> QED  BY <2>1, <2>2
<1>4. ASSUME NEW r \in Request, NEW p \in Person, Reactivate(r, p)
      PROVE  AdminInv'
  <2>1. Admins \subseteq Admins'
    BY <1>4 DEF Reactivate, Admins, TypeOK, Account
  <2>2. \A q \in Guarded' : q \in Guarded /\ txn'[q].person = txn[q].person
    BY <1>4, GuardedBeside DEF Reactivate
  <2> QED  BY <1>4, <2>1, <2>2, AdminsKept DEF Reactivate
<1>5. ASSUME NEW r \in Request, NEW t \in Work, Starts(r, t), ~(t.op \in Removal /\ t.guarded),
             UNCHANGED <<user, unguarded>>
      PROVE  AdminInv'
  <2>1. \A q \in Guarded' : q \in Guarded /\ txn'[q].person = txn[q].person
    BY <1>5, StartedWork DEF Guarded
  <2> QED  BY <1>5, <2>1, AdminsKept DEF Admins
<1>6. ASSUME NEW r \in Request, NEW p \in Person, BeginIssue(r, p)
      PROVE  AdminInv'
  <2>1. [op |-> "issue", person |-> p, revoked |-> OpenOf(p)] \in Work
    BY <1>6 DEF BeginIssue, OpenOf, Work
  <2> QED  BY <1>5, <1>6, <2>1 DEF BeginIssue, Removal
<1>7. ASSUME NEW r \in Request, NEW p \in Person, NEW op \in Removal, BeginRemoval(r, op, p)
      PROVE  AdminInv'
  <2>1. [op |-> op, person |-> p, guarded |-> FALSE, active |-> op = "deactivate" /\ user[p].active,
         revoked |-> {}, beside |-> FALSE] \in Work
    BY <1>1 DEF Work, Account
  <2> QED  BY <1>5, <1>7, <2>1 DEF BeginRemoval
<1>8. ASSUME NEW r \in Request, NEW i \in Invitations, BeginActivation(r, i)
      PROVE  AdminInv'
  <2>1. [op |-> "activate", person |-> invitation[i].person, inv |-> i] \in Work
    BY Rows DEF Work
  <2> QED  BY <1>5, <1>8, <2>1 DEF BeginActivation, Removal
<1>9. ASSUME NEW r \in Request, Guard(r)
      PROVE  AdminInv'
  <2>1. /\ txn'[r].person = txn[r].person
        /\ \A q \in Request : q # r => txn'[q] = txn[q]
        /\ unguarded' = unguarded /\ Admins' = Admins
    BY <1>9 DEF Guard, TypeOK, Admins
  <2>2. Guarded = {}
    BY <1>9 DEF Guard, Guarded, Doing, Open, Idle, Removal
  <2>3. Admins # {} => Admins \ {txn[r].person} # {}
    BY <1>9, Works DEF Guard, IsLastAdmin, Admins, TypeOK, Doing
  <2>4. \A q \in Guarded' : q = r
    BY <2>1, <2>2 DEF Guarded
  <2> QED  BY <2>1, <2>3, <2>4 DEF AdminInv
<1>10. ASSUME NEW r \in Request, CommitRemoval(r)
       PROVE  AdminInv'
  <2>1. r \in Guarded /\ txn[r].person \in Person /\ unguarded' = unguarded
    BY <1>10, Works DEF CommitRemoval, Guarded, Doing, TypeOK
  <2>2. \A q \in Guarded' : q # r /\ q \in Guarded
    BY <1>10, EndedWork DEF CommitRemoval, Guarded, Idle, Removal
  <2>3. \A p \in Person : p # txn[r].person => user'[p] = user[p]
    BY <1>10, <2>1 DEF CommitRemoval, TypeOK
  <2>4. Admins \ {txn[r].person} \subseteq Admins'
    BY <2>3 DEF Admins
  <2> QED  BY <2>1, <2>2, <2>4 DEF AdminInv
<1>11. ASSUME NEW r \in Request, CommitIssue(r)
       PROVE  AdminInv'
  <2> DEFINE p == txn[r].person
  <2>1. p \in Person
    BY <1>11, Works, PersonAssumption DEF CommitIssue, Doing, TypeOK
  <2>2. CASE user[p].active /\ user[p].admin
    BY <1>11, <2>2 DEF CommitIssue, AdminInv
  <2>3. CASE ~(user[p].active /\ user[p].admin)
    <3>1. unguarded' = unguarded
      BY <1>1, <1>11, <2>1, <2>3 DEF CommitIssue, TypeOK, Account
    <3>2. \A x \in Person : x # p => user'[x] = user[x]
      BY <1>11 DEF CommitIssue, TypeOK
    <3>3. Admins \subseteq Admins'
      BY <2>3, <3>2 DEF Admins
    <3>4. \A q \in Guarded' : q \in Guarded /\ txn'[q].person = txn[q].person
      BY <1>11, GuardedBeside DEF CommitIssue
    <3> QED  BY <3>1, <3>3, <3>4, AdminsKept
  <2> QED  BY <2>2, <2>3
<1>12. ASSUME NEW r \in Request, CommitActivation(r)
       PROVE  AdminInv'
  <2> DEFINE p == txn[r].person
  <2>1. ~user[p].admin /\ \A x \in Person : x # p => user'[x] = user[x]
    BY <1>12 DEF CommitActivation, TypeOK
  <2>2. Admins \subseteq Admins'
    BY <2>1 DEF Admins
  <2>3. \A q \in Guarded' : q \in Guarded /\ txn'[q].person = txn[q].person
    BY <1>12, GuardedBeside DEF CommitActivation
  <2> QED  BY <1>12, <2>2, <2>3, AdminsKept DEF CommitActivation
<1>13. ASSUME NEW r \in Request, Abort(r)
       PROVE  AdminInv'
  <2>1. \A q \in Guarded' : q \in Guarded /\ txn'[q].person = txn[q].person
    BY <1>13, EndedWork DEF Abort, Guarded, Idle, Removal
  <2> QED  BY <1>13, <2>1, AdminsKept DEF Abort, Admins
<1>14. CASE UNCHANGED vars
  BY <1>14, AdminsKept DEF vars, Admins, Guarded
<1> QED  BY <1>2, <1>3, <1>4, <1>6, <1>7, <1>8, <1>9, <1>10, <1>11, <1>12, <1>13, <1>14 DEF Next

\* An active administrator is left, unless one was made inactive by what does
\* not take the advisory lock.
THEOREM AdminAlwaysRemains ==
  Spec => []AdminRemains
<1>1. Init => TypeOK /\ AdminInv
  <2> SUFFICES ASSUME Init  PROVE AdminInv
    BY InitTypes
  <2>1. PICK p \in Founder : TRUE
    BY PersonAssumption
  <2>2. p \in Admins
    BY <2>1, PersonAssumption DEF Init, Admins
  <2>3. Guarded = {}
    BY DEF Init, Guarded, Idle, Removal
  <2> QED  BY <2>2, <2>3 DEF AdminInv
<1>2. AdminInv => AdminRemains
  BY DEF AdminInv, AdminRemains
<1> QED  BY <1>1, <1>2, Types, AdminStep, PTL DEF Spec

-----------------------------------------------------------------------------
(* Deactivated accounts *)

\* Steps that open nothing: no account and no invitation.
LEMMA NothingOpened ==
  ASSUME TypeOK, StoppedInv,
         \A x \in Person : user'[x].active => user[x].active,
         \A x \in Person : OpenOf(x)' \subseteq OpenOf(x),
         Invitations \subseteq Invitations',
         \A i \in Invitations : invitation'[i].person = invitation[i].person,
         \A q \in Request : txn'[q] = txn[q] \/ txn'[q] = Idle,
         \A x \in stopped' : x \in stopped \/ (~user'[x].active /\ OpenOf(x)' = {})
  PROVE  StoppedInv'
<1>1. DeactivationsKnow'
  <2> SUFFICES ASSUME NEW q \in Request, txn'[q].op = "deactivate", ~txn'[q].beside
               PROVE  /\ ~txn'[q].active => ~user'[txn'[q].person].active
                      /\ (txn[q].guarded => OpenOf(txn[q].person) \subseteq txn[q].revoked)'
    BY DEF DeactivationsKnow
  <2>1. txn'[q] = txn[q] /\ txn[q].op = "deactivate" /\ ~txn[q].beside
    BY DEF Idle
  <2>2. txn[q].person \in Person
    BY <2>1, Works DEF TypeOK, Removal
  <2>3. /\ ~txn[q].active => ~user[txn[q].person].active
        /\ txn[q].guarded => OpenOf(txn[q].person) \subseteq txn[q].revoked
    BY <2>1 DEF StoppedInv, DeactivationsKnow
  <2> QED  BY <2>1, <2>2, <2>3 DEF OpenOf
<1>2. ActivationsAreInvited'
  <2> SUFFICES ASSUME NEW q \in Request, txn'[q].op = "activate"
               PROVE  invitation'[txn'[q].inv].person = txn'[q].person
    BY DEF ActivationsAreInvited
  <2>1. txn'[q] = txn[q] /\ txn[q].op = "activate"
    BY DEF Idle
  <2>2. txn[q].inv \in Invitations
    BY <2>1, Works DEF TypeOK
  <2> QED  BY <2>1, <2>2 DEF StoppedInv, ActivationsAreInvited
<1>3. \A x \in stopped : x \in Person /\ ~user[x].active /\ OpenOf(x) = {}
  BY DEF TypeOK, StoppedInv, DeactivationHolds
<1>4. DeactivationHolds' /\ \A x \in stopped' : OpenOf(x)' = {}
  BY <1>3 DEF DeactivationHolds
<1> QED  BY <1>1, <1>2, <1>4 DEF StoppedInv

\* A commit about p that the open deactivations of p notice.
LEMMA OpenedBeside ==
  ASSUME TypeOK, StoppedInv, NEW r \in Request, NEW p \in Person, txn' = Beside(r, p),
         \A x \in Person : x # p => (user'[x].active => user[x].active) /\ OpenOf(x)' \subseteq OpenOf(x),
         Invitations \subseteq Invitations',
         \A i \in Invitations : invitation'[i].person = invitation[i].person,
         stopped' \subseteq stopped \ {p}
  PROVE  StoppedInv'
<1>1. txn'[r] = Idle
  BY WorkBeside
<1>2. DeactivationsKnow'
  <2> SUFFICES ASSUME NEW q \in Request, txn'[q].op = "deactivate", ~txn'[q].beside
               PROVE  /\ ~txn'[q].active => ~user'[txn'[q].person].active
                      /\ (txn[q].guarded => OpenOf(txn[q].person) \subseteq txn[q].revoked)'
    BY DEF DeactivationsKnow
  <2>1. q # r /\ txn[q].op = "deactivate" /\ txn[q].op \in Removal
    BY <1>1, OnlyBesides DEF Idle, Removal
  <2>2. /\ txn'[q].person = txn[q].person /\ txn'[q].guarded = txn[q].guarded
        /\ txn'[q].active = txn[q].active /\ txn'[q].revoked = txn[q].revoked
        /\ txn[q].person # p /\ ~txn[q].beside
    BY <2>1, OnlyBesides
  <2>3. txn[q].person \in Person
    BY <2>1, Works DEF TypeOK
  <2>4. /\ ~txn[q].active => ~user[txn[q].person].active
        /\ txn[q].guarded => OpenOf(txn[q].person) \subseteq txn[q].revoked
    BY <2>1, <2>2 DEF StoppedInv, DeactivationsKnow
  <2> QED  BY <2>2, <2>3, <2>4 DEF OpenOf
<1>3. ActivationsAreInvited'
  <2> SUFFICES ASSUME NEW q \in Request, txn'[q].op = "activate"
               PROVE  invitation'[txn'[q].inv].person = txn'[q].person
    BY DEF ActivationsAreInvited
  <2>1. q # r /\ txn[q].op = "activate" /\ txn[q].op \notin Removal
    BY <1>1, OnlyBesides DEF Idle, Removal
  <2>2. txn'[q] = txn[q] /\ txn[q].inv \in Invitations
    BY <2>1, OnlyBesides, Works DEF TypeOK
  <2> QED  BY <2>1, <2>2 DEF StoppedInv, ActivationsAreInvited
<1>4. \A x \in stopped : x \in Person /\ ~user[x].active /\ OpenOf(x) = {}
  BY DEF TypeOK, StoppedInv, DeactivationHolds
<1>5. DeactivationHolds' /\ \A x \in stopped' : OpenOf(x)' = {}
  BY <1>4 DEF DeactivationHolds
<1> QED  BY <1>2, <1>3, <1>5 DEF StoppedInv

\* Somebody begins, or looks, and writes nothing yet.
LEMMA StoppedUnread ==
  ASSUME TypeOK, StoppedInv, NEW r \in Request, UNCHANGED <<user, invitation, stopped>>,
         \A q \in Request : q # r => txn'[q] = txn[q],
         txn'[r].op = "activate" => invitation[txn'[r].inv].person = txn'[r].person,
         txn'[r].op = "deactivate" /\ ~txn'[r].beside =>
           /\ ~txn'[r].active => ~user[txn'[r].person].active
           /\ txn'[r].guarded => OpenOf(txn'[r].person) \subseteq txn'[r].revoked
  PROVE  StoppedInv'
<1>1. \A x : OpenOf(x)' = OpenOf(x)
  BY DEF OpenOf, Invitations
<1>2. DeactivationsKnow'
  <2> SUFFICES ASSUME NEW q \in Request, txn'[q].op = "deactivate", ~txn'[q].beside
               PROVE  /\ ~txn'[q].active => ~user[txn'[q].person].active
                      /\ txn'[q].guarded => OpenOf(txn'[q].person) \subseteq txn'[q].revoked
    BY <1>1 DEF DeactivationsKnow
  <2> QED  BY DEF StoppedInv, DeactivationsKnow
<1>3. ActivationsAreInvited'
  BY DEF StoppedInv, ActivationsAreInvited
<1>4. DeactivationHolds' /\ \A x \in stopped' : OpenOf(x)' = {}
  BY <1>1 DEF StoppedInv, DeactivationHolds
<1> QED  BY <1>2, <1>3, <1>4 DEF StoppedInv

LEMMA StoppedStep ==
  TypeOK /\ StoppedInv /\ [Next]_vars => StoppedInv'
<1> SUFFICES ASSUME TypeOK, StoppedInv, [Next]_vars  PROVE StoppedInv'
  OBVIOUS
<1>1. \A p \in Person : user[p] \in Account
  BY DEF TypeOK
<1>2. ASSUME NEW p \in Person, Grant(p) \/ Provision(p) \/ AnonymizeMyData(p)
      PROVE  StoppedInv'
  <2>1. \A x \in Person : user'[x].active => user[x].active
    <3>1. \A x \in Person : x # p => user'[x] = user[x]
      BY <1>2 DEF Grant, Provision, AnonymizeMyData, TypeOK
    <3>2. CASE Grant(p)
      BY <1>1, <3>1, <3>2 DEF Grant, TypeOK, Account
    <3>3. CASE Provision(p)
      BY <3>1, <3>3 DEF Provision, TypeOK, Absent
    <3>4. CASE AnonymizeMyData(p)
      BY <1>1, <3>1, <3>4 DEF AnonymizeMyData, TypeOK, Account
    <3> QED  BY <1>2, <3>2, <3>3, <3>4
  <2>2. UNCHANGED <<invitation, txn, stopped>>
    BY <1>2 DEF Grant, Provision, AnonymizeMyData
  <2> QED  BY <2>1, <2>2, NothingOpened DEF OpenOf, Invitations
<1>3. ASSUME NEW r \in Request, NEW p \in Person, Reactivate(r, p)
      PROVE  StoppedInv'
  <2>1. \A x \in Person : x # p => user'[x] = user[x]
    BY <1>3 DEF Reactivate, TypeOK
  <2>2. txn' = Beside(r, p) /\ invitation' = invitation /\ stopped' = stopped \ {p}
    BY <1>3 DEF Reactivate
  <2> QED  BY <2>1, <2>2, OpenedBeside DEF OpenOf, Invitations
<1>4. ASSUME NEW r \in Request, NEW p \in Person, BeginIssue(r, p)
      PROVE  StoppedInv'
  <2>1. /\ txn'[r].op = "issue" /\ UNCHANGED <<user, invitation, stopped>>
        /\ \A q \in Request : q # r => txn'[q] = txn[q]
    BY <1>4 DEF BeginIssue, Starts, TypeOK
  <2> QED  BY <2>1, StoppedUnread
<1>5. ASSUME NEW r \in Request, NEW p \in Person, NEW op \in Removal, BeginRemoval(r, op, p)
      PROVE  StoppedInv'
  <2>1. /\ UNCHANGED <<user, invitation, stopped>>
        /\ \A q \in Request : q # r => txn'[q] = txn[q]
        /\ txn'[r] = [op |-> op, person |-> p, guarded |-> FALSE,
                      active |-> op = "deactivate" /\ user[p].active, revoked |-> {}, beside |-> FALSE]
    BY <1>5 DEF BeginRemoval, Starts, TypeOK
  <2>2. /\ txn'[r].op = op /\ txn'[r].person = p /\ txn'[r].guarded = FALSE
        /\ txn'[r].active = (op = "deactivate" /\ user[p].active)
    BY <2>1
  <2> QED  BY <2>1, <2>2, StoppedUnread DEF Removal
<1>6. ASSUME NEW r \in Request, NEW i \in Invitations, BeginActivation(r, i)
      PROVE  StoppedInv'
  <2>1. /\ UNCHANGED <<user, invitation, stopped>>
        /\ \A q \in Request : q # r => txn'[q] = txn[q]
        /\ txn'[r] = [op |-> "activate", person |-> invitation[i].person, inv |-> i]
    BY <1>6 DEF BeginActivation, Starts, TypeOK
  <2> QED  BY <2>1, StoppedUnread
<1>7. ASSUME NEW r \in Request, Guard(r)
      PROVE  StoppedInv'
  <2> DEFINE t == txn[r]
             seen == IF t.op = "deactivate" THEN OpenOf(t.person) ELSE {}
  <2>1. t.op \in Removal /\ t = [op |-> t.op, person |-> t.person, guarded |-> t.guarded,
                                 active |-> t.active, revoked |-> t.revoked, beside |-> t.beside]
    BY <1>7, Works DEF Guard, Doing, TypeOK
  <2>2. /\ UNCHANGED <<user, invitation, stopped>>
        /\ \A q \in Request : q # r => txn'[q] = txn[q]
        /\ txn'[r] = [t EXCEPT !.guarded = TRUE, !.revoked = seen]
    BY <1>7 DEF Guard, TypeOK
  <2>3. txn'[r] = [op |-> t.op, person |-> t.person, guarded |-> TRUE,
                   active |-> t.active, revoked |-> seen, beside |-> t.beside]
    BY <2>1, <2>2
  <2>4. /\ txn'[r].op = t.op /\ txn'[r].person = t.person /\ txn'[r].active = t.active
        /\ txn'[r].revoked = seen /\ txn'[r].beside = t.beside
    BY <2>3
  <2>5. t.op = "deactivate" /\ ~t.beside /\ ~t.active => ~user[t.person].active
    BY DEF StoppedInv, DeactivationsKnow
  <2>6. txn'[r].op = "deactivate" /\ ~txn'[r].beside =>
          /\ ~txn'[r].active => ~user[txn'[r].person].active
          /\ OpenOf(txn'[r].person) \subseteq txn'[r].revoked
    <3>1. ASSUME t.op = "deactivate", ~t.beside
          PROVE  (~t.active => ~user[t.person].active) /\ OpenOf(t.person) \subseteq seen
      BY <2>5, <3>1
    <3> HIDE DEF t, seen
    <3> QED  BY <2>4, <3>1
  <2>7. txn'[r].op # "activate"
    BY <2>1, <2>4 DEF Removal
  <2> HIDE DEF t, seen
  <2> QED  BY <2>2, <2>6, <2>7, StoppedUnread
<1>8. ASSUME NEW r \in Request, CommitRemoval(r)
      PROVE  StoppedInv'
  <2> DEFINE t == txn[r]
             p == t.person
  <2>1. t.op \in Removal /\ p \in Person /\ t.guarded /\ t.active \in BOOLEAN
    BY <1>8, Works DEF CommitRemoval, Doing, TypeOK
  <2>2. \A x \in Person : x # p => user'[x] = user[x]
    BY <1>8, <2>1 DEF CommitRemoval, TypeOK
  <2>3. t.op = "deactivate" => (user'[p].active <=> user[p].active /\ ~t.active)
    <3> SUFFICES ASSUME t.op = "deactivate"  PROVE user'[p].active <=> user[p].active /\ ~t.active
      OBVIOUS
    <3>1. user' = [user EXCEPT ![p].active = @ /\ ~t.active]
      BY <1>8 DEF CommitRemoval
    <3> QED  BY <1>1, <2>1, <3>1 DEF TypeOK, Account
  <2>4. t.op # "deactivate" => (user'[p].active => user[p].active)
    <3>1. CASE t.op = "revoke_admin"
      <4>1. user' = [user EXCEPT ![p].admin = FALSE]
        BY <1>8, <3>1 DEF CommitRemoval
      <4> QED  BY <1>1, <2>1, <4>1 DEF TypeOK, Account
    <3>2. CASE t.op \notin {"revoke_admin", "deactivate"}
      <4>1. user' = [user EXCEPT ![p] = Absent]
        BY <1>8, <3>2 DEF CommitRemoval
      <4> QED  BY <2>1, <4>1 DEF TypeOK, Absent
    <3> QED  BY <3>1, <3>2
  <2>5. /\ Invitations' = Invitations
        /\ \A i \in Invitations : /\ invitation'[i].person = invitation[i].person
                                  /\ invitation'[i].state = "open" => invitation[i].state = "open"
                                  /\ i \in t.revoked => invitation'[i].state = "revoked"
    BY <1>8, Committed, Rows DEF CommitRemoval, Invitation
  <2>6. \A x \in Person : OpenOf(x)' \subseteq OpenOf(x) /\ OpenOf(x)' \cap t.revoked = {}
    BY <2>5 DEF OpenOf
  <2>7. \A x \in stopped' : x \in stopped \/ (~user'[x].active /\ OpenOf(x)' = {})
    <3> SUFFICES ASSUME NEW x \in stopped', x \notin stopped
                 PROVE  ~user'[x].active /\ OpenOf(x)' = {}
      OBVIOUS
    <3>1. x = p /\ t.op = "deactivate" /\ ~t.beside
      BY <1>8 DEF CommitRemoval
    <3>2. (~t.active => ~user[p].active) /\ OpenOf(p) \subseteq t.revoked
      BY <2>1, <3>1 DEF StoppedInv, DeactivationsKnow
    <3>3. x \in Person /\ OpenOf(x)' \subseteq OpenOf(x) /\ OpenOf(x)' \cap t.revoked = {}
      BY <2>1, <2>6, <3>1
    <3>4. OpenOf(x) \subseteq t.revoked
      BY <3>1, <3>2
    <3> QED  BY <2>3, <3>1, <3>2, <3>3, <3>4
  <2>8. \A q \in Request : txn'[q] = txn[q] \/ txn'[q] = Idle
    BY <1>8, EndedWork DEF CommitRemoval
  <2> QED  BY <2>2, <2>3, <2>4, <2>5, <2>6, <2>7, <2>8, NothingOpened
<1>9. ASSUME NEW r \in Request, CommitIssue(r)
      PROVE  StoppedInv'
  <2> DEFINE p == txn[r].person
  <2>1. p \in Person
    BY <1>9, Works, PersonAssumption DEF CommitIssue, Doing, TypeOK
  <2>2. /\ txn' = Beside(r, p) /\ stopped' = stopped \ {p}
        /\ \A x \in Person : x # p => user'[x] = user[x]
    BY <1>9 DEF CommitIssue, TypeOK
  <2>3. \A x \in Person : x # p => OpenOf(x)' \subseteq OpenOf(x)
    BY <1>9, Issued DEF OpenOf
  <2> QED  BY <1>9, <2>1, <2>2, <2>3, OpenedBeside, Issued
<1>10. ASSUME NEW r \in Request, CommitActivation(r)
       PROVE  StoppedInv'
  <2> DEFINE p == txn[r].person
  <2>1. p \in Person /\ txn[r].op = "activate" /\ txn[r].inv \in Invitations
    BY <1>10, Works, PersonAssumption DEF CommitActivation, Doing, TypeOK
  <2>2. /\ txn' = Beside(r, p) /\ stopped' = stopped
        /\ \A x \in Person : x # p => user'[x] = user[x]
    BY <1>10 DEF CommitActivation, TypeOK
  <2>3. txn[r].inv \in OpenOf(p)
    BY <1>10, <2>1 DEF CommitActivation, OpenOf, StoppedInv, ActivationsAreInvited
  <2>4. p \notin stopped
    BY <2>3 DEF StoppedInv
  <2>5. \A x \in Person : OpenOf(x)' \subseteq OpenOf(x)
    BY <1>10, Committed DEF OpenOf
  <2> QED  BY <1>10, <2>1, <2>2, <2>4, <2>5, OpenedBeside, Committed
<1>11. ASSUME NEW r \in Request, Abort(r)
       PROVE  StoppedInv'
  <2>1. UNCHANGED <<user, invitation, stopped>> /\ \A q \in Request : txn'[q] = txn[q] \/ txn'[q] = Idle
    BY <1>11, EndedWork DEF Abort
  <2> QED  BY <2>1, NothingOpened DEF OpenOf, Invitations
<1>12. CASE UNCHANGED vars
  <2>1. UNCHANGED <<user, invitation, txn, stopped>>
    BY <1>12 DEF vars
  <2> QED  BY <2>1, NothingOpened DEF OpenOf, Invitations
<1> QED  BY <1>2, <1>3, <1>4, <1>5, <1>6, <1>7, <1>8, <1>9, <1>10, <1>11, <1>12 DEF Next

\* What was deactivated stays so: no link of before brings it back.
THEOREM DeactivationAlwaysHolds ==
  Spec => []DeactivationHolds
<1>1. Init => TypeOK /\ StoppedInv
  <2> SUFFICES ASSUME Init  PROVE StoppedInv
    BY InitTypes
  <2> QED  BY DEF Init, StoppedInv, DeactivationsKnow, ActivationsAreInvited, DeactivationHolds, Idle
<1>2. StoppedInv => DeactivationHolds
  BY DEF StoppedInv
<1> QED  BY <1>1, <1>2, Types, StoppedStep, PTL DEF Spec

\* Every variable keeps its type.
THEOREM AccountTypes ==
  Spec => []TypeOK
<1> QED  BY InitTypes, Types, PTL DEF Spec

-----------------------------------------------------------------------------
(* Sessions: tokens and transactions *)

LEMMA Rights ==
  /\ Session!Right = Market \cup {Platform} /\ Platform \notin Market
  /\ Granted \subseteq Session!Right
  BY RightAssumption DEF Session!Right

LEMMA TokenRows ==
  ASSUME Session!TypeOK
  PROVE  /\ Len(token) \in Nat /\ Session!Tokens = 1 .. Len(token)
         /\ \A t \in Session!Tokens : token[t] \in Session!Row
<1>1. token \in Seq(Session!Row)
  BY DEF Session!TypeOK
<1> QED
  BY <1>1, LenProperties, ElementOfSeq DEF Session!Tokens

LEMMA RowFields ==
  ASSUME NEW x \in Session!Row
  PROVE  /\ x.family \in Nat /\ x.right \in Session!Right /\ x.live \in BOOLEAN
         /\ x.issued \subseteq [ver: Nat, right: Session!Right]
         /\ x.password \in Nat /\ x.raced \subseteq {"change", "replay", "lost"}
  BY DEF Session!Row

\* What each kind of transaction carries.
LEMMA WorkKinds ==
  ASSUME NEW c \in Session!Work
  PROVE  /\ c.op \in {"idle", "change", "revoke", "login", "rotate", "replay", "switch"}
         /\ c.op \in {"change", "revoke"} =>
              /\ c \in Session!Change
              /\ c.by \in {"password", "logout_all", "disable", "enable", "rights"} /\ c.ver \in Nat
              /\ c.add \subseteq Session!Right /\ c.drop \subseteq Session!Right /\ c.seen \subseteq Nat
         /\ c.op = "login" => c.right \in Session!Right /\ c.ver \in Nat /\ c.password \in Nat
         /\ c.op = "rotate" => c.tok \in Session!Tokens /\ c.ver \in Nat
         /\ c.op = "replay" => c.tok \in Session!Tokens /\ c.seen \subseteq Session!Tokens
         /\ c.op = "switch" => c.tok \in Session!Tokens /\ c.ver \in Nat /\ c.right \in Market
  BY DEF Session!Work, Session!Idle, Session!Change, Session!Identity

LEMMA OpenWork ==
  ASSUME Session!TypeOK
  PROVE  \A r \in Request : /\ work[r] \in Session!Work
                            /\ work[r].op # "idle" => r \in Session!Open
  BY DEF Session!TypeOK, Session!Open, Session!Idle

LEMMA WorksGrow ==
  Session!Tokens \subseteq Session!Tokens' => Session!Work \subseteq Session!Work'
  BY DEF Session!Work

LEMMA WorkStarts ==
  ASSUME Session!TypeOK, NEW r \in Request, NEW c \in Session!Work, Session!Starts(r, c)
  PROVE  /\ work' \in [Request -> Session!Work]
         /\ work[r].op = "idle" /\ work'[r] = c
         /\ \A q \in Request : q # r => work'[q] = work[q]
  BY DEF Session!TypeOK, Session!Starts, Session!Idle

LEMMA WorkEnds ==
  ASSUME Session!TypeOK, NEW r \in Request, Session!Ends(r)
  PROVE  /\ work' \in [Request -> Session!Work]
         /\ work'[r].op = "idle"
         /\ \A q \in Request : q # r => work'[q] = work[q]
  BY DEF Session!TypeOK, Session!Ends, Session!Idle, Session!Work

\* Tokens that are killed, or written in other ways that keep their number.
LEMMA TokenMap ==
  ASSUME Session!TypeOK, token' \in [Session!Tokens -> Session!Row]
  PROVE  token' \in Seq(Session!Row) /\ Len(token') = Len(token) /\ Session!Tokens' = Session!Tokens
<1>1. Len(token) \in Nat /\ Session!Tokens = 1 .. Len(token)
  BY TokenRows
<1>2. token' \in Seq(Session!Row) /\ Len(token') = Len(token) /\ DOMAIN token' = 1 .. Len(token)
  BY <1>1, Sequences
<1> QED
  BY <1>1, <1>2 DEF Session!Tokens

LEMMA TokensKilled ==
  ASSUME Session!TypeOK, NEW S, Session!Kill(S)
  PROVE  /\ token' \in Seq(Session!Row) /\ Len(token') = Len(token) /\ Session!Tokens' = Session!Tokens
         /\ \A t \in Session!Tokens :
              /\ token'[t].family = token[t].family /\ token'[t].right = token[t].right
              /\ token'[t].issued = token[t].issued /\ token'[t].password = token[t].password
              /\ token'[t].raced = token[t].raced
              /\ token'[t].live = (token[t].live /\ t \notin S)
<1>1. \A t \in Session!Tokens : token[t] \in Session!Row
  BY TokenRows
<1>2. \A t \in Session!Tokens : token'[t] = [token[t] EXCEPT !.live = @ /\ t \notin S]
  BY DEF Session!Kill
<1>3. ASSUME NEW t \in Session!Tokens
      PROVE  /\ token'[t] \in Session!Row
             /\ token'[t].family = token[t].family /\ token'[t].right = token[t].right
             /\ token'[t].issued = token[t].issued /\ token'[t].password = token[t].password
             /\ token'[t].raced = token[t].raced
             /\ token'[t].live = (token[t].live /\ t \notin S)
  <2>1. token[t] \in Session!Row /\ token'[t] = [token[t] EXCEPT !.live = @ /\ t \notin S]
    BY <1>1, <1>2
  <2> QED
    BY <2>1 DEF Session!Row
<1>4. token' \in [Session!Tokens -> Session!Row]
  BY <1>3 DEF Session!Kill
<1> QED
  BY <1>3, <1>4, TokenMap

\* A row that is inserted after the others, some of which may be changed.
LEMMA TokenInserted ==
  ASSUME Session!TypeOK, NEW old \in [Session!Tokens -> Session!Row], NEW x \in Session!Row,
         token' = Append(old, x)
  PROVE  /\ token' \in Seq(Session!Row) /\ Len(token') = Len(token) + 1
         /\ Session!Tokens' = Session!Tokens \cup {Len(token) + 1} /\ Len(token) + 1 \notin Session!Tokens
         /\ \A t \in Session!Tokens : token'[t] = old[t]
         /\ token'[Len(token) + 1] = x
<1>1. Len(token) \in Nat /\ Session!Tokens = 1 .. Len(token)
  BY TokenRows
<1>2. old \in Seq(Session!Row) /\ Len(old) = Len(token) /\ DOMAIN old = 1 .. Len(token)
  BY <1>1, Sequences
<1>3. /\ Append(old, x) \in Seq(Session!Row) /\ Len(Append(old, x)) = Len(old) + 1
      /\ \A i \in 1 .. Len(old) : Append(old, x)[i] = old[i]
      /\ Append(old, x)[Len(old) + 1] = x
  BY <1>2, AppendProperties
<1>4. DOMAIN token' = 1 .. Len(token) + 1
  BY <1>2, <1>3, LenProperties
<1> QED
  BY <1>1, <1>2, <1>3, <1>4 DEF Session!Tokens

\* What a token keeps whatever is written to it.
TokenKept(s) ==
  /\ token'[s].family = token[s].family /\ token'[s].password = token[s].password
  /\ token[s].raced \subseteq token'[s].raced
  /\ token'[s].live => token[s].live

LEMMA RotationFacts ==
  ASSUME Session!TypeOK, NEW r \in Request, Session!CommitRotation(r),
         NEW t, t = work[r].tok, NEW n, n = Len(token) + 1
  PROVE  /\ t \in Session!Tokens /\ work[r].op = "rotate" /\ work[r] \in Session!Work
         /\ token' \in Seq(Session!Row) /\ Len(token') = n
         /\ Session!Tokens' = Session!Tokens \cup {n} /\ n \notin Session!Tokens
         /\ \A s \in Session!Tokens : s # t => token'[s] = token[s]
         /\ TokenKept(t) /\ token'[t].right = token[t].right /\ token'[t].issued = token[t].issued
         /\ ~token'[t].live
         /\ token'[n].family = token[t].family /\ token'[n].right = token[t].right
         /\ token'[n].password = token[t].password /\ token'[n].live
         /\ token[t].raced \subseteq token'[n].raced
         /\ Session!Revoking(token[t].right) => "change" \in token'[n].raced
         /\ (\E q \in Session!Open : work[q].op = "replay" /\ t \in work[q].seen)
              => "replay" \in token'[n].raced
<1>1. work[r].op = "rotate" /\ t \in Session!Tokens /\ work[r] \in Session!Work /\ work[r].ver \in Nat
  BY WorkKinds DEF Session!CommitRotation, Session!TypeOK
<1>2. token[t] \in Session!Row /\ \A s \in Session!Tokens : token[s] \in Session!Row
  BY <1>1, TokenRows
<1>3. PICK beside : beside =
        {k \in {"change"} : Session!Revoking(token[t].right)}
          \cup {k \in {"replay"} : \E q \in Session!Open : work[q].op = "replay" /\ t \in work[q].seen}
  OBVIOUS
<1>4. PICK old : old = [token EXCEPT ![t].live = FALSE]
  OBVIOUS
<1>5. PICK x : x = [token[t] EXCEPT !.live = TRUE, !.raced = @ \cup beside,
                                    !.issued = {Session!Access(work[r].ver, token[t].right)}]
  OBVIOUS
<1>6. token' = Append(old, x)
  BY <1>3, <1>4, <1>5 DEF Session!CommitRotation
<1>7. /\ old \in [Session!Tokens -> Session!Row]
      /\ \A s \in Session!Tokens : s # t => old[s] = token[s]
      /\ old[t] = [token[t] EXCEPT !.live = FALSE]
  <2>1. [token[t] EXCEPT !.live = FALSE] \in Session!Row
    BY <1>2 DEF Session!Row
  <2>2. token \in [Session!Tokens -> Session!Row]
    <3>1. token \in Seq(Session!Row)
      BY DEF Session!TypeOK
    <3> QED
      BY <3>1, <1>2 DEF Session!Tokens
  <2>3. old = [token EXCEPT ![t] = [token[t] EXCEPT !.live = FALSE]]
    BY <1>4
  <2> QED
    BY <1>1, <2>1, <2>2, <2>3
<1>8. x \in Session!Row
  <2>1. Session!Access(work[r].ver, token[t].right) \in [ver: Nat, right: Session!Right]
    BY <1>1, <1>2, RowFields DEF Session!Access
  <2>2. beside \subseteq {"change", "replay", "lost"}
    BY <1>3
  <2> QED
    BY <1>2, <1>5, <2>1, <2>2 DEF Session!Row
<1>9. /\ x.family = token[t].family /\ x.right = token[t].right /\ x.password = token[t].password
      /\ x.live /\ x.raced = token[t].raced \cup beside
  BY <1>2, <1>5 DEF Session!Row
<1>10. /\ token' \in Seq(Session!Row) /\ Len(token') = n
       /\ Session!Tokens' = Session!Tokens \cup {n} /\ n \notin Session!Tokens
       /\ \A s \in Session!Tokens : token'[s] = old[s]
       /\ token'[n] = x
  BY <1>6, <1>7, <1>8, TokenInserted
<1>11. TokenKept(t) /\ ~token'[t].live /\ token'[t].right = token[t].right
       /\ token'[t].issued = token[t].issued
  <2>1. token'[t] = [token[t] EXCEPT !.live = FALSE]
    BY <1>1, <1>7, <1>10
  <2> QED
    BY <1>2, <2>1 DEF TokenKept, Session!Row
<1>12. /\ Session!Revoking(token[t].right) => "change" \in x.raced
       /\ (\E q \in Session!Open : work[q].op = "replay" /\ t \in work[q].seen) => "replay" \in x.raced
  BY <1>3, <1>9
<1> QED
  BY <1>1, <1>7, <1>9, <1>10, <1>11, <1>12

LEMMA LoginFacts ==
  ASSUME Session!TypeOK, NEW r \in Request, Session!CommitLogin(r), NEW n, n = Len(token) + 1
  PROVE  /\ work[r].op = "login"
         /\ token' \in Seq(Session!Row) /\ Len(token') = n
         /\ Session!Tokens' = Session!Tokens \cup {n} /\ n \notin Session!Tokens
         /\ \A s \in Session!Tokens : token'[s] = token[s]
         /\ token'[n].family = n /\ token'[n].right = work[r].right
         /\ token'[n].password = work[r].password
         /\ \/ "change" \in token'[n].raced
            \/ /\ work[r].password = holder.password /\ holder.active
               /\ work[r].right \in rights /\ ~Session!Revoking(work[r].right)
<1>1. /\ work[r].op = "login" /\ work[r].right \in Session!Right
      /\ work[r].ver \in Nat /\ work[r].password \in Nat
  BY WorkKinds DEF Session!CommitLogin, Session!TypeOK
<1>2. PICK late : late = (\/ work[r].password # holder.password \/ ~holder.active
                          \/ work[r].right \notin rights \/ Session!Revoking(work[r].right))
  OBVIOUS
<1>3. PICK x : x = [family |-> Len(token) + 1, right |-> work[r].right, live |-> TRUE,
                    issued |-> {Session!Access(work[r].ver, work[r].right)},
                    password |-> work[r].password, raced |-> IF late THEN {"change"} ELSE {}]
  OBVIOUS
<1>4. token' = Append(token, x)
  BY <1>2, <1>3 DEF Session!CommitLogin, Session!Insert
<1>5. Len(token) + 1 \in Nat /\ token \in [Session!Tokens -> Session!Row]
  <2>1. token \in Seq(Session!Row)
    BY DEF Session!TypeOK
  <2> QED
    BY <2>1, TokenRows DEF Session!Tokens
<1>6. x \in Session!Row
  BY <1>1, <1>3, <1>5 DEF Session!Row, Session!Access
<1>7. /\ x.family = n /\ x.right = work[r].right /\ x.password = work[r].password
      /\ late => "change" \in x.raced
  BY <1>3
<1> QED
  BY <1>1, <1>2, <1>4, <1>5, <1>6, <1>7, TokenInserted

LEMMA SwitchFacts ==
  ASSUME Session!TypeOK, NEW r \in Request, Session!CommitSwitch(r), NEW t, t = work[r].tok
  PROVE  /\ work[r].op = "switch" /\ t \in Session!Tokens /\ work[r].right \in Market
         /\ token' \in Seq(Session!Row) /\ Len(token') = Len(token) /\ Session!Tokens' = Session!Tokens
         /\ \A s \in Session!Tokens : s # t => token'[s] = token[s]
         /\ TokenKept(t) /\ token'[t].live = token[t].live /\ token'[t].raced = token[t].raced
         /\ token'[t].right = work[r].right
         /\ token'[t].issued = token[t].issued \cup {Session!Access(work[r].ver, work[r].right)}
<1>1. work[r].op = "switch" /\ t \in Session!Tokens /\ work[r].ver \in Nat /\ work[r].right \in Market
  BY WorkKinds DEF Session!CommitSwitch, Session!TypeOK
<1>2. token[t] \in Session!Row /\ token \in [Session!Tokens -> Session!Row]
  <2>1. token \in Seq(Session!Row)
    BY DEF Session!TypeOK
  <2> QED
    BY <1>1, <2>1, TokenRows DEF Session!Tokens
<1>3. PICK x : x = [token[t] EXCEPT !.right = work[r].right,
                      !.issued = @ \cup {Session!Access(work[r].ver, work[r].right)}]
  OBVIOUS
<1>4. token' = [token EXCEPT ![t] = x]
  BY <1>1, <1>2, <1>3 DEF Session!CommitSwitch
<1>5. x \in Session!Row
  <2>1. Session!Access(work[r].ver, work[r].right) \in [ver: Nat, right: Session!Right]
    BY <1>1, Rights DEF Session!Access
  <2> QED
    BY <1>1, <1>2, <1>3, <2>1, Rights DEF Session!Row
<1>6. /\ x.family = token[t].family /\ x.password = token[t].password /\ x.raced = token[t].raced
      /\ x.live = token[t].live /\ x.right = work[r].right
      /\ x.issued = token[t].issued \cup {Session!Access(work[r].ver, work[r].right)}
  BY <1>2, <1>3 DEF Session!Row
<1>7. token' \in [Session!Tokens -> Session!Row] /\ token'[t] = x
      /\ \A s \in Session!Tokens : s # t => token'[s] = token[s]
  BY <1>1, <1>2, <1>4, <1>5
<1> QED
  BY <1>1, <1>6, <1>7, TokenMap DEF TokenKept

LEMMA ChangeFacts ==
  ASSUME Session!TypeOK, NEW r \in Request, Session!CommitChange(r), NEW c, c = work[r]
  PROVE  /\ c \in Session!Work /\ c.op = "revoke"
         /\ token' \in Seq(Session!Row) /\ Len(token') = Len(token) /\ Session!Tokens' = Session!Tokens
         /\ \A s \in Session!Tokens :
              /\ TokenKept(s) /\ token'[s].right = token[s].right /\ token'[s].issued = token[s].issued
              /\ token'[s].live = (token[s].live /\ s \notin c.seen)
              /\ s \in Session!Missed(c) => "lost" \in token'[s].raced
<1>1. c \in Session!Work /\ c.op = "revoke"
  BY DEF Session!CommitChange, Session!TypeOK
<1>2. \A s \in Session!Tokens : token'[s] =
        [token[s] EXCEPT !.live = @ /\ s \notin c.seen,
                         !.raced = @ \cup (IF s \in Session!Missed(c) THEN {"lost"} ELSE {})]
  BY DEF Session!CommitChange
<1>3. ASSUME NEW s \in Session!Tokens
      PROVE  /\ token'[s] \in Session!Row
             /\ TokenKept(s) /\ token'[s].right = token[s].right /\ token'[s].issued = token[s].issued
             /\ token'[s].live = (token[s].live /\ s \notin c.seen)
             /\ s \in Session!Missed(c) => "lost" \in token'[s].raced
  <2>1. token[s] \in Session!Row
    BY TokenRows
  <2>2. PICK more \in SUBSET {"lost"} :
          /\ s \in Session!Missed(c) => more = {"lost"}
          /\ token'[s] = [token[s] EXCEPT !.live = @ /\ s \notin c.seen, !.raced = @ \cup more]
    BY <1>2
  <2> QED
    BY <2>1, <2>2 DEF Session!Row, TokenKept
<1>4. token' \in [Session!Tokens -> Session!Row]
  BY <1>3 DEF Session!CommitChange
<1> QED
  BY <1>1, <1>3, <1>4, TokenMap

-----------------------------------------------------------------------------
(* Sessions: types *)

LEMMA ChangeCases ==
  ASSUME NEW r \in Request,
         \/ Session!ChangePassword(r) \/ Session!LogoutAll(r) \/ Session!ResetPassword(r)
         \/ Session!Deactivate(r) \/ Session!Reactivate(r)
         \/ \E S \in SUBSET Market : Session!ReplaceLinks(r, S)
         \/ \E m \in Market : Session!SuspendAccess(r, m)
         \/ \E S \in SUBSET {Platform} : Session!ReplacePermissions(r, S)
  PROVE  \E by \in {"password", "logout_all", "disable", "enable", "rights"},
            drop \in SUBSET Session!Right, add \in SUBSET Session!Right :
           /\ Session!Begins(r, by, drop, add)
           /\ by # "rights" => drop = {}
           /\ drop \subseteq Market \/ drop \subseteq {Platform}
<1>1. {} \in SUBSET Session!Right /\ {} \subseteq Market
  OBVIOUS
<1>2. \A S \in SUBSET Market : S \in SUBSET Session!Right
  BY Rights
<1>3. \A m \in Market : {m} \in SUBSET Session!Right /\ {m} \subseteq Market
  BY Rights
<1>4. \A S \in SUBSET {Platform} : S \in SUBSET Session!Right
  BY Rights
<1>5. Market \in SUBSET Session!Right /\ {Platform} \in SUBSET Session!Right
  BY Rights
<1>6. CASE Session!ChangePassword(r) \/ Session!ResetPassword(r)
  BY <1>1, <1>6 DEF Session!ChangePassword, Session!ResetPassword
<1>7. CASE Session!LogoutAll(r)
  BY <1>1, <1>7 DEF Session!LogoutAll
<1>8. CASE Session!Deactivate(r)
  BY <1>1, <1>8 DEF Session!Deactivate
<1>9. CASE Session!Reactivate(r)
  BY <1>1, <1>9 DEF Session!Reactivate
<1>10. CASE \E S \in SUBSET Market : Session!ReplaceLinks(r, S)
  BY <1>2, <1>5, <1>10 DEF Session!ReplaceLinks
<1>11. CASE \E m \in Market : Session!SuspendAccess(r, m)
  BY <1>1, <1>3, <1>11 DEF Session!SuspendAccess
<1>12. CASE \E S \in SUBSET {Platform} : Session!ReplacePermissions(r, S)
  BY <1>4, <1>5, <1>12 DEF Session!ReplacePermissions
<1> QED
  BY <1>6, <1>7, <1>8, <1>9, <1>10, <1>11, <1>12

\* What a transaction does before it has written anything.
Reads(r) ==
  \/ \E x \in Session!Right : Session!BeginLogin(r, x)
  \/ \E t \in Session!Tokens : Session!BeginRotation(r, t)
  \/ \E t \in Session!Tokens : Session!BeginReplay(r, t)
  \/ \E t \in Session!Tokens, m \in Market : Session!BeginSwitch(r, t, m)
  \/ \E by \in {"password", "logout_all", "disable", "enable", "rights"},
        drop \in SUBSET Session!Right, add \in SUBSET Session!Right :
       /\ Session!Begins(r, by, drop, add)
       /\ by # "rights" => drop = {}
       /\ drop \subseteq Market \/ drop \subseteq {Platform}

LEMMA SessionCases ==
  ASSUME [Session!Next]_Session!vars
  PROVE  \/ \E r \in Request : Reads(r)
         \/ \E r \in Request :
              \/ Session!CommitLogin(r) \/ Session!CommitRotation(r) \/ Session!CommitReplay(r)
              \/ Session!CommitSwitch(r) \/ Session!Flush(r) \/ Session!CommitChange(r)
              \/ Session!Abort(r)
         \/ \E t \in Session!Tokens :
              Session!RefuseRotation(t) \/ Session!Logout(t) \/ Session!RevokeSession(t)
         \/ UNCHANGED Session!vars
<1>1. ASSUME NEW r \in Session!Open, Session!Proceed(r)
      PROVE  /\ r \in Request
             /\ \/ Session!CommitLogin(r) \/ Session!CommitRotation(r) \/ Session!CommitReplay(r)
                \/ Session!CommitSwitch(r) \/ Session!Flush(r) \/ Session!CommitChange(r)
                \/ Session!Abort(r)
  BY <1>1 DEF Session!Open, Session!Proceed
<1> QED
  BY <1>1, ChangeCases DEF Session!Next, Reads

LEMMA ReadTypes ==
  ASSUME Session!TypeOK, NEW r \in Request, Reads(r)
  PROVE  /\ Session!TypeOK'
         /\ work[r].op = "idle" /\ \A q \in Request : q # r => work'[q] = work[q]
         /\ token' = token /\ holder' = holder /\ rights' = rights /\ replayed' = replayed
         /\ Session!Tokens' = Session!Tokens
<1>1. holder.version \in Nat /\ holder.password \in Nat /\ changes + 1 \in Nat
  BY DEF Session!TypeOK
<1>2. \E c \in Session!Work : Session!Starts(r, c)
  <2>1. CASE \E x \in Session!Right : Session!BeginLogin(r, x)
    BY <1>1, <2>1 DEF Session!BeginLogin, Session!Work
  <2>2. CASE \E t \in Session!Tokens : Session!BeginRotation(r, t)
    BY <1>1, <2>2 DEF Session!BeginRotation, Session!Work
  <2>3. CASE \E t \in Session!Tokens : Session!BeginReplay(r, t)
    BY <1>1, <2>3 DEF Session!BeginReplay, Session!Work, Session!Family
  <2>4. CASE \E t \in Session!Tokens, m \in Market : Session!BeginSwitch(r, t, m)
    BY <1>1, <2>4 DEF Session!BeginSwitch, Session!Work
  <2>5. ASSUME NEW by \in {"password", "logout_all", "disable", "enable", "rights"},
               NEW drop \in SUBSET Session!Right, NEW add \in SUBSET Session!Right,
               Session!Begins(r, by, drop, add)
        PROVE  \E c \in Session!Work : Session!Starts(r, c)
    <3>1. [op |-> "change", by |-> by, ver |-> holder.version, add |-> add, drop |-> drop, seen |-> {}]
            \in Session!Work
      BY <1>1 DEF Session!Work, Session!Change, Session!Identity
    <3> QED
      BY <2>5, <3>1 DEF Session!Begins
  <2> QED
    BY <2>1, <2>2, <2>3, <2>4, <2>5 DEF Reads
<1>3. /\ work' \in [Request -> Session!Work] /\ work[r].op = "idle"
      /\ \A q \in Request : q # r => work'[q] = work[q]
  BY <1>2, WorkStarts
<1>4. /\ token' = token /\ holder' = holder /\ rights' = rights /\ replayed' = replayed
      /\ changes' \in {changes, changes + 1}
  BY DEF Reads, Session!BeginLogin, Session!BeginRotation, Session!BeginReplay, Session!BeginSwitch,
         Session!Begins
<1>5. Session!Tokens' = Session!Tokens
  BY <1>4 DEF Session!Tokens
<1> QED
  BY <1>1, <1>3, <1>4, <1>5, WorksGrow DEF Session!TypeOK

\* A transaction that ends, whatever it has done to the tokens.
LEMMA EndTypes ==
  ASSUME Session!TypeOK, NEW r \in Request, Session!Ends(r),
         token' \in Seq(Session!Row), Session!Tokens \subseteq Session!Tokens',
         holder' \in [active: BOOLEAN, password: Nat, version: Nat],
         rights' \subseteq Session!Right, replayed' \subseteq Nat, changes' \in Nat
  PROVE  Session!TypeOK'
<1>1. work' \in [Request -> Session!Work] /\ Session!Work \subseteq Session!Work'
  BY WorkEnds, WorksGrow
<1> QED
  BY <1>1 DEF Session!TypeOK

LEMMA FlushFacts ==
  ASSUME Session!TypeOK, NEW r \in Request, Session!Flush(r)
  PROVE  /\ Session!TypeOK'
         /\ token' = token /\ holder' = holder /\ rights' = rights /\ replayed' = replayed
         /\ Session!Tokens' = Session!Tokens
         /\ work[r].op = "change" /\ work'[r].op = "revoke"
         /\ work'[r].by = work[r].by /\ work'[r].drop = work[r].drop
         /\ work'[r].seen = {t \in Session!Live : token[t].right \in Session!Reach(work[r])}
         /\ \A q \in Request : q # r => work'[q] = work[q]
<1>1. work[r] \in Session!Change /\ work[r].op = "change"
  BY WorkKinds DEF Session!Flush, Session!TypeOK
<1>2. PICK S : S = {t \in Session!Live : token[t].right \in Session!Reach(work[r])}
  OBVIOUS
<1>3. S \subseteq Nat
  BY <1>2, TokenRows DEF Session!Live
<1>4. PICK c : c = [work[r] EXCEPT !.op = "revoke", !.seen = S]
  OBVIOUS
<1>5. /\ c \in Session!Change /\ c.op = "revoke" /\ c.seen = S
      /\ c.by = work[r].by /\ c.drop = work[r].drop
  BY <1>1, <1>3, <1>4 DEF Session!Change
<1>6. work' = [work EXCEPT ![r] = c]
  BY <1>2, <1>4 DEF Session!Flush, Session!TypeOK
<1>7. /\ work' \in [Request -> Session!Work] /\ work'[r] = c
      /\ \A q \in Request : q # r => work'[q] = work[q]
  BY <1>5, <1>6 DEF Session!TypeOK, Session!Work
<1>8. token' = token /\ holder' = holder /\ rights' = rights /\ replayed' = replayed /\ changes' = changes
  BY DEF Session!Flush
<1>9. Session!Tokens' = Session!Tokens
  BY <1>8 DEF Session!Tokens
<1>10. Session!TypeOK'
  BY <1>7, <1>8, <1>9, WorksGrow DEF Session!TypeOK
<1> QED
  BY <1>1, <1>2, <1>5, <1>7, <1>8, <1>9, <1>10

LEMMA SessionTypesStep ==
  ASSUME Session!TypeOK, [Session!Next]_Session!vars
  PROVE  Session!TypeOK'
<1>1. ASSUME NEW r \in Request, Session!CommitLogin(r) PROVE Session!TypeOK'
  BY <1>1, LoginFacts, EndTypes DEF Session!CommitLogin, Session!TypeOK
<1>2. ASSUME NEW r \in Request, Session!CommitRotation(r) PROVE Session!TypeOK'
  <2>1. PICK t, n : t = work[r].tok /\ n = Len(token) + 1
    OBVIOUS
  <2>2. token' \in Seq(Session!Row) /\ Session!Tokens' = Session!Tokens \cup {n}
    BY <1>2, <2>1, RotationFacts
  <2>3. /\ Session!Ends(r) /\ holder' = holder /\ rights' = rights
        /\ replayed' = replayed /\ changes' = changes
    BY <1>2 DEF Session!CommitRotation
  <2>4. /\ holder' \in [active: BOOLEAN, password: Nat, version: Nat]
        /\ rights' \subseteq Session!Right /\ replayed' \subseteq Nat /\ changes' \in Nat
    BY <2>3 DEF Session!TypeOK
  <2> QED
    BY <2>2, <2>3, <2>4, EndTypes
<1>3. ASSUME NEW r \in Request, Session!CommitReplay(r) PROVE Session!TypeOK'
  <2>1. token[work[r].tok].family \in Nat
    BY <1>3, WorkKinds, TokenRows, RowFields DEF Session!CommitReplay, Session!TypeOK
  <2> QED
    BY <1>3, <2>1, TokensKilled, EndTypes DEF Session!CommitReplay, Session!TypeOK
<1>4. ASSUME NEW r \in Request, Session!CommitSwitch(r) PROVE Session!TypeOK'
  BY <1>4, SwitchFacts, EndTypes DEF Session!CommitSwitch, Session!TypeOK
<1>5. ASSUME NEW r \in Request, Session!CommitChange(r) PROVE Session!TypeOK'
  <2>1. work[r] \in Session!Work /\ work[r].op = "revoke"
    BY <1>5, ChangeFacts
  <2>2. work[r].ver \in Nat /\ work[r].add \subseteq Session!Right
    BY <2>1, WorkKinds
  <2>3. holder' \in [active: BOOLEAN, password: Nat, version: Nat]
    <3>1. PICK c : c = work[r]
      OBVIOUS
    <3>2. /\ holder.active \in BOOLEAN /\ holder.password \in Nat /\ holder.version \in Nat
          /\ c.ver + 1 \in Nat
      BY <2>2, <3>1 DEF Session!TypeOK
    <3>3. holder' = Session!Changed(holder, c)
      BY <1>5, <3>1 DEF Session!CommitChange
    <3>4. /\ ((holder.active \/ c.by = "enable") /\ c.by # "disable") \in BOOLEAN
          /\ (IF c.by = "password" THEN holder.password + 1 ELSE holder.password) \in Nat
          /\ (IF c.by \in Session!Identity THEN c.ver + 1 ELSE holder.version) \in Nat
      BY <3>2
    <3> QED
      BY <3>3, <3>4 DEF Session!Changed
  <2>4. rights' \subseteq Session!Right /\ replayed' \subseteq Nat /\ changes' \in Nat /\ Session!Ends(r)
    BY <1>5, <2>2 DEF Session!CommitChange, Session!TypeOK
  <2> QED
    BY <1>5, <2>3, <2>4, ChangeFacts, EndTypes
<1>6. ASSUME NEW r \in Request, Session!Abort(r) PROVE Session!TypeOK'
  <2>1. Session!Tokens' = Session!Tokens /\ token' = token
    BY <1>6 DEF Session!Abort, Session!Tokens
  <2> QED
    BY <1>6, <2>1, EndTypes DEF Session!Abort, Session!TypeOK
<1>7. ASSUME NEW t, Session!RefuseRotation(t) \/ Session!Logout(t) \/ Session!RevokeSession(t)
      PROVE  Session!TypeOK'
  <2>1. /\ Session!Kill({t}) /\ work' = work /\ holder' = holder /\ rights' = rights
        /\ replayed' = replayed /\ changes' = changes
    BY <1>7 DEF Session!RefuseRotation, Session!Logout, Session!RevokeSession
  <2>2. token' \in Seq(Session!Row) /\ Session!Tokens' = Session!Tokens
    BY <2>1, TokensKilled
  <2> QED
    BY <2>1, <2>2, WorksGrow DEF Session!TypeOK
<1>8. CASE UNCHANGED Session!vars
  <2>1. Session!Tokens' = Session!Tokens
    BY <1>8 DEF Session!vars, Session!Tokens
  <2> QED
    BY <1>8, <2>1, WorksGrow DEF Session!vars, Session!TypeOK
<1> QED
  BY <1>1, <1>2, <1>3, <1>4, <1>5, <1>6, <1>7, <1>8, SessionCases, ReadTypes, FlushFacts

LEMMA SessionInitTypes ==
  ASSUME Session!Init
  PROVE  Session!TypeOK /\ Session!Tokens = {}
BY Rights DEF Session!Init, Session!TypeOK, Session!Work, Session!Tokens

-----------------------------------------------------------------------------
(* Sessions: families *)

\* Steps that insert no token and lock none.
LEMMA FamilyKept ==
  ASSUME Session!TypeOK, FamilyInv, Session!Tokens' = Session!Tokens,
         \A s \in Session!Tokens : TokenKept(s),
         \A q \in Request : work'[q].op \in Holding => work'[q] = work[q],
         \A q \in Holders :
           work'[q] = work[q] /\ work[q].op = "rotate" => token'[work[q].tok].live,
         \A f \in replayed' :
           \/ f \in replayed
           \/ /\ f \in Session!Tokens
              /\ \A s \in Session!Live' : token[s].family = f => "replay" \in token[s].raced
  PROVE  FamilyInv'
<1>1. /\ Holders' \subseteq Holders /\ \A q \in Holders' : work'[q] = work[q]
      /\ \A q \in Holders : work[q].tok \in Session!Tokens
  <2>1. \A q \in Request : work[q] \in Session!Work
    BY OpenWork
  <2> QED
    BY <2>1, WorkKinds DEF Holders, Holding
<1>2. /\ Session!Live' \subseteq Session!Live /\ Session!Live \subseteq Session!Tokens
      /\ \A s \in Session!Tokens : token'[s].family = token[s].family
                                 /\ token[s].raced \subseteq token'[s].raced
  BY DEF Session!Live, TokenKept
<1>3. KnownFamilies'
  BY <1>2 DEF FamilyInv, KnownFamilies
<1>4. OneAtAToken'
  BY <1>1 DEF FamilyInv, OneAtAToken
<1>5. RotatedIsLive'
  BY <1>1 DEF FamilyInv, RotatedIsLive
<1>6. ReplayReaches'
  BY <1>1, <1>2 DEF FamilyInv, ReplayReaches
<1>7. Session!FamiliesDoNotFork'
  BY <1>2 DEF FamilyInv, Session!FamiliesDoNotFork
<1> QED
  BY <1>3, <1>4, <1>5, <1>6, <1>7 DEF FamilyInv

\* A transaction that ends and inserts nothing, or does not lock.
LEMMA FamilyBeside ==
  ASSUME Session!TypeOK, FamilyInv, Session!Tokens' = Session!Tokens,
         NEW r \in Request, \A q \in Request : q # r => work'[q] = work[q],
         work'[r].op \notin Holding,
         \A s \in Session!Tokens : TokenKept(s),
         \A q \in Holders : work[q].op = "rotate" /\ q # r => token'[work[q].tok].live,
         replayed' = replayed
  PROVE  FamilyInv'
<1>1. \A q \in Request : work'[q].op \in Holding => work'[q] = work[q]
  OBVIOUS
<1>2. \A q \in Holders :
        work'[q] = work[q] /\ work[q].op = "rotate" => token'[work[q].tok].live
  BY DEF Holders
<1> QED
  BY <1>1, <1>2, FamilyKept

LEMMA LockedFacts ==
  ASSUME Session!TypeOK
  PROVE  /\ \A t : Session!Locked(t) <=> \E q \in Holders : work[q].tok = t
         /\ \A q \in Holders : q \in Session!Open /\ work[q].tok \in Session!Tokens
<1>1. \A q \in Request : /\ work[q] \in Session!Work
                         /\ work[q].op # "idle" => q \in Session!Open
  BY OpenWork
<1>2. \A q \in Session!Open : q \in Request
  BY DEF Session!Open
<1>3. ASSUME NEW q \in Holders PROVE q \in Session!Open /\ work[q].tok \in Session!Tokens
  <2>1. q \in Request /\ (work[q].op = "rotate" \/ work[q].op = "replay")
    BY <1>3 DEF Holders, Holding
  <2>2. work[q] \in Session!Work
    BY <1>1, <2>1
  <2>3. work[q].tok \in Session!Tokens
    BY <2>1, <2>2, WorkKinds
  <2> QED
    BY <1>1, <2>1, <2>3
<1>4. \A t : Session!Locked(t) <=> \E q \in Session!Open : work[q].op \in Holding /\ work[q].tok = t
  BY DEF Session!Locked, Holding
<1> QED
  BY <1>2, <1>3, <1>4 DEF Holders

\* A token is locked for its exchange, or for the revocation of its family.
LEMMA FamilyLocked ==
  ASSUME Session!TypeOK, FamilyInv, NEW r \in Request, NEW t \in Session!Tokens,
         Session!BeginRotation(r, t) \/ Session!BeginReplay(r, t)
  PROVE  FamilyInv'
<1>1. /\ work[r].op = "idle" /\ \A q \in Request : q # r => work'[q] = work[q]
      /\ token' = token /\ replayed' = replayed /\ Session!Tokens' = Session!Tokens
  BY ReadTypes DEF Reads
<1>2. ~Session!Locked(t)
  BY DEF Session!BeginRotation, Session!BeginReplay
<1>3. /\ work'[r].op \in Holding /\ work'[r].tok = t
      /\ work'[r].op = "rotate" => token[t].live
      /\ work'[r].op = "replay" => work'[r].seen = Session!Family(t)
  BY DEF Session!BeginRotation, Session!BeginReplay, Session!Starts, Session!TypeOK, Session!Renewable,
         Holding
<1>4. /\ Holders' = Holders \cup {r} /\ r \notin Holders
      /\ \A q \in Holders : work'[q] = work[q] /\ work[q].tok # t
  BY <1>1, <1>2, <1>3, LockedFacts DEF Holders, Holding
<1>5. Session!Live' = Session!Live /\ Session!Live \subseteq Session!Tokens
  BY <1>1 DEF Session!Live
<1>6. KnownFamilies' /\ Session!FamiliesDoNotFork'
  BY <1>1, <1>5 DEF FamilyInv, KnownFamilies, Session!FamiliesDoNotFork
<1>7. OneAtAToken'
  BY <1>3, <1>4 DEF FamilyInv, OneAtAToken
<1>8. RotatedIsLive'
  BY <1>1, <1>3, <1>4 DEF FamilyInv, RotatedIsLive
<1>9. ReplayReaches'
  BY <1>1, <1>3, <1>4, <1>5 DEF FamilyInv, ReplayReaches, Session!Family
<1> QED
  BY <1>6, <1>7, <1>8, <1>9 DEF FamilyInv

\* A login opens a family of its own.
LEMMA FamilyOpened ==
  ASSUME Session!TypeOK, FamilyInv, NEW r \in Request, Session!CommitLogin(r)
  PROVE  FamilyInv'
<1>1. PICK n : n = Len(token) + 1
  OBVIOUS
<1>2. /\ work[r].op = "login"
      /\ Session!Tokens' = Session!Tokens \cup {n} /\ n \notin Session!Tokens
      /\ \A s \in Session!Tokens : token'[s] = token[s]
      /\ token'[n].family = n
  BY <1>1, LoginFacts
<1>3. Session!Ends(r) /\ replayed' = replayed
  BY DEF Session!CommitLogin
<1>4. /\ Holders' = Holders /\ \A q \in Holders : work'[q] = work[q] /\ work[q].tok \in Session!Tokens
  <2>1. work'[r].op = "idle" /\ \A q \in Request : q # r => work'[q] = work[q]
    BY <1>3, WorkEnds
  <2> QED
    BY <1>2, <2>1, LockedFacts DEF Holders, Holding
<1>5. Session!Live' \subseteq Session!Live \cup {n} /\ Session!Live \subseteq Session!Tokens
  BY <1>2 DEF Session!Live
<1>6. KnownFamilies'
  BY <1>2, <1>3 DEF FamilyInv, KnownFamilies
<1>7. OneAtAToken' /\ RotatedIsLive'
  BY <1>2, <1>4 DEF FamilyInv, OneAtAToken, RotatedIsLive
<1>8. ReplayReaches'
  <2>1. \A s \in Session!Tokens : token[s].family # n
    BY <1>2 DEF FamilyInv, KnownFamilies
  <2> QED
    BY <1>2, <1>4, <1>5, <2>1 DEF FamilyInv, ReplayReaches
<1>9. Session!FamiliesDoNotFork'
  <2>1. \A s \in Session!Tokens : token[s].family # n
    BY <1>2 DEF FamilyInv, KnownFamilies
  <2>2. n \notin replayed
    BY <1>2 DEF FamilyInv, KnownFamilies
  <2> QED
    BY <1>2, <1>3, <1>5, <2>1, <2>2 DEF FamilyInv, Session!FamiliesDoNotFork
<1> QED
  BY <1>6, <1>7, <1>8, <1>9 DEF FamilyInv

\* The child of a token takes its place.
LEMMA FamilyRotated ==
  ASSUME Session!TypeOK, FamilyInv, NEW r \in Request, Session!CommitRotation(r)
  PROVE  FamilyInv'
<1>1. PICK n, t : n = Len(token) + 1 /\ t = work[r].tok
  OBVIOUS
<1>2. /\ t \in Session!Tokens /\ work[r].op = "rotate"
      /\ Session!Tokens' = Session!Tokens \cup {n} /\ n \notin Session!Tokens
      /\ \A s \in Session!Tokens : s # t => token'[s] = token[s]
      /\ token'[t].family = token[t].family /\ ~token'[t].live
      /\ token'[n].family = token[t].family
      /\ token[t].raced \subseteq token'[n].raced
      /\ (\E q \in Session!Open : work[q].op = "replay" /\ t \in work[q].seen)
           => "replay" \in token'[n].raced
  BY <1>1, RotationFacts DEF TokenKept
<1>3. Session!Ends(r) /\ replayed' = replayed
  BY DEF Session!CommitRotation
<1>4. /\ Holders' = Holders \ {r} /\ r \in Holders
      /\ \A q \in Holders' : work'[q] = work[q] /\ work[q].tok \in Session!Tokens /\ work[q].tok # t
  <2>1. work'[r].op = "idle" /\ \A q \in Request : q # r => work'[q] = work[q]
    BY <1>3, WorkEnds
  <2>2. Holders' = Holders \ {r} /\ r \in Holders
    BY <1>2, <2>1 DEF Holders, Holding
  <2> QED
    BY <1>1, <2>1, <2>2, LockedFacts DEF Holders, FamilyInv, OneAtAToken
<1>5. t \in Session!Live
  BY <1>1, <1>2, <1>4 DEF FamilyInv, RotatedIsLive, Session!Live
<1>6. Session!Live' \subseteq (Session!Live \ {t}) \cup {n} /\ Session!Live \subseteq Session!Tokens
  BY <1>2 DEF Session!Live
<1>7. KnownFamilies'
  BY <1>2, <1>3 DEF FamilyInv, KnownFamilies
<1>8. OneAtAToken' /\ RotatedIsLive'
  BY <1>2, <1>4 DEF FamilyInv, OneAtAToken, RotatedIsLive
<1>9. ReplayReaches'
  <2>1. SUFFICES ASSUME NEW q \in Holders', work'[q].op = "replay", NEW s \in Session!Live',
                        token'[s].family = token'[work'[q].tok].family
                 PROVE  s \in work'[q].seen \/ "replay" \in token'[s].raced
    BY DEF ReplayReaches
  <2>2. /\ q \in Holders /\ q \in Session!Open /\ work[q].op = "replay" /\ work'[q] = work[q]
        /\ token'[work[q].tok] = token[work[q].tok]
    BY <1>2, <1>4, <2>1, LockedFacts
  <2>3. CASE s = n
    <3>1. token[t].family = token[work[q].tok].family
      BY <1>2, <2>1, <2>2, <2>3
    <3>2. t \in work[q].seen \/ "replay" \in token[t].raced
      BY <1>5, <2>2, <3>1 DEF FamilyInv, ReplayReaches
    <3> QED
      BY <1>2, <2>2, <2>3, <3>2
  <2>4. CASE s # n
    BY <1>2, <1>6, <2>1, <2>2, <2>4 DEF FamilyInv, ReplayReaches
  <2> QED
    BY <2>3, <2>4
<1>10. Session!FamiliesDoNotFork'
  <2>1. \A s \in Session!Live : token[s].family = token[t].family => s = t
    BY <1>5 DEF FamilyInv, Session!FamiliesDoNotFork
  <2>2. token[t].family \in replayed => "replay" \in token'[n].raced
    BY <1>2, <1>5 DEF FamilyInv, Session!FamiliesDoNotFork
  <2>3. \A s \in Session!Live' : s # n => s \in Session!Live /\ s # t /\ token'[s] = token[s]
    BY <1>2, <1>6
  <2> QED
    BY <1>2, <1>3, <2>1, <2>2, <2>3 DEF FamilyInv, Session!FamiliesDoNotFork
<1> QED
  BY <1>7, <1>8, <1>9, <1>10 DEF FamilyInv

\* A replay ends its family, but for a renewal that was in the middle.
LEMMA FamilyReplayed ==
  ASSUME Session!TypeOK, FamilyInv, NEW r \in Request, Session!CommitReplay(r)
  PROVE  FamilyInv'
<1>1. /\ work[r].op = "replay" /\ Session!Kill(work[r].seen) /\ Session!Ends(r)
      /\ replayed' = replayed \cup {token[work[r].tok].family}
      /\ \A t \in work[r].seen : ~Session!Waits(r, t)
  BY DEF Session!CommitReplay
<1>2. work'[r].op = "idle" /\ \A q \in Request : q # r => work'[q] = work[q]
  BY <1>1, WorkEnds
<1>3. /\ Session!Tokens' = Session!Tokens
      /\ \A s \in Session!Tokens : /\ token'[s].family = token[s].family
                                  /\ token'[s].password = token[s].password
                                  /\ token'[s].raced = token[s].raced
                                  /\ token'[s].live = (token[s].live /\ s \notin work[r].seen)
  BY <1>1, TokensKilled
<1>4. r \in Holders /\ work[r].tok \in Session!Tokens
  BY <1>1, LockedFacts DEF Holders, Holding
<1>5. \A q \in Request : work'[q].op \in Holding => work'[q] = work[q]
  BY <1>2 DEF Holding
<1>6. ASSUME NEW q \in Holders, work'[q] = work[q], work[q].op = "rotate"
      PROVE  token'[work[q].tok].live
  <2>1. q # r /\ work[q].tok \in Session!Tokens /\ q \in Session!Open
    BY <1>1, <1>6, LockedFacts
  <2>2. work[q].tok \notin work[r].seen
    BY <1>1, <1>6, <2>1 DEF Session!Waits
  <2> QED
    BY <1>3, <1>6, <2>1, <2>2 DEF FamilyInv, RotatedIsLive
<1>7. /\ token[work[r].tok].family \in Session!Tokens
      /\ \A s \in Session!Live' :
           token[s].family = token[work[r].tok].family => "replay" \in token[s].raced
  <2>1. \A s \in Session!Live' : s \in Session!Live /\ s \notin work[r].seen
    BY <1>3 DEF Session!Live
  <2> QED
    BY <1>1, <1>4, <2>1 DEF FamilyInv, KnownFamilies, ReplayReaches
<1>8. \A s \in Session!Tokens : TokenKept(s)
  BY <1>3 DEF TokenKept
<1> QED
  BY <1>1, <1>3, <1>5, <1>6, <1>7, <1>8, FamilyKept

\* A token is killed alone, when no transaction holds it.
LEMMA FamilyKilled ==
  ASSUME Session!TypeOK, FamilyInv, NEW t,
         Session!RefuseRotation(t) \/ Session!Logout(t) \/ Session!RevokeSession(t)
  PROVE  FamilyInv'
<1>1. Session!Kill({t}) /\ work' = work /\ replayed' = replayed /\ ~Session!Locked(t)
  BY DEF Session!RefuseRotation, Session!Logout, Session!RevokeSession
<1>2. /\ Session!Tokens' = Session!Tokens
      /\ \A s \in Session!Tokens : /\ TokenKept(s)
                                  /\ token'[s].live = (token[s].live /\ s # t)
  <2>1. PICK S : S = {t}
    OBVIOUS
  <2>2. Session!Kill(S)
    BY <1>1, <2>1
  <2>3. /\ Session!Tokens' = Session!Tokens
        /\ \A s \in Session!Tokens :
             /\ token'[s].family = token[s].family /\ token'[s].password = token[s].password
             /\ token'[s].raced = token[s].raced
             /\ token'[s].live = (token[s].live /\ s \notin S)
    BY <2>2, TokensKilled
  <2> QED
    BY <2>1, <2>3 DEF TokenKept
<1>3. \A q \in Holders : work[q].op = "rotate" => token'[work[q].tok].live
  <2>1. \A q \in Holders : work[q].tok \in Session!Tokens /\ work[q].tok # t
    BY <1>1, LockedFacts
  <2> QED
    BY <1>2, <2>1 DEF FamilyInv, RotatedIsLive
<1> QED
  BY <1>1, <1>2, <1>3, FamilyKept

LEMMA FamilyStep ==
  ASSUME Session!TypeOK, FamilyInv, [Session!Next]_Session!vars
  PROVE  FamilyInv'
<1>1. \A q \in Holders : work[q].tok \in Session!Tokens
  BY LockedFacts
<1>2. ASSUME token' = token, Session!Tokens' = Session!Tokens
      PROVE  /\ \A s \in Session!Tokens : TokenKept(s)
             /\ \A q \in Holders : work[q].op = "rotate" => token'[work[q].tok].live
  BY <1>2 DEF TokenKept, FamilyInv, RotatedIsLive
<1>3. ASSUME NEW r \in Request, Reads(r) PROVE FamilyInv'
  <2>1. /\ work[r].op = "idle" /\ \A q \in Request : q # r => work'[q] = work[q]
        /\ token' = token /\ replayed' = replayed /\ Session!Tokens' = Session!Tokens
    BY <1>3, ReadTypes
  <2>2. CASE work'[r].op \notin Holding
    BY <1>2, <2>1, <2>2, FamilyBeside
  <2>3. CASE \E t \in Session!Tokens : Session!BeginRotation(r, t) \/ Session!BeginReplay(r, t)
    BY <2>3, FamilyLocked
  <2>4. CASE \E c : Session!Starts(r, c) /\ c.op \notin Holding
    BY <2>2, <2>4 DEF Session!Starts, Session!TypeOK
  <2>5. \/ \E t \in Session!Tokens : Session!BeginRotation(r, t) \/ Session!BeginReplay(r, t)
        \/ \E c : Session!Starts(r, c) /\ c.op \notin Holding
    <3>1. CASE \E x \in Session!Right : Session!BeginLogin(r, x)
      BY <3>1 DEF Session!BeginLogin, Holding
    <3>2. CASE \E t \in Session!Tokens, m \in Market : Session!BeginSwitch(r, t, m)
      BY <3>2 DEF Session!BeginSwitch, Holding
    <3>3. CASE \E by, drop, add : Session!Begins(r, by, drop, add)
      BY <3>3 DEF Session!Begins, Holding
    <3> QED
      BY <1>3, <3>1, <3>2, <3>3 DEF Reads
  <2> QED
    BY <2>3, <2>4, <2>5
<1>4. ASSUME NEW r \in Request, Session!CommitSwitch(r) PROVE FamilyInv'
  <2>1. Session!Ends(r) /\ replayed' = replayed
    BY <1>4 DEF Session!CommitSwitch
  <2>2. work'[r].op \notin Holding /\ \A q \in Request : q # r => work'[q] = work[q]
    BY <2>1, WorkEnds DEF Holding
  <2>3. PICK t : t = work[r].tok
    OBVIOUS
  <2>4. /\ Session!Tokens' = Session!Tokens
        /\ \A s \in Session!Tokens : TokenKept(s) /\ token'[s].live = token[s].live
    BY <1>4, <2>3, SwitchFacts DEF TokenKept
  <2> QED
    BY <1>1, <2>1, <2>2, <2>4, FamilyBeside DEF FamilyInv, RotatedIsLive
<1>5. ASSUME NEW r \in Request, Session!CommitChange(r) PROVE FamilyInv'
  <2>1. PICK c : c = work[r]
    OBVIOUS
  <2>2. /\ Session!Ends(r) /\ replayed' = replayed /\ \A t \in c.seen : ~Session!Locked(t)
    BY <1>5, <2>1 DEF Session!CommitChange
  <2>3. work'[r].op \notin Holding /\ \A q \in Request : q # r => work'[q] = work[q]
    BY <2>2, WorkEnds DEF Holding
  <2>4. /\ Session!Tokens' = Session!Tokens
        /\ \A s \in Session!Tokens : TokenKept(s) /\ token'[s].live = (token[s].live /\ s \notin c.seen)
    BY <1>5, <2>1, ChangeFacts
  <2>5. \A q \in Holders : work[q].tok \notin c.seen
    BY <2>2, LockedFacts
  <2> QED
    BY <1>1, <2>2, <2>3, <2>4, <2>5, FamilyBeside DEF FamilyInv, RotatedIsLive
<1>6. ASSUME NEW r \in Request, Session!Flush(r) PROVE FamilyInv'
  <2>1. /\ token' = token /\ replayed' = replayed /\ Session!Tokens' = Session!Tokens
        /\ work'[r].op \notin Holding /\ \A q \in Request : q # r => work'[q] = work[q]
    BY <1>6, FlushFacts DEF Holding
  <2> QED
    BY <1>2, <2>1, FamilyBeside
<1>7. ASSUME NEW r \in Request, Session!Abort(r) PROVE FamilyInv'
  <2>1. /\ token' = token /\ replayed' = replayed /\ Session!Tokens' = Session!Tokens /\ Session!Ends(r)
    BY <1>7 DEF Session!Abort, Session!Tokens
  <2>2. work'[r].op \notin Holding /\ \A q \in Request : q # r => work'[q] = work[q]
    BY <2>1, WorkEnds DEF Holding
  <2> QED
    BY <1>2, <2>1, <2>2, FamilyBeside
<1>8. CASE UNCHANGED Session!vars
  <2>1. token' = token /\ replayed' = replayed /\ Session!Tokens' = Session!Tokens /\ work' = work
    BY <1>8 DEF Session!vars, Session!Tokens
  <2> QED
    BY <1>2, <2>1, FamilyKept
<1> QED
  BY <1>3, <1>4, <1>5, <1>6, <1>7, <1>8, FamilyOpened, FamilyRotated, FamilyReplayed, FamilyKilled,
     SessionCases

LEMMA FamilyStart ==
  Session!Init => FamilyInv
<1> SUFFICES ASSUME Session!Init PROVE FamilyInv
  OBVIOUS
<1>1. Session!Tokens = {} /\ Session!Live = {} /\ replayed = {}
  BY SessionInitTypes DEF Session!Init, Session!Live
<1>2. Holders = {}
  BY DEF Session!Init, Session!Idle, Holders, Holding
<1> QED
  BY <1>1, <1>2 DEF FamilyInv, KnownFamilies, OneAtAToken, RotatedIsLive, ReplayReaches,
                    Session!FamiliesDoNotFork

\* Every variable of the sessions keeps its type.
THEOREM SessionTypes ==
  Session!Spec => []Session!TypeOK
<1>1. Session!Init => Session!TypeOK
  BY SessionInitTypes
<1> QED
  BY <1>1, SessionTypesStep, PTL DEF Session!Spec

\* Whatever is presented at once, a family has one token that can be exchanged,
\* and none after a replay but by a renewal that was in the middle
\* (_rotate_refresh_token).
THEOREM FamiliesNeverFork ==
  Session!Spec => []FamiliesDoNotFork
<1>1. FamilyInv => FamiliesDoNotFork
  BY DEF FamilyInv, FamiliesDoNotFork
<1>2. Session!TypeOK /\ FamilyInv /\ [Session!Next]_Session!vars => FamilyInv'
  BY FamilyStep
<1> QED
  BY <1>1, <1>2, FamilyStart, SessionTypes, PTL DEF Session!Spec

-----------------------------------------------------------------------------
(* Sessions: what outlives a change *)

LEMMA ReachFacts ==
  ASSUME NEW c, c.drop \subseteq Market \/ c.drop \subseteq {Platform}
  PROVE  /\ c.by # "rights" => Session!Reach(c) = Session!Right
         /\ c.by = "rights" => Session!Reach(c) = Market \/ Session!Reach(c) = {Platform}
         /\ c.by = "rights" => c.drop \subseteq Session!Reach(c)
<1>1. Platform \notin Market
  BY Rights
<1> QED
  BY <1>1 DEF Session!Reach, Session!Scope

\* A market and another are within the same reach.
LEMMA MarketsTogether ==
  ASSUME NEW c, c.drop \subseteq Market \/ c.drop \subseteq {Platform},
         NEW m \in Market, NEW k \in Market, m \in Session!Reach(c)
  PROVE  k \in Session!Reach(c)
BY ReachFacts, Rights

\* A transaction that begins, or writes its rows, is as the invariant says.
NewWork(q) ==
  LET c == work'[q]
  IN  /\ c.op \in {"change", "revoke"} =>
           /\ c.by # "rights" => c.drop = {}
           /\ c.drop \subseteq Market \/ c.drop \subseteq {Platform}
      /\ c.op = "revoke" =>
           \A t \in Session!Live :
             token[t].right \in Session!Reach(c) => t \in c.seen \/ "change" \in token[t].raced
      /\ c.op = "switch" =>
           /\ c.tok \in Session!Tokens /\ token[c.tok].live
           /\ token[c.tok].right \in Market /\ c.right \in rights

\* Steps that insert no token, write no right and change nothing of the person.
LEMMA RaceKept ==
  ASSUME Session!TypeOK, RaceInv, Session!Tokens' = Session!Tokens,
         \A s \in Session!Tokens : /\ TokenKept(s)
                                  /\ token'[s].right = token[s].right
                                  /\ token'[s].issued = token[s].issued,
         holder' = holder, rights' = rights,
         \A q \in Request : work'[q] = work[q] \/ NewWork(q)
  PROVE  RaceInv'
<1>1. /\ Session!Live' \subseteq Session!Live /\ Session!Live \subseteq Session!Tokens
      /\ \A s \in Session!Tokens :
           /\ token'[s].password = token[s].password /\ token[s].raced \subseteq token'[s].raced
           /\ token'[s].live => token[s].live
  BY DEF Session!Live, TokenKept
<1>2. \A q \in Request : work[q].op = "switch" => work[q].tok \in Session!Tokens
  BY OpenWork, WorkKinds
<1>3. ChangesAreScoped'
  BY <1>2 DEF RaceInv, ChangesAreScoped, NewWork
<1>4. RevocationReaches'
  BY <1>1 DEF RaceInv, RevocationReaches, NewWork
<1>5. SessionsEnd'
  BY <1>1 DEF RaceInv, SessionsEnd
<1>6. SwitchesEnd'
  BY <1>1, <1>2 DEF RaceInv, SwitchesEnd, NewWork
<1>7. VersionsEnd'
  <2>1. ASSUME NEW t \in Session!Tokens, token'[t].password # holder.password,
               {"change", "lost"} \cap token'[t].raced = {}
        PROVE  /\ \A a \in token'[t].issued : a.ver # holder.version
               /\ \A q \in Request :
                    work'[q].op = "switch" /\ work'[q].tok = t => work'[q].ver # holder.version
    <3>1. token[t].password # holder.password /\ {"change", "lost"} \cap token[t].raced = {}
      BY <1>1, <2>1
    <3>2. ~token[t].live
      BY <3>1 DEF RaceInv, SessionsEnd, Session!Live
    <3> QED
      BY <2>1, <3>1, <3>2 DEF RaceInv, VersionsEnd, NewWork
  <2> QED
    BY <2>1 DEF VersionsEnd
<1> QED
  BY <1>3, <1>4, <1>5, <1>6, <1>7 DEF RaceInv

\* A transaction that ends, or takes hold of a token, says nothing of the rest.
LEMMA RaceBeside ==
  ASSUME NEW r \in Request, \A q \in Request : q # r => work'[q] = work[q],
         work'[r].op \notin {"change", "revoke", "switch"}
  PROVE  \A q \in Request : work'[q] = work[q] \/ NewWork(q)
BY DEF NewWork

LEMMA RaceRead ==
  ASSUME Session!TypeOK, RaceInv, NEW r \in Request, Reads(r)
  PROVE  RaceInv'
<1>1. /\ \A q \in Request : q # r => work'[q] = work[q]
      /\ token' = token /\ holder' = holder /\ rights' = rights /\ Session!Tokens' = Session!Tokens
  BY ReadTypes
<1>2. NewWork(r)
  <2>1. CASE \E x \in Session!Right : Session!BeginLogin(r, x)
    BY <2>1 DEF Session!BeginLogin, Session!Starts, Session!TypeOK, NewWork
  <2>2. CASE \E t \in Session!Tokens : Session!BeginRotation(r, t)
    BY <2>2 DEF Session!BeginRotation, Session!Starts, Session!TypeOK, NewWork
  <2>3. CASE \E t \in Session!Tokens : Session!BeginReplay(r, t)
    BY <2>3 DEF Session!BeginReplay, Session!Starts, Session!TypeOK, NewWork
  <2>4. CASE \E t \in Session!Tokens, m \in Market : Session!BeginSwitch(r, t, m)
    BY <2>4 DEF Session!BeginSwitch, Session!Starts, Session!TypeOK, NewWork
  <2>5. CASE \E by \in {"password", "logout_all", "disable", "enable", "rights"},
                drop \in SUBSET Session!Right, add \in SUBSET Session!Right :
               /\ Session!Begins(r, by, drop, add)
               /\ by # "rights" => drop = {}
               /\ drop \subseteq Market \/ drop \subseteq {Platform}
    BY <2>5 DEF Session!Begins, Session!Starts, Session!TypeOK, NewWork
  <2> QED
    BY <2>1, <2>2, <2>3, <2>4, <2>5 DEF Reads
<1>3. \A q \in Request : work'[q] = work[q] \/ NewWork(q)
  BY <1>1, <1>2
<1>4. \A s \in Session!Tokens : /\ TokenKept(s)
                              /\ token'[s].right = token[s].right
                              /\ token'[s].issued = token[s].issued
  BY <1>1 DEF TokenKept
<1> QED
  BY <1>1, <1>3, <1>4, RaceKept

LEMMA RaceFlushed ==
  ASSUME Session!TypeOK, RaceInv, NEW r \in Request, Session!Flush(r)
  PROVE  RaceInv'
<1>1. /\ token' = token /\ holder' = holder /\ rights' = rights /\ Session!Tokens' = Session!Tokens
      /\ work[r].op = "change" /\ work'[r].op = "revoke"
      /\ work'[r].by = work[r].by /\ work'[r].drop = work[r].drop
      /\ work'[r].seen = {t \in Session!Live : token[t].right \in Session!Reach(work[r])}
      /\ \A q \in Request : q # r => work'[q] = work[q]
  BY FlushFacts
<1>2. Session!Reach(work'[r]) = Session!Reach(work[r])
  BY <1>1 DEF Session!Reach
<1>3. NewWork(r)
  BY <1>1, <1>2 DEF NewWork, RaceInv, ChangesAreScoped
<1>4. \A s \in Session!Tokens : /\ TokenKept(s)
                              /\ token'[s].right = token[s].right
                              /\ token'[s].issued = token[s].issued
  BY <1>1 DEF TokenKept
<1>5. \A q \in Request : work'[q] = work[q] \/ NewWork(q)
  BY <1>1, <1>3
<1> QED
  BY <1>1, <1>4, <1>5, RaceKept

LEMMA RaceKilled ==
  ASSUME Session!TypeOK, RaceInv, NEW S, Session!Kill(S), holder' = holder, rights' = rights,
         \A q \in Request : work'[q] = work[q] \/ NewWork(q)
  PROVE  RaceInv'
<1>1. Session!Tokens' = Session!Tokens
  BY TokensKilled
<1>2. \A s \in Session!Tokens : /\ TokenKept(s)
                              /\ token'[s].right = token[s].right
                              /\ token'[s].issued = token[s].issued
  BY TokensKilled DEF TokenKept
<1> QED
  BY <1>1, <1>2, RaceKept

LEMMA SwitchedTokens ==
  ASSUME Session!TypeOK
  PROVE  \A q \in Request : work[q].op = "switch" => work[q].tok \in Session!Tokens
BY OpenWork, WorkKinds

\* A session that is opened beside a change is marked.
LEMMA RaceOpened ==
  ASSUME Session!TypeOK, RaceInv, NEW r \in Request, Session!CommitLogin(r)
  PROVE  RaceInv'
<1>1. PICK n : n = Len(token) + 1
  OBVIOUS
<1>2. /\ work[r].op = "login"
      /\ Session!Tokens' = Session!Tokens \cup {n} /\ n \notin Session!Tokens
      /\ \A s \in Session!Tokens : token'[s] = token[s]
      /\ token'[n].right = work[r].right /\ token'[n].password = work[r].password
      /\ \/ "change" \in token'[n].raced
         \/ /\ work[r].password = holder.password /\ holder.active
            /\ work[r].right \in rights /\ ~Session!Revoking(work[r].right)
  BY <1>1, LoginFacts
<1>3. Session!Ends(r) /\ holder' = holder /\ rights' = rights
  BY DEF Session!CommitLogin
<1>4. work'[r].op = "idle" /\ \A q \in Request : q # r => work'[q] = work[q]
  BY <1>3, WorkEnds
<1>5. \A q \in Request : work[q].op = "switch" => work[q].tok \in Session!Tokens
  BY SwitchedTokens
<1>6. Session!Live' \subseteq Session!Live \cup {n} /\ Session!Live \subseteq Session!Tokens
  BY <1>2 DEF Session!Live
<1>7. ChangesAreScoped' /\ SwitchesEnd'
  BY <1>2, <1>3, <1>4, <1>5 DEF RaceInv, ChangesAreScoped, SwitchesEnd
<1>8. RevocationReaches'
  <2>1. SUFFICES ASSUME NEW q \in Request, work'[q].op = "revoke", NEW t \in Session!Live',
                        token'[t].right \in Session!Reach(work'[q])
                 PROVE  t \in work'[q].seen \/ "change" \in token'[t].raced
    BY DEF RevocationReaches
  <2>2. work'[q] = work[q] /\ work[q].op = "revoke" /\ q \in Session!Open
    BY <1>4, <2>1, OpenWork
  <2>3. CASE t = n
    <3>1. Session!Revoking(work[r].right)
      BY <1>2, <2>1, <2>2, <2>3 DEF Session!Revoking
    <3> QED
      BY <1>2, <2>3, <3>1
  <2>4. CASE t # n
    BY <1>2, <1>6, <2>1, <2>2, <2>4 DEF RaceInv, RevocationReaches
  <2> QED
    BY <2>3, <2>4
<1>9. SessionsEnd'
  BY <1>2, <1>3, <1>6 DEF RaceInv, SessionsEnd
<1>10. VersionsEnd'
  BY <1>2, <1>3, <1>4, <1>5 DEF RaceInv, VersionsEnd
<1> QED
  BY <1>7, <1>8, <1>9, <1>10 DEF RaceInv

\* One that is renewed beside a change is marked, and keeps the marks it has.
LEMMA RaceRotated ==
  ASSUME Session!TypeOK, FamilyInv, RaceInv, NEW r \in Request, Session!CommitRotation(r)
  PROVE  RaceInv'
<1>1. PICK n, t : n = Len(token) + 1 /\ t = work[r].tok
  OBVIOUS
<1>2. /\ t \in Session!Tokens /\ work[r].op = "rotate"
      /\ Session!Tokens' = Session!Tokens \cup {n} /\ n \notin Session!Tokens
      /\ \A s \in Session!Tokens : s # t => token'[s] = token[s]
      /\ TokenKept(t) /\ token'[t].right = token[t].right /\ token'[t].issued = token[t].issued
      /\ ~token'[t].live
      /\ token'[n].right = token[t].right /\ token'[n].password = token[t].password
      /\ token[t].raced \subseteq token'[n].raced
      /\ Session!Revoking(token[t].right) => "change" \in token'[n].raced
  BY <1>1, RotationFacts
<1>3. Session!Ends(r) /\ holder' = holder /\ rights' = rights
  BY DEF Session!CommitRotation
<1>4. work'[r].op = "idle" /\ \A q \in Request : q # r => work'[q] = work[q]
  BY <1>3, WorkEnds
<1>5. \A q \in Request : work[q].op = "switch" => work[q].tok \in Session!Tokens
  BY SwitchedTokens
<1>6. /\ Session!Live' \subseteq (Session!Live \ {t}) \cup {n} /\ Session!Live \subseteq Session!Tokens
      /\ t \in Session!Live
  BY <1>1, <1>2 DEF Session!Live, FamilyInv, RotatedIsLive, Holders, Holding
<1>7. ChangesAreScoped' /\ SwitchesEnd'
  BY <1>2, <1>3, <1>4, <1>5 DEF RaceInv, ChangesAreScoped, SwitchesEnd
<1>8. RevocationReaches'
  <2>1. SUFFICES ASSUME NEW q \in Request, work'[q].op = "revoke", NEW s \in Session!Live',
                        token'[s].right \in Session!Reach(work'[q])
                 PROVE  s \in work'[q].seen \/ "change" \in token'[s].raced
    BY DEF RevocationReaches
  <2>2. work'[q] = work[q] /\ work[q].op = "revoke" /\ q \in Session!Open
    BY <1>4, <2>1, OpenWork
  <2>3. CASE s = n
    <3>1. Session!Revoking(token[t].right)
      BY <1>2, <2>1, <2>2, <2>3 DEF Session!Revoking
    <3> QED
      BY <1>2, <2>3, <3>1
  <2>4. CASE s # n
    BY <1>2, <1>6, <2>1, <2>2, <2>4 DEF RaceInv, RevocationReaches
  <2> QED
    BY <2>3, <2>4
<1>9. token[t].password # holder.password \/ ~holder.active \/ token[t].right \notin rights
        => "change" \in token[t].raced
  BY <1>6 DEF RaceInv, SessionsEnd
<1>10. SessionsEnd'
  BY <1>2, <1>3, <1>6, <1>9 DEF RaceInv, SessionsEnd
<1>11. VersionsEnd'
  BY <1>2, <1>3, <1>4, <1>5, <1>9 DEF RaceInv, VersionsEnd, TokenKept
<1> QED
  BY <1>7, <1>8, <1>10, <1>11 DEF RaceInv

\* A switch writes another market, and an access token of the version it read.
LEMMA RaceSwitched ==
  ASSUME Session!TypeOK, RaceInv, NEW r \in Request, Session!CommitSwitch(r)
  PROVE  RaceInv'
<1>1. PICK t : t = work[r].tok
  OBVIOUS
<1>2. /\ work[r].op = "switch" /\ t \in Session!Tokens /\ work[r].right \in Market
      /\ Session!Tokens' = Session!Tokens
      /\ \A s \in Session!Tokens : s # t => token'[s] = token[s]
      /\ TokenKept(t) /\ token'[t].live = token[t].live /\ token'[t].raced = token[t].raced
      /\ token'[t].right = work[r].right
      /\ token'[t].issued = token[t].issued \cup {Session!Access(work[r].ver, work[r].right)}
  BY <1>1, SwitchFacts
<1>3. Session!Ends(r) /\ holder' = holder /\ rights' = rights
  BY DEF Session!CommitSwitch
<1>4. work'[r].op = "idle" /\ \A q \in Request : q # r => work'[q] = work[q]
  BY <1>3, WorkEnds
<1>5. \A q \in Request : work[q].op = "switch" => work[q].tok \in Session!Tokens
  BY SwitchedTokens
<1>6. Session!Live' = Session!Live /\ Session!Live \subseteq Session!Tokens
  BY <1>2 DEF Session!Live
<1>7. ChangesAreScoped' /\ SwitchesEnd'
  BY <1>2, <1>3, <1>4, <1>5 DEF RaceInv, ChangesAreScoped, SwitchesEnd, TokenKept
<1>8. token[t].right \in Market
  BY <1>1, <1>2 DEF RaceInv, ChangesAreScoped
<1>9. RevocationReaches'
  <2>1. SUFFICES ASSUME NEW q \in Request, work'[q].op = "revoke", NEW s \in Session!Live',
                        token'[s].right \in Session!Reach(work'[q])
                 PROVE  s \in work'[q].seen \/ "change" \in token'[s].raced
    BY DEF RevocationReaches
  <2>2. /\ work'[q] = work[q] /\ work[q].op = "revoke" /\ s \in Session!Live
        /\ work[q].drop \subseteq Market \/ work[q].drop \subseteq {Platform}
    BY <1>4, <1>6, <2>1 DEF RaceInv, ChangesAreScoped
  <2>3. token[s].right \in Session!Reach(work[q])
    <3>1. CASE s = t
      BY <1>2, <1>8, <2>1, <2>2, <3>1, MarketsTogether
    <3>2. CASE s # t
      BY <1>2, <1>6, <2>1, <2>2, <3>2
    <3> QED
      BY <3>1, <3>2
  <2>4. token'[s].raced = token[s].raced
    BY <1>2, <1>6, <2>2
  <2> QED
    BY <2>2, <2>3, <2>4 DEF RaceInv, RevocationReaches
<1>10. SessionsEnd'
  <2>1. t \in Session!Live /\ work[r].right \notin rights => "change" \in token[t].raced
    BY <1>1, <1>2 DEF RaceInv, SwitchesEnd, Session!Live
  <2> QED
    BY <1>2, <1>3, <1>6, <2>1 DEF RaceInv, SessionsEnd, TokenKept
<1>11. VersionsEnd'
  <2>1. \A a \in token'[t].issued : a \in token[t].issued \/ a.ver = work[r].ver
    BY <1>2 DEF Session!Access
  <2> QED
    BY <1>1, <1>2, <1>3, <1>4, <1>5, <2>1 DEF RaceInv, VersionsEnd, TokenKept
<1> QED
  BY <1>7, <1>9, <1>10, <1>11 DEF RaceInv

\* What a change leaves of the person: of "rights", all but the rights.
LEMMA ChangedPerson ==
  ASSUME Session!TypeOK, NEW r \in Request, Session!CommitChange(r), NEW c, c = work[r]
  PROVE  /\ c.by = "rights" => holder' = holder
         /\ c.by # "rights" => holder'.version = c.ver + 1 /\ c.by \in Session!Identity
         /\ rights' = (rights \ c.drop) \cup c.add
<1>1. c \in Session!Work /\ c.op = "revoke"
  BY DEF Session!CommitChange, Session!TypeOK
<1>2. c.by \in {"password", "logout_all", "disable", "enable", "rights"}
  BY <1>1, WorkKinds
<1>3. holder' = Session!Changed(holder, c) /\ rights' = (rights \ c.drop) \cup c.add
  BY DEF Session!CommitChange
<1>4. CASE c.by = "rights"
  <2>1. holder \in [active: BOOLEAN, password: Nat, version: Nat]
    BY DEF Session!TypeOK
  <2>2. ((holder.active \/ c.by = "enable") /\ c.by # "disable") = holder.active
    BY <1>4, <2>1
  <2>3. holder' = [active |-> holder.active, password |-> holder.password, version |-> holder.version]
    BY <1>3, <1>4, <2>2 DEF Session!Changed, Session!Identity
  <2> QED
    BY <1>3, <1>4, <2>1, <2>3
<1>5. CASE c.by # "rights"
  BY <1>2, <1>3, <1>5 DEF Session!Changed, Session!Identity
<1> QED
  BY <1>3, <1>4, <1>5

\* A change revokes what it has seen: what it has not is marked.
LEMMA RaceChanged ==
  ASSUME Session!TypeOK, RaceInv, NEW r \in Request, Session!CommitChange(r)
  PROVE  RaceInv'
<1>1. PICK c : c = work[r]
  OBVIOUS
<1>2. /\ c \in Session!Work /\ c.op = "revoke" /\ Session!Tokens' = Session!Tokens
      /\ \A s \in Session!Tokens :
           /\ TokenKept(s) /\ token'[s].right = token[s].right /\ token'[s].issued = token[s].issued
           /\ token'[s].live = (token[s].live /\ s \notin c.seen)
           /\ s \in Session!Missed(c) => "lost" \in token'[s].raced
  BY <1>1, ChangeFacts
<1>3. /\ c.by = "rights" => holder' = holder
      /\ c.by # "rights" => holder'.version = c.ver + 1 /\ c.by \in Session!Identity
      /\ rights' = (rights \ c.drop) \cup c.add
  BY <1>1, ChangedPerson
<1>4. work'[r].op = "idle" /\ \A q \in Request : q # r => work'[q] = work[q]
  BY WorkEnds DEF Session!CommitChange
<1>5. \A q \in Request : work[q].op = "switch" => work[q].tok \in Session!Tokens
  BY SwitchedTokens
<1>6. /\ Session!Live' \subseteq Session!Live \ c.seen /\ Session!Live \subseteq Session!Tokens
      /\ \A s \in Session!Tokens :
           /\ token'[s].password = token[s].password /\ token[s].raced \subseteq token'[s].raced
           /\ token'[s].live => token[s].live
  BY <1>2 DEF Session!Live, TokenKept
<1>7. /\ c.by # "rights" => c.drop = {}
      /\ c.drop \subseteq Market \/ c.drop \subseteq {Platform}
  BY <1>1, <1>2 DEF RaceInv, ChangesAreScoped
<1>8. \A t \in Session!Live' :
        token[t].right \in Session!Reach(c) => "change" \in token'[t].raced
  BY <1>1, <1>2, <1>6 DEF RaceInv, RevocationReaches
<1>9. /\ \A t \in Session!Live' : c.by # "rights" => token[t].right \in Session!Reach(c)
      /\ c.drop \subseteq Session!Reach(c)
  <2>1. \A t \in Session!Tokens : token[t].right \in Session!Right
    BY TokenRows, RowFields
  <2> QED
    BY <1>6, <1>7, <2>1, ReachFacts
<1>10. ChangesAreScoped'
  BY <1>2, <1>4, <1>5 DEF RaceInv, ChangesAreScoped
<1>11. RevocationReaches'
  BY <1>2, <1>4, <1>6 DEF RaceInv, RevocationReaches
<1>12. SessionsEnd'
  <2>1. SUFFICES ASSUME NEW t \in Session!Live',
                        token'[t].password # holder'.password \/ ~holder'.active
                          \/ token'[t].right \notin rights'
                 PROVE  "change" \in token'[t].raced
    BY DEF SessionsEnd
  <2>2. t \in Session!Live /\ token'[t].right = token[t].right
    BY <1>2, <1>6
  <2>3. CASE c.by # "rights" \/ token[t].right \in c.drop
    BY <1>8, <1>9, <2>3
  <2>4. CASE c.by = "rights" /\ token[t].right \notin c.drop
    BY <1>3, <1>6, <2>1, <2>2, <2>4 DEF RaceInv, SessionsEnd
  <2> QED
    BY <2>3, <2>4
<1>13. SwitchesEnd'
  <2>1. SUFFICES ASSUME NEW q \in Request, work'[q].op = "switch", token'[work'[q].tok].live,
                        work'[q].right \notin rights'
                 PROVE  "change" \in token'[work'[q].tok].raced
    BY DEF SwitchesEnd
  <2>2. PICK t : t = work[q].tok
    OBVIOUS
  <2>3. /\ work'[q] = work[q] /\ work[q].op = "switch" /\ t \in Session!Tokens
        /\ work[q].right \in Market /\ token[t].right \in Market
    <3>1. work'[q] = work[q]
      BY <1>4, <2>1
    <3>2. work[q] \in Session!Work
      BY OpenWork
    <3> QED
      BY <1>5, <2>1, <2>2, <3>1, <3>2, WorkKinds DEF RaceInv, ChangesAreScoped
  <2>4. t \in Session!Live' /\ token[t].live
    BY <1>2, <1>6, <2>1, <2>2, <2>3 DEF Session!Live
  <2>5. CASE work[q].right \in c.drop
    <3>1. token[t].right \in Session!Reach(c)
      BY <1>7, <1>9, <2>3, <2>5, MarketsTogether
    <3> QED
      BY <1>8, <2>2, <2>3, <2>4, <3>1
  <2>6. CASE work[q].right \notin c.drop
    BY <1>3, <1>6, <2>1, <2>2, <2>3, <2>4, <2>6 DEF RaceInv, SwitchesEnd
  <2> QED
    BY <2>5, <2>6
<1>14. VersionsEnd'
  <2>1. SUFFICES ASSUME NEW t \in Session!Tokens, token'[t].password # holder'.password,
                        {"change", "lost"} \cap token'[t].raced = {}
                 PROVE  /\ \A a \in token'[t].issued : a.ver # holder'.version
                        /\ \A q \in Request :
                             work'[q].op = "switch" /\ work'[q].tok = t => work'[q].ver # holder'.version
    BY <1>2 DEF VersionsEnd
  <2>2. /\ token'[t].issued = token[t].issued /\ token'[t].password = token[t].password
        /\ {"change", "lost"} \cap token[t].raced = {}
    BY <1>2, <1>6, <2>1
  <2>3. \A q \in Request : work'[q].op = "switch" => work'[q] = work[q] /\ q \in Session!Open
    BY <1>4, OpenWork
  <2>4. CASE c.by = "rights"
    BY <1>3, <2>1, <2>2, <2>3, <2>4 DEF RaceInv, VersionsEnd
  <2>5. CASE c.by # "rights"
    <3>1. t \notin Session!Missed(c)
      BY <1>2, <2>1
    <3> QED
      BY <1>3, <2>2, <2>3, <2>5, <3>1 DEF Session!Missed
  <2> QED
    BY <2>4, <2>5
<1> QED
  BY <1>10, <1>11, <1>12, <1>13, <1>14 DEF RaceInv

LEMMA RaceStep ==
  ASSUME Session!TypeOK, FamilyInv, RaceInv, [Session!Next]_Session!vars
  PROVE  RaceInv'
<1>1. ASSUME NEW r \in Request, Session!CommitReplay(r) PROVE RaceInv'
  <2>1. Session!Kill(work[r].seen) /\ Session!Ends(r) /\ holder' = holder /\ rights' = rights
    BY <1>1 DEF Session!CommitReplay
  <2>2. \A q \in Request : work'[q] = work[q] \/ NewWork(q)
    BY <2>1, WorkEnds, RaceBeside
  <2> QED
    BY <2>1, <2>2, RaceKilled
<1>2. ASSUME NEW t, Session!RefuseRotation(t) \/ Session!Logout(t) \/ Session!RevokeSession(t)
      PROVE  RaceInv'
  <2>1. Session!Kill({t}) /\ work' = work /\ holder' = holder /\ rights' = rights
    BY <1>2 DEF Session!RefuseRotation, Session!Logout, Session!RevokeSession
  <2> QED
    BY <2>1, RaceKilled
<1>3. ASSUME token' = token, Session!Tokens' = Session!Tokens, holder' = holder, rights' = rights,
             \A q \in Request : work'[q] = work[q] \/ NewWork(q)
      PROVE  RaceInv'
  <2>1. \A s \in Session!Tokens : /\ TokenKept(s)
                                /\ token'[s].right = token[s].right
                                /\ token'[s].issued = token[s].issued
    BY <1>3 DEF TokenKept
  <2> QED
    BY <1>3, <2>1, RaceKept
<1>4. ASSUME NEW r \in Request, Session!Abort(r) PROVE RaceInv'
  <2>1. /\ token' = token /\ Session!Tokens' = Session!Tokens /\ Session!Ends(r)
        /\ holder' = holder /\ rights' = rights
    BY <1>4 DEF Session!Abort, Session!Tokens
  <2>2. \A q \in Request : work'[q] = work[q] \/ NewWork(q)
    BY <2>1, WorkEnds, RaceBeside
  <2> QED
    BY <1>3, <2>1, <2>2
<1>5. CASE UNCHANGED Session!vars
  <2>1. /\ token' = token /\ Session!Tokens' = Session!Tokens /\ work' = work
        /\ holder' = holder /\ rights' = rights
    BY <1>5 DEF Session!vars, Session!Tokens
  <2> QED
    BY <1>3, <2>1
<1> QED
  BY <1>1, <1>2, <1>4, <1>5, RaceRead, RaceFlushed, RaceOpened, RaceRotated, RaceSwitched,
     RaceChanged, SessionCases

LEMMA RaceStart ==
  Session!Init => RaceInv
<1> SUFFICES ASSUME Session!Init PROVE RaceInv
  OBVIOUS
<1>1. Session!Tokens = {} /\ Session!Live = {}
  BY SessionInitTypes DEF Session!Init, Session!Live
<1>2. \A r \in Request : work[r].op = "idle"
  BY DEF Session!Init, Session!Idle
<1> QED
  BY <1>1, <1>2 DEF RaceInv, ChangesAreScoped, RevocationReaches, SessionsEnd, SwitchesEnd, VersionsEnd

\* A session outlives a new password, a disabled account or a lost right only by
\* a race with its opening or renewal; an access token, also by a race of two
\* changes that wrote the same auth_version (_revoke_user_sessions, auth.py).
THEOREM SessionsOutliveOnlyByRace ==
  Session!Spec => []OutlivesOnlyByRace
<1>1. RaceInv => OutlivesOnlyByRace
  <2> SUFFICES ASSUME RaceInv PROVE OutlivesOnlyByRace
    OBVIOUS
  <2>1. \A a : Session!Accepted(a) => a.ver = holder.version
    BY DEF Session!Accepted, Session!InMarket, Session!OnPlatform, Session!IdentityHolds
  <2> QED
    BY <2>1 DEF RaceInv, SessionsEnd, VersionsEnd, OutlivesOnlyByRace, Session!OutlivesOnlyByRace
<1>2. Session!TypeOK /\ FamilyInv /\ [Session!Next]_Session!vars => FamilyInv'
  BY FamilyStep
<1>3. Session!TypeOK /\ FamilyInv /\ RaceInv /\ [Session!Next]_Session!vars => RaceInv'
  BY RaceStep
<1> QED
  BY <1>1, <1>2, <1>3, FamilyStart, RaceStart, SessionTypes, PTL DEF Session!Spec

-----------------------------------------------------------------------------
(* Logins: the waits *)

LEMMA LargestIndex ==
  ASSUME NEW n \in Nat, NEW S, S \subseteq 1 .. n, S # {}
  PROVE  Login!Max(S) \in S /\ \A y \in S : Login!Max(S) >= y
<1>1. PICK T : T = {n - i : i \in S}
  OBVIOUS
<1>2. T \in SUBSET Nat /\ T # {}
  <2>1. \A i \in S : n - i \in Nat
    OBVIOUS
  <2>2. PICK i : i \in S
    OBVIOUS
  <2>3. n - i \in T
    BY <1>1, <2>2
  <2> QED
    BY <1>1, <2>1, <2>3
<1>3. PICK d \in T : \A e \in T : d <= e
  <2>1. PICK R : R = {ss \in Nat \X Nat : ss[1] < ss[2]}
    OBVIOUS
  <2>2. IsWellFoundedOn(R, Nat)
    <3>1. R = OpToRel(<, Nat)
      BY <2>1 DEF OpToRel
    <3> QED
      BY <3>1, NatLessThanWellFounded, Zenon
  <2>3. PICK d \in T : \A e \in T : <<e, d>> \notin R
    BY <1>2, <2>2, WFMin
  <2>4. \A e \in T : ~ (e < d)
    BY <1>2, <2>1, <2>3
  <2> QED
    BY <1>2, <2>4
<1>4. PICK i \in S : d = n - i
  BY <1>1, <1>3
<1>5. \A y \in S : i >= y
  <2>1. \A y \in S : n - y \in T /\ y \in Nat
    BY <1>1
  <2> QED
    BY <1>3, <1>4, <2>1
<1> QED
  BY <1>5 DEF Login!Max

LEMMA Rungs ==
  /\ Window \in Nat /\ Len(Ladder) \in Nat /\ DOMAIN Ladder = 1 .. Len(Ladder)
  /\ \A i \in DOMAIN Ladder :
       /\ Ladder[i].failures \in Nat /\ Ladder[i].failures > 1
       /\ Ladder[i].wait \in 0 .. Window
  /\ \A i, j \in DOMAIN Ladder : i <= j => Ladder[i].wait <= Ladder[j].wait
<1>1. /\ Window \in Nat /\ Len(Ladder) \in Nat /\ DOMAIN Ladder = 1 .. Len(Ladder)
      /\ \A i \in DOMAIN Ladder : Ladder[i] \in [failures: Nat, wait: Nat]
  BY LadderAssumption, LenProperties, ElementOfSeq
<1>2. /\ \A i \in DOMAIN Ladder : Ladder[i].failures > 1 /\ Ladder[i].wait <= Window
      /\ \A i, j \in DOMAIN Ladder : i < j => Ladder[i].wait <= Ladder[j].wait
  BY LadderAssumption
<1>3. \A i \in DOMAIN Ladder : i \in Nat /\ Ladder[i].failures \in Nat /\ Ladder[i].wait \in Nat
  BY <1>1
<1>4. \A i \in DOMAIN Ladder : Ladder[i].wait \in 0 .. Window
  BY <1>1, <1>2, <1>3
<1>5. ASSUME NEW i \in DOMAIN Ladder, NEW j \in DOMAIN Ladder, i <= j
      PROVE  Ladder[i].wait <= Ladder[j].wait
  <2>1. i < j \/ i = j
    BY <1>3, <1>5
  <2> QED
    BY <1>2, <1>3, <2>1
<1> QED
  BY <1>1, <1>2, <1>3, <1>4, <1>5

\* The wait is that of the last rung the failures reach.
LEMMA Reached ==
  ASSUME NEW m \in Nat, NEW S, S = {i \in DOMAIN Ladder : m >= Ladder[i].failures}
  PROVE  /\ S = {} => Login!Wait(m) = 0
         /\ S # {} => \E i \in S : Login!Wait(m) = Ladder[i].wait /\ \A j \in S : j <= i
<1>1. CASE S = {}
  BY <1>1 DEF Login!Wait
<1>2. CASE S # {}
  <2>1. S \subseteq 1 .. Len(Ladder)
    BY Rungs
  <2>2. Login!Max(S) \in S /\ \A y \in S : Login!Max(S) >= y
    BY <1>2, <2>1, Rungs, LargestIndex
  <2>3. Login!Wait(m) = Ladder[Login!Max(S)].wait
    BY <1>2 DEF Login!Wait
  <2>4. \A y \in S : y <= Login!Max(S)
    BY <2>1, <2>2
  <2> QED
    BY <1>2, <2>2, <2>3, <2>4
<1> QED
  BY <1>1, <1>2

LEMMA WaitTypes ==
  ASSUME NEW m \in Nat
  PROVE  Login!Wait(m) \in 0 .. Window
<1>1. PICK S : S = {i \in DOMAIN Ladder : m >= Ladder[i].failures}
  OBVIOUS
<1>2. CASE S = {}
  <2>1. Login!Wait(m) = 0
    BY <1>1, <1>2, Reached
  <2> QED
    BY <2>1, Rungs
<1>3. CASE S # {}
  <2>1. PICK i \in S : Login!Wait(m) = Ladder[i].wait
    BY <1>1, <1>3, Reached
  <2> QED
    BY <1>1, <2>1, Rungs
<1> QED
  BY <1>2, <1>3

\* Waits rise with the failures, and the first brings none.
LEMMA WaitsRise ==
  ASSUME NEW m \in Nat, NEW n \in Nat, m <= n
  PROVE  Login!Wait(m) <= Login!Wait(n)
<1>1. PICK S, T : /\ S = {i \in DOMAIN Ladder : m >= Ladder[i].failures}
                  /\ T = {i \in DOMAIN Ladder : n >= Ladder[i].failures}
  OBVIOUS
<1>2. S \subseteq T
  BY <1>1, Rungs
<1>3. CASE S = {}
  <2>1. Login!Wait(m) = 0 /\ Login!Wait(n) \in 0 .. Window
    BY <1>1, <1>3, Reached, WaitTypes
  <2> QED
    BY <2>1, Rungs
<1>4. CASE S # {}
  <2>1. PICK i \in S : Login!Wait(m) = Ladder[i].wait
    BY <1>1, <1>4, Reached
  <2>2. PICK j \in T : Login!Wait(n) = Ladder[j].wait /\ \A k \in T : k <= j
    BY <1>1, <1>2, <1>4, Reached
  <2>3. i <= j /\ i \in DOMAIN Ladder /\ j \in DOMAIN Ladder
    BY <1>1, <1>2, <2>1, <2>2
  <2> QED
    BY <2>1, <2>2, <2>3, Rungs
<1> QED
  BY <1>3, <1>4

LEMMA FirstIsFree ==
  Login!Wait(1) = 0
<1>1. PICK S : S = {i \in DOMAIN Ladder : 1 >= Ladder[i].failures}
  OBVIOUS
<1>2. S = {}
  BY <1>1, Rungs
<1> QED
  BY <1>1, <1>2, Reached

Guess == [at: Nat, nth: Nat]
State == [count: Nat, last: Nat, until: Nat]

LEMMA GuessList ==
  ASSUME NEW w \in Seq(Guess)
  PROVE  /\ Len(w) \in Nat /\ DOMAIN w = 1 .. Len(w)
         /\ \A i \in DOMAIN w : i \in Nat /\ w[i].at \in Nat /\ w[i].nth \in Nat
                              /\ Login!Wait(w[i].nth) \in 0 .. Window
<1>1. Len(w) \in Nat /\ DOMAIN w = 1 .. Len(w) /\ \A i \in DOMAIN w : w[i] \in Guess
  BY LenProperties, ElementOfSeq
<1>2. \A i \in DOMAIN w : i \in Nat /\ w[i].at \in Nat /\ w[i].nth \in Nat
  BY <1>1 DEF Guess
<1> QED
  BY <1>1, <1>2, WaitTypes

LEMMA SameCardinality ==
  \A S : Login!Cardinality(S) = Cardinality(S)
BY DEF Login!Cardinality, Cardinality

\* Time passes, logins end.
LEMMA ProtectedOn ==
  ASSUME NEW s \in State, NEW w \in Seq(Guess), NEW u, IsFiniteSet(u), NEW now \in Nat,
         Protected(s, w, u, now), NEW v, v \subseteq u, NEW later \in Nat, later >= now
  PROVE  Protected(s, w, v, later)
<1>1. /\ Window \in Nat /\ Len(w) \in Nat /\ DOMAIN w = 1 .. Len(w)
      /\ \A i \in DOMAIN w : i \in Nat /\ w[i].at \in Nat /\ w[i].nth \in Nat
                           /\ Login!Wait(w[i].nth) \in 0 .. Window
  BY GuessList, Rungs
<1>2. Cardinality(v) \in Nat /\ Cardinality(u) \in Nat /\ Cardinality(v) <= Cardinality(u)
  BY FS_Subset, FS_CardinalityType
<1>3. Cardinality(Request) \in Nat
  BY LoginAssumption, FS_CardinalityType
<1>4. Chronicle(w, later) /\ Spaced(w)
  BY <1>1 DEF Protected, Chronicle
<1>5. RowFollows(s, w, later)
  <2>1. Len(w) > 0 => Len(w) \in DOMAIN w
    BY <1>1
  <2>2. Len(w) > 0 /\ w[Len(w)].at < now - Window => w[Len(w)].at < later - Window
    BY <1>1, <2>1
  <2> QED
    BY <2>2 DEF Protected, RowFollows
<1>6. Rationed(w, v, later)
  <2>1. ASSUME NEW i \in DOMAIN w, later < w[i].at + Login!Wait(w[i].nth)
        PROVE  /\ w[i].nth <= w[Len(w)].nth
               /\ (Len(w) - i) + Cardinality(v) < Cardinality(Request)
    <3>1. now < w[i].at + Login!Wait(w[i].nth)
      BY <1>1, <2>1
    <3>2. w[i].nth <= w[Len(w)].nth /\ (Len(w) - i) + Cardinality(u) < Cardinality(Request)
      BY <3>1 DEF Protected, Rationed
    <3> QED
      BY <1>1, <1>2, <1>3, <3>2
  <2> QED
    BY <2>1 DEF Rationed
<1> QED
  BY <1>4, <1>5, <1>6 DEF Protected

\* Nobody passes the look while a wait lasts.
LEMMA NobodyPasses ==
  ASSUME NEW s \in State, NEW w \in Seq(Guess), NEW u, NEW now \in Nat,
         Protected(s, w, u, now), s.until <= now, NEW i \in DOMAIN w
  PROVE  now >= w[i].at + Login!Wait(w[i].nth)
<1>1. /\ Window \in Nat /\ Len(w) \in Nat /\ DOMAIN w = 1 .. Len(w)
      /\ \A k \in DOMAIN w : k \in Nat /\ w[k].at \in Nat /\ w[k].nth \in Nat
                           /\ Login!Wait(w[k].nth) \in 0 .. Window
  BY GuessList, Rungs
<1>2. PICK m : m = Len(w)
  OBVIOUS
<1>3. m \in DOMAIN w /\ i <= m /\ m > 0
  BY <1>1, <1>2
<1>4. w[i].at <= w[m].at
  BY <1>1, <1>2, <1>3 DEF Protected, Chronicle
<1>5. SUFFICES ASSUME now < w[i].at + Login!Wait(w[i].nth) PROVE FALSE
  BY <1>1
<1>6. w[i].nth <= w[m].nth
  BY <1>2, <1>5 DEF Protected, Rationed
<1>7. Login!Wait(w[i].nth) <= Login!Wait(w[m].nth)
  BY <1>1, <1>3, <1>6, WaitsRise
<1>8. CASE s.count = 0
  <2>1. w[m].at < now - Window
    BY <1>2, <1>3, <1>8 DEF Protected, RowFollows
  <2> QED
    BY <1>1, <1>3, <1>4, <1>5, <2>1
<1>9. CASE s.count > 0
  <2>1. s.until = IF Login!Wait(w[m].nth) = 0 THEN 0 ELSE w[m].at + Login!Wait(w[m].nth)
    BY <1>2, <1>9 DEF Protected, RowFollows
  <2>2. w[i].at <= now
    BY DEF Protected, Chronicle
  <2> QED
    BY <1>1, <1>3, <1>4, <1>5, <1>7, <2>1, <2>2
<1>10. s.count \in Nat
  BY DEF State
<1> QED
  BY <1>8, <1>9, <1>10

\* So that another login may come under way when none lasts.
LEMMA PassedTheLook ==
  ASSUME NEW s \in State, NEW w \in Seq(Guess), NEW u, NEW now \in Nat,
         Protected(s, w, u, now), s.until <= now, NEW v
  PROVE  Protected(s, w, v, now)
<1>1. \A i \in DOMAIN w : now >= w[i].at + Login!Wait(w[i].nth)
  BY NobodyPasses
<1>2. \A i \in DOMAIN w : w[i].at + Login!Wait(w[i].nth) \in Nat
  BY GuessList, Rungs
<1>3. Rationed(w, v, now)
  BY <1>1, <1>2 DEF Rationed
<1> QED
  BY <1>3 DEF Protected

\* A wrong password: the row and the list start again together, or not.
Guesses(s, w, u, r, x) ==
  /\ clock \in Nat /\ s \in State /\ w \in Seq(Guess) /\ u \in SUBSET Request /\ r \in u
  /\ Protected(s, w, u, clock)
  /\ x = [at |-> clock, nth |-> Login!Nth(w)]

LEMMA Guessed ==
  ASSUME NEW s, NEW w, NEW u, NEW r, NEW x, Guesses(s, w, u, r, x),
         NEW v, v = Append(w, x), NEW t, t = Login!Recorded(s)
  PROVE  v \in Seq(Guess) /\ t \in State /\ Protected(t, v, u \ {r}, clock)
<1> USE DEF Guesses
<1>1. /\ Window \in Nat /\ Len(w) \in Nat /\ DOMAIN w = 1 .. Len(w)
      /\ \A k \in DOMAIN w : k \in Nat /\ w[k].at \in Nat /\ w[k].nth \in Nat
                           /\ Login!Wait(w[k].nth) \in 0 .. Window
  BY GuessList, Rungs
<1>2. PICK m : m = Len(w)
  OBVIOUS
<1>3. s.count \in Nat /\ s.last \in Nat /\ s.until \in Nat
  BY DEF State
<1>4. PICK fresh \in BOOLEAN : fresh = (s.count = 0 \/ s.last < clock - Window)
  OBVIOUS
<1>5. /\ s.count > 0 => m > 0 /\ s.count = w[m].nth /\ s.last = w[m].at
      /\ s.count = 0 => (m > 0 => w[m].at < clock - Window)
  BY <1>2 DEF Protected, RowFollows
<1>6. s.count > 0 \/ s.count = 0
  BY <1>3
<1>7. ASSUME ~fresh PROVE m \in DOMAIN w /\ s.count = w[m].nth /\ w[m].at >= clock - Window
  <2>1. s.count > 0 /\ ~(s.last < clock - Window)
    BY <1>4, <1>7, <1>6
  <2>2. m > 0 /\ s.count = w[m].nth /\ s.last = w[m].at
    BY <1>5, <2>1
  <2>3. m \in DOMAIN w
    BY <1>1, <1>2, <2>2
  <2>4. ~(w[m].at < clock - Window) /\ w[m].at \in Nat
    BY <1>1, <2>1, <2>2, <2>3
  <2> QED
    BY <1>1, <2>2, <2>3, <2>4
<1>8. ASSUME fresh PROVE m = 0 \/ w[m].at < clock - Window
  <2>1. CASE s.count = 0
    BY <1>1, <1>2, <1>5, <2>1
  <2>2. CASE s.count > 0
    BY <1>4, <1>8, <1>5, <2>2
  <2> QED
    BY <1>6, <2>1, <2>2
<1>9. x.at = clock /\ x.nth = IF fresh THEN 1 ELSE w[m].nth + 1
  <2>1. CASE m = 0
    <3>1. w = <<>>
      BY <1>2, <2>1, EmptySeq
    <3> QED
      BY <1>1, <1>2, <1>7, <2>1, <3>1 DEF Login!Nth
  <2>2. CASE m # 0
    <3>1. w # <<>> /\ m \in DOMAIN w
      BY <1>1, <1>2, <2>2
    <3>2. (w[m].at < clock - Window) = fresh
      BY <1>1, <1>7, <1>8, <2>2, <3>1
    <3> QED
      BY <1>2, <3>1, <3>2 DEF Login!Nth, Login!Last
  <2> QED
    BY <2>1, <2>2
<1>10. x \in Guess /\ x.at \in Nat /\ x.nth \in Nat /\ x.nth >= 1
  <2>1. x.nth \in Nat /\ x.nth >= 1
    BY <1>1, <1>7, <1>9
  <2> QED
    BY <1>9, <2>1 DEF Guess
<1>11. /\ v \in Seq(Guess) /\ Len(v) = m + 1 /\ DOMAIN v = 1 .. m + 1
       /\ \A i \in DOMAIN w : v[i] = w[i]
       /\ v[m + 1] = x
  <2>1. v \in Seq(Guess) /\ Len(v) = m + 1 /\ v[m + 1] = x /\ \A i \in 1 .. m : v[i] = w[i]
    BY <1>2, <1>10, AppendProperties
  <2>2. DOMAIN v = 1 .. m + 1
    BY <2>1, LenProperties
  <2> QED
    BY <1>1, <1>2, <2>1, <2>2
<1>12. PICK d : d = Login!Wait(x.nth)
  OBVIOUS
<1>13. d \in 0 .. Window /\ d \in Nat
  BY <1>1, <1>10, <1>12, WaitTypes
<1>14. t.count = x.nth /\ t.last = clock /\ t.until = (IF d = 0 THEN 0 ELSE clock + d) /\ t \in State
  <2>1. CASE fresh
    <3>1. t = [count |-> 1, last |-> clock, until |-> 0]
      BY <1>4, <2>1 DEF Login!Recorded
    <3>2. x.nth = 1 /\ d = 0
      BY <1>9, <1>12, <2>1, FirstIsFree
    <3> QED
      BY <3>1, <3>2 DEF State
  <2>2. CASE ~fresh
    <3>1. x.nth = s.count + 1
      BY <1>7, <1>9, <2>2
    <3>2. t = [count |-> s.count + 1, last |-> clock, until |-> IF d = 0 THEN 0 ELSE clock + d]
      BY <1>4, <1>12, <2>2, <3>1 DEF Login!Recorded
    <3>3. s.count + 1 \in Nat /\ (IF d = 0 THEN 0 ELSE clock + d) \in Nat
      BY <1>3, <1>13
    <3> QED
      BY <3>1, <3>2, <3>3 DEF State
  <2> QED
    BY <2>1, <2>2
<1>15. ASSUME NEW i \in DOMAIN v
       PROVE  i \in Nat /\ (i = m + 1 \/ (i \in DOMAIN w /\ i <= m))
  <2>1. m \in Nat /\ DOMAIN w = 1 .. m /\ i \in 1 .. m + 1
    BY <1>1, <1>2, <1>11
  <2> QED
    BY <2>1
<1>16. \A i \in DOMAIN w : w[i].at <= clock /\ w[i].nth >= 1
  BY DEF Protected, Chronicle
<1>17. Chronicle(v, clock)
  <2>1. \A i \in DOMAIN v : v[i].at <= clock /\ v[i].nth >= 1
    BY <1>9, <1>10, <1>11, <1>15, <1>16
  <2>2. \A i, j \in DOMAIN v : i <= j => v[i].at <= v[j].at
    <3>1. SUFFICES ASSUME NEW i \in DOMAIN v, NEW j \in DOMAIN v, i <= j PROVE v[i].at <= v[j].at
      OBVIOUS
    <3>2. CASE j = m + 1
      BY <1>9, <1>11, <2>1, <3>2
    <3>3. CASE j # m + 1
      <4>1. j \in DOMAIN w /\ i \in DOMAIN w
        BY <1>1, <1>2, <1>15, <3>1, <3>3
      <4> QED
        BY <1>11, <3>1, <4>1 DEF Protected, Chronicle
    <3> QED
      BY <3>2, <3>3
  <2> QED
    BY <2>1, <2>2 DEF Chronicle
<1>18. RowFollows(t, v, clock)
  <2>1. t.count > 0 /\ t.count # 0
    BY <1>10, <1>14
  <2> QED
    BY <1>1, <1>2, <1>9, <1>11, <1>12, <1>14, <2>1 DEF RowFollows
<1>19. /\ Cardinality(Request) \in Nat /\ Cardinality(u) \in Nat
       /\ Cardinality(u \ {r}) = Cardinality(u) - 1 /\ Cardinality(u) <= Cardinality(Request)
       /\ Cardinality(u) >= 1
  <2>1. IsFiniteSet(u) /\ IsFiniteSet(u \ {r}) /\ Cardinality(u) <= Cardinality(Request)
    BY LoginAssumption, FS_Subset
  <2>2. Cardinality(u \ {r}) = Cardinality(u) - 1 /\ Cardinality(u) \in Nat
        /\ Cardinality(u \ {r}) \in Nat /\ Cardinality(Request) \in Nat
    BY <2>1, LoginAssumption, FS_RemoveElement, FS_CardinalityType
  <2> QED
    BY <2>1, <2>2
<1>20. ASSUME NEW i \in DOMAIN w, clock < w[i].at + Login!Wait(w[i].nth)
       PROVE  /\ w[i].nth <= x.nth
              /\ (m - i) + Cardinality(u) < Cardinality(Request)
  <2>1. w[i].nth <= w[m].nth /\ (m - i) + Cardinality(u) < Cardinality(Request)
    BY <1>2, <1>20 DEF Protected, Rationed
  <2>2. m \in DOMAIN w /\ i <= m
    BY <1>1, <1>2
  <2>3. w[i].at <= w[m].at
    BY <2>2 DEF Protected, Chronicle
  <2>4. ~fresh
    BY <1>1, <1>8, <1>20, <2>2, <2>3
  <2> QED
    BY <1>1, <1>9, <2>1, <2>2, <2>4
<1>21. Rationed(v, u \ {r}, clock)
  <2>1. SUFFICES ASSUME NEW i \in DOMAIN v, clock < v[i].at + Login!Wait(v[i].nth)
                 PROVE  /\ v[i].nth <= x.nth
                        /\ ((m + 1) - i) + Cardinality(u \ {r}) < Cardinality(Request)
    BY <1>11 DEF Rationed
  <2>2. CASE i = m + 1
    BY <1>1, <1>2, <1>10, <1>11, <1>19, <2>2
  <2>3. CASE i \in DOMAIN w
    BY <1>1, <1>2, <1>11, <1>19, <1>20, <2>1, <2>3
  <2> QED
    BY <1>15, <2>2, <2>3
<1>22. Spaced(v)
  <2>1. SUFFICES ASSUME NEW i \in DOMAIN v, NEW j \in DOMAIN v, j >= i + Cardinality(Request)
                 PROVE  v[j].at >= v[i].at + Login!Wait(v[i].nth)
    BY DEF Spaced
  <2>2. i \in DOMAIN w /\ j > i
    BY <1>1, <1>2, <1>15, <1>19, <2>1
  <2>3. CASE j \in DOMAIN w
    BY <1>11, <2>1, <2>2, <2>3 DEF Protected, Spaced
  <2>4. CASE j = m + 1
    <3>1. ~(clock < w[i].at + Login!Wait(w[i].nth))
      BY <1>1, <1>2, <1>19, <1>20, <2>1, <2>2, <2>4
    <3> QED
      BY <1>1, <1>9, <1>11, <2>2, <2>4, <3>1
  <2> QED
    BY <1>15, <2>3, <2>4
<1> QED
  BY <1>11, <1>14, <1>17, <1>18, <1>21, <1>22 DEF Protected

LEMMA LoginFields ==
  ASSUME Login!TypeOK
  PROVE  /\ clock \in Nat /\ clock + 1 \in Nat
         /\ \A k \in Pair : row[k] \in State /\ wrong[k] \in Seq(Guess)
         /\ \A k \in Pair : With(k) \in SUBSET Request /\ IsFiniteSet(With(k))
         /\ \A r \in Login!Under : r \in Request /\ login[r].pair \in Pair /\ r \in With(login[r].pair)
<1>1. clock \in Nat /\ clock + 1 \in Nat
  BY LoginAssumption DEF Login!TypeOK
<1>2. \A k \in Pair : row[k] \in State /\ wrong[k] \in Seq(Guess)
  BY DEF Login!TypeOK, State, Guess
<1>3. \A k \in Pair : With(k) \in SUBSET Request /\ IsFiniteSet(With(k))
  BY LoginAssumption, FS_Subset DEF With, Login!Under
<1>4. \A r \in Login!Under : r \in Request /\ login[r].pair \in Pair
  BY DEF Login!TypeOK, Login!Under
<1> QED
  BY <1>1, <1>2, <1>3, <1>4 DEF With

\* A login that ends is with no pair any more.
LEMMA LoginEnds ==
  ASSUME Login!TypeOK, NEW r \in Login!Under, Login!Ends(r)
  PROVE  /\ login' \in [Request -> [pair: Pair, right: BOOLEAN] \cup {Login!NoLogin}]
         /\ \A k \in Pair : With(k)' = With(k) \ {r}
<1>1. r \in Request /\ login' = [login EXCEPT ![r] = Login!NoLogin]
  BY DEF Login!Ends, Login!Under
<1>2. /\ login \in [Request -> [pair: Pair, right: BOOLEAN] \cup {Login!NoLogin}]
      /\ login' \in [Request -> [pair: Pair, right: BOOLEAN] \cup {Login!NoLogin}]
      /\ login'[r] = Login!NoLogin /\ \A q \in Request : q # r => login'[q] = login[q]
  BY <1>1 DEF Login!TypeOK
<1> QED
  BY <1>1, <1>2 DEF With, Login!Under

LEMMA LoginKept ==
  ASSUME Login!TypeOK, LoginInv, clock' \in Nat, clock' >= clock,
         NEW k \in Pair, row'[k] = row[k], wrong'[k] = wrong[k], With(k)' \subseteq With(k)
  PROVE  Protected(row'[k], wrong'[k], With(k)', clock')
<1>1. Protected(row[k], wrong[k], With(k), clock)
  BY DEF LoginInv
<1> QED
  BY <1>1, LoginFields, ProtectedOn

LEMMA LoginBegins ==
  ASSUME Login!TypeOK, LoginInv, NEW r \in Request, NEW k \in Pair, NEW right \in BOOLEAN,
         Login!Begin(r, k, right)
  PROVE  Login!TypeOK' /\ LoginInv'
<1>1. /\ login[r] = Login!NoLogin /\ row[k].until <= clock
      /\ login' = [login EXCEPT ![r] = [pair |-> k, right |-> right]]
      /\ clock' = clock /\ row' = row /\ wrong' = wrong
  BY DEF Login!Begin
<1>2. /\ login' \in [Request -> [pair: Pair, right: BOOLEAN] \cup {Login!NoLogin}]
      /\ login'[r].pair = k /\ \A q \in Request : q # r => login'[q] = login[q]
  BY <1>1 DEF Login!TypeOK
<1>3. \A l \in Pair : l # k => With(l)' \subseteq With(l)
  BY <1>2 DEF With, Login!Under
<1>4. Login!TypeOK'
  BY <1>1, <1>2 DEF Login!TypeOK
<1>5. ASSUME NEW l \in Pair PROVE Protected(row'[l], wrong'[l], With(l)', clock')
  <2>1. CASE l = k
    <3>1. Protected(row[k], wrong[k], With(k), clock)
      BY DEF LoginInv
    <3>2. Protected(row[k], wrong[k], With(k)', clock)
      BY <1>1, <3>1, LoginFields, PassedTheLook
    <3> QED
      BY <1>1, <2>1, <3>2
  <2>2. CASE l # k
    BY <1>1, <1>3, <2>2, LoginFields, LoginKept
  <2> QED
    BY <2>1, <2>2
<1> QED
  BY <1>4, <1>5 DEF LoginInv

LEMMA LoginFails ==
  ASSUME Login!TypeOK, LoginInv, NEW r \in Request, Login!Fail(r)
  PROVE  Login!TypeOK' /\ LoginInv'
<1>1. PICK k : k = login[r].pair
  OBVIOUS
<1>2. /\ r \in Login!Under /\ k \in Pair /\ r \in With(k) /\ Login!Ends(r)
      /\ row' = [row EXCEPT ![k] = Login!Recorded(@)]
      /\ wrong' = [wrong EXCEPT ![k] = Append(@, [at |-> clock, nth |-> Login!Nth(@)])]
      /\ clock' = clock
  BY <1>1, LoginFields DEF Login!Fail
<1>3. PICK x, v, t : /\ x = [at |-> clock, nth |-> Login!Nth(wrong[k])]
                     /\ v = Append(wrong[k], x) /\ t = Login!Recorded(row[k])
  OBVIOUS
<1>4. v \in Seq(Guess) /\ t \in State /\ Protected(t, v, With(k) \ {r}, clock)
  <2>1. Protected(row[k], wrong[k], With(k), clock)
    BY <1>2 DEF LoginInv
  <2>2. PICK s, w, u : s = row[k] /\ w = wrong[k] /\ u = With(k)
    OBVIOUS
  <2>3. clock \in Nat /\ s \in State /\ w \in Seq(Guess) /\ u \in SUBSET Request /\ r \in u
    BY <1>2, <2>2, LoginFields
  <2>4. Guesses(s, w, u, r, x) /\ v = Append(w, x) /\ t = Login!Recorded(s)
    BY <1>3, <2>1, <2>2, <2>3 DEF Guesses
  <2>5. v \in Seq(Guess) /\ t \in State /\ Protected(t, v, u \ {r}, clock)
    BY <2>4, Guessed
  <2> QED
    BY <2>2, <2>5
<1>5. /\ row' \in [Pair -> State] /\ wrong' \in [Pair -> Seq(Guess)]
      /\ row'[k] = t /\ wrong'[k] = v
      /\ \A l \in Pair : l # k => row'[l] = row[l] /\ wrong'[l] = wrong[l]
  BY <1>2, <1>3, <1>4 DEF Login!TypeOK, State, Guess
<1>6. /\ login' \in [Request -> [pair: Pair, right: BOOLEAN] \cup {Login!NoLogin}]
      /\ \A l \in Pair : With(l)' = With(l) \ {r}
  BY <1>2, LoginEnds
<1>7. Login!TypeOK'
  BY <1>2, <1>5, <1>6 DEF Login!TypeOK, State, Guess
<1>8. ASSUME NEW l \in Pair PROVE Protected(row'[l], wrong'[l], With(l)', clock')
  <2>1. CASE l = k
    BY <1>2, <1>4, <1>5, <1>6, <2>1
  <2>2. CASE l # k
    BY <1>2, <1>5, <1>6, <2>2, LoginFields, LoginKept
  <2> QED
    BY <2>1, <2>2
<1> QED
  BY <1>7, <1>8 DEF LoginInv

\* A login that succeeds leaves neither a row nor a wrong password.
LEMMA LoginSucceeds ==
  ASSUME Login!TypeOK, LoginInv, NEW r \in Request, Login!Succeed(r)
  PROVE  Login!TypeOK' /\ LoginInv'
<1>1. PICK k : k = login[r].pair
  OBVIOUS
<1>2. /\ r \in Login!Under /\ k \in Pair /\ Login!Ends(r)
      /\ row' = [row EXCEPT ![k] = Login!NoRow] /\ wrong' = [wrong EXCEPT ![k] = <<>>]
      /\ clock' = clock
  BY <1>1, LoginFields DEF Login!Succeed
<1>3. Login!NoRow \in State /\ <<>> \in Seq(Guess)
  BY DEF Login!NoRow, State
<1>4. /\ row' \in [Pair -> State] /\ wrong' \in [Pair -> Seq(Guess)]
      /\ row'[k] = Login!NoRow /\ wrong'[k] = <<>>
      /\ \A l \in Pair : l # k => row'[l] = row[l] /\ wrong'[l] = wrong[l]
  BY <1>2, <1>3 DEF Login!TypeOK, State, Guess
<1>5. /\ login' \in [Request -> [pair: Pair, right: BOOLEAN] \cup {Login!NoLogin}]
      /\ \A l \in Pair : With(l)' = With(l) \ {r}
  BY <1>2, LoginEnds
<1>6. Login!TypeOK'
  BY <1>2, <1>4, <1>5 DEF Login!TypeOK, State, Guess
<1>7. \A u, now : Protected(Login!NoRow, <<>>, u, now)
  BY EmptySeq DEF Protected, Chronicle, RowFollows, Rationed, Spaced, Login!NoRow
<1>8. ASSUME NEW l \in Pair PROVE Protected(row'[l], wrong'[l], With(l)', clock')
  <2>1. CASE l = k
    BY <1>4, <1>7, <2>1
  <2>2. CASE l # k
    <3>1. /\ row'[l] = row[l] /\ wrong'[l] = wrong[l] /\ With(l)' \subseteq With(l)
          /\ clock' \in Nat /\ clock' >= clock
      BY <1>2, <1>4, <1>5, <2>2, LoginFields
    <3> QED
      BY <3>1, LoginKept
  <2> QED
    BY <2>1, <2>2
<1> QED
  BY <1>6, <1>8 DEF LoginInv

\* Cleanup drops rows of which the window is long over.
LEMMA LoginCleans ==
  ASSUME Login!TypeOK, LoginInv, Login!Cleanup
  PROVE  Login!TypeOK' /\ LoginInv'
<1>1. PICK old : old = {k \in Pair : row[k].count > 0 /\ row[k].last < clock - Retention}
  OBVIOUS
<1>2. /\ row' = [k \in Pair |-> IF k \in old THEN Login!NoRow ELSE row[k]]
      /\ clock' = clock /\ login' = login /\ wrong' = wrong
  BY <1>1 DEF Login!Cleanup
<1>3. row' \in [Pair -> State] /\ Login!NoRow \in State
  BY <1>2 DEF Login!TypeOK, State, Login!NoRow
<1>4. Login!TypeOK'
  BY <1>2, <1>3 DEF Login!TypeOK, State
<1>5. \A l \in Pair : With(l)' = With(l)
  BY <1>2 DEF With, Login!Under
<1>6. ASSUME NEW l \in Pair PROVE Protected(row'[l], wrong'[l], With(l)', clock')
  <2>1. CASE l \in old
    <3>1. PICK s, w : s = row[l] /\ w = wrong[l]
      OBVIOUS
    <3>2. Protected(s, w, With(l), clock) /\ s \in State /\ clock \in Nat /\ w \in Seq(Guess)
      BY <3>1, LoginFields DEF LoginInv
    <3>3. s.count > 0 /\ s.last < clock - Retention /\ s.last \in Nat
      BY <1>1, <2>1, <3>1, <3>2 DEF State
    <3>4. Len(w) > 0 /\ s.last = w[Len(w)].at
      BY <3>2, <3>3 DEF Protected, RowFollows
    <3>5. s.last < clock - Window
      BY <3>2, <3>3, Rungs, LoginAssumption
    <3>6. RowFollows(Login!NoRow, w, clock)
      BY <3>4, <3>5 DEF RowFollows, Login!NoRow
    <3>7. Protected(Login!NoRow, w, With(l), clock)
      BY <3>2, <3>6 DEF Protected
    <3> QED
      BY <1>2, <1>5, <2>1, <3>1, <3>7
  <2>2. CASE l \notin old
    BY <1>2, <1>5, <2>2 DEF LoginInv
  <2> QED
    BY <2>1, <2>2
<1> QED
  BY <1>4, <1>6 DEF LoginInv

LEMMA LoginStep ==
  ASSUME Login!TypeOK, LoginInv, [Login!Next]_Login!vars
  PROVE  Login!TypeOK' /\ LoginInv'
<1>1. ASSUME NEW r \in Request, Login!RollBack(r) PROVE Login!TypeOK' /\ LoginInv'
  <2>1. r \in Login!Under /\ Login!Ends(r) /\ clock' = clock /\ row' = row /\ wrong' = wrong
    BY <1>1 DEF Login!RollBack
  <2>2. /\ login' \in [Request -> [pair: Pair, right: BOOLEAN] \cup {Login!NoLogin}]
        /\ \A l \in Pair : With(l)' \subseteq With(l)
    BY <2>1, LoginEnds
  <2>3. Login!TypeOK'
    BY <2>1, <2>2 DEF Login!TypeOK
  <2>4. clock' \in Nat /\ clock' >= clock
    BY <2>1, LoginFields
  <2> QED
    BY <2>1, <2>2, <2>3, <2>4, LoginKept DEF LoginInv
<1>2. ASSUME Login!Tick PROVE Login!TypeOK' /\ LoginInv'
  <2>1. clock < MaxClock /\ clock' = clock + 1 /\ login' = login /\ row' = row /\ wrong' = wrong
    BY <1>2 DEF Login!Tick
  <2>2. \A l \in Pair : With(l)' \subseteq With(l)
    BY <2>1 DEF With, Login!Under
  <2>3. clock' \in Nat /\ clock' >= clock
    BY <2>1, LoginFields
  <2>4. Login!TypeOK'
    BY <2>1, LoginAssumption DEF Login!TypeOK
  <2> QED
    BY <2>1, <2>2, <2>3, <2>4, LoginKept DEF LoginInv
<1>3. CASE UNCHANGED Login!vars
  <2>1. clock' = clock /\ login' = login /\ row' = row /\ wrong' = wrong
    BY <1>3 DEF Login!vars
  <2>2. \A l \in Pair : With(l)' = With(l)
    BY <2>1 DEF With, Login!Under
  <2> QED
    BY <2>1, <2>2 DEF Login!TypeOK, LoginInv
<1> QED
  BY <1>1, <1>2, <1>3, LoginBegins, LoginFails, LoginSucceeds, LoginCleans DEF Login!Next

LEMMA LoginStart ==
  Login!Init => Login!TypeOK /\ LoginInv
<1> SUFFICES ASSUME Login!Init PROVE Login!TypeOK /\ LoginInv
  OBVIOUS
<1>1. Login!TypeOK
  BY LoginAssumption DEF Login!Init, Login!TypeOK, Login!NoRow
<1>2. \A u, now : Protected(Login!NoRow, <<>>, u, now)
  BY EmptySeq DEF Protected, Chronicle, RowFollows, Rationed, Spaced, Login!NoRow
<1>3. \A k \in Pair : row[k] = Login!NoRow /\ wrong[k] = <<>>
  BY DEF Login!Init
<1> QED
  BY <1>1, <1>2, <1>3 DEF LoginInv

\* After the n-th wrong password of a pair only the guesses under way then come
\* before its wait is over, and a pair waits for its own only
\* (enforce_login_cooldown, record_login_failure).
THEOREM GuessesAlwaysRationed ==
  Login!Spec => []GuessesAreRationed
<1>1. Login!TypeOK /\ LoginInv => GuessesAreRationed
  <2> SUFFICES ASSUME Login!TypeOK, LoginInv PROVE GuessesAreRationed
    OBVIOUS
  <2>1. SUFFICES ASSUME NEW k \in Pair
                 PROVE  /\ \A i, j \in DOMAIN wrong[k] :
                             j >= i + Cardinality(Request) =>
                               wrong[k][j].at >= wrong[k][i].at + Login!Wait(wrong[k][i].nth)
                        /\ row[k].until > clock =>
                             wrong[k] # <<>> /\ Login!Wait(Login!Last(wrong[k]).nth) > 0
    BY SameCardinality DEF GuessesAreRationed, Login!GuessesAreRationed
  <2>2. PICK s, w, m : s = row[k] /\ w = wrong[k] /\ m = Len(w)
    OBVIOUS
  <2>3. Protected(s, w, With(k), clock) /\ s \in State /\ clock \in Nat /\ w \in Seq(Guess)
    BY <2>2, LoginFields DEF LoginInv
  <2>4. ASSUME s.until > clock PROVE w # <<>> /\ Login!Wait(w[m].nth) > 0
    <3>1. s.count \in Nat /\ s.count # 0
      <4>1. s.count \in Nat
        BY <2>3 DEF State
      <4>2. s.count = 0 => s.until = 0
        BY <2>3 DEF Protected, RowFollows
      <4> QED
        BY <2>3, <2>4, <4>1, <4>2
    <3>2. /\ m > 0
          /\ s.until = IF Login!Wait(w[m].nth) = 0 THEN 0 ELSE w[m].at + Login!Wait(w[m].nth)
      BY <2>2, <2>3, <3>1 DEF Protected, RowFollows
    <3>3. m \in Nat /\ DOMAIN w = 1 .. m /\ w # <<>>
      BY <2>2, <2>3, <3>2, GuessList
    <3>4. m \in DOMAIN w /\ Login!Wait(w[m].nth) \in 0 .. Window
      BY <2>3, <3>2, <3>3, GuessList
    <3> QED
      BY <2>3, <2>4, <3>2, <3>3, <3>4, Rungs
  <2>5. Login!Last(w) = w[m]
    BY <2>2 DEF Login!Last
  <2> QED
    BY <2>2, <2>3, <2>4, <2>5 DEF Protected, Spaced
<1>2. Login!TypeOK /\ LoginInv /\ [Login!Next]_Login!vars => Login!TypeOK' /\ LoginInv'
  BY LoginStep
<1> QED
  BY <1>1, <1>2, LoginStart, PTL DEF Login!Spec

\* Every variable of the logins keeps its type.
THEOREM LoginTypes ==
  Login!Spec => []Login!TypeOK
<1>1. Login!TypeOK /\ LoginInv /\ [Login!Next]_Login!vars => Login!TypeOK' /\ LoginInv'
  BY LoginStep
<1> QED
  BY <1>1, LoginStart, PTL DEF Login!Spec

=============================================================================
