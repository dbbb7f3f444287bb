---------------------------- MODULE RefreshSessions ----------------------------
(***************************************************************************)
(* The sessions of one person: refresh tokens in families, rotated on each *)
(* use, and the changes that are to end them (passwords, deactivations,    *)
(* commercial links, platform permissions).  Each request is a transaction *)
(* of PostgreSQL at READ COMMITTED: it reads, perhaps waits for a row lock,*)
(* and commits; an UPDATE changes the rows its statement saw at its start. *)
(***************************************************************************)
EXTENDS Integers, Sequences, FiniteSets, SequencesExt

CONSTANTS
  Request,     \* transactions that can be open at once
  Market,      \* commercial markets
  Home,        \* home_market of the person, one of Market
  Platform,    \* the right to a platform session, and its tokens' scope; no market
  Granted,     \* the rights the person has at first
  MaxWork      \* bound: refresh tokens, changes that revoke them and switches, together

VARIABLES
  user,        \* the row of users: is_active, password (a counter), auth_version
  rights,      \* markets with an active link, and Platform for a capability
  token,       \* the rows of refresh_tokens, in the order of their insertion
  txn,         \* what each open transaction is doing
  replayed,    \* families of which a spent token was presented
  changes      \* changes and switches begun

vars == <<user, rights, token, txn, replayed, changes>>

-----------------------------------------------------------------------------

Right == Market \cup {Platform}
Idle == [op |-> "idle"]

\* A refresh token with the access tokens that were issued with it. password:
\* with which the family was opened; raced: what its insertion, or that of a
\* token it comes from, overlapped with, and "lost" if a change it followed
\* left auth_version as another one had.
Row == [family: Nat, right: Right, live: BOOLEAN, issued: SUBSET [ver: Nat, right: Right],
        password: Nat, raced: SUBSET {"change", "replay", "lost"}]

\* create_access_token
Access(ver, x) == [ver |-> ver, right |-> x]

Identity == {"password", "logout_all", "disable", "enable"}
Change == [op: {"change", "revoke"}, by: Identity \cup {"rights"}, ver: Nat,
           add: SUBSET Right, drop: SUBSET Right, seen: SUBSET Nat]

Open == {r \in Request : txn[r] # Idle}
Starts(r, work) == txn[r] = Idle /\ txn' = [txn EXCEPT ![r] = work]
Ends(r) == txn' = [txn EXCEPT ![r] = Idle]

Tokens == DOMAIN token
Coming == {r \in Open : txn[r].op \in {"login", "rotate"}}
Room == Len(token) + Cardinality(Coming) + changes < MaxWork
Live == {t \in Tokens : token[t].live}
Family(t) == {s \in Tokens : token[s].family = token[t].family}

\* SELECT ... FOR UPDATE of the token, until the end of the transaction.
Locked(t) == \E r \in Open : txn[r].op \in {"rotate", "replay"} /\ txn[r].tok = t

\* A commercial change reaches the commercial families, and so on.
Scope(x) == IF x = Platform THEN {Platform} ELSE Market
Reach(c) == IF c.by = "rights" THEN Scope(CHOOSE x \in c.drop : TRUE) ELSE Right
Revoking(x) == \E r \in Open : txn[r].op = "revoke" /\ x \in Reach(txn[r])

Insert(row) == token' = Append(token, row)
Kill(S) == token' = [t \in Tokens |-> [token[t] EXCEPT !.live = @ /\ t \notin S]]

Init ==
  /\ user = [active |-> TRUE, password |-> 0, version |-> 0]
  /\ rights = Granted
  /\ token = <<>>
  /\ txn = [r \in Request |-> Idle]
  /\ replayed = {} /\ changes = 0

\* What a transaction is doing.
Work ==
  {Idle} \cup Change
  \cup [op: {"login"}, right: Right, ver: Nat, password: Nat]
  \cup [op: {"rotate"}, tok: Tokens, ver: Nat]
  \cup [op: {"replay"}, tok: Tokens, seen: SUBSET Tokens]
  \cup [op: {"switch"}, tok: Tokens, ver: Nat, right: Market]

TypeOK ==
  /\ user \in [active: BOOLEAN, password: Nat, version: Nat]
  /\ rights \subseteq Right
  /\ token \in Seq(Row)
  /\ txn \in [Request -> Work]
  /\ replayed \subseteq Nat /\ changes \in Nat

-----------------------------------------------------------------------------
(* Requests with an access token, until it expires *)

\* _load_token_identity: the person is active, and nothing raised auth_version
\* since the token was issued.
IdentityHolds(a) == user.active /\ a.ver = user.version

\* get_market_principal: the link of the token's market is still active.
InMarket(a) == IdentityHolds(a) /\ a.right \in Market /\ a.right \in rights

\* get_platform_principal: so is some capability.
OnPlatform(a) == IdentityHolds(a) /\ a.right = Platform /\ Platform \in rights

\* get_authenticated_user: one or the other.
Accepted(a) == InMarket(a) \/ OnPlatform(a)

Issued == UNION {token[t].issued : t \in Tokens}
Present == \E a \in Issued : Accepted(a)

-----------------------------------------------------------------------------
(* Logging in *)

\* _authenticate_credentials reads the user and compares the password; the
\* market is the home one, when it can be.
BeginLogin(r, x) ==
  /\ Room /\ user.active /\ x \in rights
  /\ x \notin {Platform, Home} => Home \notin rights
  /\ Starts(r, [op |-> "login", right |-> x, ver |-> user.version, password |-> user.password])
  /\ UNCHANGED <<user, rights, token, replayed, changes>>

\* login, platform_login: a new family.
CommitLogin(r) ==
  /\ txn[r].op = "login"
  /\ LET x == txn[r].right
         late == txn[r].password # user.password \/ ~user.active \/ x \notin rights \/ Revoking(x)
     IN  Insert([family |-> Len(token) + 1, right |-> x, live |-> TRUE,
                 issued |-> {Access(txn[r].ver, x)}, password |-> txn[r].password,
                 raced |-> IF late THEN {"change"} ELSE {}])
  /\ Ends(r)
  /\ UNCHANGED <<user, rights, replayed, changes>>

-----------------------------------------------------------------------------
(* _rotate_refresh_token *)

Renewable(t) == Room /\ token[t].live /\ user.active

\* Faulty variant: the token is read without FOR UPDATE.
BeginRotationUnlocked(r, t) ==
  /\ Renewable(t) /\ token[t].right \in rights
  /\ Starts(r, [op |-> "rotate", tok |-> t, ver |-> user.version])
  /\ UNCHANGED <<user, rights, token, replayed, changes>>

BeginRotation(r, t) ==
  /\ ~Locked(t) /\ Renewable(t) /\ token[t].right \in rights
  /\ Starts(r, [op |-> "rotate", tok |-> t, ver |-> user.version])
  /\ UNCHANGED <<user, rights, token, replayed, changes>>

\* The token is spent; its child takes its place in the family.
CommitRotation(r) ==
  /\ txn[r].op = "rotate"
  /\ LET t == txn[r].tok
         beside == {k \in {"change"} : Revoking(token[t].right)}
                     \cup {k \in {"replay"} : \E q \in Open : txn[q].op = "replay" /\ t \in txn[q].seen}
     IN  token' = Append([token EXCEPT ![t].live = FALSE],
                         [token[t] EXCEPT !.live = TRUE, !.raced = @ \cup beside,
                                          !.issued = {Access(txn[r].ver, token[t].right)}])
  /\ Ends(r)
  /\ UNCHANGED <<user, rights, replayed, changes>>

\* A token that has expired is revoked, as is one without the access or the
\* capability it was opened with: any token may have expired. (An inactive
\* user is refused and nothing changes.)
RefuseRotation(t) ==
  /\ ~Locked(t) /\ token[t].live
  /\ Kill({t})
  /\ UNCHANGED <<user, rights, txn, replayed, changes>>

\* A spent or revoked token was presented: its row is locked, and the UPDATE
\* of the whole family starts.
BeginReplay(r, t) ==
  /\ ~Locked(t) /\ ~token[t].live
  /\ Starts(r, [op |-> "replay", tok |-> t, seen |-> Family(t)])
  /\ UNCHANGED <<user, rights, token, replayed, changes>>

Waits(r, t) == \E q \in Open \ {r} : txn[q].op \in {"rotate", "replay"} /\ txn[q].tok = t

CommitReplay(r) ==
  /\ txn[r].op = "replay" /\ \A t \in txn[r].seen : ~Waits(r, t)
  /\ Kill(txn[r].seen)
  /\ replayed' = replayed \cup {token[txn[r].tok].family}
  /\ Ends(r)
  /\ UNCHANGED <<user, rights, changes>>

-----------------------------------------------------------------------------
(* One session *)

\* logout, platform_logout: the token of the cookie, not its family. Its row
\* is read without a lock and written by its key.
Logout(t) ==
  /\ ~Locked(t) /\ token[t].live
  /\ Kill({t})
  /\ UNCHANGED <<user, rights, txn, replayed, changes>>

\* revoke_session: any token of the person.
RevokeSession(t) ==
  /\ Present /\ ~Locked(t) /\ token[t].live
  /\ Kill({t})
  /\ UNCHANGED <<user, rights, txn, replayed, changes>>

\* switch_market reads the token without a lock...
BeginSwitch(r, t, m) ==
  /\ m \in rights /\ \E a \in Issued : InMarket(a)
  /\ token[t].live /\ token[t].right \in Market \ {m}
  /\ Room /\ changes' = changes + 1
  /\ Starts(r, [op |-> "switch", tok |-> t, ver |-> user.version, right |-> m])
  /\ UNCHANGED <<user, rights, token, replayed>>

\* ... and writes its market, spent or not, with an access token for it.
CommitSwitch(r) ==
  /\ txn[r].op = "switch" /\ ~Locked(txn[r].tok)
  /\ token' = [token EXCEPT ![txn[r].tok].right = txn[r].right,
                            ![txn[r].tok].issued = @ \cup {Access(txn[r].ver, txn[r].right)}]
  /\ Ends(r)
  /\ UNCHANGED <<user, rights, replayed, changes>>

-----------------------------------------------------------------------------
(* Changes that revoke sessions *)

\* The request reads the user, without a lock.
Begins(r, by, drop, add) ==
  /\ Room /\ changes' = changes + 1
  /\ Starts(r, [op |-> "change", by |-> by, ver |-> user.version, add |-> add, drop |-> drop,
                seen |-> {}])
  /\ UNCHANGED <<user, rights, token, replayed>>

ChangePassword(r) == Present /\ Begins(r, "password", {}, {})
LogoutAll(r) == Present /\ Begins(r, "logout_all", {}, {})
ResetPassword(r) == Begins(r, "password", {}, {})

\* update_user, with is_active or with market_accesses.
Deactivate(r) == user.active /\ Begins(r, "disable", {}, {})
Reactivate(r) == ~user.active /\ Begins(r, "enable", {}, {})
ReplaceLinks(r, links) == Begins(r, "rights", Market, links)

\* suspend_commercial_accesses, for the link of one market.
SuspendAccess(r, m) == m \in rights /\ Begins(r, "rights", {m}, {})

\* replace_platform_permissions
ReplacePermissions(r, granted) == Begins(r, "rights", {Platform}, granted)

\* Both write the row of users, or that of the same link or permission.
SameRow(c, d) == (c.by # "rights" /\ d.by # "rights") \/ c.drop \cap d.drop # {}

\* Faulty variant: the statement reaches one scope only.
FlushMarketOnly(r) ==
  /\ txn[r].op = "change"
  /\ ~ \E q \in Open : txn[q].op = "revoke" /\ SameRow(txn[q], txn[r])
  /\ txn' = [txn EXCEPT ![r].op = "revoke", ![r].seen = {t \in Live : token[t].right \in Market}]
  /\ UNCHANGED <<user, rights, token, replayed, changes>>

\* The rows of the change are written, and stay locked: another change of the
\* same rows waits here. Then the UPDATE of the tokens starts
\* (_revoke_user_sessions).
Flush(r) ==
  /\ txn[r].op = "change"
  /\ ~ \E q \in Open : txn[q].op = "revoke" /\ SameRow(txn[q], txn[r])
  /\ txn' = [txn EXCEPT ![r].op = "revoke",
                        ![r].seen = {t \in Live : token[t].right \in Reach(txn[r])}]
  /\ UNCHANGED <<user, rights, token, replayed, changes>>

Changed(u, c) ==
  [active |-> (u.active \/ c.by = "enable") /\ c.by # "disable",
   password |-> IF c.by = "password" THEN u.password + 1 ELSE u.password,
   version |-> IF c.by \in Identity THEN c.ver + 1 ELSE u.version]

\* Another change that read the same auth_version has come first: what was
\* issued since, or a switch is about to issue, has the version c writes again.
Missed(c) ==
  IF c.by \notin Identity THEN {}
  ELSE {t \in Tokens :
          \/ \E a \in token[t].issued : a.ver = c.ver + 1
          \/ \E q \in Open : txn[q].op = "switch" /\ txn[q].tok = t /\ txn[q].ver = c.ver + 1}

CommitChange(r) ==
  LET c == txn[r]
  IN  /\ c.op = "revoke" /\ \A t \in c.seen : ~Locked(t)
      /\ token' = [t \in Tokens |-> [token[t] EXCEPT
                      !.live = @ /\ t \notin c.seen,
                      !.raced = @ \cup (IF t \in Missed(c) THEN {"lost"} ELSE {})]]
      /\ user' = Changed(user, c)
      /\ rights' = (rights \ c.drop) \cup c.add
      /\ Ends(r)
      /\ UNCHANGED <<replayed, changes>>

-----------------------------------------------------------------------------
(* What happens around *)

\* The process dies, a statement times out, or PostgreSQL ends a deadlock: two
\* replays of a family wait for each other's tokens.
Abort(r) ==
  /\ Ends(r)
  /\ UNCHANGED <<user, rights, token, replayed, changes>>

Proceed(r) ==
  \/ CommitLogin(r) \/ CommitRotation(r) \/ CommitReplay(r) \/ CommitSwitch(r)
  \/ Flush(r) \/ CommitChange(r) \/ Abort(r)

Next ==
  \/ \E r \in Request :
       \/ \E x \in Right : BeginLogin(r, x)
       \/ \E t \in Tokens : BeginRotation(r, t) \/ BeginReplay(r, t) \/ \E m \in Market : BeginSwitch(r, t, m)
       \/ ChangePassword(r) \/ LogoutAll(r) \/ ResetPassword(r)
       \/ Deactivate(r) \/ Reactivate(r)
       \/ \E S \in SUBSET Market : ReplaceLinks(r, S)
       \/ \E m \in Market : SuspendAccess(r, m)
       \/ \E S \in SUBSET {Platform} : ReplacePermissions(r, S)
  \/ \E r \in Open : Proceed(r)
  \/ \E t \in Tokens : RefuseRotation(t) \/ Logout(t) \/ RevokeSession(t)

Spec == Init /\ [][Next]_vars

-----------------------------------------------------------------------------
(* Properties *)

\* The FOR UPDATE of the rotation keeps a family from forking, whatever the
\* tabs of the browser present at once: one token of it can be exchanged, and
\* none once a spent one came back, but by a renewal that was in the middle.
FamiliesDoNotFork ==
  \A s \in Live :
    /\ \A t \in Live : token[s].family = token[t].family => s = t
    /\ token[s].family \in replayed => "replay" \in token[s].raced

\* A session that goes on after the password was changed, the account
\* disabled or its right withdrawn is one that was being opened or renewed
\* just then: _revoke_user_sessions reaches every other one. An access token
\* that is still accepted after a new password is of such a session, or was
\* issued, or being issued, between two changes that wrote the same
\* auth_version.
OutlivesOnlyByRace ==
  /\ \A t \in Live :
       token[t].password # user.password \/ ~user.active \/ token[t].right \notin rights
         => "change" \in token[t].raced
  /\ \A t \in Tokens :
       token[t].password # user.password /\ (\E a \in token[t].issued : Accepted(a))
         => {"change", "lost"} \cap token[t].raced # {}
=============================================================================
