-------------------------------- MODULE Access --------------------------------
(***************************************************************************)
(* Who may come in: the accounts with their invitations, the sessions of   *)
(* one account, and the waits of who guesses a password.  Accounts asks    *)
(* whose account is open and knows no session, RefreshSessions the other   *)
(* way round, LoginProtection neither: a behaviour moves one of them,      *)
(* `part', and the others stay as they are at first.                       *)
(***************************************************************************)
EXTENDS Accounts

CONSTANTS Market, Home, Platform, Granted, MaxWork                     \* of RefreshSessions
CONSTANTS Pair, Ladder, Window, Retention, MaxClock, MaxGuesses        \* of LoginProtection

ASSUME RightAssumption == Platform \notin Market /\ Granted \subseteq Market \cup {Platform}

\* The waits of record_login_failure rise, none comes with the first failure and
\* none is longer than the window (settings of config.py).
ASSUME LadderAssumption ==
  /\ Ladder \in Seq([failures: Nat, wait: Nat]) /\ Window \in Nat
  /\ \A i \in DOMAIN Ladder : Ladder[i].failures > 1 /\ Ladder[i].wait <= Window
  /\ \A i, j \in DOMAIN Ladder :
       i < j => Ladder[i].failures < Ladder[j].failures /\ Ladder[i].wait <= Ladder[j].wait

ASSUME LoginAssumption ==
  /\ IsFiniteSet(Request)
  /\ Retention \in Nat /\ Window < Retention
  /\ MaxClock \in Nat \ {0}

VARIABLES part, holder, rights, token, work, replayed, changes
VARIABLES clock, row, login, wrong

guards == <<clock, row, login, wrong>>
tokens == <<holder, rights, token, work, replayed, changes>>
sessions == <<part, tokens, guards>>
accounts == <<part, vars, guards>>
others == <<part, vars, tokens>>

Session == INSTANCE RefreshSessions WITH user <- holder, txn <- work

Login == INSTANCE LoginProtection

InitAny == part \in {"accounts", "session", "login"} /\ Init /\ Session!Init /\ Login!Init

OnAccount ==
  \/ \E p \in Person : part = "accounts" /\ Grant(p) /\ UNCHANGED sessions
  \/ \E p \in Person : part = "accounts" /\ Provision(p) /\ UNCHANGED sessions
  \/ \E p \in Person : part = "accounts" /\ AnonymizeMyData(p) /\ UNCHANGED sessions
  \/ \E r \in Request, p \in Person : part = "accounts" /\ Reactivate(r, p) /\ UNCHANGED sessions
  \/ \E r \in Request, p \in Person : part = "accounts" /\ BeginIssue(r, p) /\ UNCHANGED sessions
  \/ \E r \in Request, p \in Person, op \in Removal : part = "accounts" /\ BeginRemoval(r, op, p) /\ UNCHANGED sessions
  \/ \E r \in Request, i \in Invitations : part = "accounts" /\ BeginActivation(r, i) /\ UNCHANGED sessions
  \/ \E r \in Request : part = "accounts" /\ Guard(r) /\ UNCHANGED sessions
  \/ \E r \in Request : part = "accounts" /\ CommitRemoval(r) /\ UNCHANGED sessions
  \/ \E r \in Request : part = "accounts" /\ CommitIssue(r) /\ UNCHANGED sessions
  \/ \E r \in Request : part = "accounts" /\ CommitActivation(r) /\ UNCHANGED sessions
  \/ \E r \in Request : part = "accounts" /\ Abort(r) /\ UNCHANGED sessions

OnToken ==
  \/ \E r \in Request, t \in Session!Tokens : part = "session" /\ Session!BeginRotation(r, t) /\ UNCHANGED accounts
  \/ \E r \in Request, t \in Session!Tokens : part = "session" /\ Session!BeginReplay(r, t) /\ UNCHANGED accounts
  \/ \E r \in Request, t \in Session!Tokens, m \in Market : part = "session" /\ Session!BeginSwitch(r, t, m) /\ UNCHANGED accounts
  \/ \E t \in Session!Tokens : part = "session" /\ Session!RefuseRotation(t) /\ UNCHANGED accounts
  \/ \E t \in Session!Tokens : part = "session" /\ Session!Logout(t) /\ UNCHANGED accounts
  \/ \E t \in Session!Tokens : part = "session" /\ Session!RevokeSession(t) /\ UNCHANGED accounts

OnSession(r) ==
  \/ \E x \in Session!Right : part = "session" /\ Session!BeginLogin(r, x) /\ UNCHANGED accounts
  \/ part = "session" /\ Session!ChangePassword(r) /\ UNCHANGED accounts
  \/ part = "session" /\ Session!LogoutAll(r) /\ UNCHANGED accounts
  \/ part = "session" /\ Session!ResetPassword(r) /\ UNCHANGED accounts
  \/ part = "session" /\ Session!Deactivate(r) /\ UNCHANGED accounts
  \/ part = "session" /\ Session!Reactivate(r) /\ UNCHANGED accounts
  \/ \E S \in SUBSET Market : part = "session" /\ Session!ReplaceLinks(r, S) /\ UNCHANGED accounts
  \/ \E m \in Market : part = "session" /\ Session!SuspendAccess(r, m) /\ UNCHANGED accounts
  \/ \E S \in SUBSET {Platform} : part = "session" /\ Session!ReplacePermissions(r, S) /\ UNCHANGED accounts
  \/ part = "session" /\ Session!CommitLogin(r) /\ UNCHANGED accounts
  \/ part = "session" /\ Session!CommitRotation(r) /\ UNCHANGED accounts
  \/ part = "session" /\ Session!CommitReplay(r) /\ UNCHANGED accounts
  \/ part = "session" /\ Session!CommitSwitch(r) /\ UNCHANGED accounts
  \/ part = "session" /\ Session!Flush(r) /\ UNCHANGED accounts
  \/ part = "session" /\ Session!CommitChange(r) /\ UNCHANGED accounts
  \/ part = "session" /\ work[r] # Session!Idle /\ Session!Abort(r) /\ UNCHANGED accounts

OnLogin ==
  \/ \E r \in Request, k \in Pair, right \in BOOLEAN :
       part = "login" /\ Login!Begin(r, k, right) /\ UNCHANGED others
  \/ \E r \in Request : part = "login" /\ Login!Fail(r) /\ UNCHANGED others
  \/ \E r \in Request : part = "login" /\ Login!Succeed(r) /\ UNCHANGED others
  \/ \E r \in Request : part = "login" /\ Login!RollBack(r) /\ UNCHANGED others
  \/ part = "login" /\ Login!Cleanup /\ UNCHANGED others
  \/ part = "login" /\ Login!Tick /\ UNCHANGED others

NextAny == OnAccount \/ OnToken \/ (\E r \in Request : OnSession(r)) \/ OnLogin

SpecAny == InitAny /\ [][NextAny]_<<vars, sessions>>

\* Of RefreshSessions: one token of a family can be exchanged, whatever the
\* tabs of the browser present at once, and none after a replay.
FamiliesDoNotFork == Session!FamiliesDoNotFork

\* Of RefreshSessions: a session outlives what was to end it only when it was
\* being opened or renewed just then, and so do its access tokens, but those
\* issued between two changes that wrote the same auth_version.
OutlivesOnlyByRace == Session!OutlivesOnlyByRace

\* Of LoginProtection: after a wrong password only the guesses already under
\* way come before the wait it brings, and a pair waits for its own only.
GuessesAreRationed == Login!GuessesAreRationed

=============================================================================
