---------------------------- MODULE LoginProtection ----------------------------
(***************************************************************************)
(* The waits imposed on somebody who guesses passwords.  Failures are      *)
(* counted for each pair of what was typed as identifier and where the     *)
(* request came from; from certain counts on, the pair has to wait.  A     *)
(* login looks at the wait first and writes the count after the slow       *)
(* comparison of the password, so that several pass the look together.     *)
(***************************************************************************)
EXTENDS Integers, Sequences, FiniteSets, SequencesExt

CONSTANTS
  Request,     \* logins that can be under way at once
  Pair,        \* fingerprints of an identifier and an origin
  Ladder,      \* sequence of [failures, wait], both rising
  Window,      \* LOGIN_FAILURE_WINDOW_MINUTES; no wait of Ladder is longer
  Retention,   \* LOGIN_ATTEMPT_RETENTION_DAYS; longer than Window
  MaxClock,    \* bound: time
  MaxGuesses   \* bound: wrong passwords, together with logins under way

VARIABLES
  clock,
  row,         \* login_attempt_states; a count of 0 stands for no row
  login,       \* the pair and the password of each login under way
  wrong        \* ghost: for each pair the wrong passwords since its last success

vars == <<clock, row, login, wrong>>

-----------------------------------------------------------------------------

NoRow == [count |-> 0, last |-> 0, until |-> 0]
NoLogin == [pair |-> {}, right |-> FALSE]

Under == {r \in Request : login[r] # NoLogin}
Guesses == FoldSet(LAMBDA k, n : n + Len(wrong[k]), 0, Pair)
Ends(r) == login' = [login EXCEPT ![r] = NoLogin]

\* The wait after so many failures.
Wait(n) ==
  LET reached == {i \in DOMAIN Ladder : n >= Ladder[i].failures}
  IN  IF reached = {} THEN 0 ELSE Ladder[Max(reached)].wait

Init ==
  /\ clock = 1
  /\ row = [k \in Pair |-> NoRow]
  /\ login = [r \in Request |-> NoLogin]
  /\ wrong = [k \in Pair |-> <<>>]

TypeOK ==
  /\ clock \in 1..MaxClock
  /\ row \in [Pair -> [count: Nat, last: Nat, until: Nat]]
  /\ login \in [Request -> [pair: Pair, right: BOOLEAN] \cup {NoLogin}]
  /\ wrong \in [Pair -> Seq([at: Nat, nth: Nat])]

-----------------------------------------------------------------------------

\* enforce_login_cooldown: the pair is not waiting; otherwise 429, and nothing
\* is counted.
Begin(r, k, right) ==
  /\ login[r] = NoLogin /\ Guesses + Cardinality(Under) < MaxGuesses
  /\ row[k].until <= clock
  /\ login' = [login EXCEPT ![r] = [pair |-> k, right |-> right]]
  /\ UNCHANGED <<clock, row, wrong>>

\* Faulty variant: the wait is that of the row before this failure.
RecordedLate(s) ==
  IF s.count = 0 \/ s.last < clock - Window
  THEN [count |-> 1, last |-> clock, until |-> 0]
  ELSE [count |-> s.count + 1, last |-> clock,
        until |-> IF Wait(s.count) = 0 THEN 0 ELSE clock + Wait(s.count)]

\* record_login_failure: one INSERT ... ON CONFLICT DO UPDATE. A row whose last
\* failure is out of the window starts again.
Recorded(s) ==
  IF s.count = 0 \/ s.last < clock - Window
  THEN [count |-> 1, last |-> clock, until |-> 0]
  ELSE [count |-> s.count + 1, last |-> clock,
        until |-> IF Wait(s.count + 1) = 0 THEN 0 ELSE clock + Wait(s.count + 1)]

Nth(guesses) ==
  IF guesses = <<>> \/ Last(guesses).at < clock - Window THEN 1 ELSE Last(guesses).nth + 1

\* The password is wrong, or nobody active has the identifier.
Fail(r) ==
  LET k == login[r].pair
  IN  /\ r \in Under /\ ~login[r].right
      /\ row' = [row EXCEPT ![k] = Recorded(@)]
      /\ wrong' = [wrong EXCEPT ![k] = Append(@, [at |-> clock, nth |-> Nth(@)])]
      /\ Ends(r)
      /\ UNCHANGED clock

\* clear_login_failure, with the session (CommitLogin of RefreshSessions).
Succeed(r) ==
  LET k == login[r].pair
  IN  /\ r \in Under /\ login[r].right
      /\ row' = [row EXCEPT ![k] = NoRow]
      /\ wrong' = [wrong EXCEPT ![k] = <<>>]
      /\ Ends(r)
      /\ UNCHANGED clock

\* The transaction is rolled back: the process dies, or platform_login finds no
\* capability and keeps the failures there were.
RollBack(r) ==
  /\ r \in Under
  /\ Ends(r)
  /\ UNCHANGED <<clock, row, wrong>>

\* cleanup_login_attempt_states
Cleanup ==
  LET old == {k \in Pair : row[k].count > 0 /\ row[k].last < clock - Retention}
  IN  /\ old # {}
      /\ row' = [k \in Pair |-> IF k \in old THEN NoRow ELSE row[k]]
      /\ UNCHANGED <<clock, login, wrong>>

Tick ==
  /\ clock < MaxClock
  /\ clock' = clock + 1
  /\ UNCHANGED <<row, login, wrong>>

Next ==
  \/ \E r \in Request, k \in Pair, right \in BOOLEAN : Begin(r, k, right)
  \/ \E r \in Request : Fail(r) \/ Succeed(r) \/ RollBack(r)
  \/ Cleanup
  \/ Tick

Spec == Init /\ [][Next]_vars

-----------------------------------------------------------------------------
(* Properties *)

\* Guessing is slowed down although many guesses pass the look together: after
\* the n-th wrong password of a pair only those already under way come before
\* its wait is over. And a pair waits for its own guesses only: nobody shuts
\* out a person who types the same name elsewhere.
GuessesAreRationed ==
  \A k \in Pair :
    /\ \A i, j \in DOMAIN wrong[k] :
         j >= i + Cardinality(Request) =>
           wrong[k][j].at >= wrong[k][i].at + Wait(wrong[k][i].nth)
    /\ row[k].until > clock => wrong[k] # <<>> /\ Wait(Last(wrong[k]).nth) > 0
=============================================================================
