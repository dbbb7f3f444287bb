----------------------------- MODULE WebhookOutbox -----------------------------
(***************************************************************************)
(* The integration outbox and its workers (webhook_sender).  A worker      *)
(* claims a batch with FOR UPDATE SKIP LOCKED, posts the events one by one *)
(* and commits the whole batch at the end: until then its results are its  *)
(* own, and a crash or an unforeseen error takes them all back, though the *)
(* receiver keeps what it was sent.                                        *)
(*                                                                         *)
(* next_attempt_at is kept as the time still to wait.                      *)
(***************************************************************************)
EXTENDS Integers, Sequences, FiniteSets, SequencesExt

CONSTANTS
  Event,            \* event identities (event_id)
  Worker,           \* webhook_sender processes
  BatchSize,        \* BATCH_SIZE
  RetryDelays,      \* RETRY_DELAYS_SECONDS, scaled
  RetryAfter,       \* values of the Retry-After header, scaled and capped
  MaxAttempts,      \* WEBHOOK_MAX_ATTEMPTS
  MaxAborts         \* bound: crashes and failed batches

ASSUME SizeAssumption == BatchSize \in Nat \ {0} /\ MaxAttempts \in Nat \ {0} /\ MaxAborts \in Nat
ASSUME DelayAssumption == RetryDelays \in Seq(Nat) /\ RetryAfter \subseteq Nat

VARIABLES
  log,        \* events with a committed row, by created_at
  row,        \* integration_outbox, as committed
  txn,        \* each worker's open transaction
  posts,      \* how often each event was posted
  taken,      \* events the receiver has taken
  aborts      \* transactions taken back so far

vars == <<log, row, txn, posts, taken, aborts>>

-----------------------------------------------------------------------------

Status == {"pending", "delivered", "dead_letter"}
Delay == RetryAfter \cup {RetryDelays[i] : i \in DOMAIN RetryDelays} \cup {0}
Wait == UNION {0 .. n : n \in Delay}
Row == [status: Status, attempts: 0 .. MaxAttempts, wait: Wait]
NewRow == [status |-> "pending", attempts |-> 0, wait |-> 0]

\* A transaction: the positions in the log of the events still to post, and the
\* rows held, with its own changes to them.
Txn == [todo: SUBSET Nat, mine: UNION {[S -> Row] : S \in SUBSET Event}]
NoTxn == [todo |-> {}, mine |-> [e \in {} |-> NewRow]]
Held(w) == DOMAIN txn[w].mine

TypeOK ==
  /\ log \in Seq(Event)
  /\ row \in [Event -> Row]
  /\ txn \in [Worker -> Txn]
  /\ posts \in [Event -> Nat]
  /\ taken \subseteq Event
  /\ aborts \in 0 .. MaxAborts

Init ==
  /\ log = <<>>
  /\ row = [e \in Event |-> NewRow]
  /\ txn = [w \in Worker |-> NoTxn]
  /\ posts = [e \in Event |-> 0]
  /\ taken = {}
  /\ aborts = 0

-----------------------------------------------------------------------------

Tick ==
  /\ \E e \in Event : row[e].wait > 0
  /\ row' = [e \in Event |-> [row[e] EXCEPT !.wait = IF @ > 0 THEN @ - 1 ELSE 0]]
  /\ UNCHANGED <<log, txn, posts, taken, aborts>>

\* enqueue_event: the row commits with the business change it tells of.
EnqueueEvent(e) ==
  /\ e \notin ToSet(log)
  /\ log' = Append(log, e)
  /\ UNCHANGED <<row, txn, posts, taken, aborts>>

Due(e) == row[e].status = "pending" /\ row[e].wait = 0

\* Faulty variant: the claim does not skip, nor wait for, rows others hold.
FreeIgnoringLocks(e) == TRUE

Free(e) == \A w \in Worker : e \notin Held(w)

\* The first BatchSize rows of those that are ready, by created_at.
Ready == {i \in DOMAIN log : Due(log[i]) /\ Free(log[i])}
Batch == {i \in Ready : Cardinality({j \in Ready : j < i}) < BatchSize}

\* _claim_batch
Claim(w) ==
  /\ txn[w] = NoTxn
  /\ Batch # {}
  /\ txn' = [txn EXCEPT ![w] =
       [todo |-> Batch, mine |-> [e \in {log[i] : i \in Batch} |-> row[e]]]]
  /\ UNCHANGED <<log, row, posts, taken, aborts>>

\* next_delay_seconds, -1 for None
NextDelay(attempts) ==
  IF attempts <= 0 THEN RetryDelays[1]
  ELSE IF attempts > Len(RetryDelays) THEN -1
  ELSE RetryDelays[attempts]

\* _schedule_retry
ScheduleRetry(r, delay) ==
  IF delay = -1 \/ r.attempts >= MaxAttempts
  THEN [r EXCEPT !.status = "dead_letter"]
  ELSE [r EXCEPT !.status = "pending", !.wait = delay]

\* The rows that deliver_one may leave, by what came back: 2xx, another answer
\* that is not worth repeating, 429 or 5xx, or none (httpx.HTTPError).
Accepted(r) == {[r EXCEPT !.status = "delivered"]}
Refused(r) == {[r EXCEPT !.status = "dead_letter"]}
Unavailable(r) == {ScheduleRetry(r, n) : n \in RetryAfter \cup {NextDelay(r.attempts)}}
Unanswered(r) == {ScheduleRetry(r, NextDelay(r.attempts))}

\* The event that is posted next.
IsNext(w, i) == i \in txn[w].todo /\ \A j \in txn[w].todo : i <= j

Posts(e) == posts' = [posts EXCEPT ![e] = @ + 1]

\* Faulty variant: a refusal is taken for a delivery.
PostOneAnyAnswer(w, i) ==
  LET e == log[i]
      r == [txn[w].mine[e] EXCEPT !.attempts = @ + 1]
  IN  /\ IsNext(w, i)
      /\ Posts(e)
      /\ taken' \in {taken, taken \cup {e}}
      /\ txn' = [txn EXCEPT ![w].todo = @ \ {i}, ![w].mine[e] = [r EXCEPT !.status = "delivered"]]
      /\ UNCHANGED <<log, row, aborts>>

\* deliver_one: a receiver that does not answer may have taken the event.
PostOne(w, i) ==
  LET e == log[i]
      r == [txn[w].mine[e] EXCEPT !.attempts = @ + 1]
  IN  /\ IsNext(w, i)
      /\ Posts(e)
      /\ \E left \in Accepted(r) \cup Refused(r) \cup Unavailable(r) \cup Unanswered(r) :
           /\ \/ left \in Accepted(r) /\ taken' = taken \cup {e}
              \/ left \in Refused(r) \cup Unavailable(r) /\ taken' = taken
              \/ left \in Unanswered(r) /\ taken' \in {taken, taken \cup {e}}
           /\ txn' = [txn EXCEPT ![w] =
                [todo |-> @.todo \ {i}, mine |-> [@.mine EXCEPT ![e] = left]]]
      /\ UNCHANGED <<log, row, aborts>>

DeliverOne(w) == \E i \in txn[w].todo : PostOne(w, i)

\* The end of process_batch: the results become visible and the rows free.
Commit(w) ==
  /\ txn[w] # NoTxn
  /\ txn[w].todo = {}
  /\ row' = [e \in Event |-> IF e \in Held(w) THEN txn[w].mine[e] ELSE row[e]]
  /\ txn' = [txn EXCEPT ![w] = NoTxn]
  /\ UNCHANGED <<log, posts, taken, aborts>>

\* An error deliver_one does not catch, a failed commit, or the process dies;
\* the event being posted may have gone out.
Abort(w) ==
  /\ txn[w] # NoTxn
  /\ aborts < MaxAborts
  /\ aborts' = aborts + 1
  /\ txn' = [txn EXCEPT ![w] = NoTxn]
  /\ \/ UNCHANGED <<posts, taken>>
     \/ \E i \in txn[w].todo :
          /\ IsNext(w, i)
          /\ Posts(log[i])
          /\ taken' \in {taken, taken \cup {log[i]}}
  /\ UNCHANGED <<log, row>>

WorkerStep(w) == Claim(w) \/ DeliverOne(w) \/ Commit(w)

Next ==
  \/ Tick
  \/ \E e \in Event : EnqueueEvent(e)
  \/ \E w \in Worker : WorkerStep(w) \/ Abort(w)

Spec == Init /\ [][Next]_vars

\* Time goes on and every worker keeps its loop going (run_forever).
Fairness == WF_vars(Tick) /\ \A w \in Worker : WF_vars(WorkerStep(w))

FairSpec == Spec /\ Fairness

-----------------------------------------------------------------------------
(* Properties *)

\* No two workers post the same event at a time, and what one of them counts
\* is never lost to the other: every post is counted in the row, or is being
\* made, or went with a transaction taken back.
PostsAreCounted ==
  \A e \in Event :
    /\ (\A w \in Worker : e \notin Held(w)) => posts[e] <= row[e].attempts + aborts
    /\ \A w \in Worker : e \in Held(w) => posts[e] <= txn[w].mine[e].attempts + aborts

\* The outbox keeps its contract of at-least-once delivery.
Contract == INSTANCE AtLeastOnce
  WITH announced <- ToSet(log), taken <- taken,
       outcome <- [e \in Event |-> IF row[e].status = "pending" THEN "open" ELSE row[e].status]

ImplementsAtLeastOnce == Contract!Spec
=============================================================================
