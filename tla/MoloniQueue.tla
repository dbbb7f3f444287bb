------------------------------ MODULE MoloniQueue ------------------------------
(***************************************************************************)
(* The export of finalized EU orders to Moloni (moloni_jobs, moloni_sender *)
(* and moloni_exporter).  A run claims a job under a lease, makes sure that*)
(* Moloni knows the client and the articles of the order, issues the       *)
(* document and commits.  The links to what it created in Moloni are rows  *)
(* of its open transaction: their primary keys keep two runs from linking  *)
(* the same thing, by making the second wait and then fail.                *)
(*                                                                         *)
(* Moloni itself is external: what it holds, and whether its answers       *)
(* arrive.  next_attempt_at is kept as the time still to wait.             *)
(***************************************************************************)
EXTENDS Integers, Sequences, FiniteSets, SequencesExt, Functions

CONSTANTS
  Order,            \* finalized EU orders
  Client,           \* their clients
  Product,          \* their products
  ClientOf,         \* order -> client
  ItemsOf,          \* order -> the products of its items, in order
  Run,              \* processes that run moloni_sender
  MaxAttempts,      \* MOLONI_MAX_ATTEMPTS
  Lease,            \* CLAIM_LEASE, scaled
  Backoff,          \* the wait after a failure, scaled
  MaxDeleted,       \* bound: deleted orders
  MaxFaults         \* bound: crashes, lost answers and overrun leases

ASSUME BoundAssumption ==
  MaxAttempts \in Nat \ {0} /\ Lease \in Nat \ {0} /\ Backoff \in Nat /\ MaxDeleted \in Nat /\ MaxFaults \in Nat
ASSUME FinitenessAssumption == IsFiniteSet(Run)
ASSUME OrderAssumption ==
  ClientOf \in [Order -> Client] /\ ItemsOf \in [Order -> Seq(Product)] /\ Client \cap Product = {}

VARIABLES
  kept,       \* orders that were not deleted
  log,        \* orders that got a job, by its created_at
  job,        \* moloni_export_jobs, as committed
  linked,     \* committed customer and product links
  run,        \* what each run is doing
  made,       \* how often Moloni was made to create a client or an article
  documents,  \* how many documents Moloni issued for an order
  lost,       \* how often a document of an order, or the lease on it, was lost
  faults      \* crashes, lost answers and overrun leases so far

vars == <<kept, log, job, linked, run, made, documents, lost, faults>>

-----------------------------------------------------------------------------

Thing == Client \cup Product
Status == {"pending", "processing", "delivered", "dead_letter"}
Job == [status: Status, attempts: Nat, wait: Nat]
NewJob == [status |-> "pending", attempts |-> 0, wait |-> 0]

\* todo: things of the order to go through; absent: Moloni does not know the
\* first; fresh, flushed: links added by this transaction.
Idle == [stage |-> "idle"]
Work == [stage: {"working", "issued", "failed"}, order: Order,
         todo: Seq(Thing), absent: BOOLEAN, fresh: SUBSET Thing, flushed: SUBSET Thing]

Busy(w) == run[w] # Idle
Working(w) == run[w].stage = "working"

TypeOK ==
  /\ kept \subseteq Order
  /\ log \in Seq(Order)
  /\ DOMAIN job \subseteq kept
  /\ \A o \in DOMAIN job : job[o] \in Job
  /\ linked \subseteq Thing
  /\ run \in [Run -> {Idle} \cup Work]
  /\ made \in [Thing -> Nat]
  /\ documents \in [Order -> Nat]
  /\ lost \in [Order -> Nat]
  /\ faults \in Nat

Init ==
  /\ kept = Order
  /\ log = <<>>
  /\ job = <<>>
  /\ linked = {}
  /\ run = [w \in Run |-> Idle]
  /\ made = [x \in Thing |-> 0]
  /\ documents = [o \in Order |-> 0]
  /\ lost = [o \in Order |-> 0]
  /\ faults = 0

-----------------------------------------------------------------------------
(* Time, orders and the queue *)

Held == {run[w].order : w \in {v \in Run : Busy(v)}}

\* Orders that are still worked on when the lease of their job ends.
Lapsing == {o \in Held \cap DOMAIN job : job[o].status = "processing" /\ job[o].wait = 1}

Tick ==
  /\ \E o \in DOMAIN job : job[o].wait > 0
  /\ Lapsing # {} => faults < MaxFaults
  /\ job' = [o \in DOMAIN job |-> [job[o] EXCEPT !.wait = IF @ > 0 THEN @ - 1 ELSE 0]]
  /\ faults' = IF Lapsing = {} THEN faults ELSE faults + 1
  /\ lost' = [o \in Order |-> IF o \in Lapsing THEN lost[o] + 1 ELSE lost[o]]
  /\ UNCHANGED <<kept, log, linked, run, made, documents>>

\* Faulty variant: the conflict is answered by starting again.
EnqueueJobAgain(o) ==
  /\ o \in kept
  /\ log' = IF o \in ToSet(log) THEN log ELSE Append(log, o)
  /\ job' = [p \in DOMAIN job \cup {o} |-> IF p = o THEN NewJob ELSE job[p]]
  /\ UNCHANGED <<kept, linked, run, made, documents, lost, faults>>

\* enqueue_finalized_eu_order, from the finalization or by hand: of an order
\* that has a job it changes nothing.
EnqueueJob(o) ==
  /\ o \in kept \ DOMAIN job
  /\ log' = Append(log, o)
  /\ job' = [p \in DOMAIN job \cup {o} |-> IF p = o THEN NewJob ELSE job[p]]
  /\ UNCHANGED <<kept, linked, run, made, documents, lost, faults>>

\* delete_order: the job goes with the order, whatever its status.
DeleteOrder(o) ==
  /\ o \in kept
  /\ Cardinality(Order \ kept) < MaxDeleted
  /\ kept' = kept \ {o}
  /\ job' = Restrict(job, DOMAIN job \ {o})
  /\ UNCHANGED <<log, linked, run, made, documents, lost, faults>>

\* Faulty variant: a job whose run died is not taken up again.
DueWithoutLease(o) == o \in DOMAIN job /\ job[o].status = "pending" /\ job[o].wait = 0

Due(o) == o \in DOMAIN job /\ job[o].status \in {"pending", "processing"} /\ job[o].wait = 0

\* The due job that was created first.
FirstDue(o) == \E i \in DOMAIN log : log[i] = o /\ Due(o) /\ \A j \in 1 .. i - 1 : ~Due(log[j])

\* claim_next_job
Claim(w) ==
  /\ ~Busy(w)
  /\ \E o \in Order :
       /\ FirstDue(o)
       /\ job' = [job EXCEPT ![o] =
            [status |-> "processing", attempts |-> @.attempts + 1, wait |-> Lease]]
       /\ run' = [run EXCEPT ![w] =
            [stage |-> "working", order |-> o, todo |-> <<ClientOf[o]>> \o ItemsOf[o],
             absent |-> FALSE, fresh |-> {}, flushed |-> {}]]
  /\ UNCHANGED <<kept, log, linked, made, documents, lost, faults>>

-----------------------------------------------------------------------------
(* deliver_job *)

\* The transaction ends with what it wrote, or without it.
Ends(w) == run' = [run EXCEPT ![w] = Idle]
Loses(w) == lost' = [lost EXCEPT ![run[w].order] = @ + 1]
Fails == faults < MaxFaults /\ faults' = faults + 1

\* The session writes added links at its next query, the last ones with the
\* commit: no query lies between the last article and the document.
Writes(w) == Busy(w) /\ run[w].fresh # {} /\ (run[w].todo # <<>> \/ ~Working(w))
Ready(w) == Working(w) /\ ~Writes(w)
Current(w) == Head(run[w].todo)
Known(w) == Current(w) \in linked \cup run[w].flushed

\* v waits, for the key of a link, until the transaction of u ends.
WaitsFor(v, u) == u # v /\ Writes(v) /\ Busy(u) /\ run[v].fresh \cap run[u].flushed # {}

\* The added links are written to the database, as soon as no other run holds
\* the same key.
Flush(w) ==
  /\ Writes(w)
  /\ run[w].fresh \cap linked = {}
  /\ \A v \in Run : ~WaitsFor(w, v)
  /\ run' = [run EXCEPT ![w].fresh = {}, ![w].flushed = @ \cup run[w].fresh]
  /\ UNCHANGED <<kept, log, job, linked, made, documents, lost, faults>>

\* IntegrityError or deadlock: another run committed such a link, or waits for
\* one of this run's.
Conflicts(w) ==
  /\ Writes(w)
  /\ \/ run[w].fresh \cap linked # {}
     \/ \E v \in Run : WaitsFor(w, v) /\ WaitsFor(v, w)

\* A conflict in a query of the delivery, or in the commit after it: the session
\* is rolled back, reading job.id to record the failure raises in turn, and the
\* run ends.  A document that was issued stays without record.
Clash(w) ==
  /\ Conflicts(w)
  /\ run[w].stage # "failed"
  /\ Ends(w)
  /\ IF Working(w) THEN UNCHANGED lost ELSE Loses(w)
  /\ UNCHANGED <<kept, log, job, linked, made, documents, faults>>

\* The thing has a link already.
UseLink(w) ==
  /\ Ready(w)
  /\ run[w].todo # <<>>
  /\ Known(w)
  /\ run' = [run EXCEPT ![w].todo = Tail(@)]
  /\ UNCHANGED <<kept, log, job, linked, made, documents, lost, faults>>

\* customers/getByVat
LookUp(w) ==
  /\ Ready(w)
  /\ run[w].todo # <<>>
  /\ Current(w) \in Client
  /\ ~Known(w)
  /\ ~run[w].absent
  /\ run' = IF made[Current(w)] > 0
            THEN [run EXCEPT ![w].todo = Tail(@), ![w].fresh = {Current(w)}]
            ELSE [run EXCEPT ![w].absent = TRUE]
  /\ UNCHANGED <<kept, log, job, linked, made, documents, lost, faults>>

\* customers/insert and products/insert, with an answer or without one
Insert(w) ==
  /\ Ready(w)
  /\ run[w].todo # <<>>
  /\ ~Known(w)
  /\ Current(w) \in Product \/ run[w].absent
  /\ made' = [made EXCEPT ![Current(w)] = @ + 1]
  /\ \/ /\ run' = [run EXCEPT ![w].todo = Tail(@), ![w].absent = FALSE, ![w].fresh = {Current(w)}]
        /\ UNCHANGED faults
     \/ /\ run' = [run EXCEPT ![w].stage = "failed"]
        /\ Fails
  /\ UNCHANGED <<kept, log, job, linked, documents, lost>>

\* estimates/insert, with an answer or without one
Issue(w) ==
  /\ Ready(w)
  /\ run[w].todo = <<>>
  /\ documents' = [documents EXCEPT ![run[w].order] = @ + 1]
  /\ \/ /\ run' = [run EXCEPT ![w].stage = "issued"]
        /\ UNCHANGED <<lost, faults>>
     \/ /\ run' = [run EXCEPT ![w].stage = "failed"]
        /\ Fails
        /\ Loses(w)
  /\ UNCHANGED <<kept, log, job, linked, made>>

\* A refusal, an error of the connection, missing configuration or data.
Refuse(w) ==
  /\ Ready(w)
  /\ run' = [run EXCEPT ![w].stage = "failed"]
  /\ UNCHANGED <<kept, log, job, linked, made, documents, lost, faults>>

-----------------------------------------------------------------------------
(* process_due_jobs after the delivery *)

\* The document's number is committed with the links.  A job that is gone ends
\* the run, and takes the links with it.
Deliver(w) ==
  /\ Busy(w)
  /\ run[w].stage = "issued"
  /\ run[w].fresh = {}
  /\ LET o == run[w].order
     IN  IF o \in DOMAIN job
         THEN /\ job' = [job EXCEPT ![o].status = "delivered", ![o].wait = 0]
              /\ linked' = linked \cup run[w].flushed
         ELSE UNCHANGED <<job, linked>>
  /\ Ends(w)
  /\ UNCHANGED <<kept, log, made, documents, lost, faults>>

AfterFailure(j) ==
  IF j.attempts >= MaxAttempts
  THEN [j EXCEPT !.status = "dead_letter", !.wait = 0]
  ELSE [j EXCEPT !.status = "pending", !.wait = Backoff]

\* _record_failure: the links are committed, then the job is read again, as
\* other runs may have left it, and the failure recorded.
RecordFailure(w) ==
  /\ Busy(w)
  /\ run[w].stage = "failed"
  /\ run[w].fresh = {}
  /\ LET o == run[w].order
     IN  job' = IF o \in DOMAIN job THEN [job EXCEPT ![o] = AfterFailure(@)] ELSE job
  /\ linked' = linked \cup run[w].flushed
  /\ Ends(w)
  /\ UNCHANGED <<kept, log, made, documents, lost, faults>>

\* Its first commit meets a conflict: the links of the transaction are rolled
\* back, and the failure is recorded all the same.
RecordFailureUnlinked(w) ==
  /\ Conflicts(w)
  /\ run[w].stage = "failed"
  /\ LET o == run[w].order
     IN  job' = IF o \in DOMAIN job THEN [job EXCEPT ![o] = AfterFailure(@)] ELSE job
  /\ Ends(w)
  /\ UNCHANGED <<kept, log, linked, made, documents, lost, faults>>

\* The process dies, or its database connection, maybe between the two commits
\* of _record_failure.
Crash(w) ==
  /\ Busy(w)
  /\ Fails
  /\ \/ UNCHANGED linked
     \/ run[w].stage = "failed" /\ run[w].fresh = {} /\ linked' = linked \cup run[w].flushed
  /\ IF run[w].stage = "issued" THEN Loses(w) ELSE UNCHANGED lost
  /\ Ends(w)
  /\ UNCHANGED <<kept, log, job, made, documents>>

-----------------------------------------------------------------------------

RunStep(w) ==
  \/ Claim(w)
  \/ Flush(w)
  \/ Clash(w)
  \/ UseLink(w)
  \/ LookUp(w)
  \/ Insert(w)
  \/ Issue(w)
  \/ Refuse(w)
  \/ Deliver(w)
  \/ RecordFailure(w)
  \/ RecordFailureUnlinked(w)

Next ==
  \/ Tick
  \/ \E o \in Order : EnqueueJob(o) \/ DeleteOrder(o)
  \/ \E w \in Run : RunStep(w) \/ Crash(w)

Spec == Init /\ [][Next]_vars

\* Time goes on, runs are started again and again, and a run goes on.
Fairness == WF_vars(Tick) /\ \A w \in Run : WF_vars(RunStep(w))

FairSpec == Spec /\ Fairness

-----------------------------------------------------------------------------
(* Properties *)

\* No retry issues a second document, unless the first one was lost: its answer,
\* its run or the commit that records it, or the lease under which it was made.
\* A run that fails or dies before the document, or loses only links, gives no
\* cause for a second one.
DocumentsAreAccountedFor == \A o \in Order : documents[o] <= 1 + lost[o]

\* Every job is delivered or dead-lettered in the end, or goes with its order.
JobsSettle ==
  \A o \in Order :
    o \in DOMAIN job ~> (o \in DOMAIN job => job[o].status \in {"delivered", "dead_letter"})
=============================================================================
