---------------------------- MODULE OrderLifecycle ----------------------------
(***************************************************************************)
(* Orders from quote to deletion (api/routers/orders.py), with what hangs  *)
(* on them: the number counters, the chain of revisions, the e-mail        *)
(* document and the Moloni job that finalizing creates, the order.deleted  *)
(* event, and an external consumer that keeps copies by source_version.    *)
(*                                                                         *)
(* Every request is one READ COMMITTED transaction.  It takes its row      *)
(* locks in the order of the code, decides under the lock of the order and *)
(* shows its changes when it commits.  The constraints of the orders table *)
(* are not guards here: the invariants say that no handler runs into them. *)
(***************************************************************************)
EXTENDS Integers, Sequences, FiniteSets

CONSTANTS
  Order,        \* order ids
  NoOrder,      \* no superseded order
  User,         \* users that create orders
  OwnerOf,      \* the user whose request creates the order (number_owner_id)
  Market,       \* market codes
  EU,           \* the market whose orders go to Moloni
  MoloniBlocked, \* MOLONI_BLOCKED, the switch of the deployment
  MarketOf,     \* the market of each order; its orders share a client
  Request,      \* concurrent requests
  Watched,      \* orders the external consumer keeps copies of
  MaxVersion    \* bound: source_version of an order

ASSUME MarketAssumption == EU \in Market /\ MarketOf \in [Order -> Market]
ASSUME OwnerAssumption == OwnerOf \in [Order -> User]
ASSUME NoOrderAssumption == NoOrder \notin Order
ASSUME BlockedAssumption == MoloniBlocked \in BOOLEAN
ASSUME VersionAssumption == MaxVersion \in Nat

VARIABLES
  row,          \* the orders there are
  numbers,      \* market_order_counters.next_value
  quotes,       \* market_quote_counters.next_value
  given,        \* the numbers every order got, deleted ones included
  emails,       \* order_email_documents: version and contents of the snapshot
  jobs,         \* orders with a moloni_export_jobs row
  announced,    \* orders with an order.deleted event in the outbox
  copy,         \* what the external consumer keeps of an order
  txn           \* open transactions

vars == <<row, numbers, quotes, given, emails, jobs, announced, copy, txn>>

-----------------------------------------------------------------------------
(* Rows *)

Live == DOMAIN row
Used == DOMAIN given

Status == {"draft", "finalized", "cancelled"}
Stage == {"none", "production", "delivered"}

Row == [status: Status, stage: Stage, content: Nat,
        source_version: Nat \ {0}, document_version: Nat \ {0},
        supersedes: Order \cup {NoOrder}, revision: Nat \ {0}]

\* What the consumer reads of an order.
View(o) == [status |-> row[o].status, stage |-> row[o].stage, content |-> row[o].content]

Successors(o) == {s \in Live : row[s].supersedes = o}

\* The key of an order's number counter.
CounterOf(o) == <<MarketOf[o], OwnerOf[o]>>

\* The rows a transaction may lock.
OrderRow(o) == <<"order", o>>
NumberRow(o) == <<"number", MarketOf[o], OwnerOf[o]>>
QuoteRow(o) == <<"quote", MarketOf[o]>>
ClientRow(o) == <<"client", MarketOf[o]>>

Lockable == UNION {{OrderRow(o), NumberRow(o), QuoteRow(o), ClientRow(o)} : o \in Order}

Operation == {"create", "revise", "update", "finalize", "cancel", "stage", "delete"}

Txn == [op: Operation, order: Order, from: Order \cup {NoOrder}, seen: BOOLEAN,
        todo: Seq(Lockable), held: SUBSET Lockable]

TablesOK ==
  /\ row \in [Live -> Row] /\ Live \subseteq Used
  /\ numbers \in [Market \X User -> Nat \ {0}]
  /\ quotes \in [Market -> Nat \ {0}]
  /\ given \in [Used -> [number: Nat \ {0}, quote: Nat \ {0}]] /\ Used \subseteq Order
  /\ emails \in [DOMAIN emails -> [version: Nat, content: Nat]]
  /\ DOMAIN emails \cup jobs \cup announced \cup DOMAIN copy \subseteq Used
  /\ copy \in [DOMAIN copy -> [source_version: Nat,
                               view: [status: Status, stage: Stage, content: Nat]]]

TransactionsOK == txn \in [DOMAIN txn -> Txn] /\ DOMAIN txn \subseteq Request

TypeOK == TablesOK /\ TransactionsOK

Empty == [x \in {} |-> x]

\* A table with one more row, or with one row replaced.
With(f, x, v) == [y \in DOMAIN f \cup {x} |-> IF y = x THEN v ELSE f[y]]

Init ==
  /\ row = Empty
  /\ numbers = [k \in Market \X User |-> 1]
  /\ quotes = [m \in Market |-> 1]
  /\ given = Empty
  /\ emails = Empty
  /\ jobs = {}
  /\ announced = {}
  /\ copy = Empty
  /\ txn = Empty

-----------------------------------------------------------------------------
(* Transactions *)

\* Faulty variant: a finalized order can still be edited, and cancelled.
EditableUnlessCancelled(o) == o \in Live /\ row[o].status # "cancelled"

\* What the handlers require of the order they have locked.
Editable(o) == o \in Live /\ row[o].status = "draft"

Finalized(o) == o \in Live /\ row[o].status = "finalized"

\* Faulty variant: e-mail evidence does not keep an order from being deleted.
BlockedByRevision(o) == Successors(o) # {}

\* Faulty variant: a revised order can be deleted from under its revision.
BlockedByEmails(o) == o \in DOMAIN emails

\* _order_delete_blocker
Blocked(o) == Successors(o) # {} \/ o \in DOMAIN emails

\* What _create_order_core requires of the source.  One that /revision read
\* before the lock keeps, in the session, the values of that first read.
Revisable(t) ==
  /\ t.from \in Live
  /\ t.seen \/ Finalized(t.from)
  /\ Successors(t.from) = {}

Accepts(t) ==
  /\ t.op = "revise" => Revisable(t)
  /\ t.op \in {"update", "finalize", "cancel"} => Editable(t.order)
  /\ t.op = "stage" => Finalized(t.order)
  /\ t.op = "delete" => t.order \in Live /\ ~Blocked(t.order)

\* The row locks of each handler, in the order it takes them: the upserts of
\* _next_codes, and touch_client_activity at the end.
InsertLocks(o) == <<NumberRow(o), QuoteRow(o), ClientRow(o)>>
ReviseLocks(o, from) == <<OrderRow(from), NumberRow(o), QuoteRow(o), ClientRow(o)>>
TerminalLocks(o) == <<OrderRow(o), ClientRow(o)>>

\* Faulty variant: an edit touches the client before it locks the order.
UpdateLocksClientFirst(o) == <<ClientRow(o), OrderRow(o)>>

UpdateLocks(o) == <<OrderRow(o), ClientRow(o)>>

Open(r, op, o, from, seen, locks) ==
  /\ r \notin DOMAIN txn
  /\ txn' = With(txn, r, [op |-> op, order |-> o, from |-> from, seen |-> seen,
                          todo |-> locks, held |-> {}])
  /\ UNCHANGED <<row, numbers, quotes, given, emails, jobs, announced, copy>>

Fresh(o) == o \notin Used /\ \A r \in DOMAIN txn : txn[r].order # o

\* create_order and copy_order, which reads its source without a lock and
\* leaves no link to it.
BeginCreate(r, o) == Fresh(o) /\ Open(r, "create", o, NoOrder, FALSE, InsertLocks(o))

\* create_order_revision, or create_order with supersedes_order_id, which
\* reads the source only under the lock.
BeginRevise(r, o, from) ==
  /\ Fresh(o) /\ from \in Live /\ MarketOf[from] = MarketOf[o]
  /\ \E seen \in {Finalized(from), FALSE} :
       Open(r, "revise", o, from, seen, ReviseLocks(o, from))

BeginUpdate(r, o) == o \in Live /\ Open(r, "update", o, NoOrder, FALSE, UpdateLocks(o))
BeginFinalize(r, o) == o \in Live /\ Open(r, "finalize", o, NoOrder, FALSE, TerminalLocks(o))
BeginCancel(r, o) == o \in Live /\ Open(r, "cancel", o, NoOrder, FALSE, TerminalLocks(o))
BeginStage(r, o) == o \in Live /\ Open(r, "stage", o, NoOrder, FALSE, <<OrderRow(o)>>)
BeginDelete(r, o) == o \in Live /\ Open(r, "delete", o, NoOrder, FALSE, <<OrderRow(o)>>)

\* A lock is granted when nobody holds it; SELECT ... FOR UPDATE then sees the
\* order as last committed, and the handler goes on only if it may.
Lock(r) ==
  LET t == txn[r]
      x == Head(t.todo)
  IN  /\ t.todo # <<>>
      /\ \A q \in DOMAIN txn : x \notin txn[q].held
      /\ x[1] = "order" => Accepts(t)
      /\ txn' = [txn EXCEPT ![r].todo = Tail(@), ![r].held = @ \cup {x}]
      /\ UNCHANGED <<row, numbers, quotes, given, emails, jobs, announced, copy>>

End(r) == txn' = [q \in DOMAIN txn \ {r} |-> txn[q]]

\* Any refusal (404, 409, 422), error or crash: the transaction is undone.
Rollback(r) ==
  /\ End(r)
  /\ UNCHANGED <<row, numbers, quotes, given, emails, jobs, announced, copy>>

Ready(r, op) == txn[r].op = op /\ txn[r].todo = <<>> /\ End(r)

-----------------------------------------------------------------------------
(* Commits *)

\* Faulty variant: the number follows those of the orders there are.
NextNumberOfLive(o) ==
  1 + Cardinality({x \in Live : MarketOf[x] = MarketOf[o] /\ OwnerOf[x] = OwnerOf[o]})

\* Faulty variant: one too far back.
NextNumberBefore(o) == numbers[CounterOf(o)] - 1

\* The counter's value, which RETURNING next_value - 1 gives.
NextNumber(o) == numbers[CounterOf(o)]

CommitInsert(r) ==
  LET o == txn[r].order
      from == txn[r].from
  IN  /\ Ready(r, "create") \/ Ready(r, "revise")
      /\ row' = With(row, o, [status |-> "draft", stage |-> "none", content |-> 0,
                              source_version |-> 1, document_version |-> 1, supersedes |-> from,
                              revision |-> IF from = NoOrder THEN 1 ELSE row[from].revision + 1])
      /\ given' = With(given, o, [number |-> NextNumber(o), quote |-> quotes[MarketOf[o]]])
      /\ numbers' = [numbers EXCEPT ![CounterOf(o)] = @ + 1]
      /\ quotes' = [quotes EXCEPT ![MarketOf[o]] = @ + 1]
      /\ UNCHANGED <<emails, jobs, announced, copy>>

\* update_order: new contents, or the same ones sent again.
CommitUpdate(r) ==
  LET o == txn[r].order
  IN  /\ Ready(r, "update")
      /\ row[o].source_version < MaxVersion
      /\ \E same \in BOOLEAN :
           row' = [row EXCEPT ![o].content = IF same THEN @ ELSE @ + 1,
                              ![o].source_version = @ + 1, ![o].document_version = @ + 1]
      /\ UNCHANGED <<numbers, quotes, given, emails, jobs, announced, copy>>

\* finalize_order.  enqueue_finalized_eu_order queues nothing while Moloni is
\* blocked; the e-mails are queued in a savepoint, whose failure is logged and
\* does not stop the rest.
CommitFinalize(r) ==
  LET o == txn[r].order
  IN  /\ Ready(r, "finalize")
      /\ row' = [row EXCEPT ![o].status = "finalized", ![o].stage = "production",
                            ![o].source_version = @ + 1, ![o].document_version = @ + 1]
      /\ jobs' = IF MarketOf[o] = EU /\ ~MoloniBlocked THEN jobs \cup {o} ELSE jobs
      /\ \/ emails' = With(emails, o, [version |-> row[o].document_version + 1,
                                       content |-> row[o].content])
         \/ UNCHANGED emails
      /\ UNCHANGED <<numbers, quotes, given, announced, copy>>

CommitCancel(r) ==
  LET o == txn[r].order
  IN  /\ Ready(r, "cancel")
      /\ row' = [row EXCEPT ![o].status = "cancelled",
                            ![o].source_version = @ + 1, ![o].document_version = @ + 1]
      /\ UNCHANGED <<numbers, quotes, given, emails, jobs, announced, copy>>

\* Faulty variant: a change of stage leaves both versions alone.
CommitStageUnversioned(r) ==
  LET o == txn[r].order
  IN  /\ Ready(r, "stage")
      /\ \E to \in {"production", "delivered"} \ {row[o].stage} : row' = [row EXCEPT ![o].stage = to]
      /\ UNCHANGED <<numbers, quotes, given, emails, jobs, announced, copy>>

\* change_order_stage; asking for the stage the order has changes nothing.
CommitStage(r) ==
  LET o == txn[r].order
  IN  /\ Ready(r, "stage")
      /\ row[o].source_version < MaxVersion
      /\ \E to \in {"production", "delivered"} \ {row[o].stage} :
           row' = [row EXCEPT ![o].stage = to, ![o].source_version = @ + 1]
      /\ UNCHANGED <<numbers, quotes, given, emails, jobs, announced, copy>>

\* delete_order: the event, the Moloni job and the row go together.
CommitDelete(r) ==
  LET o == txn[r].order
  IN  /\ Ready(r, "delete")
      /\ row' = [x \in Live \ {o} |-> row[x]]
      /\ announced' = announced \cup {o}
      /\ jobs' = jobs \ {o}
      /\ UNCHANGED <<numbers, quotes, given, emails, copy>>

-----------------------------------------------------------------------------
(* The external consumer: it reads an order again when its source_version is *)
(* another, and drops its copy when it receives order.deleted, perhaps twice. *)

Pull(o) ==
  /\ o \in Live \cap Watched
  /\ o \in DOMAIN copy => copy[o].source_version # row[o].source_version
  /\ copy' = With(copy, o, [source_version |-> row[o].source_version, view |-> View(o)])
  /\ UNCHANGED <<row, numbers, quotes, given, emails, jobs, announced, txn>>

ReceiveDeleted(o) ==
  /\ o \in announced \cap DOMAIN copy
  /\ copy' = [x \in DOMAIN copy \ {o} |-> copy[x]]
  /\ UNCHANGED <<row, numbers, quotes, given, emails, jobs, announced, txn>>

Begin(r, o) ==
  \/ BeginCreate(r, o)
  \/ \E from \in Order : BeginRevise(r, o, from)
  \/ BeginUpdate(r, o) \/ BeginFinalize(r, o) \/ BeginCancel(r, o)
  \/ BeginStage(r, o) \/ BeginDelete(r, o)

Commit(r) ==
  \/ CommitInsert(r) \/ CommitUpdate(r) \/ CommitFinalize(r)
  \/ CommitCancel(r) \/ CommitStage(r) \/ CommitDelete(r)

Next ==
  \/ \E r \in Request, o \in Order : Begin(r, o)
  \/ \E r \in DOMAIN txn : Lock(r) \/ Commit(r) \/ Rollback(r)
  \/ \E o \in Order : Pull(o) \/ ReceiveDeleted(o)

Spec == Init /\ [][Next]_vars

-----------------------------------------------------------------------------
(* Properties *)

\* PED and ORC numbers are never given twice, to orders since deleted either
\* (_next_codes): a concurrent create waits for the counter, a failed one
\* gives its number back.
NumbersAreNeverReused ==
  \A o, x \in Used :
    o # x /\ MarketOf[o] = MarketOf[x] =>
      /\ given[o].quote # given[x].quote
      /\ OwnerOf[o] = OwnerOf[x] => given[o].number # given[x].number

\* Revisions form chains: what an order supersedes is there, is finalized, was
\* revised only once and counts one revision less.  No handler runs into the
\* unique and foreign keys that guard this in the database.
RevisionsFormChains ==
  \A s \in Live :
    LET o == row[s].supersedes
    IN  o # NoOrder =>
          /\ Finalized(o)
          /\ Successors(o) = {s}
          /\ row[s].revision = row[o].revision + 1

\* The e-mailed document is the order's, for as long as it exists: the order is
\* not deleted, nor changed in anything the document shows, after its snapshot.
EmailedDocumentIsTheOrder ==
  \A o \in DOMAIN emails :
    /\ Finalized(o)
    /\ emails[o] = [version |-> row[o].document_version, content |-> row[o].content]

\* Where Moloni is not blocked, it has a job for exactly the finalized European
\* orders, and where it is, for none.
JobsAreFinalizedEuOrders == jobs = {o \in Live : Finalized(o) /\ MarketOf[o] = EU /\ ~MoloniBlocked}

\* A consumer that compares source_version finds out about every change, and
\* about every deletion from order.deleted: no copy is out of date for good.
StaleCopiesAreDetectable ==
  \A o \in DOMAIN copy :
    IF o \in Live
    THEN copy[o].source_version = row[o].source_version => copy[o].view = View(o)
    ELSE o \in announced

\* Requests never wait for each other in a circle, so that none is killed by
\* the database's deadlock detection.
WaitsFor(r, q) == txn[r].todo # <<>> /\ Head(txn[r].todo) \in txn[q].held

NoWaitCycle ==
  \A S \in SUBSET DOMAIN txn :
    S # {} => \E r \in S : \A q \in S : ~WaitsFor(r, q)

\* A finalized or cancelled order is closed: no request, however old its read
\* of the order, changes its status, its contents or its document version.
ClosedOrdersStayClosed ==
  [][\A o \in Live : row[o].status # "draft" /\ o \in DOMAIN row' =>
       /\ row'[o].status = row[o].status
       /\ row'[o].content = row[o].content
       /\ row'[o].document_version = row[o].document_version]_vars
=============================================================================
