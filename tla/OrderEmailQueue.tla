--------------------------- MODULE OrderEmailQueue ---------------------------
(***************************************************************************)
(* The order e-mail queue: the document row an order gets when it is       *)
(* finalized, the delivery rows of its recipients, the workers that claim  *)
(* rows under a lease, the API requests that add manual deliveries, the    *)
(* e-mail provider and its webhook.                                        *)
(*                                                                         *)
(* A database transaction of the code is one action; everything the code   *)
(* does outside a transaction (rendering, calling the provider) lies       *)
(* between two actions, so other workers, requests, webhooks, crashes and  *)
(* the passage of time interleave there.                                   *)
(*                                                                         *)
(* Time is kept as timers rather than dates: "wait" is how long a row's    *)
(* next_attempt_at still lies ahead and "age" how long ago its             *)
(* first_attempt_at was, both saturating at the last value the code tells  *)
(* apart, so that time is unbounded and the state space finite.            *)
(***************************************************************************)
EXTENDS Integers, Sequences, FiniteSets

CONSTANTS
  Order,            \* orders; a finalized order has one document version
  Delivery,         \* identities available to delivery rows
  Address,          \* normalised recipient addresses
  Allowed,          \* the addresses of ORDER_EMAIL_TEST_ALLOWLIST
  Mode,             \* ORDER_EMAIL_MODE: "test" or "live" ("off" queues nothing)
  Pdf,              \* renderings; two renderings of a snapshot may differ
  Worker,           \* order_email_sender processes
  Request,          \* concurrent resend and test-send requests
  Svix,             \* webhook identities (svix-id)
  EventType,        \* event types the provider sends
  Lease,            \* CLAIM_LEASE
  Window,           \* RETRY_WINDOW
  RetryWait,        \* what retry_delay leaves to wait once a failure is written
  KeyLife,          \* how long the provider honours an Idempotency-Key
  MaxMessages,      \* bound: messages the provider creates for one delivery
  MaxCrashes,       \* bound: worker crashes
  BoundedAttempts,  \* TRUE: an attempt never outlives its lease
  NoAddress,        \* recipient_email is null
  NoPdf,            \* storage_key is null
  NoRow             \* an idle worker's claim

ASSUME ModeAssumption == Mode \in {"test", "live"}
ASSUME AddressAssumption == Allowed \subseteq Address /\ NoAddress \notin Address
ASSUME PdfAssumption == NoPdf \notin Pdf
ASSUME RowAssumption == Order \cap Delivery = {} /\ NoRow \notin Order \cup Delivery
ASSUME TimeAssumption ==
  /\ Lease \in Nat \ {0}
  /\ Window \in Nat \ {0}
  /\ RetryWait \in SUBSET (0 .. Lease)
  /\ KeyLife \in Nat
ASSUME BoundAssumption ==
  /\ MaxMessages \in Nat
  /\ MaxCrashes \in Nat
  /\ BoundedAttempts \in BOOLEAN
ASSUME EventAssumption ==
  EventType \subseteq {"delivered", "bounced", "failed", "complained", "delivery_delayed"}

VARIABLES
  doc,        \* order_email_documents, by order
  del,        \* order_email_deliveries
  job,        \* what each worker process holds in memory
  req,        \* what each resend request holds in memory
  events,     \* order_email_webhook_events, in order of arrival
  sent,       \* provider: the PDFs of the messages it created for each delivery's key
  keyLeft,    \* provider: how long it still remembers each key
  crashes     \* worker crashes so far

vars == <<doc, del, job, req, events, sent, keyLeft, crashes>>

-----------------------------------------------------------------------------
(* Rows *)

Untried == -1                          \* first_attempt_at is null
Active == {"pending", "processing"}
Terminal == {"delivered", "failed"}    \* _TERMINAL
DocStatus == {"none", "pending", "processing", "ready", "failed"}
DelStatus == {"none", "accepted", "needs_review", "blocked", "skipped"} \cup Active \cup Terminal
Recipient == Address \cup {NoAddress}

DocRow == [status: DocStatus, wait: 0 .. Lease, age: Untried .. Window, pdf: Pdf \cup {NoPdf}]

DelRow == [status: DelStatus, origin: {"none", "finalization", "manual_resend"},
           order: Order \cup {NoRow}, to: Recipient,
           wait: 0 .. Lease, age: Untried .. Window,
           mid: 0 .. MaxMessages]      \* provider_message_id, 0 when null

NoDoc == [status |-> "none", wait |-> 0, age |-> Untried, pdf |-> NoPdf]
NoDel == [status |-> "none", origin |-> "none", order |-> NoRow, to |-> NoAddress,
          wait |-> 0, age |-> Untried, mid |-> 0]

NewDelivery(o, to, origin, status) ==
  [NoDel EXCEPT !.status = status, !.origin = origin, !.order = o, !.to = to]

Unused == {d \in Delivery : del[d].status = "none"}

Job == [pc: {"idle", "render", "send", "accepted", "temporary", "permanent"},
        on: Order \cup Delivery \cup {NoRow},
        expired: BOOLEAN,              \* retry_window_expired for this attempt
        mid: 0 .. MaxMessages]
Idle == [pc |-> "idle", on |-> NoRow, expired |-> FALSE, mid |-> 0]

Pending == [pc: {"idle", "insert"}, order: Order \cup {NoRow}, to: Recipient,
            status: DelStatus]
NoRequest == [pc |-> "idle", order |-> NoRow, to |-> NoAddress, status |-> "none"]

Event == [svix: Svix, type: EventType, of: Delivery, mid: 0 .. MaxMessages,
          state: {"open", "orphan", "applied"}]

TypeOK ==
  /\ doc \in [Order -> DocRow]
  /\ del \in [Delivery -> DelRow]
  /\ job \in [Worker -> Job]
  /\ req \in [Request -> Pending]
  /\ events \in Seq(Event)
  /\ sent \in [Delivery -> Seq(Pdf)]
  /\ keyLeft \in [Delivery -> 0 .. KeyLife]
  /\ crashes \in 0 .. MaxCrashes

Init ==
  /\ doc = [o \in Order |-> NoDoc]
  /\ del = [d \in Delivery |-> NoDel]
  /\ job = [w \in Worker |-> Idle]
  /\ req = [r \in Request |-> NoRequest]
  /\ events = <<>>
  /\ sent = [d \in Delivery |-> <<>>]
  /\ keyLeft = [d \in Delivery |-> 0]
  /\ crashes = 0

-----------------------------------------------------------------------------
(* Time *)

\* Faulty variant: a timer that does not stop at zero.
SoonerUnclamped(n) == n - 1

Sooner(n) == IF n = 0 THEN 0 ELSE n - 1
Older(a) == IF a \in {Untried, Window} THEN a ELSE a + 1
Expired(a) == a = Window

\* Time the lease of the row a worker holds still has to run.
LeaseLeft(w) ==
  CASE job[w].on \in Order -> IF doc[job[w].on].status = "processing" THEN doc[job[w].on].wait ELSE Lease + 1
    [] job[w].on \in Delivery -> IF del[job[w].on].status = "processing" THEN del[job[w].on].wait ELSE Lease + 1
    [] OTHER -> Lease + 1

Tick ==
  /\ BoundedAttempts => \A w \in Worker : LeaseLeft(w) > 1
  /\ doc' = [o \in Order |-> [doc[o] EXCEPT !.wait = Sooner(@), !.age = Older(@)]]
  /\ del' = [d \in Delivery |-> [del[d] EXCEPT !.wait = Sooner(@), !.age = Older(@)]]
  /\ keyLeft' = [d \in Delivery |-> Sooner(keyLeft[d])]
  /\ UNCHANGED <<job, req, events, sent, crashes>>

-----------------------------------------------------------------------------
(* The API process: finalization, resend, test send *)

\* enqueue_order_emails: one document per order version, one delivery per
\* distinct recipient; a recipient without a valid address is blocked.
EnqueueOrderEmails(o) ==
  /\ doc[o].status = "none"
  /\ \E ds \in SUBSET Unused : \E to \in [ds -> Recipient] :
       /\ Cardinality(ds) \in 1 .. 2
       /\ \A d, e \in ds : to[d] = to[e] => d = e \/ to[d] = NoAddress
       /\ del' = [d \in Delivery |->
                    IF d \in ds
                    THEN NewDelivery(o, to[d], "finalization",
                                     IF to[d] = NoAddress THEN "blocked" ELSE "pending")
                    ELSE del[d]]
  /\ doc' = [doc EXCEPT ![o].status = "pending"]
  /\ UNCHANGED <<job, req, events, sent, keyLeft, crashes>>

HasActive(o, to) ==
  \E d \in Delivery : del[d].order = o /\ del[d].to = to /\ del[d].status \in Active

\* resend_order_email up to its check: the recipient is the original's, or the
\* one now on record when that was asked for or the original has none.
BeginResend(r, d, to) ==
  /\ req[r].pc = "idle"
  /\ del[d].status # "none"
  /\ to # NoAddress => ~HasActive(del[d].order, to)
  /\ req' = [req EXCEPT ![r] =
               [pc |-> "insert", order |-> del[d].order, to |-> to,
                status |-> IF to = NoAddress THEN "blocked" ELSE "pending"]]
  /\ UNCHANGED <<doc, del, job, events, sent, keyLeft, crashes>>

\* test_send_order_email up to its check.
BeginTestSend(r, o, to) ==
  /\ req[r].pc = "idle"
  /\ Mode = "test"
  /\ doc[o].status # "none"
  /\ to # NoAddress
  /\ ~HasActive(o, to)
  /\ req' = [req EXCEPT ![r] =
               [pc |-> "insert", order |-> o, to |-> to,
                status |-> IF to \in Allowed THEN "pending" ELSE "skipped"]]
  /\ UNCHANGED <<doc, del, job, events, sent, keyLeft, crashes>>

\* Both endpoints insert the row they decided on and commit.
InsertDelivery(r) ==
  /\ req[r].pc = "insert"
  /\ \E d \in Unused :
       del' = [del EXCEPT ![d] =
                 NewDelivery(req[r].order, req[r].to, "manual_resend", req[r].status)]
  /\ req' = [req EXCEPT ![r] = NoRequest]
  /\ UNCHANGED <<doc, job, events, sent, keyLeft, crashes>>

-----------------------------------------------------------------------------
(* The worker: documents *)

\* Faulty variant: a processing row is claimed again before its lease is over.
DueIgnoringLease(row) == row.status \in Active /\ (row.status = "pending" => row.wait = 0)

Due(row) == row.status \in Active /\ row.wait = 0

ClaimDocument(w, o) ==
  /\ job[w].pc = "idle"
  /\ Due(doc[o])
  /\ LET age == IF doc[o].age = Untried THEN 0 ELSE doc[o].age
     IN  /\ doc' = [doc EXCEPT ![o].status = "processing", ![o].wait = Lease, ![o].age = age]
         /\ job' = [job EXCEPT ![w] = [pc |-> "render", on |-> o, expired |-> Expired(age), mid |-> 0]]
  /\ UNCHANGED <<del, req, events, sent, keyLeft, crashes>>

\* The PDF was rendered and stored under a key that names its content.
RecordDocumentReady(w) ==
  /\ job[w].pc = "render"
  /\ \E p \in Pdf :
       doc' = [doc EXCEPT ![job[w].on].status = "ready", ![job[w].on].wait = 0,
                          ![job[w].on].pdf = p]
  /\ job' = [job EXCEPT ![w] = Idle]
  /\ UNCHANGED <<del, req, events, sent, keyLeft, crashes>>

\* Faulty variant: the deliveries of a failed document are left in the queue.
MarkDocumentFailedAlone(w) ==
  /\ doc' = [doc EXCEPT ![job[w].on].status = "failed", ![job[w].on].wait = 0]
  /\ UNCHANGED del

\* _mark_document_failed: its deliveries still in the queue need a review.
MarkDocumentFailed(w) ==
  LET o == job[w].on IN
  /\ doc' = [doc EXCEPT ![o].status = "failed", ![o].wait = 0]
  /\ del' = [d \in Delivery |->
               IF del[d].order = o /\ del[d].status \in Active
               THEN [del[d] EXCEPT !.status = "needs_review", !.wait = 0]
               ELSE del[d]]

\* What came back is not a PDF.
RecordDocumentInvalid(w) ==
  /\ job[w].pc = "render"
  /\ MarkDocumentFailed(w)
  /\ job' = [job EXCEPT ![w] = Idle]
  /\ UNCHANGED <<req, events, sent, keyLeft, crashes>>

\* _record_document_temporary: renderer or storage failed.
RecordDocumentTemporary(w) ==
  /\ job[w].pc = "render"
  /\ \/ job[w].expired /\ MarkDocumentFailed(w)
     \/ /\ ~job[w].expired
        /\ \E n \in RetryWait :
             doc' = [doc EXCEPT ![job[w].on].status = "pending", ![job[w].on].wait = n]
        /\ UNCHANGED del
  /\ job' = [job EXCEPT ![w] = Idle]
  /\ UNCHANGED <<req, events, sent, keyLeft, crashes>>

-----------------------------------------------------------------------------
(* The worker: deliveries *)

ClaimDelivery(w, d) ==
  /\ job[w].pc = "idle"
  /\ Due(del[d])
  /\ doc[del[d].order].status = "ready"
  /\ LET age == IF del[d].age = Untried THEN 0 ELSE del[d].age
     IN  /\ del' = [del EXCEPT ![d].status = "processing", ![d].wait = Lease, ![d].age = age]
         /\ job' = [job EXCEPT ![w] = [pc |-> "send", on |-> d, expired |-> Expired(age), mid |-> 0]]
  /\ UNCHANGED <<doc, req, events, sent, keyLeft, crashes>>

\* Faulty variant: the allowlist is not consulted.
MaySendToAnyone(to) == TRUE

MaySend(to) == Mode = "test" => to \in Allowed      \* recipient_is_allowed

\* Test mode: a recipient outside the allowlist is skipped.
SkipDelivery(w) ==
  /\ job[w].pc = "send"
  /\ ~MaySend(del[job[w].on].to)
  /\ del' = [del EXCEPT ![job[w].on].status = "skipped", ![job[w].on].wait = 0]
  /\ job' = [job EXCEPT ![w] = Idle]
  /\ UNCHANGED <<doc, req, events, sent, keyLeft, crashes>>

\* The provider answers a known key with the message it already made, and
\* makes a new message for a key it does not know, or no longer knows.
ProviderAccepts(d, pdf, mid) ==
  IF keyLeft[d] > 0
  THEN mid = Len(sent[d]) /\ UNCHANGED <<sent, keyLeft>>
  ELSE /\ Len(sent[d]) < MaxMessages
       /\ mid = Len(sent[d]) + 1
       /\ sent' = [sent EXCEPT ![d] = Append(@, pdf)]
       /\ keyLeft' = [keyLeft EXCEPT ![d] = KeyLife]

\* The message was accepted; the answer reaches the worker, or is lost in a
\* timeout that the client reports as a temporary error.
SendAccepted(w) ==
  LET d == job[w].on
      pdf == doc[del[d].order].pdf
  IN  /\ job[w].pc = "send"
      /\ MaySend(del[d].to)
      /\ pdf # NoPdf
      /\ \E mid \in 1 .. MaxMessages, pc \in {"accepted", "temporary"} :
           /\ ProviderAccepts(d, pdf, mid)
           /\ job' = [job EXCEPT ![w].pc = pc, ![w].mid = mid]
      /\ UNCHANGED <<doc, del, req, events, crashes>>

\* Faulty variant: an answer without a message id is taken for an acceptance.
SendRefusedTakenForAccepted(w) ==
  /\ job[w].pc = "send"
  /\ MaySend(del[job[w].on].to)
  /\ job' = [job EXCEPT ![w].pc = "accepted"]
  /\ UNCHANGED <<doc, del, req, events, sent, keyLeft, crashes>>

\* No message: storage or provider unavailable, or the provider refused it.
\* A key that has a message is never refused for good.
SendRefused(w) ==
  /\ job[w].pc = "send"
  /\ MaySend(del[job[w].on].to)
  /\ \E pc \in {"temporary", "permanent"} :
       /\ pc = "permanent" => keyLeft[job[w].on] = 0 /\ doc[del[job[w].on].order].pdf # NoPdf
       /\ job' = [job EXCEPT ![w].pc = pc]
  /\ UNCHANGED <<doc, del, req, events, sent, keyLeft, crashes>>

RecordPermanent(w) ==
  /\ job[w].pc = "permanent"
  /\ del' = [del EXCEPT ![job[w].on].status = "failed", ![job[w].on].wait = 0]
  /\ job' = [job EXCEPT ![w] = Idle]
  /\ UNCHANGED <<doc, req, events, sent, keyLeft, crashes>>

\* _record_delivery_temporary
RecordTemporary(w) ==
  /\ job[w].pc = "temporary"
  /\ \/ /\ job[w].expired
        /\ del' = [del EXCEPT ![job[w].on].status = "needs_review", ![job[w].on].wait = 0]
     \/ /\ ~job[w].expired
        /\ \E n \in RetryWait :
             del' = [del EXCEPT ![job[w].on].status = "pending", ![job[w].on].wait = n]
  /\ job' = [job EXCEPT ![w] = Idle]
  /\ UNCHANGED <<doc, req, events, sent, keyLeft, crashes>>

-----------------------------------------------------------------------------
(* Provider events *)

IsTerminal(e) == e.type \in {"delivered", "bounced", "failed"}

\* Faulty variant: the newest terminal event replaces an earlier result.
StatusAfterLatest(es, status, B) ==
  LET terminal == {i \in B : IsTerminal(es[i])}
  IN  IF terminal = {} THEN status
      ELSE IF \E i \in terminal : es[i].type = "delivered" /\ \A j \in terminal : j <= i
           THEN "delivered"
           ELSE "failed"

\* apply_event over the events of a set B of positions, oldest first: the
\* first terminal result wins and a terminal status stays.
StatusAfter(es, status, B) ==
  LET terminal == {i \in B : IsTerminal(es[i])}
  IN  IF status \in Terminal \/ terminal = {} THEN status
      ELSE IF \E i \in terminal : es[i].type = "delivered" /\ \A j \in terminal : i <= j
           THEN "delivered"
           ELSE "failed"

Orphans(d, mid) ==
  {i \in DOMAIN events : events[i].state = "orphan" /\ events[i].of = d /\ events[i].mid = mid}

MarkApplied(B) ==
  [i \in DOMAIN events |-> IF i \in B THEN [events[i] EXCEPT !.state = "applied"] ELSE events[i]]

\* The message id is stored, the delivery accepted and the events that came
\* ahead of this commit applied, in one transaction.
RecordAccepted(w) ==
  LET d == job[w].on
      early == Orphans(d, job[w].mid)
  IN  /\ job[w].pc = "accepted"
      /\ del' = [del EXCEPT ![d].status = StatusAfter(events, "accepted", early),
                            ![d].wait = 0, ![d].mid = job[w].mid]
      /\ events' = MarkApplied(early)
      /\ job' = [job EXCEPT ![w] = Idle]
      /\ UNCHANGED <<doc, req, sent, keyLeft, crashes>>

\* Faulty variant: only deliveries still waiting for a result are looked at.
ApplyPendingEventsToAccepted(w) ==
  /\ job[w].pc = "idle"
  /\ LET due(d) == IF del[d].status = "accepted" THEN Orphans(d, del[d].mid) ELSE {}
     IN  /\ \E d \in Delivery : due(d) # {}
         /\ del' = [d \in Delivery |->
                      [del[d] EXCEPT !.status = StatusAfter(events, @, due(d))]]
         /\ events' = MarkApplied(UNION {due(d) : d \in Delivery})
  /\ UNCHANGED <<doc, job, req, sent, keyLeft, crashes>>

\* apply_pending_events, at the start of a worker's round.
ApplyPendingEvents(w) ==
  /\ job[w].pc = "idle"
  /\ \E d \in Delivery : del[d].mid # 0 /\ Orphans(d, del[d].mid) # {}
  /\ LET due(d) == IF del[d].mid = 0 THEN {} ELSE Orphans(d, del[d].mid)
     IN  /\ del' = [d \in Delivery |->
                      [del[d] EXCEPT !.status = StatusAfter(events, @, due(d))]]
         /\ events' = MarkApplied(UNION {due(d) : d \in Delivery})
  /\ UNCHANGED <<doc, job, req, sent, keyLeft, crashes>>

Seen(s) == \E i \in DOMAIN events : events[i].svix = s

\* receive_resend_webhook: a repeated svix-id changes nothing. An event whose
\* message id is stored is applied under the delivery's row lock; one whose
\* message id is not stored yet is kept, and is visible to others only after
\* this transaction commits.
ReceiveWebhook(s, d, mid, type) ==
  LET e == [svix |-> s, type |-> type, of |-> d, mid |-> mid,
            state |-> IF del[d].mid = mid THEN "applied" ELSE "open"]
      es == Append(events, e)
  IN  /\ ~Seen(s)
      /\ mid \in 1 .. Len(sent[d])
      /\ events' = es
      /\ del' = IF del[d].mid = mid
                THEN [del EXCEPT ![d].status = StatusAfter(es, @, {Len(es)})]
                ELSE del
      /\ UNCHANGED <<doc, job, req, sent, keyLeft, crashes>>

CommitOrphan(i) ==
  /\ events[i].state = "open"
  /\ events' = [events EXCEPT ![i].state = "orphan"]
  /\ UNCHANGED <<doc, del, job, req, sent, keyLeft, crashes>>

-----------------------------------------------------------------------------

\* A worker process dies with what it held in memory.
Crash(w) ==
  /\ job[w].pc # "idle"
  /\ crashes < MaxCrashes
  /\ crashes' = crashes + 1
  /\ job' = [job EXCEPT ![w] = Idle]
  /\ UNCHANGED <<doc, del, req, events, sent, keyLeft>>

WorkerStep(w) ==
  \/ \E o \in Order : ClaimDocument(w, o)
  \/ RecordDocumentReady(w)
  \/ RecordDocumentInvalid(w)
  \/ RecordDocumentTemporary(w)
  \/ \E d \in Delivery : ClaimDelivery(w, d)
  \/ SkipDelivery(w)
  \/ SendAccepted(w)
  \/ SendRefused(w)
  \/ RecordAccepted(w)
  \/ RecordPermanent(w)
  \/ RecordTemporary(w)

Api ==
  \/ \E o \in Order : EnqueueOrderEmails(o)
  \/ \E r \in Request, d \in Delivery, to \in Recipient : BeginResend(r, d, to)
  \/ \E r \in Request, o \in Order, to \in Address : BeginTestSend(r, o, to)
  \/ \E r \in Request : InsertDelivery(r)

Webhook ==
  \/ \E s \in Svix, d \in Delivery, mid \in 1 .. MaxMessages, type \in EventType :
       ReceiveWebhook(s, d, mid, type)
  \/ \E i \in DOMAIN events : CommitOrphan(i)

Next ==
  \/ Tick
  \/ Api
  \/ Webhook
  \/ \E w \in Worker : WorkerStep(w) \/ ApplyPendingEvents(w) \/ Crash(w)

Spec == Init /\ [][Next]_vars

\* Every worker keeps its loop going, opens each round by applying stored
\* events, and time goes on. Nothing obliges users or the provider to act,
\* except that a webhook transaction that was begun ends.
Fairness ==
  /\ SF_vars(Tick)
  /\ WF_vars(\E i \in DOMAIN events : CommitOrphan(i))
  /\ \A w \in Worker : WF_vars(WorkerStep(w)) /\ SF_vars(ApplyPendingEvents(w))

FairSpec == Spec /\ Fairness

-----------------------------------------------------------------------------
(* Properties *)

\* A delivery is shown as accepted or delivered only with the id of a message
\* the provider did create for it (_process_delivery, apply_event), whatever
\* crashes, late answers and orphan events came in between.
AcceptedHasMessage ==
  \A d \in Delivery :
    del[d].status \in {"accepted", "delivered"} => del[d].mid \in 1 .. Len(sent[d])

\* No message exists for a delivery without a valid address, nor, in test
\* mode, for one outside the allowlist, by whichever route the row was queued
\* (finalization, resend, test send).
SentOnlyWhereAllowed ==
  \A d \in Delivery :
    sent[d] # <<>> => /\ del[d].to # NoAddress
                      /\ Mode = "test" => del[d].to \in Allowed

\* Every message carries the PDF the document row points at, the one the
\* download endpoint serves: a rendering is never replaced once one was sent.
SentPdfIsStoredPdf ==
  \A d \in Delivery : \A n \in DOMAIN sent[d] : sent[d][n] = doc[del[d].order].pdf

\* The first terminal result of a delivery stands (apply_event's contract): no
\* worker, retry, late or repeated event moves it.
FirstTerminalWins ==
  [][\A d \in Delivery : del[d].status \in Terminal => del'[d].status = del[d].status]_vars

\* Every queued delivery leaves the queue: sent, refused, skipped, or handed to
\* a person after the retry window, also when its document cannot be made. The
\* exception is a manual resend of a document that failed.
QueuedDeliverySettles ==
  \A d \in Delivery :
    (del[d].status \in Active) ~>
      \/ del[d].status \notin Active
      \/ del[d].origin = "manual_resend" /\ doc[del[d].order].status = "failed"

\* An event stored while the message id was not yet committed still reaches its
\* delivery, even when webhook and worker commit without seeing each other.
StoredEventIsApplied ==
  \A i \in 1 .. Cardinality(Svix) :
    (i \in DOMAIN events /\ del[events[i].of].mid = events[i].mid) ~>
      (i \in DOMAIN events /\ events[i].state = "applied")
=============================================================================
