------------------------ MODULE OrderEmailQueue_proofs ------------------------
(***************************************************************************)
(* What holds of the order e-mail queue for any number of orders,          *)
(* deliveries, workers, requests and webhook events, with or without the   *)
(* assumption that attempts end within their lease.                        *)
(***************************************************************************)
EXTENDS OrderEmailQueue, SequenceTheorems, TLAPS

\* A row in use belongs to an order, one in the queue has an address, and a
\* row not in use has no message.
RowsInUse ==
  \A d \in Delivery :
    /\ del[d].status = "none" <=> del[d].order = NoRow
    /\ del[d].status \in Active => del[d].to # NoAddress
    /\ del[d].status = "none" => sent[d] = <<>>

\* A request about to insert a row knows its order, and queues it only with
\* an address.
RequestsPrepared ==
  \A r \in Request :
    req[r].pc = "insert" => /\ req[r].order \in Order
                            /\ req[r].status \in {"pending", "blocked", "skipped"}
                            /\ req[r].status = "pending" => req[r].to # NoAddress

\* A worker holds the kind of row its step is about, and that row is in use
\* with an address; an accepted attempt holds the id of a message.
JobsOnRows ==
  \A w \in Worker :
    /\ job[w].pc = "render" => job[w].on \in Order
    /\ job[w].pc \in {"send", "accepted", "temporary", "permanent"} =>
         /\ job[w].on \in Delivery
         /\ del[job[w].on].status # "none"
         /\ del[job[w].on].to # NoAddress
    /\ job[w].pc = "accepted" => job[w].mid \in 1 .. Len(sent[job[w].on])

\* A stored message id, and a key the provider remembers, stand for a message.
IdsOfMessages ==
  \A d \in Delivery :
    /\ del[d].mid <= Len(sent[d])
    /\ Len(sent[d]) <= MaxMessages
    /\ keyLeft[d] > 0 => sent[d] # <<>>

MessageInv ==
  /\ TypeOK
  /\ RowsInUse
  /\ RequestsPrepared
  /\ JobsOnRows
  /\ IdsOfMessages
  /\ AcceptedHasMessage
  /\ SentOnlyWhereAllowed

-----------------------------------------------------------------------------

LEMMA StatusAfterStatus ==
  ASSUME NEW es, NEW status \in DelStatus, NEW B
  PROVE  /\ StatusAfter(es, status, B) \in DelStatus
         /\ StatusAfter(es, status, B) \in {status} \cup Terminal
  BY DEF StatusAfter, DelStatus, Terminal, Active

LEMMA MarkAppliedType ==
  ASSUME events \in Seq(Event), NEW B
  PROVE  MarkApplied(B) \in Seq(Event)
<1>1. Len(events) \in Nat /\ DOMAIN events = 1 .. Len(events)
  OBVIOUS
<1>2. \A i \in 1 .. Len(events) : events[i] \in Event
  OBVIOUS
<1>3. \A i \in 1 .. Len(events) : [events[i] EXCEPT !.state = "applied"] \in Event
  BY <1>2 DEF Event
<1>4. MarkApplied(B) \in [1 .. Len(events) -> Event]
  BY <1>1, <1>2, <1>3 DEF MarkApplied
<1> QED
  BY <1>1, <1>4

LEMMA RowTypes ==
  /\ NoDoc \in DocRow
  /\ NoDel \in DelRow
  /\ Idle \in Job
  /\ NoRequest \in Pending
  BY TimeAssumption, BoundAssumption DEF NoDoc, DocRow, NoDel, DelRow, Idle, Job, NoRequest, Pending,
     DocStatus, DelStatus, Active, Terminal, Untried, Recipient

LEMMA DocUpdates ==
  ASSUME NEW row \in DocRow, NEW status \in DocStatus, NEW n \in 0 .. Lease
  PROVE  /\ row.status \in DocStatus /\ row.wait \in 0 .. Lease
         /\ row.age \in Untried .. Window /\ row.pdf \in Pdf \cup {NoPdf}
         /\ [row EXCEPT !.status = status] \in DocRow
         /\ [row EXCEPT !.status = status, !.wait = n] \in DocRow
         /\ \A age \in Untried .. Window :
              /\ [row EXCEPT !.status = status, !.wait = n, !.age = age] \in DocRow
              /\ [row EXCEPT !.wait = n, !.age = age] \in DocRow
         /\ \A p \in Pdf : [row EXCEPT !.status = status, !.wait = n, !.pdf = p] \in DocRow
  BY DEF DocRow

LEMMA DelUpdates ==
  ASSUME NEW row \in DelRow, NEW status \in DelStatus, NEW n \in 0 .. Lease
  PROVE  /\ row.status \in DelStatus /\ row.wait \in 0 .. Lease
         /\ row.age \in Untried .. Window /\ row.mid \in 0 .. MaxMessages
         /\ row.order \in Order \cup {NoRow} /\ row.to \in Recipient
         /\ [row EXCEPT !.status = status] \in DelRow
         /\ [row EXCEPT !.status = status, !.wait = n] \in DelRow
         /\ \A age \in Untried .. Window :
              /\ [row EXCEPT !.status = status, !.wait = n, !.age = age] \in DelRow
              /\ [row EXCEPT !.wait = n, !.age = age] \in DelRow
         /\ \A mid \in 0 .. MaxMessages :
              [row EXCEPT !.status = status, !.wait = n, !.mid = mid] \in DelRow
  BY DEF DelRow

LEMMA DelFields ==
  ASSUME NEW row \in DelRow, NEW status, NEW n, NEW mid
  PROVE  LET new == [row EXCEPT !.status = status, !.wait = n, !.mid = mid]
         IN  new.order = row.order /\ new.to = row.to /\ new.status = status /\ new.mid = mid
  BY DEF DelRow

LEMMA NewDeliveryType ==
  ASSUME NEW o \in Order, NEW to \in Recipient,
         NEW origin \in {"finalization", "manual_resend"}, NEW status \in DelStatus
  PROVE  /\ NewDelivery(o, to, origin, status) \in DelRow
         /\ NewDelivery(o, to, origin, status).status = status
         /\ NewDelivery(o, to, origin, status).order = o
         /\ NewDelivery(o, to, origin, status).to = to
         /\ NewDelivery(o, to, origin, status).mid = 0
  BY RowTypes DEF NewDelivery, NoDel, DelRow

LEMMA Timers ==
  /\ 0 \in 0 .. Lease /\ Lease \in 0 .. Lease
  /\ RetryWait \subseteq 0 .. Lease
  /\ 0 \in Untried .. Window
  /\ \A n \in 0 .. Lease : Sooner(n) \in 0 .. Lease
  /\ \A n \in 0 .. KeyLife : Sooner(n) \in 0 .. KeyLife
  /\ \A a \in Untried .. Window : Older(a) \in Untried .. Window
  /\ 0 \in 0 .. MaxMessages
  /\ KeyLife \in 0 .. KeyLife
  BY TimeAssumption, BoundAssumption DEF Sooner, Older, Untried

LEMMA StatusNames ==
  /\ {"none", "pending", "processing", "ready", "failed"} \subseteq DocStatus
  /\ {"none", "pending", "processing", "accepted", "delivered", "failed", "needs_review",
      "blocked", "skipped"} \subseteq DelStatus
  BY DEF DocStatus, DelStatus, Active, Terminal

LEMMA JobUpdates ==
  ASSUME NEW row \in Job, NEW pc \in {"accepted", "temporary", "permanent"}
  PROVE  /\ [row EXCEPT !.pc = pc] \in Job
         /\ \A mid \in 0 .. MaxMessages : [row EXCEPT !.pc = pc, !.mid = mid] \in Job
  BY DEF Job

LEMMA RecordDocumentReadyType ==
  ASSUME TypeOK, JobsOnRows, NEW w \in Worker, RecordDocumentReady(w)
  PROVE  TypeOK'
<1>1. PICK p \in Pdf :
        doc' = [doc EXCEPT ![job[w].on].status = "ready", ![job[w].on].wait = 0, ![job[w].on].pdf = p]
  BY DEF RecordDocumentReady
<1>2. job[w].on \in Order /\ doc[job[w].on] \in DocRow
  BY DEF TypeOK, JobsOnRows, RecordDocumentReady
<1>3. [doc[job[w].on] EXCEPT !.status = "ready", !.wait = 0, !.pdf = p] \in DocRow
  BY <1>2, DocUpdates, Timers, StatusNames
<1>4. doc' = [doc EXCEPT ![job[w].on] =
                [doc[job[w].on] EXCEPT !.status = "ready", !.wait = 0, !.pdf = p]]
  BY <1>1, <1>2 DEF TypeOK
<1>5. doc' \in [Order -> DocRow] /\ job' \in [Worker -> Job]
  BY <1>3, <1>4, RowTypes DEF TypeOK, RecordDocumentReady
<1> QED
  BY <1>5 DEF TypeOK, RecordDocumentReady

LEMMA MarkDocumentFailedType ==
  ASSUME TypeOK, NEW w \in Worker, job[w].on \in Order, MarkDocumentFailed(w)
  PROVE  doc' \in [Order -> DocRow] /\ del' \in [Delivery -> DelRow]
  BY Timers, StatusNames, DocUpdates, DelUpdates DEF TypeOK, MarkDocumentFailed

LEMMA RecordDocumentTemporaryType ==
  ASSUME TypeOK, JobsOnRows, NEW w \in Worker, RecordDocumentTemporary(w)
  PROVE  TypeOK'
<1>1. job[w].on \in Order /\ doc[job[w].on] \in DocRow
  BY DEF TypeOK, JobsOnRows, RecordDocumentTemporary
<1>2. job' \in [Worker -> Job]
  BY RowTypes DEF TypeOK, RecordDocumentTemporary
<1>3. doc' \in [Order -> DocRow] /\ del' \in [Delivery -> DelRow]
  <2>1. CASE MarkDocumentFailed(w)
    BY <1>1, <2>1, MarkDocumentFailedType
  <2>2. CASE /\ \E n \in RetryWait :
                  doc' = [doc EXCEPT ![job[w].on].status = "pending", ![job[w].on].wait = n]
             /\ UNCHANGED del
    <3>1. PICK n \in RetryWait :
            doc' = [doc EXCEPT ![job[w].on].status = "pending", ![job[w].on].wait = n]
      BY <2>2
    <3>2. doc' = [doc EXCEPT ![job[w].on] = [doc[job[w].on] EXCEPT !.status = "pending", !.wait = n]]
      BY <1>1, <3>1 DEF TypeOK
    <3>3. [doc[job[w].on] EXCEPT !.status = "pending", !.wait = n] \in DocRow
      BY <1>1, DocUpdates, Timers, StatusNames
    <3> QED
      BY <2>2, <3>2, <3>3 DEF TypeOK
  <2> QED
    BY <2>1, <2>2 DEF RecordDocumentTemporary
<1> QED
  BY <1>2, <1>3 DEF TypeOK, RecordDocumentTemporary

LEMMA InsertDeliveryType ==
  ASSUME TypeOK, RequestsPrepared, NEW r \in Request, InsertDelivery(r)
  PROVE  TypeOK'
<1>1. req[r].order \in Order /\ req[r].to \in Recipient /\ req[r].status \in DelStatus
  BY DEF TypeOK, RequestsPrepared, Pending, InsertDelivery
<1>2. NewDelivery(req[r].order, req[r].to, "manual_resend", req[r].status) \in DelRow
  BY <1>1, NewDeliveryType
<1>3. del' \in [Delivery -> DelRow]
  BY <1>2 DEF TypeOK, InsertDelivery, Unused
<1>4. req' \in [Request -> Pending]
  BY RowTypes DEF TypeOK, InsertDelivery
<1> QED
  BY <1>3, <1>4 DEF TypeOK, InsertDelivery

LEMMA EnqueueOrderEmailsType ==
  ASSUME TypeOK, NEW o \in Order, EnqueueOrderEmails(o)
  PROVE  TypeOK'
<1>1. doc[o] \in DocRow /\ doc' = [doc EXCEPT ![o] = [doc[o] EXCEPT !.status = "pending"]]
  BY DEF TypeOK, EnqueueOrderEmails
<1>2. doc' \in [Order -> DocRow]
  BY <1>1, DocUpdates, Timers, StatusNames DEF TypeOK
<1>3. del' \in [Delivery -> DelRow]
  <2>1. PICK ds \in SUBSET Unused : \E to \in [ds -> Recipient] :
          del' = [d \in Delivery |->
                    IF d \in ds
                    THEN NewDelivery(o, to[d], "finalization",
                                     IF to[d] = NoAddress THEN "blocked" ELSE "pending")
                    ELSE del[d]]
    BY DEF EnqueueOrderEmails
  <2>2. PICK to \in [ds -> Recipient] :
          del' = [d \in Delivery |->
                    IF d \in ds
                    THEN NewDelivery(o, to[d], "finalization",
                                     IF to[d] = NoAddress THEN "blocked" ELSE "pending")
                    ELSE del[d]]
    BY <2>1
  <2>3. \A d \in ds : NewDelivery(o, to[d], "finalization",
                                  IF to[d] = NoAddress THEN "blocked" ELSE "pending") \in DelRow
    BY NewDeliveryType, StatusNames
  <2> QED
    BY <2>2, <2>3 DEF TypeOK
<1> QED
  BY <1>2, <1>3 DEF TypeOK, EnqueueOrderEmails

LEMMA CrashType ==
  ASSUME TypeOK, NEW w \in Worker, Crash(w)
  PROVE  TypeOK'
<1>1. crashes' \in 0 .. MaxCrashes
  BY BoundAssumption DEF TypeOK, Crash
<1>2. job' \in [Worker -> Job]
  BY RowTypes DEF TypeOK, Crash
<1> QED
  BY <1>1, <1>2 DEF TypeOK, Crash

LEMMA CommitOrphanType ==
  ASSUME TypeOK, NEW i \in DOMAIN events, CommitOrphan(i)
  PROVE  TypeOK'
<1>1. events[i] \in Event /\ DOMAIN events = 1 .. Len(events)
  BY DEF TypeOK
<1>2. [events[i] EXCEPT !.state = "orphan"] \in Event
  BY <1>1 DEF Event
<1>3. events' \in Seq(Event)
  BY <1>1, <1>2, ExceptSeq DEF TypeOK, CommitOrphan
<1> QED
  BY <1>3 DEF TypeOK, CommitOrphan

LEMMA ReceiveWebhookType ==
  ASSUME TypeOK, NEW s \in Svix, NEW d \in Delivery, NEW mid \in 1 .. MaxMessages,
         NEW type \in EventType, ReceiveWebhook(s, d, mid, type)
  PROVE  TypeOK'
<1> DEFINE e == [svix |-> s, type |-> type, of |-> d, mid |-> mid,
                 state |-> IF del[d].mid = mid THEN "applied" ELSE "open"]
<1>1. e \in Event
  BY DEF Event
<1>2. events' = Append(events, e)
  BY DEF ReceiveWebhook
<1>3. events' \in Seq(Event)
  BY <1>1, <1>2, AppendProperties DEF TypeOK
<1>4. del[d] \in DelRow /\ del[d].status \in DelStatus
  BY DelUpdates, StatusNames, Timers DEF TypeOK
<1>5. del' \in [Delivery -> DelRow]
  <2> DEFINE after == StatusAfter(Append(events, e), del[d].status, {Len(Append(events, e))})
  <2>1. after \in DelStatus
    BY <1>4, StatusAfterStatus
  <2>2. [del[d] EXCEPT !.status = after] \in DelRow
    BY <1>4, <2>1, DelUpdates, Timers
  <2>3. del' = del \/ del' = [del EXCEPT ![d] = [del[d] EXCEPT !.status = after]]
    BY DEF ReceiveWebhook
  <2> HIDE DEF after
  <2> QED
    BY <2>2, <2>3 DEF TypeOK
<1> QED
  BY <1>3, <1>5 DEF TypeOK, ReceiveWebhook

LEMMA RecordTemporaryType ==
  ASSUME TypeOK, JobsOnRows, NEW w \in Worker, RecordTemporary(w)
  PROVE  TypeOK'
<1>1. job[w].on \in Delivery /\ del[job[w].on] \in DelRow
  BY DEF TypeOK, JobsOnRows, RecordTemporary
<1>2. PICK status \in DelStatus, n \in 0 .. Lease :
        del' = [del EXCEPT ![job[w].on].status = status, ![job[w].on].wait = n]
  BY Timers, StatusNames DEF RecordTemporary
<1>3. del' = [del EXCEPT ![job[w].on] = [del[job[w].on] EXCEPT !.status = status, !.wait = n]]
  BY <1>1, <1>2 DEF TypeOK
<1>4. [del[job[w].on] EXCEPT !.status = status, !.wait = n] \in DelRow
  BY <1>1, DelUpdates
<1>5. del' \in [Delivery -> DelRow]
  BY <1>3, <1>4 DEF TypeOK
<1>6. job' \in [Worker -> Job]
  BY RowTypes DEF TypeOK, RecordTemporary
<1> QED
  BY <1>5, <1>6 DEF TypeOK, RecordTemporary

LEMMA RecordAcceptedType ==
  ASSUME TypeOK, JobsOnRows, NEW w \in Worker, RecordAccepted(w)
  PROVE  TypeOK'
<1> DEFINE d == job[w].on
           early == Orphans(d, job[w].mid)
           after == StatusAfter(events, "accepted", early)
<1>1. d \in Delivery /\ del[d] \in DelRow /\ job[w].mid \in 0 .. MaxMessages
  BY DEF TypeOK, JobsOnRows, RecordAccepted, Job
<1>2. after \in DelStatus
  BY StatusAfterStatus, StatusNames
<1>3. del' = [del EXCEPT ![d] = [del[d] EXCEPT !.status = after, !.wait = 0, !.mid = job[w].mid]]
  BY <1>1 DEF RecordAccepted, TypeOK
<1>4. [del[d] EXCEPT !.status = after, !.wait = 0, !.mid = job[w].mid] \in DelRow
  BY <1>1, <1>2, Timers, DelUpdates
<1>5. del' \in [Delivery -> DelRow]
  BY <1>1, <1>3, <1>4 DEF TypeOK
<1>6. events' \in Seq(Event)
  BY MarkAppliedType DEF TypeOK, RecordAccepted
<1>7. job' \in [Worker -> Job]
  BY RowTypes DEF TypeOK, RecordAccepted
<1> QED
  BY <1>5, <1>6, <1>7 DEF TypeOK, RecordAccepted

LEMMA SendRefusedType ==
  ASSUME TypeOK, NEW w \in Worker, SendRefused(w)
  PROVE  TypeOK'
<1>1. PICK pc \in {"temporary", "permanent"} : job' = [job EXCEPT ![w].pc = pc]
  BY DEF SendRefused
<1>2. job[w] \in Job
  BY DEF TypeOK
<1>3. [job[w] EXCEPT !.pc = pc] \in Job
  BY <1>2, JobUpdates
<1>4. job' = [job EXCEPT ![w] = [job[w] EXCEPT !.pc = pc]]
  BY <1>1 DEF TypeOK
<1>5. job' \in [Worker -> Job]
  BY <1>3, <1>4 DEF TypeOK
<1> QED
  BY <1>5 DEF TypeOK, SendRefused

LEMMA ProviderAcceptsType ==
  ASSUME TypeOK, NEW d \in Delivery, NEW pdf \in Pdf, NEW mid \in 1 .. MaxMessages,
         ProviderAccepts(d, pdf, mid)
  PROVE  sent' \in [Delivery -> Seq(Pdf)] /\ keyLeft' \in [Delivery -> 0 .. KeyLife]
<1>1. sent[d] \in Seq(Pdf) /\ Append(sent[d], pdf) \in Seq(Pdf)
  BY AppendProperties DEF TypeOK
<1> QED
  BY <1>1, Timers DEF TypeOK, ProviderAccepts

LEMMA SendAcceptedType ==
  ASSUME TypeOK, JobsOnRows, RowsInUse, NEW w \in Worker, SendAccepted(w)
  PROVE  TypeOK'
<1>1. /\ job[w].on \in Delivery
      /\ del[job[w].on] \in DelRow
      /\ del[job[w].on].order \in Order
  BY DelUpdates, Timers, StatusNames DEF TypeOK, JobsOnRows, RowsInUse, SendAccepted
<1>2. doc[del[job[w].on].order].pdf \in Pdf
  BY <1>1, DocUpdates, Timers, StatusNames DEF TypeOK, SendAccepted
<1>3. PICK mid \in 1 .. MaxMessages, pc \in {"accepted", "temporary"} :
        /\ ProviderAccepts(job[w].on, doc[del[job[w].on].order].pdf, mid)
        /\ job' = [job EXCEPT ![w].pc = pc, ![w].mid = mid]
  BY DEF SendAccepted
<1>4. sent' \in [Delivery -> Seq(Pdf)] /\ keyLeft' \in [Delivery -> 0 .. KeyLife]
  BY <1>1, <1>2, <1>3, ProviderAcceptsType
<1>5. job[w] \in Job /\ mid \in 0 .. MaxMessages
  BY BoundAssumption DEF TypeOK
<1>6. [job[w] EXCEPT !.pc = pc, !.mid = mid] \in Job
  BY <1>5, JobUpdates
<1>7. job' = [job EXCEPT ![w] = [job[w] EXCEPT !.pc = pc, !.mid = mid]]
  BY <1>3 DEF TypeOK
<1>8. job' \in [Worker -> Job]
  BY <1>6, <1>7 DEF TypeOK
<1> QED
  BY <1>4, <1>8 DEF TypeOK, SendAccepted

LEMMA ClaimDeliveryType ==
  ASSUME TypeOK, NEW w \in Worker, NEW d \in Delivery, ClaimDelivery(w, d)
  PROVE  TypeOK'
<1> DEFINE age == IF del[d].age = Untried THEN 0 ELSE del[d].age
<1>1. del[d] \in DelRow
  BY DEF TypeOK
<1>2. age \in Untried .. Window
  BY <1>1, DelUpdates, Timers, StatusNames
<1>3. [del[d] EXCEPT !.status = "processing", !.wait = Lease, !.age = age] \in DelRow
  BY <1>1, <1>2, DelUpdates, Timers, StatusNames
<1>4. del' = [del EXCEPT ![d] = [del[d] EXCEPT !.status = "processing", !.wait = Lease, !.age = age]]
  BY <1>1 DEF ClaimDelivery, TypeOK
<1>5. [pc |-> "send", on |-> d, expired |-> Expired(age), mid |-> 0] \in Job
  BY Timers DEF Job, Expired
<1>6. job' = [job EXCEPT ![w] = [pc |-> "send", on |-> d, expired |-> Expired(age), mid |-> 0]]
  BY DEF ClaimDelivery
<1> HIDE DEF age
<1>7. del' \in [Delivery -> DelRow] /\ job' \in [Worker -> Job]
  BY <1>3, <1>4, <1>5, <1>6 DEF TypeOK
<1> QED
  BY <1>7 DEF TypeOK, ClaimDelivery

LEMMA TickType ==
  ASSUME TypeOK, Tick
  PROVE  TypeOK'
  BY RowTypes, Timers, StatusNames, DocUpdates, DelUpdates DEF TypeOK, Tick

LEMMA BeginResendType ==
  ASSUME TypeOK, RowsInUse, NEW r \in Request, NEW d \in Delivery, NEW to \in Recipient, BeginResend(r, d, to)
  PROVE  TypeOK'
  BY RowTypes, Timers, StatusNames, DelUpdates DEF TypeOK, BeginResend, RowsInUse, Pending

LEMMA BeginTestSendType ==
  ASSUME TypeOK, NEW r \in Request, NEW o \in Order, NEW to \in Address, BeginTestSend(r, o, to)
  PROVE  TypeOK'
  BY RowTypes, Timers, StatusNames DEF TypeOK, BeginTestSend, Pending, Recipient

LEMMA ClaimDocumentType ==
  ASSUME TypeOK, NEW w \in Worker, NEW o \in Order, ClaimDocument(w, o)
  PROVE  TypeOK'
  BY RowTypes, Timers, StatusNames, DocUpdates DEF TypeOK, ClaimDocument, Job, Expired

LEMMA RecordDocumentInvalidType ==
  ASSUME TypeOK, JobsOnRows, NEW w \in Worker, RecordDocumentInvalid(w)
  PROVE  TypeOK'
  BY RowTypes, Timers, StatusNames, DocUpdates, DelUpdates DEF TypeOK, RecordDocumentInvalid, JobsOnRows, MarkDocumentFailed

LEMMA SkipDeliveryType ==
  ASSUME TypeOK, JobsOnRows, NEW w \in Worker, SkipDelivery(w)
  PROVE  TypeOK'
  BY RowTypes, Timers, StatusNames, DelUpdates DEF TypeOK, SkipDelivery, JobsOnRows

LEMMA RecordPermanentType ==
  ASSUME TypeOK, JobsOnRows, NEW w \in Worker, RecordPermanent(w)
  PROVE  TypeOK'
  BY RowTypes, Timers, StatusNames, DelUpdates DEF TypeOK, RecordPermanent, JobsOnRows

LEMMA ApplyPendingEventsType ==
  ASSUME TypeOK, NEW w \in Worker, ApplyPendingEvents(w)
  PROVE  TypeOK'
  BY RowTypes, Timers, StatusNames, DelUpdates, MarkAppliedType, StatusAfterStatus DEF TypeOK, ApplyPendingEvents

-----------------------------------------------------------------------------

\* What a step may do to a row in use: its order and recipient stay, only a row
\* with an address is queued again, and acceptance comes with a message id.
RowKept(d) ==
  /\ del'[d].order = del[d].order
  /\ del'[d].to = del[d].to
  /\ del'[d].status = "none" <=> del[d].status = "none"
  /\ del'[d].status \in Active => del[d].to # NoAddress
  /\ del'[d].mid <= Len(sent[d])
  /\ del'[d].status \in {"accepted", "delivered"} => del'[d].mid \in 1 .. Len(sent[d])

RowCreated(d) ==
  /\ del[d].status = "none"
  /\ del'[d].order \in Order
  /\ del'[d].status \in {"pending", "blocked", "skipped"}
  /\ del'[d].status = "pending" => del'[d].to # NoAddress
  /\ del'[d].mid = 0

RowStep == \A d \in Delivery : RowKept(d) \/ RowCreated(d)

LEMMA UnchangedRow ==
  ASSUME MessageInv, NEW d \in Delivery,
         del'[d].order = del[d].order, del'[d].to = del[d].to,
         del'[d].status = del[d].status, del'[d].mid = del[d].mid
  PROVE  RowKept(d)
  BY DEF MessageInv, RowsInUse, IdsOfMessages, AcceptedHasMessage, RowKept

LEMMA TickRows ==
  ASSUME MessageInv, Tick
  PROVE  RowStep
<1> SUFFICES ASSUME NEW d \in Delivery PROVE RowKept(d)
  BY DEF RowStep
<1>1. del[d] \in DelRow
  BY DEF MessageInv, TypeOK
<1>2. del'[d] = [del[d] EXCEPT !.wait = Sooner(@), !.age = Older(@)]
  BY DEF Tick
<1> QED
  BY <1>1, <1>2, UnchangedRow DEF DelRow

LEMMA EnqueueOrderEmailsRows ==
  ASSUME MessageInv, NEW o \in Order, EnqueueOrderEmails(o)
  PROVE  RowStep
<1>1. PICK ds \in SUBSET Unused : \E to \in [ds -> Recipient] :
        del' = [d \in Delivery |->
                  IF d \in ds
                  THEN NewDelivery(o, to[d], "finalization",
                                   IF to[d] = NoAddress THEN "blocked" ELSE "pending")
                  ELSE del[d]]
  BY DEF EnqueueOrderEmails
<1>2. PICK to \in [ds -> Recipient] :
        del' = [d \in Delivery |->
                  IF d \in ds
                  THEN NewDelivery(o, to[d], "finalization",
                                   IF to[d] = NoAddress THEN "blocked" ELSE "pending")
                  ELSE del[d]]
  BY <1>1
<1> SUFFICES ASSUME NEW d \in Delivery PROVE RowKept(d) \/ RowCreated(d)
  BY DEF RowStep
<1>3. CASE d \in ds
  <2>1. to[d] \in Recipient /\ del[d].status = "none"
    BY <1>3 DEF Unused
  <2>2. del'[d] = NewDelivery(o, to[d], "finalization",
                              IF to[d] = NoAddress THEN "blocked" ELSE "pending")
    BY <1>2, <1>3
  <2> QED
    BY <2>1, <2>2, NewDeliveryType, StatusNames DEF RowCreated
<1>4. CASE d \notin ds
  BY <1>2, <1>4, UnchangedRow
<1> QED
  BY <1>3, <1>4

LEMMA InsertDeliveryRows ==
  ASSUME MessageInv, NEW r \in Request, InsertDelivery(r)
  PROVE  RowStep
<1>1. PICK n \in Unused :
        del' = [del EXCEPT ![n] =
                  NewDelivery(req[r].order, req[r].to, "manual_resend", req[r].status)]
  BY DEF InsertDelivery
<1>2. /\ req[r].order \in Order /\ req[r].to \in Recipient
      /\ req[r].status \in {"pending", "blocked", "skipped"}
      /\ req[r].status = "pending" => req[r].to # NoAddress
  BY DEF MessageInv, TypeOK, RequestsPrepared, Pending, InsertDelivery
<1> SUFFICES ASSUME NEW d \in Delivery PROVE RowKept(d) \/ RowCreated(d)
  BY DEF RowStep
<1>3. CASE d = n
  <2>1. del'[d] = NewDelivery(req[r].order, req[r].to, "manual_resend", req[r].status)
    BY <1>1, <1>3 DEF MessageInv, TypeOK
  <2>2. del[d].status = "none"
    BY <1>3 DEF Unused
  <2> QED
    BY <1>2, <2>1, <2>2, NewDeliveryType, StatusNames DEF RowCreated
<1>4. CASE d # n
  <2>1. del'[d] = del[d]
    BY <1>1, <1>4 DEF MessageInv, TypeOK
  <2> QED
    BY <2>1, UnchangedRow
<1> QED
  BY <1>3, <1>4

LEMMA MarkDocumentFailedRows ==
  ASSUME MessageInv, NEW w \in Worker, MarkDocumentFailed(w)
  PROVE  RowStep
<1> SUFFICES ASSUME NEW d \in Delivery PROVE RowKept(d)
  BY DEF RowStep
<1>1. del[d] \in DelRow
  BY DEF MessageInv, TypeOK
<1>2. CASE del[d].order = job[w].on /\ del[d].status \in Active
  <2>1. del'[d] = [del[d] EXCEPT !.status = "needs_review", !.wait = 0]
    BY <1>2 DEF MarkDocumentFailed
  <2> QED
    BY <1>1, <1>2, <2>1 DEF MessageInv, RowsInUse, IdsOfMessages, RowKept, DelRow, Active
<1>3. CASE ~(del[d].order = job[w].on /\ del[d].status \in Active)
  <2>1. del'[d] = del[d]
    BY <1>3 DEF MarkDocumentFailed
  <2> QED
    BY <2>1, UnchangedRow
<1> QED
  BY <1>2, <1>3

\* A worker's write to the row it holds.
LEMMA WorkerRow ==
  ASSUME MessageInv, NEW w \in Worker,
         job[w].pc \in {"send", "accepted", "temporary", "permanent"},
         NEW status \in DelStatus \ {"none"}, NEW n, NEW mid,
         mid <= Len(sent[job[w].on]),
         status \in {"accepted", "delivered"} => mid \in 1 .. Len(sent[job[w].on]),
         del' = [del EXCEPT ![job[w].on] =
                   [del[job[w].on] EXCEPT !.status = status, !.wait = n, !.mid = mid]]
  PROVE  RowStep
<1> SUFFICES ASSUME NEW d \in Delivery PROVE RowKept(d)
  BY DEF RowStep
<1>1. /\ job[w].on \in Delivery
      /\ del[job[w].on].status # "none"
      /\ del[job[w].on].to # NoAddress
  BY DEF MessageInv, JobsOnRows
<1>2. del[d] \in DelRow /\ del[job[w].on] \in DelRow
  BY <1>1 DEF MessageInv, TypeOK
<1>3. CASE d = job[w].on
  <2>1. del'[d] = [del[d] EXCEPT !.status = status, !.wait = n, !.mid = mid]
    BY <1>3 DEF MessageInv, TypeOK
  <2>2. /\ del'[d].order = del[d].order /\ del'[d].to = del[d].to
        /\ del'[d].status = status /\ del'[d].mid = mid
    <3> DEFINE new == [del[d] EXCEPT !.status = status, !.wait = n, !.mid = mid]
    <3>1. new.order = del[d].order /\ new.to = del[d].to /\ new.status = status /\ new.mid = mid
      BY <1>2, DelFields
    <3>2. del'[d] = new
      BY <2>1
    <3> HIDE DEF new
    <3> QED
      BY <3>1, <3>2
  <2>3. del[d].status # "none" /\ del[d].to # NoAddress /\ mid <= Len(sent[d])
        /\ (status \in {"accepted", "delivered"} => mid \in 1 .. Len(sent[d]))
    BY <1>1, <1>3
  <2> QED
    BY <2>2, <2>3 DEF RowKept
<1>4. CASE d # job[w].on
  <2>1. del'[d] = del[d]
    BY <1>4 DEF MessageInv, TypeOK
  <2> QED
    BY <2>1, UnchangedRow
<1> QED
  BY <1>3, <1>4

LEMMA ClaimDeliveryRows ==
  ASSUME MessageInv, NEW w \in Worker, NEW d \in Delivery, ClaimDelivery(w, d)
  PROVE  RowStep
<1> SUFFICES ASSUME NEW e \in Delivery PROVE RowKept(e)
  BY DEF RowStep
<1>1. PICK age : del' = [del EXCEPT ![d].status = "processing", ![d].wait = Lease, ![d].age = age]
  BY DEF ClaimDelivery
<1>2. del[d] \in DelRow /\ del[d].status \in Active
  BY DEF MessageInv, TypeOK, ClaimDelivery, Due
<1>3. CASE e = d
  <2>1. del'[d] = [del[d] EXCEPT !.status = "processing", !.wait = Lease, !.age = age]
    BY <1>1 DEF MessageInv, TypeOK
  <2>2. /\ del'[d].order = del[d].order /\ del'[d].to = del[d].to
        /\ del'[d].status = "processing" /\ del'[d].mid = del[d].mid
    BY <1>2, <2>1 DEF DelRow
  <2> QED
    BY <1>2, <1>3, <2>2 DEF RowKept, MessageInv, RowsInUse, IdsOfMessages, Active
<1>4. CASE e # d
  <2>1. del'[e] = del[e]
    BY <1>1, <1>4 DEF MessageInv, TypeOK
  <2> QED
    BY <2>1, UnchangedRow
<1> QED
  BY <1>3, <1>4

\* The writes of an attempt that keep the row's message id.
LEMMA WorkerRowSameId ==
  ASSUME MessageInv, NEW w \in Worker,
         job[w].pc \in {"send", "accepted", "temporary", "permanent"},
         NEW status \in {"skipped", "failed", "pending", "needs_review"}, NEW n,
         del' = [del EXCEPT ![job[w].on].status = status, ![job[w].on].wait = n]
  PROVE  RowStep
<1>1. job[w].on \in Delivery /\ del[job[w].on] \in DelRow
  BY DEF MessageInv, TypeOK, JobsOnRows
<1>2. [del[job[w].on] EXCEPT !.status = status, !.wait = n]
        = [del[job[w].on] EXCEPT !.status = status, !.wait = n, !.mid = del[job[w].on].mid]
  BY <1>1 DEF DelRow
<1>3. del' = [del EXCEPT ![job[w].on] =
                [del[job[w].on] EXCEPT !.status = status, !.wait = n, !.mid = del[job[w].on].mid]]
  BY <1>1, <1>2 DEF MessageInv, TypeOK
<1>4. del[job[w].on].mid <= Len(sent[job[w].on])
  BY <1>1 DEF MessageInv, IdsOfMessages
<1>5. status \in DelStatus \ {"none"} /\ status \notin {"accepted", "delivered"}
  BY StatusNames
<1> QED
  BY <1>3, <1>4, <1>5, WorkerRow

LEMMA RecordAcceptedRows ==
  ASSUME MessageInv, NEW w \in Worker, RecordAccepted(w)
  PROVE  RowStep
<1> DEFINE after == StatusAfter(events, "accepted", Orphans(job[w].on, job[w].mid))
<1>1. job[w].on \in Delivery /\ job[w].mid \in 1 .. Len(sent[job[w].on]) /\ job[w].pc = "accepted"
  BY DEF MessageInv, JobsOnRows, RecordAccepted
<1>2. after \in DelStatus \ {"none"}
  BY StatusAfterStatus, StatusNames DEF Terminal
<1>3. del' = [del EXCEPT ![job[w].on] =
                [del[job[w].on] EXCEPT !.status = after, !.wait = 0, !.mid = job[w].mid]]
  BY <1>1 DEF RecordAccepted, MessageInv, TypeOK
<1>4. after \in {"accepted", "delivered"} => job[w].mid \in 1 .. Len(sent[job[w].on])
  BY <1>1
<1>5. job[w].mid <= Len(sent[job[w].on])
  <2>1. sent[job[w].on] \in Seq(Pdf)
    BY <1>1 DEF MessageInv, TypeOK
  <2> QED
    BY <1>1, <2>1
<1> HIDE DEF after
<1> QED
  BY <1>1, <1>2, <1>3, <1>4, <1>5, WorkerRow

LEMMA ApplyPendingEventsRows ==
  ASSUME MessageInv, NEW w \in Worker, ApplyPendingEvents(w)
  PROVE  RowStep
<1> SUFFICES ASSUME NEW d \in Delivery PROVE RowKept(d)
  BY DEF RowStep
<1> DEFINE due == IF del[d].mid = 0 THEN {} ELSE Orphans(d, del[d].mid)
           after == StatusAfter(events, del[d].status, due)
<1>1. del[d] \in DelRow /\ del[d].mid \in Nat /\ del[d].status \in DelStatus
  BY BoundAssumption DEF MessageInv, TypeOK, DelRow
<1>2. del'[d] = [del[d] EXCEPT !.status = after]
  BY DEF ApplyPendingEvents
<1>3. /\ del'[d].order = del[d].order /\ del'[d].to = del[d].to
      /\ del'[d].status = after /\ del'[d].mid = del[d].mid
  BY <1>1, <1>2 DEF DelRow
<1>4. CASE due = {}
  <2>1. after = del[d].status
    BY <1>4 DEF StatusAfter
  <2> QED
    BY <1>3, <2>1, UnchangedRow
<1>5. CASE due # {}
  <2>1. del[d].mid \in 1 .. Len(sent[d]) /\ sent[d] # <<>>
    <3>1. sent[d] \in Seq(Pdf)
      BY DEF MessageInv, TypeOK
    <3> QED
      BY <1>1, <1>5, <3>1 DEF MessageInv, IdsOfMessages
  <2>2. del[d].status # "none"
    BY <2>1 DEF MessageInv, RowsInUse
  <2>3. after \in {del[d].status} \cup Terminal
    BY <1>1, StatusAfterStatus
  <2> QED
    BY <1>3, <2>1, <2>2, <2>3 DEF RowKept, MessageInv, RowsInUse, IdsOfMessages, Terminal, Active
<1> QED
  BY <1>4, <1>5

LEMMA ReceiveWebhookRows ==
  ASSUME MessageInv, NEW s \in Svix, NEW d \in Delivery, NEW mid \in 1 .. MaxMessages,
         NEW type \in EventType, ReceiveWebhook(s, d, mid, type)
  PROVE  RowStep
<1> SUFFICES ASSUME NEW e \in Delivery PROVE RowKept(e)
  BY DEF RowStep
<1>1. CASE e # d \/ del[d].mid # mid
  <2>1. del'[e] = del[e]
    BY <1>1 DEF ReceiveWebhook, MessageInv, TypeOK
  <2> QED
    BY <2>1, UnchangedRow
<1>2. CASE e = d /\ del[d].mid = mid
  <2>1. PICK after :
          /\ after \in {del[d].status} \cup Terminal
          /\ del' = [del EXCEPT ![d].status = after]
    <3>1. del[d].status \in DelStatus
      BY DelUpdates, StatusNames, Timers DEF MessageInv, TypeOK
    <3> QED
      BY <1>2, <3>1, StatusAfterStatus DEF ReceiveWebhook
  <2>2. del[d] \in DelRow
    BY DEF MessageInv, TypeOK
  <2>3. /\ del'[d].order = del[d].order /\ del'[d].to = del[d].to
        /\ del'[d].status = after /\ del'[d].mid = del[d].mid
    BY <2>1, <2>2 DEF MessageInv, TypeOK, DelRow
  <2>4. del[d].mid \in 1 .. Len(sent[d]) /\ sent[d] # <<>>
    <3>1. sent[d] \in Seq(Pdf)
      BY DEF MessageInv, TypeOK
    <3> QED
      BY <1>2, <3>1 DEF ReceiveWebhook
  <2>5. del[d].status # "none"
    BY <2>4 DEF MessageInv, RowsInUse
  <2> QED
    BY <1>2, <2>1, <2>3, <2>4, <2>5
       DEF RowKept, MessageInv, RowsInUse, IdsOfMessages, Terminal, Active
<1> QED
  BY <1>1, <1>2

-----------------------------------------------------------------------------

\* What a step may do to what a worker holds, when no message is made.
JobKept(w) ==
  \/ job'[w] = job[w]
  \/ job'[w].pc = "idle"
  \/ job'[w].pc = "render" /\ job'[w].on \in Order
  \/ /\ job'[w].pc = "send"
     /\ job'[w].on \in Delivery
     /\ del[job'[w].on].status # "none"
     /\ del[job'[w].on].to # NoAddress
  \/ /\ job'[w].pc \in {"temporary", "permanent"}
     /\ job[w].pc = "send"
     /\ job'[w].on = job[w].on

LEMMA RowsStayInUse ==
  ASSUME MessageInv, RowStep, sent' = sent,
         \A d \in Delivery : keyLeft'[d] > 0 => keyLeft[d] > 0
  PROVE  RowsInUse' /\ IdsOfMessages' /\ AcceptedHasMessage' /\ SentOnlyWhereAllowed'
<1>1. RowsInUse'
  <2> SUFFICES ASSUME NEW d \in Delivery
               PROVE  /\ del'[d].status = "none" <=> del'[d].order = NoRow
                      /\ del'[d].status \in Active => del'[d].to # NoAddress
                      /\ del'[d].status = "none" => sent'[d] = <<>>
    BY DEF RowsInUse
  <2>1. CASE RowKept(d)
    BY <2>1 DEF MessageInv, RowsInUse, RowKept
  <2>2. CASE RowCreated(d)
    BY <2>2, RowAssumption DEF RowCreated, Active
  <2> QED
    BY <2>1, <2>2 DEF RowStep
<1>2. IdsOfMessages'
  <2> SUFFICES ASSUME NEW d \in Delivery PROVE del'[d].mid <= Len(sent[d])
    BY DEF MessageInv, IdsOfMessages
  <2>1. sent[d] \in Seq(Pdf)
    BY DEF MessageInv, TypeOK
  <2> QED
    BY <2>1 DEF RowStep, RowKept, RowCreated
<1>3. AcceptedHasMessage'
  BY DEF RowStep, RowKept, RowCreated, AcceptedHasMessage
<1>4. SentOnlyWhereAllowed'
  BY DEF MessageInv, RowsInUse, RowStep, RowKept, RowCreated, SentOnlyWhereAllowed
<1> QED
  BY <1>1, <1>2, <1>3, <1>4

LEMMA JobsStayOnRows ==
  ASSUME MessageInv, RowStep, sent' = sent, \A w \in Worker : JobKept(w)
  PROVE  JobsOnRows'
<1> SUFFICES ASSUME NEW w \in Worker
             PROVE  /\ job'[w].pc = "render" => job'[w].on \in Order
                    /\ job'[w].pc \in {"send", "accepted", "temporary", "permanent"} =>
                         /\ job'[w].on \in Delivery
                         /\ del'[job'[w].on].status # "none"
                         /\ del'[job'[w].on].to # NoAddress
                    /\ job'[w].pc = "accepted" => job'[w].mid \in 1 .. Len(sent[job'[w].on])
  BY DEF JobsOnRows
<1>1. \A d \in Delivery : del[d].status # "none" /\ del[d].to # NoAddress
                            => del'[d].status # "none" /\ del'[d].to # NoAddress
  BY DEF RowStep, RowKept, RowCreated
<1>2. JobKept(w)
  OBVIOUS
<1>3. CASE job'[w] = job[w]
  BY <1>1, <1>3 DEF MessageInv, JobsOnRows
<1>4. CASE job'[w] # job[w]
  BY <1>1, <1>2, <1>4 DEF JobKept, MessageInv, JobsOnRows
<1> QED
  BY <1>3, <1>4

LEMMA SameRows ==
  ASSUME MessageInv, del' = del
  PROVE  RowStep
  BY UnchangedRow DEF RowStep

LEMMA SameRequests ==
  ASSUME MessageInv, req' = req
  PROVE  RequestsPrepared'
  BY DEF MessageInv, RequestsPrepared

\* One job goes idle, the others stay.
LEMMA JobDone ==
  ASSUME MessageInv, NEW w \in Worker, job' = [job EXCEPT ![w] = Idle]
  PROVE  \A v \in Worker : JobKept(v)
  BY DEF MessageInv, TypeOK, JobKept, Idle

LEMMA SendAcceptedInv ==
  ASSUME MessageInv, NEW w \in Worker, SendAccepted(w)
  PROVE  RowsInUse' /\ JobsOnRows' /\ IdsOfMessages' /\ AcceptedHasMessage' /\ SentOnlyWhereAllowed'
<1> DEFINE d == job[w].on
           pdf == doc[del[d].order].pdf
<1>1. /\ job[w].pc = "send" /\ MaySend(del[d].to) /\ del' = del
  BY DEF SendAccepted
<1>2. d \in Delivery /\ del[d].status # "none" /\ del[d].to # NoAddress
  BY <1>1 DEF MessageInv, JobsOnRows
<1>3. PICK mid \in 1 .. MaxMessages, pc \in {"accepted", "temporary"} :
        /\ ProviderAccepts(d, pdf, mid)
        /\ job' = [job EXCEPT ![w].pc = pc, ![w].mid = mid]
  BY DEF SendAccepted
<1>4. /\ pdf \in Pdf
      /\ \A e \in Delivery : sent[e] \in Seq(Pdf) /\ Len(sent[e]) \in Nat
  <2>1. del[d].order \in Order
    BY <1>2, DelUpdates, StatusNames, Timers DEF MessageInv, TypeOK, RowsInUse
  <2>2. doc[del[d].order].pdf \in Pdf \cup {NoPdf} /\ pdf # NoPdf
    BY <2>1, DocUpdates, StatusNames, Timers DEF MessageInv, TypeOK, SendAccepted
  <2> QED
    BY <2>2 DEF MessageInv, TypeOK
<1> HIDE DEF pdf
<1>5. /\ \A e \in Delivery : Len(sent[e]) <= Len(sent'[e]) /\ Len(sent'[e]) \in Nat
      /\ \A e \in Delivery \ {d} : sent'[e] = sent[e] /\ keyLeft'[e] = keyLeft[e]
      /\ sent'[d] # <<>> /\ Len(sent'[d]) <= MaxMessages
      /\ mid \in 1 .. Len(sent'[d])
  <2>1. CASE keyLeft[d] > 0
    <3>1. sent' = sent /\ keyLeft' = keyLeft /\ mid = Len(sent[d])
      BY <1>3, <2>1 DEF ProviderAccepts
    <3>2. sent[d] # <<>> /\ Len(sent[d]) <= MaxMessages
      BY <1>2, <2>1 DEF MessageInv, IdsOfMessages
    <3> QED
      BY <1>2, <1>3, <1>4, <3>1, <3>2
  <2>2. CASE ~(keyLeft[d] > 0)
    <3>1. /\ Len(sent[d]) < MaxMessages /\ mid = Len(sent[d]) + 1
          /\ sent' = [sent EXCEPT ![d] = Append(sent[d], pdf)]
          /\ keyLeft' = [keyLeft EXCEPT ![d] = KeyLife]
      BY <1>3, <2>2 DEF ProviderAccepts
    <3>2. sent'[d] = Append(sent[d], pdf) /\ \A e \in Delivery \ {d} : sent'[e] = sent[e]
      BY <1>2, <3>1 DEF MessageInv, TypeOK
    <3>3. \A e \in Delivery \ {d} : keyLeft'[e] = keyLeft[e]
      BY <1>2, <3>1 DEF MessageInv, TypeOK
    <3>4. Len(sent'[d]) = Len(sent[d]) + 1 /\ sent'[d] # <<>>
      BY <1>2, <1>4, <3>2, AppendProperties
    <3> QED
      BY <1>2, <1>4, <3>1, <3>2, <3>3, <3>4, BoundAssumption
  <2> QED
    BY <2>1, <2>2
<1>6. RowsInUse'
  BY <1>1, <1>2, <1>5 DEF MessageInv, RowsInUse
<1>7. IdsOfMessages'
  <2>1. \A e \in Delivery : del[e].mid \in Nat
    BY BoundAssumption DEF MessageInv, TypeOK, DelRow
  <2> QED
    BY <1>1, <1>2, <1>4, <1>5, <2>1 DEF MessageInv, IdsOfMessages
<1>8. AcceptedHasMessage'
  BY <1>1, <1>4, <1>5 DEF MessageInv, AcceptedHasMessage
<1>9. SentOnlyWhereAllowed'
  BY <1>1, <1>2, <1>5 DEF MessageInv, SentOnlyWhereAllowed, MaySend
<1>10. JobsOnRows'
  <2> SUFFICES ASSUME NEW v \in Worker
               PROVE  /\ job'[v].pc = "render" => job'[v].on \in Order
                      /\ job'[v].pc \in {"send", "accepted", "temporary", "permanent"} =>
                           /\ job'[v].on \in Delivery
                           /\ del[job'[v].on].status # "none"
                           /\ del[job'[v].on].to # NoAddress
                      /\ job'[v].pc = "accepted" => job'[v].mid \in 1 .. Len(sent'[job'[v].on])
    BY <1>1 DEF JobsOnRows
  <2>1. CASE v = w
    <3>1. job'[v] = [job[v] EXCEPT !.pc = pc, !.mid = mid] /\ job[v] \in Job
      BY <1>3, <2>1 DEF MessageInv, TypeOK
    <3>2. job'[v].pc = pc /\ job'[v].on = d /\ job'[v].mid = mid
      BY <2>1, <3>1 DEF Job
    <3> QED
      BY <1>2, <1>5, <3>2
  <2>2. CASE v # w
    <3>1. job'[v] = job[v]
      BY <1>3, <2>2 DEF MessageInv, TypeOK
    <3> QED
      BY <1>4, <1>5, <3>1 DEF MessageInv, JobsOnRows
  <2> QED
    BY <2>1, <2>2
<1> QED
  BY <1>6, <1>7, <1>8, <1>9, <1>10

-----------------------------------------------------------------------------

LEMMA InitInv ==
  ASSUME Init
  PROVE  MessageInv
<1>1. TypeOK
  BY RowTypes, Timers, BoundAssumption, TimeAssumption DEF Init, TypeOK
<1>2. RowsInUse /\ RequestsPrepared /\ JobsOnRows
  BY DEF Init, NoDel, NoRequest, Idle, Active, RowsInUse, RequestsPrepared, JobsOnRows
<1>3. IdsOfMessages /\ AcceptedHasMessage /\ SentOnlyWhereAllowed
  BY BoundAssumption
     DEF Init, NoDel, IdsOfMessages, AcceptedHasMessage, SentOnlyWhereAllowed
<1> QED
  BY <1>1, <1>2, <1>3 DEF MessageInv

\* A step that makes no message keeps the invariant when it keeps its parts.
LEMMA QuietStep ==
  ASSUME MessageInv, TypeOK', RowStep, RequestsPrepared',
         \A w \in Worker : JobKept(w), sent' = sent, keyLeft' = keyLeft
  PROVE  MessageInv'
  BY RowsStayInUse, JobsStayOnRows DEF MessageInv

LEMMA ApiInv ==
  ASSUME MessageInv, Api
  PROVE  MessageInv'
<1>1. ASSUME NEW o \in Order, EnqueueOrderEmails(o) PROVE MessageInv'
  BY <1>1, EnqueueOrderEmailsType, EnqueueOrderEmailsRows, SameRequests, QuietStep
     DEF MessageInv, EnqueueOrderEmails, JobKept
<1>2. ASSUME NEW r \in Request, NEW d \in Delivery, NEW to \in Recipient, BeginResend(r, d, to)
      PROVE  MessageInv'
  <2>1. RequestsPrepared'
    <3>1. del[d].order \in Order
      BY <1>2, DelUpdates, StatusNames, Timers DEF MessageInv, TypeOK, RowsInUse, BeginResend
    <3> QED
      BY <1>2, <3>1 DEF MessageInv, TypeOK, RequestsPrepared, BeginResend
  <2> QED
    BY <1>2, <2>1, BeginResendType, SameRows, QuietStep DEF MessageInv, BeginResend, JobKept
<1>3. ASSUME NEW r \in Request, NEW o \in Order, NEW to \in Address, BeginTestSend(r, o, to)
      PROVE  MessageInv'
  <2>1. RequestsPrepared'
    BY <1>3 DEF MessageInv, TypeOK, RequestsPrepared, BeginTestSend
  <2> QED
    BY <1>3, <2>1, BeginTestSendType, SameRows, QuietStep DEF MessageInv, BeginTestSend, JobKept
<1>4. ASSUME NEW r \in Request, InsertDelivery(r) PROVE MessageInv'
  <2>1. RequestsPrepared'
    BY <1>4 DEF MessageInv, TypeOK, RequestsPrepared, InsertDelivery, NoRequest
  <2> QED
    BY <1>4, <2>1, InsertDeliveryType, InsertDeliveryRows, QuietStep
       DEF MessageInv, InsertDelivery, JobKept
<1> QED
  BY <1>1, <1>2, <1>3, <1>4 DEF Api

LEMMA WebhookInv ==
  ASSUME MessageInv, Webhook
  PROVE  MessageInv'
<1>1. ASSUME NEW s \in Svix, NEW d \in Delivery, NEW mid \in 1 .. MaxMessages,
             NEW type \in EventType, ReceiveWebhook(s, d, mid, type)
      PROVE  MessageInv'
  BY <1>1, ReceiveWebhookType, ReceiveWebhookRows, SameRequests, QuietStep
     DEF MessageInv, ReceiveWebhook, JobKept
<1>2. ASSUME NEW i \in DOMAIN events, CommitOrphan(i) PROVE MessageInv'
  BY <1>2, CommitOrphanType, SameRows, SameRequests, QuietStep DEF MessageInv, CommitOrphan, JobKept
<1> QED
  BY <1>1, <1>2 DEF Webhook

LEMMA DocumentInv ==
  ASSUME MessageInv, NEW w \in Worker,
         \/ \E o \in Order : ClaimDocument(w, o)
         \/ RecordDocumentReady(w) \/ RecordDocumentInvalid(w) \/ RecordDocumentTemporary(w)
  PROVE  MessageInv'
<1>1. ASSUME NEW o \in Order, ClaimDocument(w, o) PROVE MessageInv'
  <2>1. \A v \in Worker : JobKept(v)
    BY <1>1 DEF MessageInv, TypeOK, ClaimDocument, JobKept
  <2> QED
    BY <1>1, <2>1, ClaimDocumentType, SameRows, SameRequests, QuietStep
       DEF MessageInv, ClaimDocument
<1>2. ASSUME RecordDocumentReady(w) PROVE MessageInv'
  BY <1>2, JobDone, RecordDocumentReadyType, SameRows, SameRequests, QuietStep
     DEF MessageInv, RecordDocumentReady
<1>3. ASSUME RecordDocumentInvalid(w) PROVE MessageInv'
  BY <1>3, JobDone, RecordDocumentInvalidType, MarkDocumentFailedRows, SameRequests, QuietStep
     DEF MessageInv, RecordDocumentInvalid
<1>4. ASSUME RecordDocumentTemporary(w) PROVE MessageInv'
  <2>1. RowStep
    BY <1>4, MarkDocumentFailedRows, SameRows DEF RecordDocumentTemporary
  <2> QED
    BY <1>4, <2>1, JobDone, RecordDocumentTemporaryType, SameRequests, QuietStep
       DEF MessageInv, RecordDocumentTemporary
<1> QED
  BY <1>1, <1>2, <1>3, <1>4

LEMMA DeliveryInv ==
  ASSUME MessageInv, NEW w \in Worker,
         \/ \E d \in Delivery : ClaimDelivery(w, d)
         \/ SkipDelivery(w) \/ SendAccepted(w) \/ SendRefused(w)
         \/ RecordAccepted(w) \/ RecordPermanent(w) \/ RecordTemporary(w)
  PROVE  MessageInv'
<1>1. ASSUME NEW d \in Delivery, ClaimDelivery(w, d) PROVE MessageInv'
  <2>1. del[d].status # "none" /\ del[d].to # NoAddress
    BY <1>1 DEF MessageInv, RowsInUse, ClaimDelivery, Due, Active
  <2>2. \A v \in Worker : JobKept(v)
    BY <1>1, <2>1 DEF MessageInv, TypeOK, ClaimDelivery, JobKept
  <2>3. TypeOK'
    BY <1>1, ClaimDeliveryType DEF MessageInv
  <2>4. RowStep
    BY <1>1, ClaimDeliveryRows
  <2> QED
    BY <1>1, <2>2, <2>3, <2>4, SameRequests, QuietStep DEF ClaimDelivery
<1>2. ASSUME SkipDelivery(w) PROVE MessageInv'
  <2>1. RowStep
    BY <1>2, WorkerRowSameId, Timers DEF SkipDelivery
  <2> QED
    BY <1>2, <2>1, JobDone, SkipDeliveryType, SameRequests, QuietStep DEF MessageInv, SkipDelivery
<1>3. ASSUME SendAccepted(w) PROVE MessageInv'
  BY <1>3, SendAcceptedInv, SendAcceptedType, SameRequests DEF MessageInv, SendAccepted
<1>4. ASSUME SendRefused(w) PROVE MessageInv'
  <2>1. \A v \in Worker : JobKept(v)
    <3>1. PICK pc \in {"temporary", "permanent"} : job' = [job EXCEPT ![w].pc = pc]
      BY <1>4 DEF SendRefused
    <3>2. job[w] \in Job /\ job[w].pc = "send"
      BY <1>4 DEF MessageInv, TypeOK, SendRefused
    <3>3. job' = [job EXCEPT ![w] = [job[w] EXCEPT !.pc = pc]]
      BY <3>1 DEF MessageInv, TypeOK
    <3>4. [job[w] EXCEPT !.pc = pc].pc = pc /\ [job[w] EXCEPT !.pc = pc].on = job[w].on
      BY <3>2 DEF Job
    <3> QED
      BY <3>2, <3>3, <3>4 DEF MessageInv, TypeOK, JobKept
  <2> QED
    BY <1>4, <2>1, SendRefusedType, SameRows, SameRequests, QuietStep DEF MessageInv, SendRefused
<1>5. ASSUME RecordAccepted(w) PROVE MessageInv'
  BY <1>5, JobDone, RecordAcceptedType, RecordAcceptedRows, SameRequests, QuietStep
     DEF MessageInv, RecordAccepted
<1>6. ASSUME RecordPermanent(w) PROVE MessageInv'
  <2>1. RowStep
    BY <1>6, WorkerRowSameId DEF RecordPermanent
  <2> QED
    BY <1>6, <2>1, JobDone, RecordPermanentType, SameRequests, QuietStep
       DEF MessageInv, RecordPermanent
<1>7. ASSUME RecordTemporary(w) PROVE MessageInv'
  <2>1. PICK status \in {"pending", "needs_review"} : \E n :
          del' = [del EXCEPT ![job[w].on].status = status, ![job[w].on].wait = n]
    BY <1>7 DEF RecordTemporary
  <2>2. PICK n : del' = [del EXCEPT ![job[w].on].status = status, ![job[w].on].wait = n]
    BY <2>1
  <2>3. RowStep
    BY <1>7, <2>2, WorkerRowSameId DEF RecordTemporary
  <2> QED
    BY <1>7, <2>3, JobDone, RecordTemporaryType, SameRequests, QuietStep
       DEF MessageInv, RecordTemporary
<1> QED
  BY <1>1, <1>2, <1>3, <1>4, <1>5, <1>6, <1>7

LEMMA NextInv ==
  ASSUME MessageInv, [Next]_vars
  PROVE  MessageInv'
<1>1. CASE Tick
  <2>1. TypeOK' /\ RowStep
    BY <1>1, TickType, TickRows DEF MessageInv
  <2>2. \A d \in Delivery : keyLeft'[d] > 0 => keyLeft[d] > 0
    <3> SUFFICES ASSUME NEW d \in Delivery PROVE keyLeft'[d] > 0 => keyLeft[d] > 0
      OBVIOUS
    <3>1. keyLeft'[d] = Sooner(keyLeft[d])
      BY <1>1 DEF Tick
    <3>2. keyLeft[d] \in 0 .. KeyLife
      BY DEF MessageInv, TypeOK
    <3> QED
      BY <3>1, <3>2, TimeAssumption DEF Sooner
  <2>3. sent' = sent /\ req' = req /\ job' = job
    BY <1>1 DEF Tick
  <2>4. \A w \in Worker : JobKept(w)
    BY <2>3 DEF JobKept
  <2> QED
    BY <2>1, <2>2, <2>3, <2>4, RowsStayInUse, JobsStayOnRows, SameRequests DEF MessageInv
<1>2. CASE Api
  BY <1>2, ApiInv
<1>3. CASE Webhook
  BY <1>3, WebhookInv
<1>4. ASSUME NEW w \in Worker, WorkerStep(w) PROVE MessageInv'
  BY <1>4, DocumentInv, DeliveryInv DEF WorkerStep
<1>5. ASSUME NEW w \in Worker, ApplyPendingEvents(w) PROVE MessageInv'
  <2>1. TypeOK' /\ RowStep
    BY <1>5, ApplyPendingEventsType, ApplyPendingEventsRows DEF MessageInv
  <2>2. sent' = sent /\ keyLeft' = keyLeft /\ req' = req /\ job' = job
    BY <1>5 DEF ApplyPendingEvents
  <2> QED
    BY <2>1, <2>2, SameRequests, QuietStep DEF JobKept
<1>6. ASSUME NEW w \in Worker, Crash(w) PROVE MessageInv'
  BY <1>6, JobDone, CrashType, SameRows, SameRequests, QuietStep DEF MessageInv, Crash
<1>7. CASE UNCHANGED vars
  BY <1>7 DEF vars, MessageInv, TypeOK, RowsInUse, RequestsPrepared, JobsOnRows, IdsOfMessages,
              AcceptedHasMessage, SentOnlyWhereAllowed, Unused
<1> QED
  BY <1>1, <1>2, <1>3, <1>4, <1>5, <1>6, <1>7 DEF Next

\* The invariant the theorems below are corollaries of: rows, jobs and requests
\* agree on who is written to, and every stored message id is a message's.
THEOREM MessageInvariant == Spec => []MessageInv
<1>1. Init => MessageInv
  BY InitInv
<1>2. MessageInv /\ [Next]_vars => MessageInv'
  BY NextInv
<1> QED
  BY <1>1, <1>2, PTL DEF Spec

\* Every row, job, request and event keeps its type, for any number of them.
THEOREM TypeCorrect == Spec => []TypeOK
<1>1. MessageInv => TypeOK
  BY DEF MessageInv
<1> QED
  BY <1>1, MessageInvariant, PTL

\* A delivery shown as accepted or delivered has a message the provider made
\* for it, also when attempts overlap and workers crash (_process_delivery,
\* apply_event).
THEOREM AcceptedMeansMessage == Spec => []AcceptedHasMessage
<1>1. MessageInv => AcceptedHasMessage
  BY DEF MessageInv
<1> QED
  BY <1>1, MessageInvariant, PTL

\* No message is made without an address or, in test mode, outside the
\* allowlist (recipient_is_allowed), whichever route queued the row.
THEOREM SentWhereAllowed == Spec => []SentOnlyWhereAllowed
<1>1. MessageInv => SentOnlyWhereAllowed
  BY DEF MessageInv
<1> QED
  BY <1>1, MessageInvariant, PTL
-----------------------------------------------------------------------------
(* Where every attempt ends within its lease *)

Sending == {"send", "accepted", "temporary", "permanent"}

\* Who renders or sends has the lease of what it works on, and sends only what
\* is rendered.
HasLease(w) ==
  /\ job[w].pc = "render" =>
       doc[job[w].on].status = "processing" /\ doc[job[w].on].wait > 0
  /\ job[w].pc \in Sending =>
       /\ del[job[w].on].status = "processing" /\ del[job[w].on].wait > 0
       /\ doc[del[job[w].on].order].status = "ready"

LeasesHeld == \A w \in Worker : HasLease(w)

OneHolder ==
  \A v, w \in Worker :
    job[v].pc # "idle" /\ job[w].pc # "idle" /\ job[v].on = job[w].on => v = w

\* Once its message id is stored a delivery is never in the queue again.
IdsLeaveTheQueue == \A d \in Delivery : del[d].mid # 0 => del[d].status \notin Active

\* What was sent was rendered, and is not rendered again.
SentWhenReady == \A d \in Delivery : sent[d] # <<>> => doc[del[d].order].status = "ready"

LeaseInv ==
  /\ LeasesHeld
  /\ OneHolder
  /\ IdsLeaveTheQueue
  /\ SentWhenReady
  /\ SentPdfIsStoredPdf

\* What every step leaves of a row, and of a document that is rendered.
RowAtRest(d) ==
  /\ del[d].status # "none" => del'[d].order = del[d].order
  /\ del[d].status \in Terminal => del'[d].status = del[d].status
  /\ del'[d].mid # 0 => del'[d].status \notin Active

RowsAtRest == \A d \in Delivery : RowAtRest(d)

RenderedStay ==
  \A o \in Order : doc[o].status = "ready" => doc'[o].status = "ready" /\ doc'[o].pdf = doc[o].pdf

LEMMA RowOrders ==
  ASSUME MessageInv, NEW d \in Delivery, del[d].status # "none"
  PROVE  del[d].order \in Order
  BY DEF MessageInv, TypeOK, RowsInUse, DelRow

LEMMA JobRows ==
  ASSUME MessageInv, NEW w \in Worker
  PROVE  /\ job[w].pc = "render" => job[w].on \in Order
         /\ job[w].pc \in Sending => /\ job[w].on \in Delivery
                                     /\ del[job[w].on].status # "none"
                                     /\ del[job[w].on].order \in Order
         /\ job[w].pc \in {"idle", "render"} \cup Sending
  BY RowOrders DEF MessageInv, TypeOK, JobsOnRows, Job, Sending

LEMMA SentStay ==
  ASSUME MessageInv, LeaseInv, RowsAtRest, RenderedStay, sent' = sent
  PROVE  IdsLeaveTheQueue' /\ SentWhenReady' /\ SentPdfIsStoredPdf'
<1>1. IdsLeaveTheQueue'
  BY DEF RowsAtRest, RowAtRest, IdsLeaveTheQueue
<1>2. ASSUME NEW d \in Delivery, sent[d] # <<>>
      PROVE  /\ doc'[del'[d].order].status = "ready"
             /\ doc'[del'[d].order].pdf = doc[del[d].order].pdf
  <2>1. del[d].status # "none"
    BY <1>2 DEF MessageInv, RowsInUse
  <2>2. del[d].order \in Order /\ del'[d].order = del[d].order
    BY <2>1, RowOrders DEF RowsAtRest, RowAtRest
  <2>3. doc[del[d].order].status = "ready"
    BY <1>2 DEF LeaseInv, SentWhenReady
  <2> QED
    BY <2>2, <2>3 DEF RenderedStay
<1>3. SentWhenReady'
  BY <1>2 DEF SentWhenReady
<1>4. SentPdfIsStoredPdf'
  <2> SUFFICES ASSUME NEW d \in Delivery, NEW n \in DOMAIN sent[d]
               PROVE  sent[d][n] = doc'[del'[d].order].pdf
    BY DEF SentPdfIsStoredPdf
  <2>1. sent[d] \in Seq(Pdf)
    BY DEF MessageInv, TypeOK
  <2>2. sent[d] # <<>>
    BY <2>1
  <2>3. sent[d][n] = doc[del[d].order].pdf
    BY DEF LeaseInv, SentPdfIsStoredPdf
  <2> QED
    BY <1>2, <2>2, <2>3
<1> QED
  BY <1>1, <1>3, <1>4

\* A step that no worker takes.
LEMMA QuietLeases ==
  ASSUME MessageInv, LeaseInv, RowsAtRest, job' = job, sent' = sent,
         \A o \in Order : doc[o].status \in {"processing", "ready"} => doc'[o] = doc[o],
         \A d \in Delivery : del[d].status = "processing" => del'[d] = del[d]
  PROVE  LeaseInv'
<1>1. RenderedStay
  BY DEF RenderedStay
<1>2. OneHolder'
  BY DEF LeaseInv, OneHolder
<1>3. LeasesHeld'
  <2> SUFFICES ASSUME NEW w \in Worker PROVE HasLease(w)'
    BY DEF LeasesHeld
  <2>1. HasLease(w)
    BY DEF LeaseInv, LeasesHeld
  <2> QED
    BY <2>1, JobRows DEF HasLease
<1> QED
  BY <1>1, <1>2, <1>3, SentStay DEF LeaseInv

\* A worker lets go of what it holds.
LEMMA LeaseEnds ==
  ASSUME MessageInv, LeaseInv, RowsAtRest, RenderedStay, sent' = sent,
         NEW w \in Worker, job' = [job EXCEPT ![w] = Idle],
         \A o \in Order :
           \/ doc'[o] = doc[o]
           \/ job[w].pc = "render" /\ o = job[w].on,
         \A d \in Delivery :
           \/ del'[d] = del[d]
           \/ job[w].pc \in Sending /\ d = job[w].on
           \/ job[w].pc = "render" /\ del[d].order = job[w].on
           \/ del[d].status # "processing"
  PROVE  LeaseInv'
<1>1. \A v \in Worker : job'[v] = IF v = w THEN Idle ELSE job[v]
  BY DEF MessageInv, TypeOK
<1>2. OneHolder'
  BY <1>1 DEF LeaseInv, OneHolder, Idle
<1>3. LeasesHeld'
  <2> SUFFICES ASSUME NEW v \in Worker PROVE HasLease(v)'
    BY DEF LeasesHeld
  <2>1. HasLease(v) /\ HasLease(w)
    BY DEF LeaseInv, LeasesHeld
  <2>2. CASE v = w
    BY <1>1, <2>2 DEF HasLease, Idle, Sending
  <2>3. CASE v # w /\ job[v].pc = "render"
    <3>1. job'[v] = job[v] /\ job[v].on \in Order
      BY <1>1, <2>3, JobRows
    <3>2. ~(job[w].pc = "render" /\ job[v].on = job[w].on)
      BY <2>3 DEF LeaseInv, OneHolder
    <3> QED
      BY <2>1, <2>3, <3>1, <3>2 DEF HasLease, Sending
  <2>4. CASE v # w /\ job[v].pc \in Sending
    <3>1. job'[v] = job[v] /\ job[v].on \in Delivery /\ del[job[v].on].order \in Order
      BY <1>1, <2>4, JobRows
    <3>2. ~(job[w].pc \in Sending /\ job[v].on = job[w].on)
      BY <2>4 DEF LeaseInv, OneHolder, Sending
    <3>3. ~(job[w].pc = "render" /\ del[job[v].on].order = job[w].on)
      BY <2>1, <2>4 DEF HasLease
    <3>4. del'[job[v].on] = del[job[v].on]
      BY <2>1, <2>4, <3>1, <3>2, <3>3 DEF HasLease
    <3>5. doc'[del[job[v].on].order].status = "ready"
      BY <2>1, <2>4, <3>1 DEF HasLease, RenderedStay
    <3> QED
      BY <2>1, <2>4, <3>1, <3>4, <3>5 DEF HasLease, Sending
  <2>5. CASE v # w /\ job[v].pc = "idle"
    BY <1>1, <2>5 DEF HasLease, Sending
  <2> QED
    BY <2>2, <2>3, <2>4, <2>5, JobRows
<1> QED
  BY <1>2, <1>3, SentStay DEF LeaseInv

LEMMA SameRowsAtRest ==
  ASSUME LeaseInv, del' = del
  PROVE  RowsAtRest
  BY DEF LeaseInv, IdsLeaveTheQueue, RowsAtRest, RowAtRest

LEMMA EnqueueLeases ==
  ASSUME MessageInv, LeaseInv, NEW o \in Order, EnqueueOrderEmails(o)
  PROVE  RowsAtRest /\ LeaseInv'
<1>1. PICK ds \in SUBSET Unused : \E to \in [ds -> Recipient] :
        del' = [d \in Delivery |->
                  IF d \in ds
                  THEN NewDelivery(o, to[d], "finalization",
                                   IF to[d] = NoAddress THEN "blocked" ELSE "pending")
                  ELSE del[d]]
  BY DEF EnqueueOrderEmails
<1>2. PICK to \in [ds -> Recipient] :
        del' = [d \in Delivery |->
                  IF d \in ds
                  THEN NewDelivery(o, to[d], "finalization",
                                   IF to[d] = NoAddress THEN "blocked" ELSE "pending")
                  ELSE del[d]]
  BY <1>1
<1>3. ASSUME NEW d \in Delivery PROVE RowAtRest(d) /\ (del[d].status # "none" => del'[d] = del[d])
  <2>1. CASE d \in ds
    <3>1. to[d] \in Recipient /\ del[d].status = "none"
      BY <2>1 DEF Unused
    <3>2. del'[d].mid = 0
      BY <1>2, <2>1, <3>1, NewDeliveryType, StatusNames
    <3> QED
      BY <3>1, <3>2 DEF RowAtRest, Terminal
  <2>2. CASE d \notin ds
    BY <1>2, <2>2 DEF RowAtRest, LeaseInv, IdsLeaveTheQueue
  <2> QED
    BY <2>1, <2>2
<1>4. \A x \in Order : doc[x].status \in {"processing", "ready"} => doc'[x] = doc[x]
  BY DEF EnqueueOrderEmails, MessageInv, TypeOK
<1>5. RowsAtRest
  BY <1>3 DEF RowsAtRest
<1> QED
  BY <1>3, <1>4, <1>5, QuietLeases DEF EnqueueOrderEmails

LEMMA InsertLeases ==
  ASSUME MessageInv, LeaseInv, NEW r \in Request, InsertDelivery(r)
  PROVE  RowsAtRest /\ LeaseInv'
<1>1. PICK n \in Unused :
        del' = [del EXCEPT ![n] =
                  NewDelivery(req[r].order, req[r].to, "manual_resend", req[r].status)]
  BY DEF InsertDelivery
<1>2. req[r].order \in Order /\ req[r].to \in Recipient /\ req[r].status \in DelStatus
  BY DEF MessageInv, TypeOK, RequestsPrepared, Pending, InsertDelivery
<1>3. ASSUME NEW d \in Delivery PROVE RowAtRest(d) /\ (del[d].status # "none" => del'[d] = del[d])
  <2>1. CASE d = n
    <3>1. del'[d].mid = 0 /\ del[d].status = "none"
      BY <1>1, <1>2, <2>1, NewDeliveryType DEF MessageInv, TypeOK, Unused
    <3> QED
      BY <3>1 DEF RowAtRest, Terminal
  <2>2. CASE d # n
    <3>1. del'[d] = del[d]
      BY <1>1, <2>2 DEF MessageInv, TypeOK
    <3> QED
      BY <3>1 DEF RowAtRest, LeaseInv, IdsLeaveTheQueue
  <2> QED
    BY <2>1, <2>2
<1>4. RowsAtRest
  BY <1>3 DEF RowsAtRest
<1> QED
  BY <1>3, <1>4, QuietLeases DEF InsertDelivery

\* A result moves no row of the queue, and none that has its result.
LEMMA ResultAtRest ==
  ASSUME MessageInv, LeaseInv, NEW d \in Delivery, NEW es, NEW B,
         del'[d] = [del[d] EXCEPT !.status = StatusAfter(es, del[d].status, B)],
         B = {} \/ del[d].mid # 0
  PROVE  RowAtRest(d) /\ (del[d].status = "processing" => del'[d] = del[d])
<1>1. del[d] \in DelRow
  BY DEF MessageInv, TypeOK
<1>2. /\ del'[d].order = del[d].order /\ del'[d].mid = del[d].mid
      /\ del'[d].status = StatusAfter(es, del[d].status, B)
  BY <1>1 DEF DelRow
<1>3. CASE B = {}
  <2>1. StatusAfter(es, del[d].status, B) = del[d].status
    BY <1>3 DEF StatusAfter
  <2>2. del'[d] = del[d]
    BY <1>1, <2>1 DEF DelRow
  <2> QED
    BY <2>2 DEF RowAtRest, LeaseInv, IdsLeaveTheQueue
<1>4. CASE del[d].mid # 0
  <2>1. del[d].status \notin Active /\ del[d].status \in DelStatus
    BY <1>1, <1>4 DEF LeaseInv, IdsLeaveTheQueue, DelRow
  <2>2. del'[d].status \in {del[d].status} \cup Terminal
    BY <1>2, <2>1, StatusAfterStatus
  <2>3. del[d].status \in Terminal => del'[d].status = del[d].status
    BY <1>2 DEF StatusAfter
  <2> QED
    BY <1>2, <2>1, <2>2, <2>3 DEF RowAtRest, Active, Terminal
<1> QED
  BY <1>3, <1>4

LEMMA WebhookLeases ==
  ASSUME MessageInv, LeaseInv, NEW s \in Svix, NEW d \in Delivery, NEW mid \in 1 .. MaxMessages,
         NEW type \in EventType, ReceiveWebhook(s, d, mid, type)
  PROVE  RowsAtRest /\ LeaseInv'
<1>1. CASE del[d].mid = mid
  <2>1. PICK es, B : del' = [del EXCEPT ![d].status = StatusAfter(es, @, B)]
    BY <1>1 DEF ReceiveWebhook
  <2>2. del' = [del EXCEPT ![d] = [del[d] EXCEPT !.status = StatusAfter(es, del[d].status, B)]]
    BY <2>1 DEF MessageInv, TypeOK
  <2>3. ASSUME NEW e \in Delivery
        PROVE  RowAtRest(e) /\ (del[e].status = "processing" => del'[e] = del[e])
    <3>1. CASE e = d
      <4>1. del[d].mid # 0
        BY <1>1
      <4>2. del'[d] = [del[d] EXCEPT !.status = StatusAfter(es, del[d].status, B)]
        BY <2>2 DEF MessageInv, TypeOK
      <4> QED
        BY <3>1, <4>1, <4>2, ResultAtRest
    <3>2. CASE e # d
      <4>1. del'[e] = del[e]
        BY <2>2, <3>2 DEF MessageInv, TypeOK
      <4> QED
        BY <4>1 DEF RowAtRest, LeaseInv, IdsLeaveTheQueue
    <3> QED
      BY <3>1, <3>2
  <2>4. RowsAtRest
    BY <2>3 DEF RowsAtRest
  <2> QED
    BY <2>3, <2>4, QuietLeases DEF ReceiveWebhook
<1>2. CASE del[d].mid # mid
  BY <1>2, SameRowsAtRest, QuietLeases DEF ReceiveWebhook
<1> QED
  BY <1>1, <1>2

LEMMA ApplyLeases ==
  ASSUME MessageInv, LeaseInv, NEW w \in Worker, ApplyPendingEvents(w)
  PROVE  RowsAtRest /\ LeaseInv'
<1>1. ASSUME NEW d \in Delivery
      PROVE  RowAtRest(d) /\ (del[d].status = "processing" => del'[d] = del[d])
  <2> DEFINE due == IF del[d].mid = 0 THEN {} ELSE Orphans(d, del[d].mid)
  <2>1. del'[d] = [del[d] EXCEPT !.status = StatusAfter(events, del[d].status, due)]
    BY DEF ApplyPendingEvents
  <2>2. due = {} \/ del[d].mid # 0
    OBVIOUS
  <2> HIDE DEF due
  <2> QED
    BY <2>1, <2>2, ResultAtRest
<1>2. RowsAtRest
  BY <1>1 DEF RowsAtRest
<1> QED
  BY <1>1, <1>2, QuietLeases DEF ApplyPendingEvents

\* What a worker writes to the row it has sent, or could not send.
LEMMA AttemptLeases ==
  ASSUME MessageInv, LeaseInv, NEW w \in Worker, job[w].pc \in Sending,
         job' = [job EXCEPT ![w] = Idle], doc' = doc, sent' = sent,
         NEW row, row.order = del[job[w].on].order,
         row.mid # 0 => row.status \notin Active,
         del' = [del EXCEPT ![job[w].on] = row]
  PROVE  RowsAtRest /\ LeaseInv'
<1>1. HasLease(w) /\ job[w].on \in Delivery
  BY JobRows DEF LeaseInv, LeasesHeld
<1>2. \A d \in Delivery : d # job[w].on => del'[d] = del[d]
  BY DEF MessageInv, TypeOK
<1>3. ASSUME NEW d \in Delivery PROVE RowAtRest(d)
  <2>1. CASE d = job[w].on
    <3>1. del'[d] = row /\ del[d].status = "processing"
      BY <1>1, <2>1 DEF MessageInv, TypeOK, HasLease
    <3> QED
      BY <2>1, <3>1 DEF RowAtRest, Terminal
  <2>2. CASE d # job[w].on
    BY <1>2, <2>2 DEF RowAtRest, LeaseInv, IdsLeaveTheQueue
  <2> QED
    BY <2>1, <2>2
<1>4. RowsAtRest /\ RenderedStay
  BY <1>3 DEF RowsAtRest, RenderedStay
<1> QED
  BY <1>2, <1>4, LeaseEnds

LEMMA AttemptSameIdLeases ==
  ASSUME MessageInv, LeaseInv, NEW w \in Worker, job[w].pc \in Sending,
         job' = [job EXCEPT ![w] = Idle], doc' = doc, sent' = sent, NEW status, NEW n,
         del' = [del EXCEPT ![job[w].on].status = status, ![job[w].on].wait = n]
  PROVE  RowsAtRest /\ LeaseInv'
<1>1. HasLease(w) /\ job[w].on \in Delivery
  BY JobRows DEF LeaseInv, LeasesHeld
<1>2. del[job[w].on] \in DelRow /\ del[job[w].on].status = "processing"
  BY <1>1 DEF MessageInv, TypeOK, HasLease
<1>3. del[job[w].on].mid = 0
  BY <1>1, <1>2 DEF LeaseInv, IdsLeaveTheQueue, Active
<1>4. PICK row : row = [del[job[w].on] EXCEPT !.status = status, !.wait = n]
  OBVIOUS
<1>5. row.order = del[job[w].on].order /\ row.mid = 0
  BY <1>2, <1>3, <1>4 DEF DelRow
<1>6. del' = [del EXCEPT ![job[w].on] = row]
  BY <1>1, <1>4 DEF MessageInv, TypeOK
<1> QED
  BY <1>5, <1>6, AttemptLeases

LEMMA AcceptedLeases ==
  ASSUME MessageInv, LeaseInv, NEW w \in Worker, RecordAccepted(w)
  PROVE  RowsAtRest /\ LeaseInv'
<1>1. HasLease(w) /\ job[w].on \in Delivery /\ job[w].pc \in Sending
  BY JobRows DEF LeaseInv, LeasesHeld, RecordAccepted, Sending
<1>2. del[job[w].on] \in DelRow
  BY <1>1 DEF MessageInv, TypeOK
<1>3. PICK after : after = StatusAfter(events, "accepted", Orphans(job[w].on, job[w].mid))
  OBVIOUS
<1>4. after \notin Active
  BY <1>3, StatusAfterStatus, StatusNames DEF Terminal, Active
<1>5. PICK row : row = [del[job[w].on] EXCEPT !.status = after, !.wait = 0, !.mid = job[w].mid]
  OBVIOUS
<1>6. row.order = del[job[w].on].order /\ row.status = after
  BY <1>2, <1>5 DEF DelRow
<1>7. del' = [del EXCEPT ![job[w].on] = row]
  BY <1>1, <1>3, <1>5 DEF MessageInv, TypeOK, RecordAccepted
<1> QED
  BY <1>1, <1>4, <1>6, <1>7, AttemptLeases DEF RecordAccepted

\* What a renderer writes to its document, while the deliveries may need a review.
LEMMA RenderLeases ==
  ASSUME MessageInv, LeaseInv, NEW w \in Worker, job[w].pc = "render",
         job' = [job EXCEPT ![w] = Idle], sent' = sent,
         \A o \in Order : o # job[w].on => doc'[o] = doc[o],
         \A d \in Delivery :
           \/ del'[d] = del[d]
           \/ /\ del[d].order = job[w].on /\ del[d].status \in Active
              /\ del'[d] = [del[d] EXCEPT !.status = "needs_review", !.wait = 0]
  PROVE  RowsAtRest /\ LeaseInv'
<1>1. HasLease(w)
  BY DEF LeaseInv, LeasesHeld
<1>2. doc[job[w].on].status = "processing"
  BY <1>1 DEF HasLease
<1>3. RenderedStay
  BY <1>2 DEF RenderedStay
<1>4. ASSUME NEW d \in Delivery PROVE RowAtRest(d)
  <2>1. del[d] \in DelRow
    BY DEF MessageInv, TypeOK
  <2>2. CASE del'[d] = del[d]
    BY <2>2 DEF RowAtRest, LeaseInv, IdsLeaveTheQueue
  <2>3. CASE /\ del[d].order = job[w].on /\ del[d].status \in Active
             /\ del'[d] = [del[d] EXCEPT !.status = "needs_review", !.wait = 0]
    BY <2>1, <2>3 DEF RowAtRest, DelRow, Active, Terminal
  <2> QED
    BY <2>2, <2>3
<1>5. RowsAtRest
  BY <1>4 DEF RowsAtRest
<1> QED
  BY <1>3, <1>5, LeaseEnds

LEMMA DocumentLeases ==
  ASSUME MessageInv, LeaseInv, NEW w \in Worker,
         RecordDocumentReady(w) \/ RecordDocumentInvalid(w) \/ RecordDocumentTemporary(w)
  PROVE  RowsAtRest /\ LeaseInv'
<1>1. job[w].pc = "render" /\ job' = [job EXCEPT ![w] = Idle] /\ sent' = sent
  BY DEF RecordDocumentReady, RecordDocumentInvalid, RecordDocumentTemporary
<1>2. ASSUME MarkDocumentFailed(w)
      PROVE  /\ \A o \in Order : o # job[w].on => doc'[o] = doc[o]
             /\ \A d \in Delivery :
                  \/ del'[d] = del[d]
                  \/ /\ del[d].order = job[w].on /\ del[d].status \in Active
                     /\ del'[d] = [del[d] EXCEPT !.status = "needs_review", !.wait = 0]
  BY <1>2 DEF MarkDocumentFailed, MessageInv, TypeOK
<1>3. CASE RecordDocumentReady(w)
  BY <1>1, <1>3, RenderLeases DEF RecordDocumentReady, MessageInv, TypeOK
<1>4. CASE RecordDocumentInvalid(w)
  BY <1>1, <1>2, <1>4, RenderLeases DEF RecordDocumentInvalid
<1>5. CASE RecordDocumentTemporary(w)
  <2>1. CASE MarkDocumentFailed(w)
    BY <1>1, <1>2, <2>1, RenderLeases
  <2>2. CASE del' = del /\ \E n \in RetryWait :
               doc' = [doc EXCEPT ![job[w].on].status = "pending", ![job[w].on].wait = n]
    BY <1>1, <2>2, RenderLeases DEF MessageInv, TypeOK
  <2> QED
    BY <1>5, <2>1, <2>2 DEF RecordDocumentTemporary
<1> QED
  BY <1>3, <1>4, <1>5

\* A row is claimed when nobody has its lease.
LEMMA ClaimDocumentLeases ==
  ASSUME MessageInv, LeaseInv, NEW w \in Worker, NEW o \in Order, ClaimDocument(w, o)
  PROVE  RowsAtRest /\ LeaseInv'
<1>1. doc[o] \in DocRow /\ doc[o].status \in Active /\ doc[o].wait = 0 /\ job[w].pc = "idle"
  BY DEF MessageInv, TypeOK, ClaimDocument, Due
<1>2. PICK age : doc' = [doc EXCEPT ![o].status = "processing", ![o].wait = Lease, ![o].age = age]
  BY DEF ClaimDocument
<1>3. /\ \A x \in Order : x # o => doc'[x] = doc[x]
      /\ doc'[o].status = "processing" /\ doc'[o].wait = Lease
  BY <1>1, <1>2 DEF MessageInv, TypeOK, DocRow
<1>4. \A v \in Worker : v # w => job'[v] = job[v]
  BY DEF ClaimDocument, MessageInv, TypeOK
<1>5. job'[w].pc = "render" /\ job'[w].on = o
  BY DEF ClaimDocument, MessageInv, TypeOK
<1>6. ASSUME NEW v \in Worker, job[v].pc # "idle" PROVE job[v].on # o
  <2>1. HasLease(v)
    BY DEF LeaseInv, LeasesHeld
  <2>2. CASE job[v].pc = "render"
    BY <1>1, <2>1, <2>2 DEF HasLease
  <2>3. CASE job[v].pc \in Sending
    BY <2>3, JobRows, RowAssumption
  <2> QED
    BY <1>6, <2>2, <2>3, JobRows
<1>7. RowsAtRest /\ RenderedStay /\ sent' = sent
  BY <1>1, <1>3, SameRowsAtRest DEF ClaimDocument, RenderedStay, Active
<1>8. OneHolder'
  <2> SUFFICES ASSUME NEW u \in Worker, NEW v \in Worker, job'[u].pc # "idle", job'[v].pc # "idle",
                      job'[u].on = job'[v].on
               PROVE  u = v
    BY DEF OneHolder
  <2> QED
    BY <1>4, <1>5, <1>6 DEF LeaseInv, OneHolder
<1>9. LeasesHeld'
  <2> SUFFICES ASSUME NEW v \in Worker PROVE HasLease(v)'
    BY DEF LeasesHeld
  <2>1. HasLease(v)
    BY DEF LeaseInv, LeasesHeld
  <2>2. CASE v = w
    <3>1. Lease > 0
      BY TimeAssumption
    <3> QED
      BY <1>3, <1>5, <2>2, <3>1 DEF HasLease, Sending
  <2>3. CASE v # w /\ job[v].pc = "render"
    BY <1>3, <1>4, <1>6, <2>1, <2>3, JobRows DEF HasLease, Sending
  <2>4. CASE v # w /\ job[v].pc \in Sending
    <3>1. del' = del /\ doc'[del[job[v].on].order].status = "ready"
      BY <1>7, <2>1, <2>4, JobRows DEF HasLease, RenderedStay, ClaimDocument
    <3> QED
      BY <1>4, <2>1, <2>4, <3>1 DEF HasLease, Sending
  <2>5. CASE v # w /\ job[v].pc = "idle"
    BY <1>4, <2>5 DEF HasLease, Sending
  <2> QED
    BY <2>2, <2>3, <2>4, <2>5, JobRows
<1> QED
  BY <1>7, <1>8, <1>9, SentStay DEF LeaseInv

LEMMA ClaimDeliveryLeases ==
  ASSUME MessageInv, LeaseInv, NEW w \in Worker, NEW d \in Delivery, ClaimDelivery(w, d)
  PROVE  RowsAtRest /\ LeaseInv'
<1>1. /\ del[d] \in DelRow /\ del[d].status \in Active /\ del[d].wait = 0 /\ job[w].pc = "idle"
      /\ doc[del[d].order].status = "ready"
  BY DEF MessageInv, TypeOK, ClaimDelivery, Due
<1>2. PICK age : del' = [del EXCEPT ![d].status = "processing", ![d].wait = Lease, ![d].age = age]
  BY DEF ClaimDelivery
<1>3. /\ \A x \in Delivery : x # d => del'[x] = del[x]
      /\ del'[d].status = "processing" /\ del'[d].wait = Lease
      /\ del'[d].order = del[d].order /\ del'[d].mid = del[d].mid
  BY <1>1, <1>2 DEF MessageInv, TypeOK, DelRow
<1>4. \A v \in Worker : v # w => job'[v] = job[v]
  BY DEF ClaimDelivery, MessageInv, TypeOK
<1>5. job'[w].pc = "send" /\ job'[w].on = d
  BY DEF ClaimDelivery, MessageInv, TypeOK
<1>6. ASSUME NEW v \in Worker, job[v].pc # "idle" PROVE job[v].on # d
  <2>1. HasLease(v)
    BY DEF LeaseInv, LeasesHeld
  <2>2. CASE job[v].pc = "render"
    BY <2>2, JobRows, RowAssumption
  <2>3. CASE job[v].pc \in Sending
    BY <1>1, <2>1, <2>3 DEF HasLease
  <2> QED
    BY <1>6, <2>2, <2>3, JobRows
<1>7. RowsAtRest
  <2> SUFFICES ASSUME NEW x \in Delivery PROVE RowAtRest(x)
    BY DEF RowsAtRest
  <2>1. del[d].mid = 0
    BY <1>1 DEF LeaseInv, IdsLeaveTheQueue
  <2>2. CASE x = d
    BY <1>1, <1>3, <2>1, <2>2 DEF RowAtRest, Active, Terminal
  <2>3. CASE x # d
    BY <1>3, <2>3 DEF RowAtRest, LeaseInv, IdsLeaveTheQueue
  <2> QED
    BY <2>2, <2>3
<1>8. RenderedStay /\ sent' = sent
  BY DEF ClaimDelivery, RenderedStay
<1>9. OneHolder'
  <2> SUFFICES ASSUME NEW u \in Worker, NEW v \in Worker, job'[u].pc # "idle", job'[v].pc # "idle",
                      job'[u].on = job'[v].on
               PROVE  u = v
    BY DEF OneHolder
  <2> QED
    BY <1>4, <1>5, <1>6 DEF LeaseInv, OneHolder
<1>10. LeasesHeld'
  <2> SUFFICES ASSUME NEW v \in Worker PROVE HasLease(v)'
    BY DEF LeasesHeld
  <2>1. HasLease(v) /\ doc' = doc
    BY DEF LeaseInv, LeasesHeld, ClaimDelivery
  <2>2. CASE v = w
    <3>1. Lease > 0
      BY TimeAssumption
    <3> QED
      BY <1>1, <1>3, <1>5, <2>1, <2>2, <3>1 DEF HasLease, Sending
  <2>3. CASE v # w /\ job[v].pc # "idle"
    <3>1. job'[v] = job[v] /\ job[v].on # d
      BY <1>4, <1>6, <2>3
    <3>2. job[v].pc \in Sending => del'[job[v].on] = del[job[v].on]
      BY <1>3, <3>1, JobRows
    <3> QED
      BY <2>1, <3>1, <3>2 DEF HasLease
  <2>4. CASE v # w /\ job[v].pc = "idle"
    BY <1>4, <2>4 DEF HasLease, Sending
  <2> QED
    BY <2>2, <2>3, <2>4
<1> QED
  BY <1>7, <1>8, <1>9, <1>10, SentStay DEF LeaseInv

\* An attempt goes on from one step of its sending to the next.
LEMMA AttemptGoesOn ==
  ASSUME MessageInv, LeaseInv, NEW w \in Worker, job[w].pc \in Sending, NEW next,
         next.pc \in Sending, next.on = job[w].on, job' = [job EXCEPT ![w] = next],
         doc' = doc, del' = del
  PROVE  RowsAtRest /\ LeasesHeld' /\ OneHolder'
<1>1. \A v \in Worker : job'[v] = IF v = w THEN next ELSE job[v]
  BY DEF MessageInv, TypeOK
<1>2. OneHolder'
  BY <1>1 DEF LeaseInv, OneHolder, Sending
<1>3. LeasesHeld'
  <2> SUFFICES ASSUME NEW v \in Worker PROVE HasLease(v)'
    BY DEF LeasesHeld
  <2>1. HasLease(v)
    BY DEF LeaseInv, LeasesHeld
  <2> QED
    BY <1>1, <2>1 DEF HasLease, Sending
<1> QED
  BY <1>2, <1>3, SameRowsAtRest

LEMMA RefusedLeases ==
  ASSUME MessageInv, LeaseInv, NEW w \in Worker, SendRefused(w)
  PROVE  RowsAtRest /\ LeaseInv'
<1>1. PICK pc \in {"temporary", "permanent"} : job' = [job EXCEPT ![w].pc = pc]
  BY DEF SendRefused
<1>2. job[w] \in Job /\ job[w].pc = "send"
  BY DEF MessageInv, TypeOK, SendRefused
<1>3. PICK next : next = [job[w] EXCEPT !.pc = pc]
  OBVIOUS
<1>4. next.pc = pc /\ next.on = job[w].on
  BY <1>2, <1>3 DEF Job
<1>5. job' = [job EXCEPT ![w] = next]
  BY <1>1, <1>3 DEF MessageInv, TypeOK
<1>6. RowsAtRest /\ LeasesHeld' /\ OneHolder'
  <2>1. job[w].pc \in Sending /\ next.pc \in Sending /\ doc' = doc /\ del' = del
    BY <1>2, <1>4 DEF Sending, SendRefused
  <2> QED
    BY <1>4, <1>5, <2>1, AttemptGoesOn
<1>7. RenderedStay /\ sent' = sent
  BY DEF SendRefused, RenderedStay
<1> QED
  BY <1>6, <1>7, SentStay DEF LeaseInv

\* The message carries the PDF that is stored.
LEMMA SentLeases ==
  ASSUME MessageInv, LeaseInv, NEW w \in Worker, SendAccepted(w)
  PROVE  RowsAtRest /\ LeaseInv'
<1>1. /\ job[w] \in Job /\ job[w].pc = "send" /\ job[w].on \in Delivery /\ HasLease(w)
      /\ doc' = doc /\ del' = del
  BY JobRows DEF MessageInv, TypeOK, SendAccepted, LeaseInv, LeasesHeld, Sending
<1>2. PICK mid \in 1 .. MaxMessages, pc \in {"accepted", "temporary"} :
        /\ ProviderAccepts(job[w].on, doc[del[job[w].on].order].pdf, mid)
        /\ job' = [job EXCEPT ![w].pc = pc, ![w].mid = mid]
  BY DEF SendAccepted
<1>3. PICK next : next = [job[w] EXCEPT !.pc = pc, !.mid = mid]
  OBVIOUS
<1>4. next.pc = pc /\ next.on = job[w].on
  BY <1>1, <1>3 DEF Job
<1>5. job' = [job EXCEPT ![w] = next]
  BY <1>2, <1>3 DEF MessageInv, TypeOK
<1>6. RowsAtRest /\ LeasesHeld' /\ OneHolder'
  <2>1. job[w].pc \in Sending /\ next.pc \in Sending
    BY <1>1, <1>4 DEF Sending
  <2> QED
    BY <1>1, <1>4, <1>5, <2>1, AttemptGoesOn
<1>7. doc[del[job[w].on].order].status = "ready"
  BY <1>1 DEF HasLease, Sending
<1>8. ASSUME NEW d \in Delivery
      PROVE  \/ sent'[d] = sent[d]
             \/ d = job[w].on /\ sent'[d] = Append(sent[d], doc[del[d].order].pdf)
  BY <1>1, <1>2 DEF ProviderAccepts, MessageInv, TypeOK
<1>9. IdsLeaveTheQueue' /\ SentWhenReady'
  BY <1>1, <1>7, <1>8 DEF LeaseInv, IdsLeaveTheQueue, SentWhenReady
<1>10. SentPdfIsStoredPdf'
  <2> SUFFICES ASSUME NEW d \in Delivery, NEW n \in DOMAIN sent'[d]
               PROVE  sent'[d][n] = doc[del[d].order].pdf
    BY <1>1 DEF SentPdfIsStoredPdf
  <2>1. sent[d] \in Seq(Pdf)
    BY DEF MessageInv, TypeOK
  <2>2. CASE sent'[d] = sent[d]
    BY <2>2 DEF LeaseInv, SentPdfIsStoredPdf
  <2>3. CASE d = job[w].on /\ sent'[d] = Append(sent[d], doc[del[d].order].pdf)
    <3>1. n \in 1 .. Len(sent[d]) + 1 /\ Len(sent[d]) \in Nat
      BY <2>1, <2>3
    <3>2. CASE n = Len(sent[d]) + 1
      BY <2>1, <2>3, <3>2
    <3>3. CASE n \in 1 .. Len(sent[d])
      <4>1. sent'[d][n] = sent[d][n] /\ n \in DOMAIN sent[d]
        BY <2>1, <2>3, <3>3
      <4> QED
        BY <4>1 DEF LeaseInv, SentPdfIsStoredPdf
    <3> QED
      BY <3>1, <3>2, <3>3
  <2> QED
    BY <1>8, <2>2, <2>3
<1> QED
  BY <1>6, <1>9, <1>10 DEF LeaseInv

\* Time does not pass a lease somebody has, where attempts are bounded.
LEMMA TickLeases ==
  ASSUME MessageInv, LeaseInv, BoundedAttempts, Tick
  PROVE  RowsAtRest /\ LeaseInv'
<1>1. ASSUME NEW o \in Order
      PROVE  /\ doc'[o].status = doc[o].status /\ doc'[o].pdf = doc[o].pdf
             /\ doc[o].wait > 1 => doc'[o].wait > 0
  <2>1. doc[o] \in DocRow
    BY DEF MessageInv, TypeOK
  <2>2. doc'[o] = [doc[o] EXCEPT !.wait = Sooner(@), !.age = Older(@)]
    BY DEF Tick
  <2>3. doc'[o].wait = Sooner(doc[o].wait) /\ doc[o].wait \in 0 .. Lease
    BY <2>1, <2>2 DEF DocRow
  <2> QED
    BY <2>1, <2>2, <2>3, TimeAssumption DEF DocRow, Sooner
<1>2. ASSUME NEW d \in Delivery
      PROVE  /\ del'[d].status = del[d].status /\ del'[d].order = del[d].order
             /\ del'[d].mid = del[d].mid
             /\ del[d].wait > 1 => del'[d].wait > 0
  <2>1. del[d] \in DelRow
    BY DEF MessageInv, TypeOK
  <2>2. del'[d] = [del[d] EXCEPT !.wait = Sooner(@), !.age = Older(@)]
    BY DEF Tick
  <2>3. del'[d].wait = Sooner(del[d].wait) /\ del[d].wait \in 0 .. Lease
    BY <2>1, <2>2 DEF DelRow
  <2> QED
    BY <2>1, <2>2, <2>3, TimeAssumption DEF DelRow, Sooner
<1>3. RowsAtRest /\ RenderedStay /\ sent' = sent /\ job' = job
  BY <1>1, <1>2 DEF Tick, RowsAtRest, RowAtRest, RenderedStay, LeaseInv, IdsLeaveTheQueue
<1>4. LeasesHeld'
  <2> SUFFICES ASSUME NEW w \in Worker PROVE HasLease(w)'
    BY DEF LeasesHeld
  <2>1. HasLease(w) /\ LeaseLeft(w) > 1
    BY DEF LeaseInv, LeasesHeld, Tick
  <2>2. job[w].pc = "render" => doc[job[w].on].wait > 1
    <3> SUFFICES ASSUME job[w].pc = "render" PROVE doc[job[w].on].wait > 1
      OBVIOUS
    <3>1. job[w].on \in Order /\ job[w].on \notin Delivery
      BY JobRows, RowAssumption
    <3>2. LeaseLeft(w) = doc[job[w].on].wait
      BY <2>1, <3>1 DEF HasLease, LeaseLeft
    <3> QED
      BY <2>1, <3>2
  <2>3. job[w].pc \in Sending => del[job[w].on].wait > 1
    BY <2>1, JobRows, RowAssumption DEF HasLease, LeaseLeft
  <2> QED
    BY <1>1, <1>2, <1>3, <2>1, <2>2, <2>3, JobRows DEF HasLease
<1>5. OneHolder'
  BY <1>3 DEF LeaseInv, OneHolder
<1> QED
  BY <1>3, <1>4, <1>5, SentStay DEF LeaseInv

LEMMA WorkerLeases ==
  ASSUME MessageInv, LeaseInv, NEW w \in Worker, WorkerStep(w) \/ ApplyPendingEvents(w) \/ Crash(w)
  PROVE  RowsAtRest /\ LeaseInv'
<1>1. CASE SkipDelivery(w)
  BY <1>1, AttemptSameIdLeases DEF SkipDelivery, Sending
<1>2. CASE RecordPermanent(w)
  BY <1>2, AttemptSameIdLeases DEF RecordPermanent, Sending
<1>3. CASE RecordTemporary(w)
  BY <1>3, AttemptSameIdLeases DEF RecordTemporary, Sending
<1>4. CASE Crash(w)
  <2>1. RowsAtRest /\ RenderedStay
    BY <1>4, SameRowsAtRest DEF Crash, RenderedStay
  <2> QED
    BY <1>4, <2>1, LeaseEnds DEF Crash
<1> QED
  BY <1>1, <1>2, <1>3, <1>4, ClaimDocumentLeases, ClaimDeliveryLeases, DocumentLeases, SentLeases,
     RefusedLeases, AcceptedLeases, ApplyLeases
     DEF WorkerStep

LEMMA NextLeases ==
  ASSUME MessageInv, LeaseInv, BoundedAttempts, [Next]_vars
  PROVE  RowsAtRest /\ LeaseInv'
<1>1. CASE Api
  <2>1. ASSUME NEW r \in Request, NEW d \in Delivery, NEW to \in Recipient, BeginResend(r, d, to)
        PROVE  RowsAtRest /\ LeaseInv'
    BY <2>1, SameRowsAtRest, QuietLeases DEF BeginResend
  <2>2. ASSUME NEW r \in Request, NEW o \in Order, NEW to \in Address, BeginTestSend(r, o, to)
        PROVE  RowsAtRest /\ LeaseInv'
    BY <2>2, SameRowsAtRest, QuietLeases DEF BeginTestSend
  <2> QED
    BY <1>1, <2>1, <2>2, EnqueueLeases, InsertLeases DEF Api
<1>2. CASE Webhook
  <2>1. ASSUME NEW i \in DOMAIN events, CommitOrphan(i) PROVE RowsAtRest /\ LeaseInv'
    BY <2>1, SameRowsAtRest, QuietLeases DEF CommitOrphan
  <2> QED
    BY <1>2, <2>1, WebhookLeases DEF Webhook
<1>3. CASE UNCHANGED vars
  BY <1>3, SameRowsAtRest, QuietLeases DEF vars
<1> QED
  BY <1>1, <1>2, <1>3, TickLeases, WorkerLeases DEF Next

LEMMA InitLeases ==
  ASSUME Init
  PROVE  LeaseInv
<1>1. \A w \in Worker : job[w].pc = "idle"
  BY DEF Init, Idle
<1>2. \A d \in Delivery : del[d].mid = 0 /\ sent[d] = <<>>
  BY DEF Init, NoDel
<1>3. LeasesHeld /\ OneHolder
  BY <1>1 DEF LeasesHeld, HasLease, OneHolder, Sending
<1>4. IdsLeaveTheQueue /\ SentWhenReady /\ SentPdfIsStoredPdf
  BY <1>2 DEF IdsLeaveTheQueue, SentWhenReady, SentPdfIsStoredPdf
<1> QED
  BY <1>3, <1>4 DEF LeaseInv

\* Every message carries the PDF that the document row points at, where no
\* attempt outlives its lease (CLAIM_LEASE): nothing is rendered again once it
\* was sent (_process_document, _process_delivery).
THEOREM SentPdfAlwaysStored == BoundedAttempts => (Spec => []SentPdfIsStoredPdf)
<1> SUFFICES ASSUME BoundedAttempts PROVE Spec => []SentPdfIsStoredPdf
  OBVIOUS
<1>1. Init => LeaseInv
  BY InitLeases
<1>2. MessageInv /\ LeaseInv /\ [Next]_vars => LeaseInv'
  BY NextLeases
<1>3. LeaseInv => SentPdfIsStoredPdf
  BY DEF LeaseInv
<1> QED
  BY <1>1, <1>2, <1>3, MessageInvariant, PTL DEF Spec

\* The first terminal result of a delivery stands, whatever is retried,
\* repeated or late, where no attempt outlives its lease (apply_event).
THEOREM FirstTerminalStands == BoundedAttempts => (Spec => FirstTerminalWins)
<1> SUFFICES ASSUME BoundedAttempts PROVE Spec => FirstTerminalWins
  OBVIOUS
<1>1. Init => LeaseInv
  BY InitLeases
<1>2. MessageInv /\ LeaseInv /\ [Next]_vars => LeaseInv'
  BY NextLeases
<1>3. MessageInv /\ LeaseInv /\ [Next]_vars
        => [\A d \in Delivery : del[d].status \in Terminal => del'[d].status = del[d].status]_vars
  BY NextLeases DEF RowsAtRest, RowAtRest
<1> QED
  BY <1>1, <1>2, <1>3, MessageInvariant, PTL DEF Spec, FirstTerminalWins

=============================================================================
