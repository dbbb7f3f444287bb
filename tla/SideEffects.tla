------------------------------- MODULE SideEffects -----------------------------
(***************************************************************************)
(* What a request sets going outside its transaction: the events in the    *)
(* outbox, and the objects of the files attached to order items.  The two  *)
(* know nothing of each other: a behaviour moves one of them, `part', and  *)
(* the other stays as it is at first.                                      *)
(***************************************************************************)
EXTENDS WebhookOutbox

CONSTANTS Attachment, Order, Pending, Request    \* of OrderAttachments

ASSUME PendingAssumption == Pending \notin Order

VARIABLES part, orders, at, objects, saved, sent, leaked, req

files == <<part, orders, at, objects, saved, sent, leaked, req>>
outbox == <<part, vars>>

Attached == INSTANCE OrderAttachments

InitBoth == part \in {"outbox", "files"} /\ Init /\ Attached!Init

OnOutbox(w) ==
  \/ part = "outbox" /\ Claim(w) /\ UNCHANGED files
  \/ part = "outbox" /\ DeliverOne(w) /\ UNCHANGED files
  \/ part = "outbox" /\ Commit(w) /\ UNCHANGED files
  \/ part = "outbox" /\ Abort(w) /\ UNCHANGED files

OnFiles(r) ==
  \/ \E a \in Attachment : part = "files" /\ Attached!PutObject(r, a) /\ UNCHANGED outbox
  \/ \E a \in Attachment : part = "files" /\ Attached!ReadPending(r, a) /\ UNCHANGED outbox
  \/ \E o \in Order : part = "files" /\ Attached!DeleteOrder(r, o) /\ UNCHANGED outbox
  \/ \E o \in Order, S \in SUBSET Attachment :
       part = "files" /\ Attached!ResolveAttachments(r, o, S) /\ UNCHANGED outbox
  \/ part = "files" /\ Attached!InsertRow(r) /\ UNCHANGED outbox
  \/ part = "files" /\ Attached!InsertFails(r) /\ UNCHANGED outbox
  \/ part = "files" /\ Attached!CommitOrder(r) /\ UNCHANGED outbox
  \/ part = "files" /\ Attached!DeleteRow(r) /\ UNCHANGED outbox
  \/ part = "files" /\ Attached!DeleteObjects(r) /\ UNCHANGED outbox
  \/ part = "files" /\ Attached!Crash(r) /\ UNCHANGED outbox

NextEither ==
  \/ part = "outbox" /\ Tick /\ UNCHANGED files
  \/ \E e \in Event : part = "outbox" /\ EnqueueEvent(e) /\ UNCHANGED files
  \/ \E w \in Worker : OnOutbox(w)
  \/ \E r \in Request : OnFiles(r)
  \/ \E o \in Order : part = "files" /\ Attached!CloseOrder(o) /\ UNCHANGED outbox

both == <<files, outbox>>

\* Fairness of WebhookOutbox, where it is the outbox that moves.
SpecBoth ==
  /\ InitBoth /\ [][NextEither]_both
  /\ WF_both(part = "outbox" /\ Tick /\ UNCHANGED files)
  /\ \A w \in Worker : WF_both(part = "outbox" /\ WorkerStep(w) /\ UNCHANGED files)

\* Of OrderAttachments: a row has its object, and an object that no row names
\* is about to get one or to be deleted, or is known to be left behind.
FilesAreAccountedFor == Attached!FilesAreAccountedFor

\* Of OrderAttachments: an order has the files it was last saved with, but for
\* one that a drop read as pending before the order was saved.
SavedFilesStay == Attached!SavedFilesStay

=============================================================================
