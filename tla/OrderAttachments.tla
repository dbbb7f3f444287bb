--------------------------- MODULE OrderAttachments ---------------------------
(***************************************************************************)
(* Files attached to order items: uploaded before the order is saved,      *)
(* claimed by the transaction that saves it, dropped by an edit, by the    *)
(* deletion of the order or, while nobody has claimed them, by their       *)
(* uploader.  A file is a row of order_item_attachments and an object in   *)
(* the private bucket; the two are never changed together: objects are put *)
(* before the row is committed and deleted after it is gone.               *)
(*                                                                         *)
(* One line per order, one uploader, one market.  A failed commit is taken *)
(* to have changed nothing.                                                *)
(***************************************************************************)
CONSTANTS
  Attachment,   \* attachment ids
  Order,        \* orders
  Pending,      \* order_item_id IS NULL: no Order
  Request       \* concurrent requests

VARIABLES
  orders,       \* the state of each order
  at,           \* order_item_attachments: the order a file hangs on, or Pending
  objects,      \* files in the bucket
  saved,        \* the files each order was last saved with
  sent,         \* files uploaded so far
  leaked,       \* objects that a crash or the storage's failure left behind
  req           \* what each request is about to do

vars == <<orders, at, objects, saved, sent, leaked, req>>

-----------------------------------------------------------------------------

Rows == DOMAIN at
On(o) == {a \in Rows : at[a] = o}

\* What a request is about to do: nothing, insert the row of an uploaded file,
\* commit an order with its files, delete a row it read as pending, delete objects.
Step == [op: {"idle", "insert", "save", "drop", "cleanup"}, order: Order \cup {Pending},
         files: SUBSET Attachment]
Idle == [op |-> "idle", order |-> Pending, files |-> {}]

InFlight == UNION {req[r].files : r \in {q \in Request : req[q].op \in {"insert", "cleanup"}}}

TypeOK ==
  /\ orders \in [Order -> {"new", "draft", "closed", "deleted"}]
  /\ at \in [Rows -> Order \cup {Pending}] /\ Rows \subseteq sent
  /\ \A o \in Order : On(o) # {} => orders[o] \in {"draft", "closed"}
  /\ objects \cup leaked \subseteq sent /\ sent \subseteq Attachment
  /\ saved \in [Order -> SUBSET sent]
  /\ req \in [Request -> Step]

Init ==
  /\ orders = [o \in Order |-> "new"]
  /\ at = [a \in {} |-> Pending]
  /\ objects = {}
  /\ saved = [o \in Order |-> {}]
  /\ sent = {}
  /\ leaked = {}
  /\ req = [r \in Request |-> Idle]

\* The rows in S hang on x, those in T are deleted.
Hang(S, x, T) == at' = [a \in (Rows \ T) \cup S |-> IF a \in S THEN x ELSE at[a]]
Delete(T) == at' = [a \in Rows \ T |-> at[a]]

Starts(r, op, o, S) ==
  /\ req[r].op = "idle"
  /\ req' = [req EXCEPT ![r] = [op |-> op, order |-> o, files |-> S]]

Ends(r) == req' = [req EXCEPT ![r] = Idle]

\* The response goes out once the objects are deleted, if there are any.
ThenCleanup(r, S) ==
  req' = [req EXCEPT ![r] =
            IF S = {} THEN Idle ELSE [op |-> "cleanup", order |-> Pending, files |-> S]]

-----------------------------------------------------------------------------
(* Upload *)

\* put_comment_attachment: an object may be there though the call fails.
PutObject(r, a) ==
  /\ a \notin sent
  /\ sent' = sent \cup {a}
  /\ objects' = objects \cup {a}
  /\ \/ Starts(r, "insert", Pending, {a}) /\ UNCHANGED leaked
     \/ leaked' = leaked \cup {a} /\ UNCHANGED req
  /\ UNCHANGED <<orders, at, saved>>

InsertRow(r) ==
  /\ req[r].op = "insert"
  /\ Hang(req[r].files, Pending, {})
  /\ Ends(r)
  /\ UNCHANGED <<orders, objects, saved, sent, leaked>>

InsertFails(r) ==
  /\ req[r].op = "insert"
  /\ ThenCleanup(r, req[r].files)
  /\ UNCHANGED <<orders, at, objects, saved, sent, leaked>>

-----------------------------------------------------------------------------
(* Saving and deleting orders *)

\* Attachment rows locked by _resolve_item_attachments.
Locked == UNION {req[r].files : r \in {q \in Request : req[q].op = "save"}}

Busy(o) == \E r \in Request : req[r].op = "save" /\ req[r].order = o

\* create_order, update_order: lock the order, then the files, and check them.
ResolveAttachments(r, o, S) ==
  /\ orders[o] \in {"new", "draft"} /\ ~Busy(o)
  /\ S \subseteq Rows \ Locked
  /\ \A a \in S : at[a] \in {Pending, o}
  /\ Starts(r, "save", o, S)
  /\ UNCHANGED <<orders, at, objects, saved, sent, leaked>>

\* Faulty variant: every old file of the order counts as removed.
AllOld(o, S) == On(o)

\* removed_attachment_keys
Removed(o, S) == On(o) \ S

\* Faulty variant: the files an order keeps are not detached before its old
\* items are deleted, and go with them by cascade.
CommitOrderByCascade(r) ==
  LET o == req[r].order
      S == req[r].files
  IN  /\ req[r].op = "save"
      /\ Hang(S \ On(o), o, On(o))
      /\ orders' = [orders EXCEPT ![o] = "draft"]
      /\ saved' = [saved EXCEPT ![o] = S]
      /\ ThenCleanup(r, Removed(o, S))
      /\ UNCHANGED <<objects, sent, leaked>>

CommitOrder(r) ==
  LET o == req[r].order
      S == req[r].files
  IN  /\ req[r].op = "save"
      /\ Hang(S, o, On(o))
      /\ orders' = [orders EXCEPT ![o] = "draft"]
      /\ saved' = [saved EXCEPT ![o] = S]
      /\ ThenCleanup(r, Removed(o, S))
      /\ UNCHANGED <<objects, sent, leaked>>

\* finalize_order, cancel_order
CloseOrder(o) ==
  /\ orders[o] = "draft" /\ ~Busy(o)
  /\ orders' = [orders EXCEPT ![o] = "closed"]
  /\ UNCHANGED <<at, objects, saved, sent, leaked, req>>

\* Faulty variant: the objects of a deleted order are forgotten.
DeleteOrderOnly(r, o) ==
  /\ orders[o] \in {"draft", "closed"} /\ ~Busy(o)
  /\ req[r].op = "idle"
  /\ orders' = [orders EXCEPT ![o] = "deleted"]
  /\ Delete(On(o))
  /\ saved' = [saved EXCEPT ![o] = {}]
  /\ UNCHANGED <<objects, sent, leaked, req>>

\* delete_order: the rows go with the order, by cascade.
DeleteOrder(r, o) ==
  /\ orders[o] \in {"draft", "closed"} /\ ~Busy(o)
  /\ req[r].op = "idle"
  /\ orders' = [orders EXCEPT ![o] = "deleted"]
  /\ Delete(On(o))
  /\ saved' = [saved EXCEPT ![o] = {}]
  /\ ThenCleanup(r, On(o))
  /\ UNCHANGED <<objects, sent, leaked>>

-----------------------------------------------------------------------------
(* delete_pending_order_item_attachment *)

\* The row is read without a lock; one that an order has is refused.
ReadPending(r, a) ==
  /\ a \in Rows /\ at[a] = Pending
  /\ Starts(r, "drop", Pending, {a})
  /\ UNCHANGED <<orders, at, objects, saved, sent, leaked>>

\* DELETE ... WHERE id = ..., which waits for a transaction that has the row.
DeleteRow(r) ==
  /\ req[r].op = "drop"
  /\ req[r].files \cap Locked = {}
  /\ Delete(req[r].files)
  /\ ThenCleanup(r, req[r].files)
  /\ UNCHANGED <<orders, objects, saved, sent, leaked>>

-----------------------------------------------------------------------------

\* delete_comment_attachment: a failure is logged, the object stays.
DeleteObjects(r) ==
  /\ req[r].op = "cleanup"
  /\ \E S \in SUBSET req[r].files :
       /\ objects' = objects \ S
       /\ leaked' = leaked \cup (req[r].files \ S)
  /\ Ends(r)
  /\ UNCHANGED <<orders, at, saved, sent>>

\* The process dies, or the request fails before its commit.
Crash(r) ==
  /\ req[r].op # "idle"
  /\ leaked' = IF req[r].op \in {"insert", "cleanup"} THEN leaked \cup req[r].files ELSE leaked
  /\ Ends(r)
  /\ UNCHANGED <<orders, at, objects, saved, sent>>

Next ==
  \/ \E r \in Request, a \in Attachment : PutObject(r, a) \/ ReadPending(r, a)
  \/ \E r \in Request, o \in Order :
       DeleteOrder(r, o) \/ \E S \in SUBSET Attachment : ResolveAttachments(r, o, S)
  \/ \E o \in Order : CloseOrder(o)
  \/ \E r \in Request :
       \/ InsertRow(r) \/ InsertFails(r) \/ CommitOrder(r)
       \/ DeleteRow(r) \/ DeleteObjects(r) \/ Crash(r)

Spec == Init /\ [][Next]_vars

-----------------------------------------------------------------------------
(* Properties *)

\* A row has its object: what the screen lists can be opened.  An object that
\* no row names is on its way to get a row or to be deleted, or a crash or the
\* storage's failure, which is logged, left it behind.
FilesAreAccountedFor ==
  /\ Rows \subseteq objects
  /\ objects \subseteq Rows \cup InFlight \cup leaked

\* An order has the files it was last saved with, however its items were
\* replaced and whoever else sent the same files.  Only one thing takes a file
\* from it in between: a drop that read it as pending before the save.
SavedFilesStay ==
  [][\A o \in Order :
       \/ On(o)' = saved'[o]
       \/ On(o)' = On(o) /\ saved'[o] = saved[o]
       \/ \E r \in Request :
            /\ req[r].op = "drop"
            /\ On(o) \ On(o)' = req[r].files
            /\ saved' = saved]_vars
=============================================================================
