------------------------------- MODULE Retention -------------------------------
(***************************************************************************)
(* Legal holds and what they are to hold: the erasure of the records of    *)
(* clients and representatives beside forms and imports that edit them, the *)
(* deletion of orders, and the reviews that list what is past its term.  A *)
(* hold is a row of its own; those who look for one and those who add one  *)
(* share no lock, nor do those who edit a record and those who erase it.   *)
(***************************************************************************)
EXTENDS Integers, Sequences, FiniteSets, SequencesExt

CONSTANTS
  Request,      \* transactions that can be open at once
  Client, Rep, Order,
  ClientOf,     \* the client of an order
  RepOf,        \* the representative of an order
  Detail,       \* columns of a record that hold personal data
  Email,        \* the one that an import finds a record by
  MaxSnapshot,  \* _MAX_SNAPSHOT_CANDIDATES
  MaxHolds,     \* bound: active legal holds
  MaxWork       \* bound: retention reviews and edits, together

ASSUME OwnerAssumption == ClientOf \in [Order -> Client] /\ RepOf \in [Order -> Rep]
ASSUME KindAssumption ==
  /\ Client \cap Rep = {} /\ Client \cap Order = {} /\ Rep \cap Order = {}
ASSUME FinitenessAssumption == IsFiniteSet(Client) /\ IsFiniteSet(Rep) /\ IsFiniteSet(Order)
ASSUME DetailAssumption == Email \in Detail
ASSUME BoundAssumption == MaxSnapshot \in Nat /\ MaxHolds \in Nat /\ MaxWork \in Nat

VARIABLES
  record,       \* clients, representatives and orders: absent, kept, anonymised or gone
  detail,       \* the columns of a record that are filled
  access,       \* the account that a record's link gives: none, active or suspended
  relation,     \* that with a representative: current or ended
  hold,         \* the active rows of legal_holds, in the order of insertion
  review,       \* the rows of retention_reviews
  txn,          \* what each open transaction is doing
  edits,        \* edits begun
  retold,       \* records that an edit wrote beside their anonymisation or after it
  joined        \* reviews beside which a record became due or a hold came or went

vars == <<record, detail, access, relation, hold, review, txn, edits, retold, joined>>

-----------------------------------------------------------------------------

Party == Client \cup Rep
Subject == Party \cup Order
Idle == [op |-> "idle"]

\* beside: it was committed while an erasure it would have stopped was past
\* its check, or after it.
Hold == [subject: Subject, beside: BOOLEAN]

\* missed: the candidates that it does not list, when it is stored.
Review == [status: {"draft", "approved"}, truncated: BOOLEAN, beside: BOOLEAN, missed: SUBSET Subject]

\* The categories of a review, one after the other.
Category == <<Client, Order, Rep>>

\* What a transaction is doing. filled: the columns that were, when it began.
Work ==
  {Idle} \cup [op: {"hold"}, subject: Subject]
    \cup [op: {"anonymise", "delete"}, subject: Party, filled: SUBSET Detail]
    \cup [op: {"edit", "import"}, subject: Party, column: Detail]
    \cup [op: {"review"}, at: 1 .. 4, query: {"due", "held", "list"}, total: Int, listed: SUBSET Subject]

Open == {r \in Request : txn[r] # Idle}
Doing(ops) == {r \in Open : txn[r].op \in ops}
Starts(r, work) == txn[r] = Idle /\ txn' = [txn EXCEPT ![r] = work]
Ends(r) == txn' = [txn EXCEPT ![r] = Idle]

Exists(s) == record[s] \notin {"absent", "gone"}
There(S) == {s \in S : Exists(s)}
Room == edits + Len(review) + Cardinality(Doing({"review"})) < MaxWork
Held == {hold[h].subject : h \in DOMAIN hold}
Joins == joined' = joined \cup Doing({"review"})

\* The orders a record is in, and whose records an order is in.
OrdersOf(s) == {o \in There(Order) : s \in {ClientOf[o], RepOf[o]}}
Covered(s) == IF s \in Order THEN {ClientOf[s], RepOf[s]} ELSE {s}

Init ==
  /\ record \in [Subject -> {"absent", "kept"}]
  /\ \A o \in There(Order) : Exists(ClientOf[o]) /\ Exists(RepOf[o])
  /\ detail = [s \in Party |-> IF Exists(s) THEN Detail ELSE {}]
  /\ access = [s \in Party |-> "none"]
  /\ relation = [p \in Rep |-> "current"]
  /\ hold = <<>> /\ review = <<>>
  /\ txn = [r \in Request |-> Idle]
  /\ edits = 0 /\ retold = {} /\ joined = {}

TypeOK ==
  /\ record \in [Subject -> {"absent", "kept", "anonymised", "gone"}]
  /\ detail \in [Party -> SUBSET Detail]
  /\ access \in [Party -> {"none", "active", "suspended"}]
  /\ relation \in [Rep -> {"current", "ended"}]
  /\ hold \in Seq(Hold) /\ review \in Seq(Review)
  /\ txn \in [Request -> Work]
  /\ edits \in Nat /\ retold \subseteq Party /\ joined \subseteq Request

-----------------------------------------------------------------------------
(* Legal holds *)

\* create_legal_hold: the record exists and has no active hold yet.
BeginHold(r, s) ==
  /\ Exists(s) /\ s \notin Held
  /\ Len(hold) + Cardinality(Doing({"hold"})) < MaxHolds
  /\ Starts(r, [op |-> "hold", subject |-> s])
  /\ UNCHANGED <<record, detail, access, relation, hold, review, edits, retold, joined>>

CommitHold(r) ==
  /\ r \in Doing({"hold"})
  /\ LET s == txn[r].subject
         passed == {txn[q].subject : q \in Doing({"anonymise", "delete"})}
         erased == {p \in Party : record[p] # "kept"} \cup (Order \ There(Order))
     IN  hold' = Append(hold, [subject |-> s,
                               beside |-> Covered(s) \cap (passed \cup erased) # {} \/ s \in erased])
  /\ Ends(r)
  /\ Joins
  /\ UNCHANGED <<record, detail, access, relation, review, edits, retold>>

\* release_legal_hold, or its term: the row is locked, and released once.
Release(h) ==
  /\ h \in DOMAIN hold
  /\ hold' = RemoveAt(hold, h)
  /\ Joins
  /\ UNCHANGED <<record, detail, access, relation, review, txn, edits, retold>>

-----------------------------------------------------------------------------
(* Erasure *)

\* Faulty variant: only a hold on the record itself is looked for.
NoActiveHoldOnRecord(s) == s \notin Held

\* ensure_no_active_legal_hold
NoActiveHold(s) == ({s} \cup OrdersOf(s)) \cap Held = {}

\* anonymize_client, anonymize_representative, anonymize_my_data, delete_client:
\* the record is read and a hold is looked for ...
BeginErasure(r, op, s) ==
  /\ Exists(s) /\ NoActiveHold(s)
  /\ op = "delete" => s \in Client
  /\ Starts(r, [op |-> op, subject |-> s, filled |-> detail[s]])
  /\ UNCHANGED <<record, detail, access, relation, hold, review, edits, retold, joined>>

Suspended(s) == [access EXCEPT ![s] = IF @ = "active" THEN "suspended" ELSE @]

\* Faulty variant: a column that was added later is left as it is.
BlankedButLast(now, was) == now \ (was \cap {Email})

\* anonymize_client_fields, anonymize_representative_fields: the object mapper
\* writes the columns that were filled when the record was read.
Blanked(now, was) == now \ was

\* ... and the account goes with the record.  The foreign key of the orders
\* keeps a client with an order.
CommitErasure(r) ==
  /\ r \in Doing({"anonymise", "delete"})
  /\ LET s == txn[r].subject
         was == txn[r].filled
     IN  /\ Exists(s)
         /\ CASE txn[r].op = "delete" ->
                   /\ OrdersOf(s) = {}
                   /\ record' = [record EXCEPT ![s] = "gone"]
                   /\ detail' = [detail EXCEPT ![s] = {}]
                   /\ retold' = retold \ {s}
                   /\ UNCHANGED <<access, joined>>
              [] OTHER ->
                   /\ record' = [record EXCEPT ![s] = "anonymised"]
                   /\ detail' = [detail EXCEPT ![s] = Blanked(@, was)]
                   /\ retold' = IF detail[s] = was THEN retold \ {s} ELSE retold \cup {s}
                   /\ access' = Suspended(s)
                   /\ Joins
  /\ Ends(r)
  /\ UNCHANGED <<relation, hold, review, edits>>

\* delete_order, of an order that nothing refers to.
DeleteOrder(o) ==
  /\ Exists(o)
  /\ record' = [record EXCEPT ![o] = "gone"]
  /\ Joins
  /\ UNCHANGED <<detail, access, relation, hold, review, txn, edits, retold>>

-----------------------------------------------------------------------------
(* Forms and imports *)

\* A record with the columns that were given, among them the e-mail.
Created(s, D) ==
  /\ record[s] = "absent" /\ Email \in D
  /\ record' = [record EXCEPT ![s] = "kept"]
  /\ detail' = [detail EXCEPT ![s] = D]
  /\ Joins
  /\ UNCHANGED <<access, relation, hold, review, txn, edits, retold>>

CreateClient(c, D) == c \in Client /\ Created(c, D)
CreateRep(p, D) == p \in Rep /\ Created(p, D)

\* update_client, update_representative: the form sends the whole record, and
\* one column differs from what was read, or is filled now. It may be an
\* anonymised record.
BeginEdit(r, s, f) ==
  /\ Exists(s)
  /\ s \in Rep => relation[s] = "current"
  /\ Room /\ edits' = edits + 1
  /\ Starts(r, [op |-> "edit", subject |-> s, column |-> f])
  /\ UNCHANGED <<record, detail, access, relation, hold, review, retold, joined>>

\* A row of an import: one import at a time, and a record is found by its
\* e-mail, that of a representative whose relationship ended too.
Imported(r, s, f) ==
  /\ Doing({"import"}) = {}
  /\ Exists(s) /\ Email \in detail[s] /\ f # Email
  /\ Room /\ edits' = edits + 1
  /\ Starts(r, [op |-> "import", subject |-> s, column |-> f])
  /\ UNCHANGED <<record, detail, access, relation, hold, review, retold, joined>>

BeginImportClient(r, c, f) == c \in Client /\ Imported(r, c, f)
BeginImportRep(r, p, f) == p \in Rep /\ Imported(r, p, f)

\* The column that differs is written, whatever the record is by now.
CommitEdit(r) ==
  /\ r \in Doing({"edit", "import"}) /\ Exists(txn[r].subject)
  /\ LET s == txn[r].subject
         f == txn[r].column
     IN  /\ detail' = [detail EXCEPT ![s] = @ \cup {f}]
         /\ retold' = IF record[s] = "anonymised" THEN retold \cup {s} ELSE retold
  /\ Ends(r)
  /\ UNCHANGED <<record, access, relation, hold, review, edits, joined>>

-----------------------------------------------------------------------------
(* Representatives *)

\* delete_representative
RemoveRep(p) ==
  /\ Exists(p) /\ relation[p] = "current"
  /\ relation' = [relation EXCEPT ![p] = "ended"]
  /\ access' = Suspended(p)
  /\ Joins
  /\ UNCHANGED <<record, detail, hold, review, txn, edits, retold>>

\* end_representative_relationship dates the end, of one removed before too.
EndRelationship(p) ==
  /\ Exists(p)
  /\ relation' = [relation EXCEPT ![p] = "ended"]
  /\ access' = Suspended(p)
  /\ Joins
  /\ UNCHANGED <<record, detail, hold, review, txn, edits, retold>>

\* create_user_from_client, create_user_from_rep
Provision(s) ==
  /\ Exists(s) /\ access[s] = "none"
  /\ access' = [access EXCEPT ![s] = "active"]
  /\ UNCHANGED <<record, detail, relation, hold, review, txn, edits, retold, joined>>

-----------------------------------------------------------------------------
(* Retention reviews *)

\* What may be past its term, and the holds that keep it off the list.
Due ==
  {c \in There(Client) : OrdersOf(c) = {} /\ access[c] # "active"} \cup There(Order)
    \cup {p \in Rep : relation[p] # "current"}
Kept == Held \cup {o \in Order : {ClientOf[o], RepOf[o]} \cap Held # {}}
Eligible == Due \ Kept

\* create_retention_dry_run goes through the categories.  Of each it counts what
\* is due ...
Reviewing(at, query, total, listed) ==
  [op |-> "review", at |-> at, query |-> query, total |-> total, listed |-> listed]

BeginReview(r) ==
  /\ Room
  /\ Starts(r, Reviewing(1, "due", 0, {}))
  /\ UNCHANGED <<record, detail, access, relation, hold, review, edits, retold, joined>>

Asks(r, query) == r \in Doing({"review"}) /\ txn[r].at <= 3 /\ txn[r].query = query
Asked(r) == Category[txn[r].at]

CountDue(r) ==
  /\ Asks(r, "due")
  /\ txn' = [txn EXCEPT ![r] = Reviewing(@.at, "held", @.total + Cardinality(Due \cap Asked(r)), @.listed)]
  /\ UNCHANGED <<record, detail, access, relation, hold, review, edits, retold, joined>>

\* ... takes off what of it is held ...
CountHeld(r) ==
  /\ Asks(r, "held")
  /\ txn' = [txn EXCEPT ![r] =
                Reviewing(@.at, "list", @.total - Cardinality(Due \cap Kept \cap Asked(r)), @.listed)]
  /\ UNCHANGED <<record, detail, access, relation, hold, review, edits, retold, joined>>

\* ... and lists the rest, as far as the categories before it leave room.
ListCandidates(r) ==
  /\ Asks(r, "list")
  /\ \E L \in SUBSET (Eligible \cap Asked(r)) :
       /\ Cardinality(L) + Cardinality(txn[r].listed) <= MaxSnapshot
       /\ \/ L = Eligible \cap Asked(r)
          \/ Cardinality(L) + Cardinality(txn[r].listed) = MaxSnapshot
       /\ txn' = [txn EXCEPT ![r] = Reviewing(@.at + 1, "due", @.total, @.listed \cup L)]
  /\ UNCHANGED <<record, detail, access, relation, hold, review, edits, retold, joined>>

\* Faulty variant: whether a list is short is asked of the list, which never is
\* longer than its limit.
TruncatedByList(total, listed) == Cardinality(listed) > MaxSnapshot

Truncated(total, listed) == total > MaxSnapshot \/ Cardinality(listed) # total

CommitReview(r) ==
  /\ r \in Doing({"review"}) /\ txn[r].at = 4
  /\ review' = Append(review, [status |-> "draft", truncated |-> Truncated(txn[r].total, txn[r].listed),
                               beside |-> r \in joined, missed |-> Eligible \ txn[r].listed])
  /\ Ends(r)
  /\ joined' = joined \ {r}
  /\ UNCHANGED <<record, detail, access, relation, hold, edits, retold>>

\* approve_retention_review
Approve(v) ==
  /\ v \in DOMAIN review /\ review[v].status = "draft" /\ ~review[v].truncated
  /\ review' = [review EXCEPT ![v].status = "approved"]
  /\ UNCHANGED <<record, detail, access, relation, hold, txn, edits, retold, joined>>

\* A refusal or a failed commit: the transaction leaves nothing.
Abort(r) ==
  /\ r \in Open /\ Ends(r)
  /\ joined' = joined \ {r}
  /\ UNCHANGED <<record, detail, access, relation, hold, review, edits, retold>>

-----------------------------------------------------------------------------

Next ==
  \/ \E r \in Request :
       \/ \E s \in Subject : BeginHold(r, s)
       \/ \E s \in Party, op \in {"anonymise", "delete"} : BeginErasure(r, op, s)
       \/ \E s \in Party, f \in Detail : BeginEdit(r, s, f)
       \/ \E c \in Client, f \in Detail : BeginImportClient(r, c, f)
       \/ \E p \in Rep, f \in Detail : BeginImportRep(r, p, f)
       \/ CommitHold(r) \/ CommitErasure(r) \/ CommitEdit(r)
       \/ BeginReview(r) \/ CountDue(r) \/ CountHeld(r) \/ ListCandidates(r) \/ CommitReview(r)
       \/ Abort(r)
  \/ \E h \in DOMAIN hold : Release(h)
  \/ \E v \in DOMAIN review : Approve(v)
  \/ \E p \in Rep : RemoveRep(p) \/ EndRelationship(p)
  \/ \E s \in Party : Provision(s)
  \/ \E c \in Client, D \in SUBSET Detail : CreateClient(c, D)
  \/ \E p \in Rep, D \in SUBSET Detail : CreateRep(p, D)
  \/ \E o \in Order : DeleteOrder(o)

Spec == Init /\ [][Next]_vars

-----------------------------------------------------------------------------

\* A record under an active hold, its own or that of an order it is in, is
\* neither anonymised nor deleted, unless the hold was committed between the
\* check of an erasure and its commit, or came after it.
HoldsProtect ==
  \A h \in DOMAIN hold :
    LET s == hold[h].subject
    IN  ~hold[h].beside =>
          \A p \in Covered(s) : record[p] = "kept" \/ (s \in Order /\ record[s] = "gone")

\* An approved review names every record that is a candidate when it is stored,
\* though records go while its queries count and list one category after the
\* other, and though the lists share one limit; unless, while it ran, a record
\* became due or a hold came or went.  Then counts of one moment can come to the
\* length of lists of another.
ApprovedReviewsAreWhole ==
  \A v \in DOMAIN review :
    review[v].status = "approved" /\ ~review[v].beside => review[v].missed = {}

\* Nothing personal is left in an anonymised record, unless somebody edited it
\* beside the anonymisation or afterwards: neither locks the record, and each
\* writes only the columns it found different.
AnonymisedIsBlank ==
  \A s \in Party : record[s] = "anonymised" /\ s \notin retold => detail[s] = {}
=============================================================================
