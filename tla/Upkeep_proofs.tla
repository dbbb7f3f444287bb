---------------------------- MODULE Upkeep_proofs ----------------------------
(***************************************************************************)
(* What keeps the service in order, for any number of records, requests,   *)
(* containers, revisions, photos and backups.                              *)
(* Of Retention: no record under a hold is erased but by an overlap, an    *)
(* anonymised record is blank but for edits, an approved review is whole.  *)
(* Of Operations: the recorded revision tells what is in the database, the *)
(* script that replaces photos logs what it did and ends well only when it *)
(* moved what it listed, the retention of backups keeps what it promises.  *)
(***************************************************************************)
EXTENDS Retention, Operations, FiniteSetTheorems, SequenceTheorems, TLAPS

\* An erasure that is past its check is of no record that a hold protects,
\* unless the hold is on an order that was deleted since.
ErasuresPassed ==
  \A r \in Request, h \in DOMAIN hold :
    LET q == hold[h].subject
    IN  /\ txn[r].op \in {"anonymise", "delete"}
        /\ ~hold[h].beside
        /\ txn[r].subject \in Covered(q)
        => q \in Order /\ record[q] = "gone"

\* What is held, or about to be, was there once; no order is anonymised.
HoldsAreOfRecords ==
  /\ \A h \in DOMAIN hold : record[hold[h].subject] # "absent"
  /\ \A r \in Request : txn[r].op = "hold" => record[txn[r].subject] # "absent"
  /\ \A o \in Order : record[o] # "anonymised"

\* The place of a record's category in a review.
Rank(q) == IF q \in Client THEN 1 ELSE IF q \in Order THEN 2 ELSE 3

\* What the total of a review has to cover: what it lists, and of what is due
\* (D) all it has counted and has not taken off as held (K).
Owes(i, query, K, q) ==
  \/ Rank(q) < i /\ q \notin K
  \/ Rank(q) = i /\ query = "held"
  \/ Rank(q) = i /\ query = "list" /\ q \notin K

Owed(i, query, L, D, K) == L \cup {q \in D : Owes(i, query, K, q)}

Covers(i, query, n, L, D, K) ==
  /\ \A q \in L : Rank(q) < i
  /\ Cardinality(Owed(i, query, L, D, K)) <= n

TotalsCover ==
  \A r \in Request :
    txn[r].op = "review" /\ r \notin joined =>
      Covers(txn[r].at, txn[r].query, txn[r].total, txn[r].listed, Due, Kept)

\* A review that is not truncated and saw nothing change lists all there was,
\* and none is approved that is truncated.
UntruncatedReviewsAreWhole ==
  \A v \in DOMAIN review :
    /\ ~review[v].truncated /\ ~review[v].beside => review[v].missed = {}
    /\ review[v].status = "approved" => ~review[v].truncated

ReviewInv == TypeOK /\ TotalsCover /\ UntruncatedReviewsAreWhole

HoldInv == TypeOK /\ HoldsAreOfRecords /\ ErasuresPassed /\ HoldsProtect

-----------------------------------------------------------------------------
(* Records, transactions and the rows of holds *)

LEMMA CoveredAreParties ==
  ASSUME NEW q \in Subject
  PROVE  /\ Covered(q) \subseteq Party
         /\ q \in Party => q \notin Order /\ Covered(q) = {q}
         /\ q \notin Party => q \in Order /\ Covered(q) = {ClientOf[q], RepOf[q]}
  BY OwnerAssumption, KindAssumption DEF Covered, Subject, Party

\* What is left of a sequence are elements of it.
LEMMA Removed ==
  ASSUME NEW S, NEW q \in Seq(S), NEW i \in DOMAIN q
  PROVE  /\ RemoveAt(q, i) \in Seq(S)
         /\ \A j \in DOMAIN RemoveAt(q, i) : \E k \in DOMAIN q : RemoveAt(q, i)[j] = q[k]
<1>1. i \in 1 .. Len(q) /\ DOMAIN q = 1 .. Len(q) /\ Len(q) \in Nat
  BY LenProperties
<1> DEFINE a == SubSeq(q, 1, i - 1)
           b == SubSeq(q, i + 1, Len(q))
<1>2. a \in Seq(S) /\ Len(a) = i - 1 /\ \A j \in 1 .. Len(a) : a[j] = q[j]
  BY <1>1
<1>3. b \in Seq(S) /\ Len(b) = Len(q) - i /\ \A j \in 1 .. Len(b) : b[j] = q[i + j]
  BY <1>1
<1> HIDE DEF a, b
<1>4. a \o b \in Seq(S) /\ DOMAIN (a \o b) = 1 .. (Len(a) + Len(b))
  <2>1. a \o b \in Seq(S) /\ Len(a \o b) = Len(a) + Len(b)
    BY <1>2, <1>3, ConcatProperties
  <2> QED  BY <2>1, LenProperties
<1>5. ASSUME NEW j \in DOMAIN (a \o b)
      PROVE  \E k \in DOMAIN q : (a \o b)[j] = q[k]
  <2>1. CASE j <= Len(a)
    <3>1. (a \o b)[j] = a[j] /\ j \in 1 .. Len(a)
      BY <1>2, <1>3, <1>4, <1>5, <2>1, ConcatProperties
    <3>2. j \in DOMAIN q
      BY <1>1, <1>2, <3>1
    <3> QED  BY <1>2, <3>1, <3>2
  <2>2. CASE j > Len(a)
    <3>1. (a \o b)[j] = b[j - Len(a)] /\ j - Len(a) \in 1 .. Len(b)
      BY <1>2, <1>3, <1>4, <1>5, <2>2, ConcatProperties
    <3>2. i + (j - Len(a)) \in DOMAIN q
      BY <1>1, <1>2, <1>3, <3>1
    <3> QED  BY <1>3, <3>1, <3>2
  <2> QED  BY <1>1, <1>2, <1>3, <1>4, <1>5, <2>1, <2>2
<1> QED  BY <1>4, <1>5 DEF RemoveAt, a, b

LEMMA Appended ==
  ASSUME NEW S, NEW q \in Seq(S), NEW x \in S
  PROVE  /\ Append(q, x) \in Seq(S)
         /\ \A j \in DOMAIN Append(q, x) :
              (j \in DOMAIN q /\ Append(q, x)[j] = q[j]) \/ Append(q, x)[j] = x
  BY AppendProperties

LEMMA StartedWork ==
  ASSUME TypeOK, NEW r \in Request, NEW work \in Work, Starts(r, work)
  PROVE  /\ txn' \in [Request -> Work]
         /\ txn[r] = Idle /\ txn'[r] = work
         /\ \A q \in Request : q # r => txn'[q] = txn[q]
  BY DEF TypeOK, Starts

LEMMA EndedWork ==
  ASSUME TypeOK, NEW r \in Request, Ends(r)
  PROVE  /\ txn' \in [Request -> Work]
         /\ txn'[r] = Idle
         /\ \A q \in Request : q # r => txn'[q] = txn[q]
  BY DEF TypeOK, Ends, Work

\* What each kind of transaction carries.
LEMMA Works ==
  ASSUME NEW t \in Work
  PROVE  /\ t.op = "hold" => t.subject \in Subject
         /\ t.op \in {"anonymise", "delete"} => t.subject \in Party /\ t.filled \in SUBSET Detail
         /\ t.op \in {"edit", "import"} => t.subject \in Party /\ t.column \in Detail
         /\ t.op = "review" => /\ t.at \in 1 .. 4 /\ t.query \in {"due", "held", "list"}
                             /\ t.total \in Int /\ t.listed \in SUBSET Subject
  BY DEF Work, Idle

\* Rows of legal_holds.
LEMMA HeldSubjects ==
  ASSUME TypeOK
  PROVE  \A h \in DOMAIN hold : hold[h] \in Hold /\ hold[h].subject \in Subject
<1> SUFFICES ASSUME NEW h \in DOMAIN hold
             PROVE  hold[h] \in Hold /\ hold[h].subject \in Subject
  OBVIOUS
<1>1. hold \in Seq(Hold) /\ h \in 1 .. Len(hold)
  BY LenProperties DEF TypeOK
<1>2. hold[h] \in Hold
  BY <1>1, ElementOfSeq
<1> QED  BY <1>2 DEF Hold

LEMMA SubjectsAreFinite ==
  ASSUME NEW S \in SUBSET Subject
  PROVE  IsFiniteSet(S) /\ Cardinality(S) \in Nat
<1>1. IsFiniteSet(Client \cup Rep \cup Order)
  BY FinitenessAssumption, FS_Union
<1>2. S \subseteq Client \cup Rep \cup Order
  BY DEF Subject, Party
<1> QED  BY <1>1, <1>2, FS_Subset, FS_CardinalityType

LEMMA OwedAre ==
  ASSUME NEW i, NEW L, NEW D, NEW K, NEW q
  PROVE  /\ q \in Owed(i, "due", L, D, K) <=> q \in L \/ (q \in D /\ q \notin K /\ Rank(q) < i)
         /\ q \in Owed(i, "held", L, D, K) <=>
              q \in L \/ (q \in D /\ q \notin K /\ Rank(q) < i) \/ (q \in D /\ Rank(q) = i)
         /\ q \in Owed(i, "list", L, D, K) <=>
              q \in L \/ (q \in D /\ q \notin K /\ (Rank(q) < i \/ Rank(q) = i))
<1>1. "due" # "held" /\ "due" # "list" /\ "held" # "list"
  OBVIOUS
<1>2. \A query : q \in Owed(i, query, L, D, K) <=> q \in L \/ (q \in D /\ Owes(i, query, K, q))
  BY DEF Owed
<1> QED  BY <1>1, <1>2, Zenon DEF Owes

LEMMA DueAreSubjects ==
  /\ Due \subseteq Subject /\ Eligible \subseteq Subject
  /\ \A q \in Subject : Rank(q) \in 1 .. 3 /\ q \in Category[Rank(q)]
  /\ \A i \in 1 .. 3 : Category[i] = {q \in Subject : Rank(q) = i}
  BY KindAssumption DEF Due, Eligible, There, Subject, Party, Rank, Category

-----------------------------------------------------------------------------
(* Types *)

LEMMA InitTypes ==
  Init => TypeOK
<1> SUFFICES ASSUME Init  PROVE TypeOK
  OBVIOUS
<1>1. record \in [Subject -> {"absent", "kept", "anonymised", "gone"}]
  BY DEF Init
<1>2. txn \in [Request -> Work]
  BY DEF Init, Work
<1>3. hold \in Seq(Hold) /\ review \in Seq(Review)
  BY DEF Init
<1> QED  BY <1>1, <1>2, <1>3 DEF Init, TypeOK

\* What a review is after each of its queries.
LEMMA ReviewsAre ==
  ASSUME TypeOK, NEW r \in Doing({"review"})
  PROVE  /\ txn[r].at \in 1 .. 4 /\ txn[r].query \in {"due", "held", "list"}
         /\ txn[r].total \in Int /\ txn[r].listed \in SUBSET Subject
         /\ txn[r] = Reviewing(txn[r].at, txn[r].query, txn[r].total, txn[r].listed)
  BY DEF Doing, Open, TypeOK, Work, Idle, Reviewing

LEMMA ReviewingIsWork ==
  ASSUME NEW i \in 1 .. 4, NEW query \in {"due", "held", "list"}, NEW n \in Int, NEW L \in SUBSET Subject
  PROVE  /\ Reviewing(i, query, n, L) \in Work
         /\ Reviewing(i, query, n, L).op = "review"
         /\ Reviewing(i, query, n, L).at = i
         /\ Reviewing(i, query, n, L).query = query
         /\ Reviewing(i, query, n, L).total = n
         /\ Reviewing(i, query, n, L).listed = L
  BY DEF Work, Reviewing

LEMMA WorkSet ==
  ASSUME TypeOK, NEW r \in Request, NEW i \in 1 .. 4, NEW query \in {"due", "held", "list"}, NEW n \in Int,
         NEW L \in SUBSET Subject, txn' = [txn EXCEPT ![r] = Reviewing(i, query, n, L)]
  PROVE  /\ txn' \in [Request -> Work] /\ txn'[r] = Reviewing(i, query, n, L) /\ txn'[r].op = "review"
         /\ \A q \in Request : q # r => txn'[q] = txn[q]
  BY ReviewingIsWork DEF TypeOK

LEMMA QueryAsked ==
  ASSUME TypeOK, NEW r \in Request,
         BeginReview(r) \/ CountDue(r) \/ CountHeld(r) \/ ListCandidates(r)
  PROVE  /\ txn' \in [Request -> Work]
         /\ txn'[r].op = "review"
         /\ \A q \in Request : q # r => txn'[q] = txn[q]
<1>1. CASE BeginReview(r)
  <2>1. txn' = [txn EXCEPT ![r] = Reviewing(1, "due", 0, {})]
    BY <1>1 DEF BeginReview, Starts
  <2>2. 1 \in 1 .. 4 /\ 0 \in Int /\ {} \in SUBSET Subject
    OBVIOUS
  <2> QED  BY <2>1, <2>2, WorkSet
<1>2. CASE CountDue(r)
  <2>1. Cardinality(Due \cap Asked(r)) \in Nat
    BY DueAreSubjects, SubjectsAreFinite
  <2>2. txn[r].at \in 1 .. 4 /\ txn[r].total \in Int /\ txn[r].listed \in SUBSET Subject
    BY <1>2, ReviewsAre DEF CountDue, Asks
  <2>3. txn' = [txn EXCEPT ![r] =
                   Reviewing(txn[r].at, "held", txn[r].total + Cardinality(Due \cap Asked(r)), txn[r].listed)]
    BY <1>2 DEF CountDue
  <2>4. txn[r].total + Cardinality(Due \cap Asked(r)) \in Int
    BY <2>1, <2>2
  <2> QED  BY <2>2, <2>3, <2>4, WorkSet
<1>3. CASE CountHeld(r)
  <2>1. Cardinality(Due \cap Kept \cap Asked(r)) \in Nat
    BY DueAreSubjects, SubjectsAreFinite
  <2>2. txn[r].at \in 1 .. 4 /\ txn[r].total \in Int /\ txn[r].listed \in SUBSET Subject
    BY <1>3, ReviewsAre DEF CountHeld, Asks
  <2>3. txn' = [txn EXCEPT ![r] =
                   Reviewing(txn[r].at, "list", txn[r].total - Cardinality(Due \cap Kept \cap Asked(r)), txn[r].listed)]
    BY <1>3 DEF CountHeld
  <2>4. txn[r].total - Cardinality(Due \cap Kept \cap Asked(r)) \in Int
    BY <2>1, <2>2
  <2> QED  BY <2>2, <2>3, <2>4, WorkSet
<1>4. CASE ListCandidates(r)
  <2>1. PICK L \in SUBSET (Eligible \cap Asked(r)) :
          txn' = [txn EXCEPT ![r] = Reviewing(txn[r].at + 1, "due", txn[r].total, txn[r].listed \cup L)]
    BY <1>4 DEF ListCandidates
  <2>2. /\ txn[r].at \in 1 .. 4 /\ txn[r].at <= 3 /\ txn[r].total \in Int
        /\ txn[r].listed \in SUBSET Subject
    BY <1>4, ReviewsAre DEF ListCandidates, Asks
  <2>3. txn[r].at + 1 \in 1 .. 4 /\ txn[r].listed \cup L \in SUBSET Subject
    BY <2>2, DueAreSubjects
  <2> QED  BY <2>1, <2>2, <2>3, WorkSet
<1> QED  BY <1>1, <1>2, <1>3, <1>4

LEMMA JoinedAreRequests ==
  TypeOK /\ Joins => joined' \subseteq Request
  BY DEF TypeOK, Joins, Doing, Open

LEMMA Types ==
  TypeOK /\ [Next]_vars => TypeOK'
<1> SUFFICES ASSUME TypeOK, [Next]_vars  PROVE TypeOK'
  OBVIOUS
<1> USE DEF TypeOK
<1>1. ASSUME NEW r \in Request, NEW s \in Subject, BeginHold(r, s)
      PROVE  TypeOK'
  <2>1. [op |-> "hold", subject |-> s] \in Work
    BY DEF Work
  <2> QED  BY <1>1, <2>1, StartedWork DEF BeginHold
<1>2. ASSUME NEW r \in Request, NEW s \in Party, NEW op \in {"anonymise", "delete"}, BeginErasure(r, op, s)
      PROVE  TypeOK'
  <2>1. [op |-> op, subject |-> s, filled |-> detail[s]] \in Work
    BY DEF Work
  <2> QED  BY <1>2, <2>1, StartedWork DEF BeginErasure
<1>3. ASSUME NEW r \in Request, NEW s \in Party, NEW f \in Detail, BeginEdit(r, s, f)
      PROVE  TypeOK'
  <2>1. [op |-> "edit", subject |-> s, column |-> f] \in Work
    BY DEF Work
  <2> QED  BY <1>3, <2>1, StartedWork DEF BeginEdit
<1>4. ASSUME NEW r \in Request, NEW s \in Party, NEW f \in Detail, Imported(r, s, f)
      PROVE  TypeOK'
  <2>1. [op |-> "import", subject |-> s, column |-> f] \in Work
    BY DEF Work
  <2> QED  BY <1>4, <2>1, StartedWork DEF Imported
<1>5. ASSUME NEW r \in Request, CommitHold(r)
      PROVE  TypeOK'
  <2>1. txn[r].op = "hold" /\ txn[r].subject \in Subject
    BY <1>5, Works DEF CommitHold, Doing
  <2>2. PICK b \in BOOLEAN : hold' = Append(hold, [subject |-> txn[r].subject, beside |-> b])
    BY <1>5 DEF CommitHold
  <2>3. hold' \in Seq(Hold)
    BY <2>1, <2>2, Appended DEF Hold
  <2> QED  BY <1>5, <2>3, EndedWork, JoinedAreRequests DEF CommitHold
<1>6. ASSUME NEW r \in Request, CommitErasure(r)
      PROVE  TypeOK'
  <2>1. txn[r].subject \in Party /\ txn[r].subject \in Subject
    BY <1>6, Works DEF CommitErasure, Doing, Subject
  <2>2. CASE txn[r].op = "delete"
    BY <1>6, <2>1, <2>2, EndedWork DEF CommitErasure
  <2>3. CASE txn[r].op # "delete"
    <3>1. /\ record' = [record EXCEPT ![txn[r].subject] = "anonymised"]
          /\ detail' = [detail EXCEPT ![txn[r].subject] = @ \ txn[r].filled]
          /\ retold' \in {retold \ {txn[r].subject}, retold \cup {txn[r].subject}}
          /\ access' = Suspended(txn[r].subject)
      BY <1>6, <2>3 DEF CommitErasure, Blanked
    <3>2. retold' \subseteq Party
      BY <2>1, <3>1
    <3>3. detail' \in [Party -> SUBSET Detail]
      BY <2>1, <3>1
    <3>4. access' \in [Party -> {"none", "active", "suspended"}]
      BY <2>1, <3>1 DEF Suspended
    <3>5. joined' \subseteq Request
      BY <1>6, <2>3, JoinedAreRequests DEF CommitErasure
    <3> QED  BY <1>6, <2>1, <3>1, <3>2, <3>3, <3>4, <3>5, EndedWork DEF CommitErasure
  <2> QED  BY <2>2, <2>3
<1>7. ASSUME NEW r \in Request, CommitEdit(r)
      PROVE  TypeOK'
  <2>1. txn[r].subject \in Party /\ txn[r].column \in Detail
    BY <1>7, Works DEF CommitEdit, Doing
  <2> QED  BY <1>7, <2>1, EndedWork DEF CommitEdit
<1>8. ASSUME NEW r \in Request, BeginReview(r) \/ CountDue(r) \/ CountHeld(r) \/ ListCandidates(r)
      PROVE  TypeOK'
  <2>1. txn' \in [Request -> Work]
    BY <1>8, QueryAsked
  <2> QED  BY <1>8, <2>1 DEF BeginReview, CountDue, CountHeld, ListCandidates
<1>9. ASSUME NEW r \in Request, CommitReview(r)
      PROVE  TypeOK'
  <2> DEFINE new == [status |-> "draft", truncated |-> Truncated(txn[r].total, txn[r].listed),
                     beside |-> r \in joined, missed |-> Eligible \ txn[r].listed]
  <2>1. Eligible \ txn[r].listed \in SUBSET Subject
    BY DueAreSubjects
  <2>2. Truncated(txn[r].total, txn[r].listed) \in BOOLEAN
    BY DEF Truncated
  <2>3. new \in Review
    BY <2>1, <2>2 DEF Review
  <2>4. review' = Append(review, new)
    BY <1>9 DEF CommitReview
  <2> HIDE DEF new
  <2>5. review' \in Seq(Review)
    BY <2>3, <2>4, Appended
  <2> QED  BY <1>9, <2>5, EndedWork DEF CommitReview
<1>10. ASSUME NEW r \in Request, Abort(r)
       PROVE  TypeOK'
  BY <1>10, EndedWork DEF Abort
<1>11. ASSUME NEW h \in DOMAIN hold, Release(h)
       PROVE  TypeOK'
  BY <1>11, Removed, JoinedAreRequests DEF Release
<1>12. ASSUME NEW v \in DOMAIN review, Approve(v)
       PROVE  TypeOK'
  <2>1. v \in 1 .. Len(review) /\ [review[v] EXCEPT !.status = "approved"] \in Review
    <3>1. v \in 1 .. Len(review)
      BY LenProperties
    <3>2. review[v] \in Review
      BY <3>1, ElementOfSeq
    <3> QED  BY <3>1, <3>2 DEF Review
  <2>2. review' = [review EXCEPT ![v] = [review[v] EXCEPT !.status = "approved"]]
    BY <1>12 DEF Approve
  <2>3. review' \in Seq(Review)
    BY <2>1, <2>2, ExceptSeq
  <2> QED  BY <1>12, <2>3 DEF Approve
<1>13. ASSUME NEW p \in Rep, RemoveRep(p) \/ EndRelationship(p)
       PROVE  TypeOK'
  BY <1>13, JoinedAreRequests DEF RemoveRep, EndRelationship, Suspended, Party
<1>14. ASSUME NEW s \in Party, Provision(s)
       PROVE  TypeOK'
  BY <1>14 DEF Provision
<1>15. ASSUME NEW s \in Party, NEW D \in SUBSET Detail, Created(s, D)
       PROVE  TypeOK'
  BY <1>15, JoinedAreRequests DEF Created, Subject
<1>16. ASSUME NEW o \in Order, DeleteOrder(o)
       PROVE  TypeOK'
  BY <1>16, JoinedAreRequests DEF DeleteOrder, Subject
<1>17. CASE UNCHANGED vars
  BY <1>17 DEF vars
<1> QED  BY <1>1, <1>2, <1>3, <1>4, <1>5, <1>6, <1>7, <1>8, <1>9, <1>10, <1>11, <1>12, <1>13, <1>14,
            <1>15, <1>16, <1>17
         DEF Next, BeginImportClient, BeginImportRep, CreateClient, CreateRep, Party

-----------------------------------------------------------------------------
(* Holds *)

\* Steps that neither write records and holds nor begin an erasure.
LEMMA HoldsUndisturbed ==
  ASSUME HoldInv, TypeOK', record' = record, hold' = hold,
         \A r \in Request :
           \/ txn'[r] = txn[r]
           \/ /\ txn'[r].op \notin {"anonymise", "delete"}
              /\ txn'[r].op = "hold" => record[txn'[r].subject] # "absent"
  PROVE  HoldInv'
  BY DEF HoldInv, HoldsAreOfRecords, ErasuresPassed, HoldsProtect

LEMMA HoldCommitted ==
  ASSUME HoldInv, TypeOK', NEW r \in Request, CommitHold(r)
  PROVE  HoldInv'
<1> USE DEF HoldInv
<1> DEFINE s == txn[r].subject
           passed == {txn[q].subject : q \in Doing({"anonymise", "delete"})}
           erased == {p \in Party : record[p] # "kept"} \cup (Order \ There(Order))
           new == [subject |-> s,
                   beside |-> Covered(s) \cap (passed \cup erased) # {} \/ s \in erased]
<1>1. txn[r].op = "hold" /\ s \in Subject /\ record[s] # "absent"
  BY Works DEF CommitHold, Doing, TypeOK, HoldsAreOfRecords
<1>2. /\ hold' = Append(hold, new) /\ record' = record
      /\ txn' = [txn EXCEPT ![r] = Idle]
  BY DEF CommitHold, Ends
<1>3. new \in Hold
  BY <1>1 DEF Hold
<1>4. \A h \in DOMAIN hold' : (h \in DOMAIN hold /\ hold'[h] = hold[h]) \/ hold'[h] = new
  BY <1>2, <1>3, Appended DEF TypeOK
<1>5. \A q \in Request : txn'[q].op # "idle" => q # r /\ txn'[q] = txn[q]
  BY <1>2, EndedWork DEF Ends, Idle
<1>6. ~new.beside => \A p \in Covered(s) : record[p] = "kept"
  BY <1>1, CoveredAreParties
<1>7. \A q \in Request :
        ~new.beside /\ txn[q].op \in {"anonymise", "delete"} => txn[q].subject \notin Covered(s)
  <2> SUFFICES ASSUME NEW q \in Request, txn[q].op \in {"anonymise", "delete"}
               PROVE  ~new.beside => txn[q].subject \notin Covered(s)
    OBVIOUS
  <2>1. q \in Doing({"anonymise", "delete"})
    BY DEF Doing, Open, Idle
  <2>2. txn[q].subject \in passed
    BY <2>1
  <2> QED  BY <2>2
<1>8. new.subject = s
  OBVIOUS
<1> HIDE DEF new
<1>9. HoldsAreOfRecords'
  BY <1>1, <1>2, <1>4, <1>5, <1>8 DEF HoldsAreOfRecords
<1>10. ErasuresPassed'
  BY <1>2, <1>4, <1>5, <1>7, <1>8 DEF ErasuresPassed
<1>11. HoldsProtect'
  BY <1>2, <1>4, <1>6, <1>8 DEF HoldsProtect
<1> QED  BY <1>9, <1>10, <1>11

LEMMA HoldReleased ==
  ASSUME HoldInv, TypeOK', NEW h \in DOMAIN hold, Release(h)
  PROVE  HoldInv'
<1>1. \A j \in DOMAIN hold' : \E k \in DOMAIN hold : hold'[j] = hold[k]
  BY Removed DEF Release, HoldInv, TypeOK
<1>2. record' = record /\ txn' = txn
  BY DEF Release
<1> QED  BY <1>1, <1>2 DEF HoldInv, HoldsAreOfRecords, ErasuresPassed, HoldsProtect

LEMMA ErasureBegun ==
  ASSUME HoldInv, TypeOK', NEW r \in Request, NEW op \in {"anonymise", "delete"}, NEW s \in Party,
         BeginErasure(r, op, s)
  PROVE  HoldInv'
<1> USE DEF HoldInv
<1>1. /\ record' = record /\ hold' = hold
      /\ txn'[r] = [op |-> op, subject |-> s, filled |-> detail[s]]
      /\ \A q \in Request : q # r => txn'[q] = txn[q]
  BY DEF BeginErasure, Starts, TypeOK
<1>2. ASSUME NEW h \in DOMAIN hold, s \in Covered(hold[h].subject)
      PROVE  hold[h].subject \in Order /\ record[hold[h].subject] = "gone"
  <2> DEFINE q == hold[h].subject
  <2>1. q \in Held /\ q \in Subject
    BY HeldSubjects DEF Held
  <2>2. q # s /\ q \notin OrdersOf(s)
    BY <2>1 DEF BeginErasure, NoActiveHold
  <2>3. q \in Order /\ s \in {ClientOf[q], RepOf[q]}
    BY <1>2, <2>1, <2>2, CoveredAreParties
  <2>4. record[q] # "absent"
    BY DEF HoldsAreOfRecords
  <2> QED  BY <2>2, <2>3, <2>4 DEF OrdersOf, There, Exists
<1>3. HoldsAreOfRecords'
  BY <1>1 DEF HoldsAreOfRecords
<1>4. ErasuresPassed'
  BY <1>1, <1>2 DEF ErasuresPassed
<1>5. HoldsProtect'
  BY <1>1 DEF HoldsProtect
<1> QED  BY <1>3, <1>4, <1>5

LEMMA ErasureCommitted ==
  ASSUME HoldInv, TypeOK', NEW r \in Request, CommitErasure(r)
  PROVE  HoldInv'
<1> USE DEF HoldInv
<1> DEFINE s == txn[r].subject
<1>1. s \in Party /\ s \notin Order /\ txn[r].op \in {"anonymise", "delete"}
  BY Works, CoveredAreParties DEF CommitErasure, Doing, TypeOK, Subject
<1>2. PICK x \in {"gone", "anonymised"} : record' = [record EXCEPT ![s] = x]
  BY DEF CommitErasure
<1>3. /\ record'[s] = x /\ \A p \in Subject : p # s => record'[p] = record[p]
      /\ hold' = hold /\ txn'[r] = Idle
      /\ \A q \in Request : q # r => txn'[q] = txn[q]
  BY <1>1, <1>2 DEF CommitErasure, Ends, TypeOK, Subject
<1>4. \A h \in DOMAIN hold : hold[h].subject \in Subject
  BY HeldSubjects
<1>5. \A q \in Request : txn'[q].op # "idle" => q # r /\ txn'[q] = txn[q]
  BY <1>3 DEF Idle
<1>6. \A q \in Request : txn[q].op = "hold" => txn[q].subject \in Subject
  BY Works DEF TypeOK
<1>7. HoldsAreOfRecords'
  BY <1>1, <1>3, <1>4, <1>5, <1>6 DEF HoldsAreOfRecords, Subject
<1>8. ErasuresPassed'
  BY <1>1, <1>3, <1>4, <1>5 DEF ErasuresPassed
<1>9. HoldsProtect'
  <2> SUFFICES ASSUME NEW h \in DOMAIN hold, ~hold[h].beside, NEW p \in Covered(hold[h].subject)
               PROVE  \/ record'[p] = "kept"
                      \/ hold[h].subject \in Order /\ record'[hold[h].subject] = "gone"
    BY <1>3 DEF HoldsProtect
  <2>1. p \in Party /\ p \in Subject
    BY <1>4, CoveredAreParties DEF Subject
  <2>2. CASE p = s
    BY <1>1, <1>3, <1>4, <2>2 DEF ErasuresPassed
  <2>3. CASE p # s
    BY <1>1, <1>3, <1>4, <2>1, <2>3 DEF HoldsProtect
  <2> QED  BY <2>2, <2>3
<1> QED  BY <1>7, <1>8, <1>9

LEMMA OrderDeleted ==
  ASSUME HoldInv, TypeOK', NEW o \in Order, DeleteOrder(o)
  PROVE  HoldInv'
<1> USE DEF HoldInv
<1>1. /\ record'[o] = "gone" /\ \A p \in Subject : p # o => record'[p] = record[p]
      /\ hold' = hold /\ txn' = txn
  BY DEF DeleteOrder, TypeOK, Subject
<1>2. \A h \in DOMAIN hold : hold[h].subject \in Subject
  BY HeldSubjects
<1>3. \A q \in Request : txn[q].op = "hold" => txn[q].subject \in Subject
  BY Works DEF TypeOK
<1>4. HoldsAreOfRecords'
  BY <1>1, <1>2, <1>3 DEF HoldsAreOfRecords, Subject
<1>5. ErasuresPassed'
  BY <1>1, <1>2 DEF ErasuresPassed
<1>6. HoldsProtect'
  <2>1. \A h \in DOMAIN hold : \A p \in Covered(hold[h].subject) : p \in Subject /\ p # o
    BY <1>2, CoveredAreParties, KindAssumption DEF Subject, Party
  <2> QED  BY <1>1, <1>2, <2>1 DEF HoldsProtect
<1> QED  BY <1>4, <1>5, <1>6

LEMMA RecordCreated ==
  ASSUME HoldInv, TypeOK', NEW s \in Party, NEW D \in SUBSET Detail, Created(s, D)
  PROVE  HoldInv'
<1> USE DEF HoldInv
<1>1. /\ record'[s] = "kept" /\ \A p \in Subject : p # s => record'[p] = record[p]
      /\ hold' = hold /\ txn' = txn /\ s \notin Order
  BY CoveredAreParties DEF Created, TypeOK, Subject
<1>2. \A h \in DOMAIN hold : hold[h].subject \in Subject
  BY HeldSubjects
<1>3. \A q \in Request : txn[q].op = "hold" => txn[q].subject \in Subject
  BY Works DEF TypeOK
<1>4. HoldsAreOfRecords'
  BY <1>1, <1>2, <1>3 DEF HoldsAreOfRecords, Subject
<1>5. ErasuresPassed'
  BY <1>1, <1>2 DEF ErasuresPassed
<1>6. HoldsProtect'
  BY <1>1, <1>2, CoveredAreParties DEF HoldsProtect, Subject
<1> QED  BY <1>4, <1>5, <1>6

\* Steps of the other requests, and of nobody.
LEMMA HoldStep ==
  HoldInv /\ [Next]_vars => HoldInv'
<1> SUFFICES ASSUME HoldInv, [Next]_vars  PROVE HoldInv'
  OBVIOUS
<1>1. TypeOK /\ TypeOK'
  BY Types DEF HoldInv
<1>2. ASSUME NEW r \in Request, NEW s \in Subject, BeginHold(r, s)
      PROVE  HoldInv'
  BY <1>1, <1>2, HoldsUndisturbed DEF BeginHold, Starts, TypeOK, Exists
<1>3. ASSUME NEW r \in Request, NEW s \in Party, NEW f \in Detail, BeginEdit(r, s, f) \/ Imported(r, s, f)
      PROVE  HoldInv'
  BY <1>1, <1>3, HoldsUndisturbed DEF BeginEdit, Imported, Starts, TypeOK
<1>4. ASSUME NEW r \in Request, BeginReview(r) \/ CountDue(r) \/ CountHeld(r) \/ ListCandidates(r)
      PROVE  HoldInv'
  BY <1>1, <1>4, QueryAsked, HoldsUndisturbed DEF BeginReview, CountDue, CountHeld, ListCandidates
<1>5. ASSUME NEW r \in Request, CommitEdit(r) \/ CommitReview(r) \/ Abort(r)
      PROVE  HoldInv'
  BY <1>1, <1>5, HoldsUndisturbed DEF CommitEdit, CommitReview, Abort, Ends, TypeOK, Idle
<1>6. ASSUME NEW v \in DOMAIN review, Approve(v)
      PROVE  HoldInv'
  BY <1>1, <1>6, HoldsUndisturbed DEF Approve
<1>7. ASSUME NEW p \in Rep, RemoveRep(p) \/ EndRelationship(p)
      PROVE  HoldInv'
  BY <1>1, <1>7, HoldsUndisturbed DEF RemoveRep, EndRelationship
<1>8. ASSUME NEW s \in Party, Provision(s)
      PROVE  HoldInv'
  BY <1>1, <1>8, HoldsUndisturbed DEF Provision
<1>9. CASE UNCHANGED vars
  BY <1>1, <1>9, HoldsUndisturbed DEF vars
<1> QED  BY <1>1, <1>2, <1>3, <1>4, <1>5, <1>6, <1>7, <1>8, <1>9, HoldCommitted, HoldReleased, ErasureBegun,
            ErasureCommitted, OrderDeleted, RecordCreated
         DEF Next, BeginImportClient, BeginImportRep, CreateClient, CreateRep, Party

\* The record of a hold that was placed in time is as it was.
THEOREM HoldsProtectAlways ==
  Spec => []HoldsProtect
<1>1. Init => HoldInv
  <2> SUFFICES ASSUME Init  PROVE HoldInv
    OBVIOUS
  <2>1. HoldsAreOfRecords /\ ErasuresPassed /\ HoldsProtect
    BY DEF Init, HoldsAreOfRecords, ErasuresPassed, HoldsProtect, Idle, Subject
  <2> QED  BY <2>1, InitTypes DEF HoldInv
<1>2. HoldInv => HoldsProtect
  BY DEF HoldInv
<1> QED  BY <1>1, <1>2, HoldStep, PTL DEF Spec

\* Every variable keeps its type.
THEOREM RetentionTypes ==
  Spec => []TypeOK
<1> QED  BY InitTypes, Types, PTL DEF Spec

-----------------------------------------------------------------------------
(* Reviews *)

\* Fewer records that are due, and the same holds.
LEMMA FewerOwed ==
  ASSUME NEW i, NEW query, NEW n \in Int, NEW L \in SUBSET Subject,
         NEW D \in SUBSET Subject, NEW E \in SUBSET D, NEW K, Covers(i, query, n, L, D, K)
  PROVE  Covers(i, query, n, L, E, K)
<1>1. /\ Owed(i, query, L, E, K) \subseteq Owed(i, query, L, D, K)
      /\ Owed(i, query, L, D, K) \in SUBSET Subject
      /\ Owed(i, query, L, E, K) \in SUBSET Subject
  BY DEF Owed
<1>2. Cardinality(Owed(i, query, L, E, K)) <= Cardinality(Owed(i, query, L, D, K))
  BY <1>1, SubjectsAreFinite, FS_Subset
<1>3. Cardinality(Owed(i, query, L, E, K)) \in Nat /\ Cardinality(Owed(i, query, L, D, K)) \in Nat
  BY <1>1, SubjectsAreFinite
<1> QED  BY <1>2, <1>3 DEF Covers

LEMMA Sums ==
  ASSUME NEW A \in SUBSET Subject, NEW B \in SUBSET Subject
  PROVE  /\ Cardinality(A \cup B) <= Cardinality(A) + Cardinality(B)
         /\ A \cap B = {} => Cardinality(A \cup B) = Cardinality(A) + Cardinality(B)
<1>1. IsFiniteSet(A) /\ IsFiniteSet(B) /\ Cardinality(A) \in Nat /\ Cardinality(B) \in Nat
        /\ IsFiniteSet(A \cap B) /\ Cardinality(A \cap B) \in Nat
  BY SubjectsAreFinite
<1>2. Cardinality(A \cup B) = Cardinality(A) + Cardinality(B) - Cardinality(A \cap B)
  BY <1>1, FS_Union
<1>3. A \cap B = {} => Cardinality(A \cap B) = 0
  BY FS_EmptySet
<1> QED  BY <1>1, <1>2, <1>3

\* Each query keeps the total up with what the review owes.
LEMMA DueCovered ==
  ASSUME NEW i \in 1 .. 3, NEW n \in Int, NEW L \in SUBSET Subject, NEW D \in SUBSET Subject, NEW K,
         Covers(i, "due", n, L, D, K)
  PROVE  Covers(i, "held", n + Cardinality(D \cap Category[i]), L, D, K)
<1> DEFINE old == L \cup {q \in D : Rank(q) < i /\ q \notin K}
           new == D \cap Category[i]
<1>1. Owed(i, "due", L, D, K) = old
  BY OwedAre
<1>2. Owed(i, "held", L, D, K)
        = old \cup new
  <2>1. \A q \in D : q \in Category[i] <=> Rank(q) = i
    BY DueAreSubjects
  <2> QED  BY <2>1, OwedAre
<1>3. old \in SUBSET Subject /\ new \in SUBSET Subject
  OBVIOUS
<1> HIDE DEF old, new
<1>4. Cardinality(old) \in Nat /\ Cardinality(new) \in Nat /\ Cardinality(old \cup new) \in Nat
  BY <1>3, SubjectsAreFinite
<1>5. Cardinality(old) <= n /\ \A q \in L : Rank(q) < i
  BY <1>1 DEF Covers
<1>6. Cardinality(old \cup new) <= n + Cardinality(new)
  <2>1. Cardinality(old \cup new) <= Cardinality(old) + Cardinality(new)
    BY <1>3, Sums
  <2> QED  BY <1>4, <1>5, <2>1
<1>7. Covers(i, "held", n + Cardinality(new), L, D, K)
  BY <1>2, <1>5, <1>6 DEF Covers
<1> QED  BY <1>7 DEF new

LEMMA HeldCovered ==
  ASSUME NEW i \in 1 .. 3, NEW n \in Int, NEW L \in SUBSET Subject, NEW D \in SUBSET Subject, NEW K,
         Covers(i, "held", n, L, D, K)
  PROVE  Covers(i, "list", n - Cardinality(D \cap K \cap Category[i]), L, D, K)
<1> DEFINE rest == L \cup {q \in D : Rank(q) <= i /\ q \notin K}
           held == D \cap K \cap Category[i]
<1>1. \A q \in L : Rank(q) < i
  BY DEF Covers
<1>2. /\ Owed(i, "held", L, D, K) = rest \cup held
      /\ Owed(i, "list", L, D, K) = rest
      /\ rest \cap held = {}
  <2>1. \A q \in D : Rank(q) \in 1 .. 3 /\ (q \in Category[i] <=> Rank(q) = i)
    BY DueAreSubjects
  <2>2. \A q \in D : Rank(q) <= i <=> Rank(q) < i \/ Rank(q) = i
    BY <2>1
  <2> HIDE DEF held
  <2>3. Owed(i, "list", L, D, K) = rest
    BY <2>2, OwedAre
  <2> USE DEF held
  <2>4. Owed(i, "held", L, D, K) = rest \cup held
    BY <2>1, <2>2, OwedAre
  <2>5. rest \cap held = {}
    <3>1. \A q \in held : Rank(q) = i /\ q \in K
      BY <2>1
    <3>2. \A q \in L : Rank(q) # i
      BY <1>1
    <3> QED  BY <3>1, <3>2
  <2> QED  BY <2>3, <2>4, <2>5
<1>3. rest \in SUBSET Subject /\ held \in SUBSET Subject
  OBVIOUS
<1> HIDE DEF rest, held
<1>4. Cardinality(rest) \in Nat /\ Cardinality(held) \in Nat
  BY <1>3, SubjectsAreFinite
<1>5. Cardinality(rest) + Cardinality(held) <= n
  BY <1>2, <1>3, Sums DEF Covers
<1>6. Cardinality(rest) <= n - Cardinality(held)
  BY <1>4, <1>5
<1>7. Covers(i, "list", n - Cardinality(held), L, D, K)
  BY <1>1, <1>2, <1>6 DEF Covers
<1> QED  BY <1>7 DEF held

LEMMA ListCovered ==
  ASSUME NEW i \in 1 .. 3, NEW n \in Int, NEW L \in SUBSET Subject, NEW D \in SUBSET Subject, NEW K,
         NEW M \in SUBSET ((D \ K) \cap Category[i]),
         Covers(i, "list", n, L, D, K)
  PROVE  Covers(i + 1, "due", n, L \cup M, D, K)
<1>1. \A q \in D : Rank(q) \in 1 .. 3 /\ (q \in Category[i] <=> Rank(q) = i)
  BY DueAreSubjects
<1>2. \A q \in L : Rank(q) < i
  BY DEF Covers
<1>3. \A q \in L : Rank(q) < i + 1
  <2>1. \A q \in L : Rank(q) \in 1 .. 3
    BY DueAreSubjects
  <2> QED  BY <1>2, <2>1
<1>4. \A q \in M : Rank(q) < i + 1
  BY <1>1
<1>5. \A q \in D : Rank(q) < i + 1 <=> Rank(q) < i \/ Rank(q) = i
  BY <1>1
<1>6. Owed(i + 1, "due", L \cup M, D, K)
        = Owed(i, "list", L, D, K)
  <2>1. \A q : q \in Owed(i + 1, "due", L \cup M, D, K) <=>
               q \in L \/ q \in M \/ (q \in D /\ q \notin K /\ Rank(q) < i + 1)
    BY OwedAre
  <2>2. \A q : q \in Owed(i, "list", L, D, K) <=>
               q \in L \/ (q \in D /\ q \notin K /\ (Rank(q) < i \/ Rank(q) = i))
    BY OwedAre
  <2>3. \A q \in M : q \in D /\ q \notin K /\ Rank(q) = i
    BY <1>1
  <2> QED  BY <1>5, <2>1, <2>2, <2>3
<1> QED  BY <1>3, <1>4, <1>6 DEF Covers

\* A review whose counts came to the length of its lists lists all.
LEMMA CoveredIsWhole ==
  ASSUME NEW query, NEW n \in Int, NEW L \in SUBSET Subject, NEW D \in SUBSET Subject, NEW K,
         Covers(4, query, n, L, D, K), Cardinality(L) = n
  PROVE  (D \ K) \ L = {}
<1> DEFINE owed == Owed(4, query, L, D, K)
<1>1. L \subseteq owed /\ owed \in SUBSET Subject
  BY DEF Owed
<1>2. D \ K \subseteq owed
  <2>1. \A q \in D : Rank(q) < 4
    BY DueAreSubjects
  <2>2. \A q \in D : q \notin K => Owes(4, query, K, q)
    BY <2>1, Zenon DEF Owes
  <2> QED  BY <2>2 DEF Owed
<1>3. Cardinality(owed) <= n
  BY DEF Covers
<1> HIDE DEF owed
<1>4. IsFiniteSet(owed) /\ Cardinality(owed) \in Nat /\ Cardinality(L) \in Nat
  BY <1>1, SubjectsAreFinite
<1>5. Cardinality(L) <= Cardinality(owed)
  BY <1>1, <1>4, FS_Subset
<1>6. Cardinality(L) = Cardinality(owed)
  BY <1>3, <1>4, <1>5
<1>7. L = owed
  BY <1>1, <1>4, <1>6, FS_Subset
<1> QED  BY <1>2, <1>7

\* Steps beside which nothing becomes due and no hold comes or goes.
LEMMA ReviewsUndisturbed ==
  ASSUME TypeOK, TotalsCover, Due' \subseteq Due, Kept' = Kept,
         \A r \in Request : txn'[r].op = "review" /\ r \notin joined' => txn'[r] = txn[r] /\ r \notin joined
  PROVE  TotalsCover'
<1> SUFFICES ASSUME NEW r \in Request, txn'[r].op = "review", r \notin joined'
             PROVE  Covers(txn'[r].at, txn'[r].query, txn'[r].total, txn'[r].listed, Due', Kept')
  BY DEF TotalsCover
<1>1. txn'[r] = txn[r] /\ r \notin joined
  OBVIOUS
<1>2. txn[r].total \in Int /\ txn[r].listed \in SUBSET Subject
  BY <1>1, Works DEF TypeOK
<1>3. Covers(txn[r].at, txn[r].query, txn[r].total, txn[r].listed, Due, Kept)
  BY <1>1 DEF TotalsCover
<1>4. PICK D, E, K : D = Due /\ E = Due' /\ K = Kept
  OBVIOUS
<1>5. Covers(txn[r].at, txn[r].query, txn[r].total, txn[r].listed, E, K)
  BY <1>2, <1>3, <1>4, DueAreSubjects, FewerOwed
<1> QED  BY <1>1, <1>4, <1>5

LEMMA ReviewsJoined ==
  ASSUME TypeOK, Joins, \A r \in Request : txn'[r].op = "review" => txn'[r] = txn[r]
  PROVE  TotalsCover'
  BY DEF TotalsCover, Joins, Doing, Open, Idle

LEMMA SameDue ==
  ASSUME record' = record, access' = access, relation' = relation, hold' = hold
  PROVE  Due' = Due /\ Kept' = Kept
  BY DEF Due, Kept, Held, There, Exists, OrdersOf

LEMMA ReviewCovered ==
  ASSUME TypeOK, TotalsCover, NEW r \in Request,
         BeginReview(r) \/ CountDue(r) \/ CountHeld(r) \/ ListCandidates(r)
  PROVE  TotalsCover'
<1>1. /\ Due' = Due /\ Kept' = Kept /\ joined' = joined
      /\ \A q \in Request : q # r => txn'[q] = txn[q]
  BY SameDue, QueryAsked DEF BeginReview, CountDue, CountHeld, ListCandidates
<1>2. PICK D, K : D = Due /\ K = Kept
  OBVIOUS
<1>3. D \in SUBSET Subject
  BY <1>2, DueAreSubjects
<1>4. SUFFICES ASSUME r \notin joined
               PROVE  Covers(txn'[r].at, txn'[r].query, txn'[r].total, txn'[r].listed, D, K)
  BY <1>1, <1>2 DEF TotalsCover
<1>5. CASE BeginReview(r)
  <2>1. txn'[r] = Reviewing(1, "due", 0, {})
    BY <1>5 DEF BeginReview, Starts, TypeOK
  <2>2. Owed(1, "due", {}, D, K) = {}
    BY <1>3, DueAreSubjects, OwedAre
  <2>3. Covers(1, "due", 0, {}, D, K)
    BY <2>2, FS_EmptySet DEF Covers
  <2> QED  BY <2>1, <2>3 DEF Reviewing
<1>6. ASSUME CountDue(r) \/ CountHeld(r) \/ ListCandidates(r)
      PROVE  /\ txn[r].at \in 1 .. 3 /\ txn[r].total \in Int /\ txn[r].listed \in SUBSET Subject
             /\ Asked(r) = Category[txn[r].at]
             /\ Covers(txn[r].at, txn[r].query, txn[r].total, txn[r].listed, D, K)
  <2>1. txn[r].op = "review" /\ txn[r].at <= 3
    BY <1>6 DEF CountDue, CountHeld, ListCandidates, Asks, Doing
  <2>2. txn[r].at \in 1 .. 4 /\ txn[r].total \in Int /\ txn[r].listed \in SUBSET Subject
    BY <2>1, Works DEF TypeOK
  <2> QED  BY <1>2, <1>4, <2>1, <2>2 DEF TotalsCover, Asked
<1>7. CASE CountDue(r)
  <2>1. txn[r].query = "due"
    BY <1>7 DEF CountDue, Asks
  <2>2. txn'[r] = Reviewing(txn[r].at, "held", txn[r].total + Cardinality(D \cap Category[txn[r].at]), txn[r].listed)
    BY <1>2, <1>6, <1>7 DEF CountDue, TypeOK
  <2>3. Covers(txn[r].at, "held", txn[r].total + Cardinality(D \cap Category[txn[r].at]), txn[r].listed, D, K)
    BY <1>3, <1>6, <1>7, <2>1, DueCovered
  <2> QED  BY <2>2, <2>3 DEF Reviewing
<1>8. CASE CountHeld(r)
  <2>1. txn[r].query = "held"
    BY <1>8 DEF CountHeld, Asks
  <2>2. txn'[r] = Reviewing(txn[r].at, "list", txn[r].total - Cardinality(D \cap K \cap Category[txn[r].at]),
                            txn[r].listed)
    BY <1>2, <1>6, <1>8 DEF CountHeld, TypeOK
  <2>3. Covers(txn[r].at, "list", txn[r].total - Cardinality(D \cap K \cap Category[txn[r].at]), txn[r].listed, D, K)
    BY <1>3, <1>6, <1>8, <2>1, HeldCovered
  <2> QED  BY <2>2, <2>3 DEF Reviewing
<1>9. CASE ListCandidates(r)
  <2>1. txn[r].query = "list"
    BY <1>9 DEF ListCandidates, Asks
  <2>2. PICK M \in SUBSET ((D \ K) \cap Category[txn[r].at]) :
          txn' = [txn EXCEPT ![r] = Reviewing(txn[r].at + 1, "due", txn[r].total, txn[r].listed \cup M)]
    BY <1>2, <1>6, <1>9 DEF ListCandidates, Eligible
  <2>3. txn'[r] = Reviewing(txn[r].at + 1, "due", txn[r].total, txn[r].listed \cup M)
    BY <2>2 DEF TypeOK
  <2>4. Covers(txn[r].at + 1, "due", txn[r].total, txn[r].listed \cup M, D, K)
    BY <1>3, <1>6, <1>9, <2>1, ListCovered
  <2> QED  BY <2>3, <2>4 DEF Reviewing
<1> QED  BY <1>5, <1>7, <1>8, <1>9

\* What an erasure takes off the list, or joins the reviews that are open.
LEMMA ErasedCovered ==
  ASSUME TypeOK, TotalsCover, NEW r \in Request, CommitErasure(r)
  PROVE  TotalsCover'
<1>1. \A q \in Request : txn'[q].op = "review" => txn'[q] = txn[q]
  BY EndedWork DEF CommitErasure, Idle
<1>2. CASE txn[r].op # "delete"
  BY <1>1, <1>2, ReviewsJoined DEF CommitErasure
<1>3. CASE txn[r].op = "delete"
  <2> DEFINE s == txn[r].subject
  <2>1. s \in Party /\ s \notin Order /\ s \in Subject
    BY <1>3, Works, CoveredAreParties DEF TypeOK, Subject
  <2>2. /\ record' = [record EXCEPT ![s] = "gone"] /\ access' = access /\ relation' = relation
        /\ hold' = hold /\ joined' = joined
    BY <1>3 DEF CommitErasure
  <2>3. There(Order)' = There(Order)
    BY <2>1, <2>2 DEF There, Exists, TypeOK, Subject
  <2>4. There(Client)' \subseteq There(Client)
    BY <2>1, <2>2 DEF There, Exists, TypeOK, Subject, Party
  <2>5. \A c : OrdersOf(c)' = OrdersOf(c)
    BY <2>3 DEF OrdersOf
  <2>6. Due' \subseteq Due /\ Kept' = Kept
    BY <2>2, <2>3, <2>4, <2>5 DEF Due, Kept, Held
  <2> QED  BY <1>1, <2>2, <2>6, ReviewsUndisturbed
<1> QED  BY <1>2, <1>3

LEMMA TotalsStep ==
  TypeOK /\ TotalsCover /\ [Next]_vars => TotalsCover'
<1> SUFFICES ASSUME TypeOK, TotalsCover, [Next]_vars  PROVE TotalsCover'
  OBVIOUS
<1>1. ASSUME NEW r \in Request, NEW s \in Subject, BeginHold(r, s)
      PROVE  TotalsCover'
  BY <1>1, SameDue, ReviewsUndisturbed DEF BeginHold, Starts, TypeOK
<1>2. ASSUME NEW r \in Request, NEW s \in Party, NEW op \in {"anonymise", "delete"}, BeginErasure(r, op, s)
      PROVE  TotalsCover'
  BY <1>2, SameDue, ReviewsUndisturbed DEF BeginErasure, Starts, TypeOK
<1>3. ASSUME NEW r \in Request, NEW s \in Party, NEW f \in Detail, BeginEdit(r, s, f) \/ Imported(r, s, f)
      PROVE  TotalsCover'
  BY <1>3, SameDue, ReviewsUndisturbed DEF BeginEdit, Imported, Starts, TypeOK
<1>4. ASSUME NEW r \in Request, CommitEdit(r)
      PROVE  TotalsCover'
  BY <1>4, SameDue, EndedWork, ReviewsUndisturbed DEF CommitEdit, Idle
<1>5. ASSUME NEW r \in Request, CommitReview(r) \/ Abort(r)
      PROVE  TotalsCover'
  <2>1. \A q \in Request : txn'[q].op = "review" => q # r /\ txn'[q] = txn[q]
    BY <1>5, EndedWork DEF CommitReview, Abort, Idle
  <2> QED  BY <1>5, <2>1, SameDue, ReviewsUndisturbed DEF CommitReview, Abort
<1>6. ASSUME NEW r \in Request, CommitHold(r)
      PROVE  TotalsCover'
  BY <1>6, EndedWork, ReviewsJoined DEF CommitHold, Idle
<1>7. CASE Joins /\ UNCHANGED txn
  BY <1>7, ReviewsJoined
<1>8. ASSUME NEW v \in DOMAIN review, Approve(v)
      PROVE  TotalsCover'
  BY <1>8, SameDue, ReviewsUndisturbed DEF Approve
<1>9. ASSUME NEW s \in Party, Provision(s)
      PROVE  TotalsCover'
  <2>1. access[s] = "none" /\ access' = [access EXCEPT ![s] = "active"]
    BY <1>9 DEF Provision
  <2>2. \A c \in Client : access'[c] # "active" => access[c] # "active"
    BY <2>1 DEF TypeOK, Party
  <2>3. /\ record' = record /\ relation' = relation /\ hold' = hold /\ txn' = txn /\ joined' = joined
        /\ \A c : OrdersOf(c)' = OrdersOf(c)
    BY <1>9 DEF Provision, OrdersOf, There, Exists
  <2>4. Due' \subseteq Due /\ Kept' = Kept
    BY <2>2, <2>3 DEF Due, Kept, Held, There, Exists
  <2> QED  BY <2>3, <2>4, ReviewsUndisturbed
<1>10. CASE UNCHANGED vars
  BY <1>10, SameDue, ReviewsUndisturbed DEF vars
<1> QED
  BY <1>1, <1>2, <1>3, <1>4, <1>5, <1>6, <1>7, <1>8, <1>9, <1>10, ReviewCovered, ErasedCovered
  DEF Next, BeginImportClient, BeginImportRep, CreateClient, CreateRep, Created, Party, Release, RemoveRep,
      EndRelationship, DeleteOrder

LEMMA ReviewStep ==
  ReviewInv /\ [Next]_vars => UntruncatedReviewsAreWhole'
<1> SUFFICES ASSUME TypeOK, TotalsCover, UntruncatedReviewsAreWhole, [Next]_vars
             PROVE  UntruncatedReviewsAreWhole'
  BY DEF ReviewInv
<1>1. CASE UNCHANGED review
  BY <1>1 DEF UntruncatedReviewsAreWhole
<1>2. ASSUME NEW r \in Request, CommitReview(r)
      PROVE  UntruncatedReviewsAreWhole'
  <2> DEFINE t == txn[r]
             new == [status |-> "draft", truncated |-> Truncated(t.total, t.listed),
                     beside |-> r \in joined, missed |-> Eligible \ t.listed]
  <2>1. t.op = "review" /\ t.at = 4 /\ t.total \in Int /\ t.listed \in SUBSET Subject
    BY <1>2, Works DEF CommitReview, Doing, TypeOK
  <2>2. new \in Review
    BY DueAreSubjects DEF Review, Truncated
  <2>3. ~new.truncated /\ ~new.beside => new.missed = {}
    <3> SUFFICES ASSUME ~Truncated(t.total, t.listed), r \notin joined
                 PROVE  Eligible \ t.listed = {}
      OBVIOUS
    <3>1. Covers(4, t.query, t.total, t.listed, Due, Kept)
      BY <2>1 DEF TotalsCover
    <3>2. Cardinality(t.listed) = t.total
      BY DEF Truncated
    <3>3. (Due \ Kept) \ t.listed = {}
      BY <2>1, <3>1, <3>2, DueAreSubjects, CoveredIsWhole
    <3> QED  BY <3>3 DEF Eligible
  <2>4. new.status = "draft" /\ review' = Append(review, new)
    BY <1>2 DEF CommitReview
  <2> HIDE DEF new
  <2>5. \A v \in DOMAIN review' : (v \in DOMAIN review /\ review'[v] = review[v]) \/ review'[v] = new
    BY <2>2, <2>4, Appended DEF TypeOK
  <2> QED  BY <2>3, <2>4, <2>5 DEF UntruncatedReviewsAreWhole
<1>3. ASSUME NEW v \in DOMAIN review, Approve(v)
      PROVE  UntruncatedReviewsAreWhole'
  <2>1. review' = [review EXCEPT ![v] = [@ EXCEPT !.status = "approved"]] /\ ~review[v].truncated
    BY <1>3 DEF Approve
  <2>2. \A w \in DOMAIN review : review[w] \in Review
    BY LenProperties, ElementOfSeq DEF TypeOK
  <2>3. /\ DOMAIN review' = DOMAIN review
        /\ \A w \in DOMAIN review : w # v => review'[w] = review[w]
        /\ review'[v] = [review[v] EXCEPT !.status = "approved"]
    BY <2>1
  <2>4. review'[v].truncated = review[v].truncated /\ review'[v].beside = review[v].beside
          /\ review'[v].missed = review[v].missed
    BY <2>2, <2>3 DEF Review
  <2> QED  BY <2>1, <2>3, <2>4 DEF UntruncatedReviewsAreWhole
<1> QED
  BY <1>1, <1>2, <1>3
  DEF Next, vars, BeginHold, BeginErasure, BeginEdit, BeginImportClient, BeginImportRep, Imported, CommitHold,
      CommitErasure, CommitEdit, BeginReview, CountDue, CountHeld, ListCandidates, Abort, Release, RemoveRep,
      EndRelationship, Provision, CreateClient, CreateRep, Created, DeleteOrder

\* An approved review names every record that was a candidate when it was
\* stored, unless a record became due or a hold came or went while it ran.
THEOREM ApprovedReviewsAreAlwaysWhole ==
  Spec => []ApprovedReviewsAreWhole
<1>1. Init => ReviewInv
  <2> SUFFICES ASSUME Init  PROVE ReviewInv
    OBVIOUS
  <2>1. TotalsCover /\ UntruncatedReviewsAreWhole
    BY DEF Init, TotalsCover, UntruncatedReviewsAreWhole, Idle
  <2> QED  BY <2>1, InitTypes DEF ReviewInv
<1>2. ReviewInv /\ [Next]_vars => ReviewInv'
  BY Types, TotalsStep, ReviewStep DEF ReviewInv
<1>3. ReviewInv => ApprovedReviewsAreWhole
  BY DEF ReviewInv, UntruncatedReviewsAreWhole, ApprovedReviewsAreWhole
<1> QED  BY <1>1, <1>2, <1>3, PTL DEF Spec

-----------------------------------------------------------------------------
(* Anonymised records *)

LEMMA BlankStep ==
  TypeOK /\ AnonymisedIsBlank /\ [Next]_vars => AnonymisedIsBlank'
<1> SUFFICES ASSUME TypeOK, AnonymisedIsBlank, [Next]_vars
             PROVE  AnonymisedIsBlank'
  OBVIOUS
<1>1. CASE UNCHANGED <<record, detail, retold>>
  BY <1>1 DEF AnonymisedIsBlank
<1>2. ASSUME NEW r \in Request, CommitErasure(r)
      PROVE  AnonymisedIsBlank'
  <2> DEFINE s == txn[r].subject
  <2>1. s \in Party
    BY <1>2, Works DEF CommitErasure, Doing, TypeOK
  <2>2. \A p \in Party : p # s => /\ record'[p] = record[p] /\ detail'[p] = detail[p]
                                  /\ p \in retold => p \in retold'
    BY <1>2, <2>1 DEF CommitErasure, TypeOK, Subject
  <2>3. \/ record'[s] = "gone"
        \/ detail'[s] = detail[s] \ txn[r].filled /\ (detail[s] # txn[r].filled => s \in retold')
    BY <1>2, <2>1 DEF CommitErasure, TypeOK, Subject, Blanked
  <2>4. record'[s] = "anonymised" /\ s \notin retold' => detail'[s] = {}
    BY <2>3
  <2> QED  BY <2>1, <2>2, <2>4 DEF AnonymisedIsBlank
<1>3. ASSUME NEW r \in Request, CommitEdit(r)
      PROVE  AnonymisedIsBlank'
  <2>1. txn[r].subject \in Party
    BY <1>3, Works DEF CommitEdit, Doing, TypeOK
  <2> QED  BY <1>3, <2>1 DEF CommitEdit, TypeOK, AnonymisedIsBlank
<1>4. ASSUME NEW s \in Party, NEW D \in SUBSET Detail, Created(s, D)
      PROVE  AnonymisedIsBlank'
  BY <1>4 DEF Created, TypeOK, AnonymisedIsBlank, Subject
<1>5. ASSUME NEW o \in Order, DeleteOrder(o)
      PROVE  AnonymisedIsBlank'
  <2>1. o \notin Party
    BY KindAssumption DEF Party
  <2> QED  BY <1>5, <2>1 DEF DeleteOrder, TypeOK, AnonymisedIsBlank, Subject
<1> QED
  BY <1>1, <1>2, <1>3, <1>4, <1>5
  DEF Next, vars, BeginHold, BeginErasure, BeginEdit, BeginImportClient, BeginImportRep, Imported, CommitHold,
      BeginReview, CountDue, CountHeld, ListCandidates, CommitReview, Abort, Release, Approve, RemoveRep,
      EndRelationship, Provision,
      CreateClient, CreateRep, Party

\* Nothing personal is left in an anonymised record that nobody edited beside
\* or after its anonymisation.
THEOREM AnonymisedIsAlwaysBlank ==
  Spec => []AnonymisedIsBlank
<1>1. Init => TypeOK /\ AnonymisedIsBlank
  BY InitTypes DEF Init, AnonymisedIsBlank, Subject
<1> QED  BY <1>1, Types, BlankStep, PTL DEF Spec

-----------------------------------------------------------------------------
(* Deploys. *)

Process ==
  [rev : 1..Deploy!Newest + 1, at : Nat \ {0}, saw : {"unseen", "none", "invalid", "fine"},
   held : SUBSET (Deploy!Touched \cap Deploy!Rule), stamps : Nat]

DataTypes ==
  /\ index \in [Deploy!Touched \cap Deploy!Index ->
                  [is : {"none", "building", "checking", "invalid", "valid"},
                   by : Starter \cup {Nobody}, behind : SUBSET Starter]]
  /\ rule \in [Deploy!Touched \cap Deploy!Rule -> {"none", "added", "valid"}]
  /\ version \in 0..Deploy!Newest /\ dirt \subseteq Deploy!Breakable

\* alembic_version, processes, rules and indexes are what they are declared to be.
DeployTypes == run \in [Starter -> Process \cup {Deploy!Idle}] /\ DataTypes

\* What a rule and an index are good for.
RuleStands(c, held) == (rule[c] = "valid" \/ c \in held) /\ c \notin dirt
IndexStands(i) == i \in raced \/ (index[i].is = "valid" /\ i \notin dirt)

\* A statement is through, for a transaction that holds some rules.
Through(st, held) ==
  /\ st.do \in {"validate", "enforce"} => RuleStands(st.on, held)
  /\ st.do = "create" => IndexStands(st.on)

RevisionThrough(v, held) == \A k \in DOMAIN Script[v] : Through(Script[v][k], held)

\* What alembic has recorded is through.
RecordedIsThrough == \A v \in 1..version : RevisionThrough(v, {})

\* And so is what a process has left behind it.
BehindIsThrough(s) ==
  /\ \A v \in 1..run[s].rev - 1 : RevisionThrough(v, run[s].held)
  /\ run[s].rev <= Deploy!Newest =>
       \A k \in DOMAIN Script[run[s].rev] :
         k < run[s].at => Through(Script[run[s].rev][k], run[s].held)

\* One process at a time has moved the version, and by what it went through.
StampsFollow(s) ==
  run[s].stamps > 0 =>
    /\ version + run[s].stamps = run[s].rev - 1
    /\ \A t \in Starter \ {s} : Deploy!Running(t) => run[t].stamps = 0

\* An invalid index that was seen is about to be dropped.
SeenIsDropped(s) == run[s].saw = "invalid" => Deploy!Does(s, "look")

ProcessesStand ==
  \A s \in Starter : Deploy!Running(s) => BehindIsThrough(s) /\ StampsFollow(s) /\ SeenIsDropped(s)

\* No row breaks a rule that is valid or about to be, or a unique index.
DirtBreaksNothing ==
  /\ \A c \in Deploy!Touched \cap Deploy!Rule : rule[c] = "valid" => c \notin dirt
  /\ \A i \in Deploy!Touched \cap Deploy!Index : index[i].is = "valid" => i \notin dirt
  /\ \A s \in Starter : Deploy!Running(s) => run[s].held \cap dirt = {}

DeployInv == DeployTypes /\ RecordedIsThrough /\ ProcessesStand /\ DirtBreaksNothing

\* What a step may do to what is through.
Keeping ==
  /\ DataTypes'
  /\ \A c \in Deploy!Touched \cap Deploy!Rule : rule[c] = "valid" => rule'[c] = "valid"
  /\ \A i \in Deploy!Touched \cap Deploy!Index :
       index[i].is = "valid" => index'[i].is = "valid" \/ i \in raced'
  /\ raced \subseteq raced'
  /\ \A d \in dirt' \ dirt : ~Deploy!Guarded(d)

\* What becomes valid is broken by no row.
Checking ==
  /\ \A c \in Deploy!Touched \cap Deploy!Rule :
       rule'[c] = "valid" => rule[c] = "valid" \/ c \notin dirt'
  /\ \A i \in Deploy!Touched \cap Deploy!Index :
       index'[i].is = "valid" => index[i].is = "valid" \/ i \notin dirt'

LEMMA Statements ==
  ASSUME NEW v \in 1..Deploy!Newest, NEW k \in DOMAIN Script[v]
  PROVE  /\ Script[v] \in Seq(Deploy!Statement) /\ k \in Nat \ {0} /\ k <= Len(Script[v])
         /\ Script[v][k].do = "create" => Script[v][k].on \in Deploy!Touched \cap Deploy!Index
         /\ Script[v][k].do \in {"add", "validate", "enforce"} =>
              Script[v][k].on \in Deploy!Touched \cap Deploy!Rule
<1>1. Script[v] \in Seq(Deploy!Statement)
  BY ScriptAssumption DEF Deploy!Newest
<1>2. Script[v][k] \in Deploy!Statement /\ k \in 1..Len(Script[v])
  BY <1>1
<1>3. Script[v][k].do \in {"create", "add", "validate", "enforce"} => Script[v][k].on \in Deploy!Touched
  BY DEF Deploy!Touched
<1>4. /\ Script[v][k].do = "create" => Script[v][k].on \in Deploy!Index
      /\ Script[v][k].do \in {"add", "validate", "enforce"} => Script[v][k].on \in Deploy!Rule
  BY <1>2 DEF Deploy!Statement
<1> QED
  BY <1>1, <1>2, <1>3, <1>4

LEMMA Newests == Deploy!Newest \in Nat
  BY ScriptAssumption DEF Deploy!Newest

LEMMA Processes ==
  ASSUME DeployInv, NEW s \in Starter, Deploy!Running(s)
  PROVE  /\ run[s] \in Process
         /\ run[s].rev \in 1..Deploy!Newest + 1 /\ run[s].at \in Nat \ {0}
         /\ run[s].held \subseteq Deploy!Touched \cap Deploy!Rule /\ run[s].stamps \in Nat
         /\ BehindIsThrough(s) /\ StampsFollow(s) /\ SeenIsDropped(s)
  BY DEF DeployInv, DeployTypes, DataTypes, ProcessesStand, Deploy!Running, Process

LEMMA Kinds ==
  /\ Deploy!Index \cap Deploy!Rule = {} /\ Deploy!Unique \subseteq Deploy!Index
  /\ \A d \in Deploy!Breakable : d \in Deploy!Touched
                                /\ (d \in Deploy!Rule \/ d \in Deploy!Unique)
  BY DEF Deploy!Index, Deploy!Rule, Deploy!Unique, Deploy!Breakable

\* What is through stays so, for a transaction that goes on or has committed.
LEMMA StillThrough ==
  ASSUME DeployInv, DeployTypes', Keeping,
         NEW v \in 1..Deploy!Newest, NEW k \in DOMAIN Script[v], NEW held, NEW kept,
         held = {} \/ \E s \in Starter : Deploy!Running(s) /\ held = run[s].held,
         \A c \in held : c \in kept \/ rule'[c] = "valid",
         Through(Script[v][k], held)
  PROVE  /\ Script[v][k].do \in {"validate", "enforce"} =>
              (rule'[Script[v][k].on] = "valid" \/ Script[v][k].on \in kept) /\ Script[v][k].on \notin dirt'
         /\ Script[v][k].do = "create" =>
              \/ Script[v][k].on \in raced'
              \/ index'[Script[v][k].on].is = "valid" /\ Script[v][k].on \notin dirt'
<1> DEFINE st == Script[v][k]
<1>1. ASSUME st.do \in {"validate", "enforce"}
      PROVE  (rule'[st.on] = "valid" \/ st.on \in kept) /\ st.on \notin dirt'
  <2>1. st.on \in Deploy!Touched \cap Deploy!Rule /\ RuleStands(st.on, held)
    BY <1>1, Statements DEF Through
  <2>2. Deploy!Guarded(st.on)
    BY <2>1 DEF RuleStands, Deploy!Guarded
  <2> QED
    BY <2>1, <2>2 DEF RuleStands, Keeping
<1>2. ASSUME st.do = "create"
      PROVE  st.on \in raced' \/ (index'[st.on].is = "valid" /\ st.on \notin dirt')
  <2>1. st.on \in Deploy!Touched \cap Deploy!Index /\ IndexStands(st.on)
    BY <1>2, Statements DEF Through
  <2>2. CASE st.on \in raced
    BY <2>2 DEF Keeping
  <2>3. CASE index[st.on].is = "valid" /\ st.on \notin dirt
    <3>1. st.on \in dirt' => st.on \in Deploy!Unique
      BY <2>1, Kinds DEF DeployTypes, DataTypes
    <3>2. st.on \in Deploy!Unique => Deploy!Guarded(st.on)
      BY <2>3 DEF Deploy!Guarded
    <3> QED
      BY <2>1, <2>3, <3>1, <3>2 DEF Keeping
  <2> QED
    BY <2>1, <2>2, <2>3 DEF IndexStands
<1> QED
  BY <1>1, <1>2

\* Every step: some process moves, or none.
LEMMA DeploysOneStep ==
  ASSUME DeployInv, DeployTypes', Keeping,
         NEW M \in SUBSET Starter, \A s, t \in M : s = t,
         \A t \in Starter \ M : run'[t] = run[t],
         \A s \in M : Deploy!Running(s)' =>
            BehindIsThrough(s)' /\ StampsFollow(s)' /\ SeenIsDropped(s)' /\ run'[s].held \cap dirt' = {},
         \/ version' = version
         \/ \E s \in M : Deploy!Running(s) /\ run[s].stamps > 0,
         version' >= version,
         \A v \in version + 1..version' : RevisionThrough(v, {})',
         Checking
  PROVE  DeployInv'
<1>0. version \in Nat /\ version' \in Nat /\ version <= Deploy!Newest /\ Deploy!Newest \in Nat
  BY Newests DEF DeployInv, DeployTypes, DataTypes
<1>1. RecordedIsThrough'
  <2> SUFFICES ASSUME NEW v \in 1..version', NEW k \in DOMAIN Script[v]
               PROVE  Through(Script[v][k], {})'
    BY DEF RecordedIsThrough, RevisionThrough
  <2>1. CASE v > version
    BY <1>0, <2>1 DEF RevisionThrough
  <2>2. CASE v <= version
    <3>1. v \in 1..Deploy!Newest /\ Through(Script[v][k], {})
      BY <1>0, <2>2 DEF DeployInv, RecordedIsThrough, RevisionThrough
    <3>2. PICK none : none = {}
      OBVIOUS
    <3>3. Through(Script[v][k], none)
      BY <3>1, <3>2
    <3>4. none = {} \/ \E s \in Starter : Deploy!Running(s) /\ none = run[s].held
      BY <3>2
    <3>5. \A c \in none : c \in none \/ rule'[c] = "valid"
      OBVIOUS
    <3>6. /\ Script[v][k].do \in {"validate", "enforce"} =>
              (rule'[Script[v][k].on] = "valid" \/ Script[v][k].on \in none) /\ Script[v][k].on \notin dirt'
          /\ Script[v][k].do = "create" =>
              \/ Script[v][k].on \in raced'
              \/ index'[Script[v][k].on].is = "valid" /\ Script[v][k].on \notin dirt'
      BY <3>1, <3>3, <3>4, <3>5, StillThrough
    <3> QED
      BY <3>2, <3>6 DEF Through, RuleStands, IndexStands
  <2> QED
    BY <1>0, <2>1, <2>2
<1>2. ASSUME NEW t \in Starter \ M, Deploy!Running(t)'
      PROVE  BehindIsThrough(t)' /\ StampsFollow(t)' /\ SeenIsDropped(t)' /\ run'[t].held \cap dirt' = {}
  <2>1. run'[t] = run[t] /\ Deploy!Running(t)
    BY <1>2 DEF Deploy!Running
  <2>2. /\ run[t].rev \in 1..Deploy!Newest + 1 /\ run[t].at \in Nat \ {0}
        /\ run[t].held \subseteq Deploy!Touched \cap Deploy!Rule /\ run[t].stamps \in Nat
        /\ BehindIsThrough(t) /\ StampsFollow(t) /\ SeenIsDropped(t)
    BY <2>1, Processes
  <2>3. \A v \in 1..Deploy!Newest : \A k \in DOMAIN Script[v] :
          Through(Script[v][k], run[t].held) => Through(Script[v][k], run[t].held)'
    <3> SUFFICES ASSUME NEW v \in 1..Deploy!Newest, NEW k \in DOMAIN Script[v],
                        Through(Script[v][k], run[t].held)
                 PROVE  Through(Script[v][k], run[t].held)'
      OBVIOUS
    <3>1. PICK held : held = run[t].held
      OBVIOUS
    <3>2. Through(Script[v][k], held)
      BY <3>1
    <3>3. /\ Script[v][k].do \in {"validate", "enforce"} =>
              (rule'[Script[v][k].on] = "valid" \/ Script[v][k].on \in held) /\ Script[v][k].on \notin dirt'
          /\ Script[v][k].do = "create" =>
              \/ Script[v][k].on \in raced'
              \/ index'[Script[v][k].on].is = "valid" /\ Script[v][k].on \notin dirt'
      BY <2>1, <3>1, <3>2, StillThrough
    <3> QED
      BY <2>1, <3>1, <3>3 DEF Through, RuleStands, IndexStands
  <2>4. BehindIsThrough(t)'
    BY <1>0, <2>1, <2>2, <2>3 DEF BehindIsThrough, RevisionThrough
  <2>5. StampsFollow(t)'
    <3> SUFFICES ASSUME run[t].stamps > 0
                 PROVE  /\ version' + run[t].stamps = run[t].rev - 1
                        /\ \A u \in Starter \ {t} : Deploy!Running(u)' => run'[u].stamps = 0
      BY <2>1 DEF StampsFollow
    <3>1. /\ version + run[t].stamps = run[t].rev - 1
          /\ \A u \in Starter \ {t} : Deploy!Running(u) => run[u].stamps = 0
      BY <2>2 DEF StampsFollow
    <3>2. version' = version
      BY <1>2, <3>1
    <3>3. ASSUME NEW u \in Starter \ {t}, Deploy!Running(u)'
          PROVE  run'[u].stamps = 0
      <4>1. CASE u \notin M
        BY <3>1, <3>3, <4>1 DEF Deploy!Running
      <4>2. CASE u \in M
        <5>1. run'[u].stamps \in Nat
          BY <3>3 DEF DeployTypes, DataTypes, Process, Deploy!Running
        <5>2. run'[u].stamps > 0 => run'[t].stamps = 0
          BY <1>2, <3>3, <4>2 DEF StampsFollow
        <5> QED
          BY <2>1, <2>2, <5>1, <5>2
      <4> QED
        BY <4>1, <4>2
    <3> QED
      BY <3>1, <3>2, <3>3
  <2>6. SeenIsDropped(t)'
    BY <2>1, <2>2 DEF SeenIsDropped, Deploy!Does, Deploy!Reads, Deploy!Running
  <2>7. run[t].held \cap dirt' = {}
    <3>1. \A d \in run[t].held : Deploy!Guarded(d)
      BY <2>1, <2>2 DEF Deploy!Guarded
    <3> QED
      BY <2>1, <3>1 DEF Keeping, DeployInv, DirtBreaksNothing
  <2> QED
    BY <2>1, <2>4, <2>5, <2>6, <2>7
<1>3. ProcessesStand'
  BY <1>2 DEF ProcessesStand
<1>4. DirtBreaksNothing'
  <2>1. \A c \in Deploy!Touched \cap Deploy!Rule : rule'[c] = "valid" => c \notin dirt'
    BY DEF DeployInv, DirtBreaksNothing, Keeping, Checking, Deploy!Guarded
  <2>2. \A i \in Deploy!Touched \cap Deploy!Index : index'[i].is = "valid" => i \notin dirt'
    <3> SUFFICES ASSUME NEW i \in Deploy!Touched \cap Deploy!Index, index'[i].is = "valid",
                        index[i].is = "valid", i \in dirt'
                 PROVE  FALSE
      BY DEF Checking
    <3>1. i \notin dirt
      BY DEF DeployInv, DirtBreaksNothing
    <3>2. i \in Deploy!Unique
      BY Kinds DEF DeployTypes, DataTypes
    <3> QED
      BY <3>1, <3>2 DEF Keeping, Deploy!Guarded
  <2> QED
    BY <1>2, <2>1, <2>2 DEF DirtBreaksNothing
<1> QED
  BY <1>1, <1>3, <1>4 DEF DeployInv

LEMMA DataStay ==
  ASSUME DeployInv, UNCHANGED <<index, rule, version, dirt, raced>>
  PROVE  Keeping /\ Checking
  BY DEF DeployInv, DeployTypes, DataTypes, Keeping, Checking

\* No process moves.
LEMMA RunsStay ==
  ASSUME DeployInv, Keeping, Checking, UNCHANGED <<run, version>>
  PROVE  DeployInv'
<1>1. PICK M : M = {}
  OBVIOUS
<1>2. M \in SUBSET Starter /\ \A s, t \in M : s = t
  BY <1>1
<1>3. version \in Nat /\ DeployTypes'
  BY Newests DEF DeployInv, DeployTypes, DataTypes, Keeping
<1> QED
  BY <1>1, <1>2, <1>3, DeploysOneStep

\* One moves, and records nothing.
LEMMA RunMoves ==
  ASSUME DeployInv, Keeping, Checking, version' = version, NEW s \in Starter,
         NEW w \in Process \cup {Deploy!Idle}, run' = [run EXCEPT ![s] = w],
         w # Deploy!Idle =>
           BehindIsThrough(s)' /\ StampsFollow(s)' /\ SeenIsDropped(s)' /\ w.held \cap dirt' = {}
  PROVE  DeployInv'
<1>1. PICK M : M = {s}
  OBVIOUS
<1>2. M \in SUBSET Starter /\ \A t, u \in M : t = u
  BY <1>1
<1>3. version \in Nat /\ DeployTypes'
  BY Newests DEF DeployInv, DeployTypes, DataTypes, Keeping
<1>4. run'[s] = w /\ \A t \in Starter \ M : run'[t] = run[t]
  BY <1>1 DEF DeployInv, DeployTypes
<1>5. \A t \in M : Deploy!Running(t)' =>
        BehindIsThrough(t)' /\ StampsFollow(t)' /\ SeenIsDropped(t)' /\ run'[t].held \cap dirt' = {}
  BY <1>1, <1>4 DEF Deploy!Running
<1> QED
  BY <1>2, <1>3, <1>4, <1>5, DeploysOneStep

LEMMA RunEnds ==
  ASSUME DeployInv, Keeping, Checking, version' = version, NEW s \in Starter,
         run' = [run EXCEPT ![s] = Deploy!Idle]
  PROVE  DeployInv'
  BY RunMoves

\* It moves by a statement, and what it had behind it stays there.
LEMMA RunAdvances ==
  ASSUME DeployInv, Keeping, Checking, version' = version, NEW s \in Starter, Deploy!Reads(s),
         NEW w \in Process, run' = [run EXCEPT ![s] = w],
         w.rev = run[s].rev, w.stamps = run[s].stamps, run[s].held \subseteq w.held,
         w.held \cap dirt' = {},
         \/ w.at = run[s].at /\ Script[w.rev][w.at].do = "look"
         \/ /\ w.at = run[s].at + 1 /\ w.saw # "invalid"
            /\ \A k \in DOMAIN Script[w.rev] : k = run[s].at => Through(Script[w.rev][k], w.held)'
  PROVE  DeployInv'
<1>0. Deploy!Running(s) /\ run[s].rev <= Deploy!Newest /\ run[s].at <= Len(Script[run[s].rev])
  BY DEF Deploy!Reads
<1>1. /\ run[s].rev \in 1..Deploy!Newest + 1 /\ run[s].at \in Nat \ {0}
      /\ run[s].stamps \in Nat
      /\ BehindIsThrough(s) /\ StampsFollow(s)
  BY <1>0, Processes
<1>2. run'[s] = w /\ \A t \in Starter \ {s} : run'[t] = run[t]
  BY DEF DeployInv, DeployTypes
<1>3. w # Deploy!Idle /\ w.rev \in 1..Deploy!Newest
  BY <1>0, <1>1, Newests DEF Process, Deploy!Idle
<1>4. DeployTypes'
  BY DEF DeployInv, DeployTypes, Keeping
<1>5. ASSUME NEW v \in 1..Deploy!Newest, NEW k \in DOMAIN Script[v], Through(Script[v][k], run[s].held)
      PROVE  Through(Script[v][k], w.held)'
  <2>1. PICK held, kept : held = run[s].held /\ kept = w.held
    OBVIOUS
  <2>2. Through(Script[v][k], held) /\ \A c \in held : c \in kept \/ rule'[c] = "valid"
    BY <1>5, <2>1
  <2>3. \E t \in Starter : Deploy!Running(t) /\ held = run[t].held
    BY <1>0, <2>1
  <2>4. /\ Script[v][k].do \in {"validate", "enforce"} =>
            (rule'[Script[v][k].on] = "valid" \/ Script[v][k].on \in kept) /\ Script[v][k].on \notin dirt'
        /\ Script[v][k].do = "create" =>
            \/ Script[v][k].on \in raced'
            \/ index'[Script[v][k].on].is = "valid" /\ Script[v][k].on \notin dirt'
    BY <1>4, <2>2, <2>3, StillThrough
  <2> QED
    BY <2>1, <2>4 DEF Through, RuleStands, IndexStands
<1>6. ASSUME NEW k \in DOMAIN Script[w.rev], k < w.at
      PROVE  Through(Script[w.rev][k], w.held)'
  <2>1. k \in Nat
    BY <1>3, Statements
  <2>2. CASE k < run[s].at
    BY <1>0, <1>1, <1>3, <1>5, <1>6, <2>2 DEF BehindIsThrough
  <2>3. CASE k = run[s].at
    BY <1>1, <1>6, <2>3
  <2> QED
    BY <1>1, <1>6, <2>1, <2>2, <2>3
<1>7. BehindIsThrough(s)'
  <2>1. \A v \in 1..w.rev - 1 : v \in 1..Deploy!Newest
    BY <1>3, Newests
  <2>2. \A v \in 1..w.rev - 1 : \A k \in DOMAIN Script[v] : Through(Script[v][k], run[s].held)
    BY <1>1 DEF BehindIsThrough, RevisionThrough
  <2>3. \A v \in 1..w.rev - 1 : \A k \in DOMAIN Script[v] : Through(Script[v][k], w.held)'
    BY <1>5, <2>1, <2>2
  <2> QED
    BY <1>2, <1>6, <2>3 DEF BehindIsThrough, RevisionThrough
<1>8. StampsFollow(s)'
  BY <1>1, <1>2 DEF StampsFollow, Deploy!Running
<1>9. SeenIsDropped(s)'
  BY <1>0, <1>2, <1>3 DEF SeenIsDropped, Deploy!Does, Deploy!Reads, Deploy!Running
<1> QED
  BY <1>2, <1>3, <1>7, <1>8, <1>9, RunMoves

\* The statement a process is at.
LEMMA DoesOne ==
  ASSUME DeployInv, NEW s \in Starter, Deploy!Reads(s)
  PROVE  /\ Deploy!Running(s) /\ run[s] \in Process /\ run[s].held \cap dirt = {}
         /\ run[s].rev \in 1..Deploy!Newest /\ run[s].at \in DOMAIN Script[run[s].rev]
         /\ run[s].at \in Nat \ {0} /\ run[s].stamps \in Nat
         /\ Script[run[s].rev][run[s].at].do = "create" => Deploy!On(s) \in Deploy!Touched \cap Deploy!Index
         /\ Script[run[s].rev][run[s].at].do \in {"add", "validate", "enforce"} =>
              Deploy!On(s) \in Deploy!Touched \cap Deploy!Rule
         /\ Script[run[s].rev][run[s].at].do # "look" => run[s].saw # "invalid"
<1>1. /\ Deploy!Running(s) /\ run[s].rev <= Deploy!Newest /\ run[s].at <= Len(Script[run[s].rev])
  BY DEF Deploy!Reads
<1>2. /\ run[s] \in Process /\ run[s].rev \in 1..Deploy!Newest + 1 /\ run[s].at \in Nat \ {0}
      /\ run[s].stamps \in Nat /\ SeenIsDropped(s)
  BY <1>1, Processes
<1>3. run[s].rev \in 1..Deploy!Newest
  BY <1>1, <1>2, Newests
<1>4. Script[run[s].rev] \in Seq(Deploy!Statement)
  BY <1>3, ScriptAssumption DEF Deploy!Newest
<1>5. run[s].at \in DOMAIN Script[run[s].rev]
  BY <1>1, <1>2, <1>4
<1>6. run[s].held \cap dirt = {}
  BY <1>1 DEF DeployInv, DirtBreaksNothing
<1>7. Script[run[s].rev][run[s].at].do # "look" => run[s].saw # "invalid"
  BY <1>2 DEF SeenIsDropped, Deploy!Does
<1> QED
  BY <1>1, <1>2, <1>3, <1>5, <1>6, <1>7, Statements DEF Deploy!On

\* A process at the next statement, and perhaps with another rule in hand.
LEMMA FieldByField ==
  ASSUME NEW f, NEW n, NEW x
  PROVE  /\ [f EXCEPT !.at = @ + 1, !.saw = x] = [[f EXCEPT !.at = f.at + 1] EXCEPT !.saw = x]
         /\ [f EXCEPT !.at = @ + 1, !.held = @ \cup x]
              = [[f EXCEPT !.at = f.at + 1] EXCEPT !.held = f.held \cup x]
         /\ [f EXCEPT !.saw = x, !.at = n] = [[f EXCEPT !.saw = x] EXCEPT !.at = n]
         /\ [f EXCEPT !.at = @ + 1, !.stamps = n, !.held = x]
              = [[[f EXCEPT !.at = f.at + 1] EXCEPT !.stamps = n] EXCEPT !.held = x]
         /\ [f EXCEPT !.rev = @ + 1, !.at = n, !.stamps = @ + 1]
              = [[[f EXCEPT !.rev = f.rev + 1] EXCEPT !.at = n] EXCEPT !.stamps = f.stamps + 1]
  OBVIOUS

LEMMA NextStatement ==
  ASSUME NEW f \in Process, NEW x \in {"unseen", "none", "invalid", "fine"}
  PROVE  LET w == [f EXCEPT !.at = @ + 1, !.saw = x]
         IN  /\ w \in Process /\ w.rev = f.rev /\ w.stamps = f.stamps /\ w.held = f.held
             /\ w.at = f.at + 1 /\ w.saw = x
<1>1. f.at + 1 \in Nat \ {0}
  BY DEF Process
<1>2. PICK g : g = [f EXCEPT !.at = f.at + 1]
  OBVIOUS
<1>e. /\ g \in Process /\ g.rev = f.rev /\ g.stamps = f.stamps /\ g.held = f.held
      /\ g.at = f.at + 1 /\ g.saw = f.saw
  BY <1>1, <1>2 DEF Process
<1>3. LET w == [g EXCEPT !.saw = x]
      IN  /\ w \in Process /\ w.rev = g.rev /\ w.stamps = g.stamps /\ w.held = g.held
          /\ w.at = g.at /\ w.saw = x
  BY <1>e DEF Process
<1> QED
  BY <1>2, <1>e, <1>3, FieldByField

LEMMA NextHolding ==
  ASSUME NEW f \in Process, NEW more \in SUBSET (Deploy!Touched \cap Deploy!Rule)
  PROVE  LET w == [f EXCEPT !.at = @ + 1, !.held = @ \cup more]
         IN  /\ w \in Process /\ w.rev = f.rev /\ w.stamps = f.stamps /\ w.held = f.held \cup more
             /\ w.at = f.at + 1 /\ w.saw = f.saw
<1>1. f.at + 1 \in Nat \ {0} /\ f.held \cup more \in SUBSET (Deploy!Touched \cap Deploy!Rule)
  BY DEF Process
<1>2. PICK g : g = [f EXCEPT !.at = f.at + 1]
  OBVIOUS
<1>e. /\ g \in Process /\ g.rev = f.rev /\ g.stamps = f.stamps /\ g.held = f.held
      /\ g.at = f.at + 1 /\ g.saw = f.saw
  BY <1>1, <1>2 DEF Process
<1>3. PICK h : h = f.held \cup more /\ h \in SUBSET (Deploy!Touched \cap Deploy!Rule)
  BY <1>1
<1>4. LET w == [g EXCEPT !.held = h]
      IN  /\ w \in Process /\ w.rev = g.rev /\ w.stamps = g.stamps /\ w.held = h
          /\ w.at = g.at /\ w.saw = g.saw
  BY <1>e, <1>3 DEF Process
<1> QED
  BY <1>2, <1>e, <1>3, <1>4, FieldByField

LEMMA Advanced ==
  ASSUME DeployInv, Keeping, Checking, version' = version, NEW s \in Starter, Deploy!Reads(s),
         Deploy!Advance(s), dirt' = dirt,
         LET st == Script[run[s].rev][run[s].at]
         IN  \/ st.do \notin {"validate", "enforce", "create"}
             \/ st.do = "validate" /\ rule'[st.on] = "valid" /\ st.on \notin dirt
             \/ /\ st.do = "create"
                /\ st.on \in raced' \/ (index'[st.on].is = "valid" /\ st.on \notin dirt)
  PROVE  DeployInv'
<1>1. PICK w : w = [run[s] EXCEPT !.at = @ + 1, !.saw = "unseen"]
  OBVIOUS
<1>2. /\ run[s] \in Process /\ run[s].rev \in 1..Deploy!Newest /\ run[s].at \in DOMAIN Script[run[s].rev]
      /\ run[s].held \cap dirt = {}
  BY DoesOne
<1>3. /\ w \in Process /\ w.rev = run[s].rev /\ w.stamps = run[s].stamps /\ w.held = run[s].held
      /\ w.at = run[s].at + 1 /\ w.saw = "unseen"
  BY <1>1, <1>2, NextStatement
<1>4. run' = [run EXCEPT ![s] = w]
  BY <1>1 DEF Deploy!Advance, DeployInv, DeployTypes
<1>5. PICK k \in DOMAIN Script[w.rev] : k = run[s].at
  BY <1>2, <1>3
<1>6. Through(Script[w.rev][k], w.held)'
  BY <1>3, <1>5 DEF Through, RuleStands, IndexStands
<1>7. \A n \in DOMAIN Script[w.rev] : n = run[s].at => Through(Script[w.rev][n], w.held)'
  BY <1>5, <1>6
<1> QED
  BY <1>2, <1>3, <1>4, <1>7, RunAdvances

LEMMA RuleChanges ==
  ASSUME DeployInv, NEW s \in Starter, Deploy!AddRule(s) \/ Deploy!ValidateRule(s)
  PROVE  DeployInv'
<1>1. CASE Deploy!AddRule(s)
  <2>1. /\ Deploy!Reads(s) /\ Script[run[s].rev][run[s].at].do = "add"
        /\ Deploy!Advance(s) /\ UNCHANGED <<index, version, dirt, raced>>
    BY <1>1 DEF Deploy!AddRule, Deploy!Does
  <2>2. Deploy!On(s) \in Deploy!Touched \cap Deploy!Rule
    BY <2>1, DoesOne
  <2>3. rule' = rule \/ (rule[Deploy!On(s)] = "none" /\ rule' = [rule EXCEPT ![Deploy!On(s)] = "added"])
    BY <1>1 DEF Deploy!AddRule
  <2>4. Keeping /\ Checking
    BY <2>1, <2>2, <2>3 DEF DeployInv, DeployTypes, DataTypes, Keeping, Checking
  <2> QED
    BY <2>1, <2>4, Advanced
<1>2. CASE Deploy!ValidateRule(s)
  <2>1. Deploy!Reads(s) /\ Script[run[s].rev][run[s].at].do = "validate"
    BY <1>2 DEF Deploy!ValidateRule, Deploy!Does
  <2>2. CASE Deploy!Fails(s)
    BY <2>2, DataStay, RunEnds DEF Deploy!Fails, Deploy!Leaves, Deploy!data
  <2>3. CASE ~Deploy!Fails(s)
    <3>1. /\ Deploy!On(s) \notin dirt /\ rule' = [rule EXCEPT ![Deploy!On(s)] = "valid"]
          /\ Deploy!Advance(s) /\ UNCHANGED <<index, version, dirt, raced>>
      BY <1>2, <2>3 DEF Deploy!ValidateRule
    <3>2. Deploy!On(s) \in Deploy!Touched \cap Deploy!Rule
      BY <2>1, DoesOne
    <3>3. Keeping /\ Checking
      BY <3>1, <3>2 DEF DeployInv, DeployTypes, DataTypes, Keeping, Checking
    <3>4. /\ Script[run[s].rev][run[s].at].on \notin dirt
          /\ rule'[Script[run[s].rev][run[s].at].on] = "valid"
      BY <3>1, <3>2 DEF Deploy!On, DeployInv, DeployTypes, DataTypes
    <3> QED
      BY <2>1, <3>1, <3>3, <3>4, Advanced
  <2> QED
    BY <2>2, <2>3
<1> QED
  BY <1>1, <1>2

LEMMA RowsRequired ==
  ASSUME DeployInv, NEW s \in Starter, Deploy!RequireReady(s)
  PROVE  DeployInv'
<1>1. /\ Deploy!Reads(s) /\ Script[run[s].rev][run[s].at].do = "require"
      /\ UNCHANGED <<index, rule, version, dirt, raced>>
  BY DEF Deploy!RequireReady, Deploy!Does, Deploy!Fails, Deploy!data
<1>2. CASE Deploy!Advance(s)
  BY <1>1, <1>2, DataStay, Advanced
<1>3. CASE Deploy!Leaves(s, "off")
  BY <1>1, <1>3, DataStay, RunEnds DEF Deploy!Leaves
<1> QED
  BY <1>2, <1>3 DEF Deploy!RequireReady, Deploy!Fails

LEMMA RuleEnforced ==
  ASSUME DeployInv, NEW s \in Starter, Deploy!EnforceRule(s)
  PROVE  DeployInv'
<1>1. /\ Deploy!Reads(s) /\ Script[run[s].rev][run[s].at].do = "enforce"
      /\ UNCHANGED <<index, rule, version, dirt, raced>>
  BY DEF Deploy!EnforceRule, Deploy!Does, Deploy!Fails, Deploy!data
<1>2. CASE Deploy!Leaves(s, "off")
  BY <1>1, <1>2, DataStay, RunEnds DEF Deploy!Leaves
<1>3. CASE ~Deploy!Leaves(s, "off")
  <2>1. /\ Deploy!On(s) \notin dirt
        /\ run' = [run EXCEPT ![s].at = @ + 1, ![s].held = @ \cup {Deploy!On(s)}]
    BY <1>3 DEF Deploy!EnforceRule, Deploy!Fails
  <2>2. PICK w : w = [run[s] EXCEPT !.at = @ + 1, !.held = @ \cup {Deploy!On(s)}]
    OBVIOUS
  <2>3. /\ run[s] \in Process /\ run[s].rev \in 1..Deploy!Newest
        /\ run[s].at \in DOMAIN Script[run[s].rev]
        /\ run[s].held \cap dirt = {} /\ run[s].saw # "invalid"
        /\ Deploy!On(s) \in Deploy!Touched \cap Deploy!Rule
    BY <1>1, DoesOne
  <2>4. /\ w \in Process /\ w.rev = run[s].rev /\ w.stamps = run[s].stamps
        /\ w.held = run[s].held \cup {Deploy!On(s)}
        /\ w.at = run[s].at + 1 /\ w.saw = run[s].saw
    <3>1. PICK more \in SUBSET (Deploy!Touched \cap Deploy!Rule) : more = {Deploy!On(s)}
      BY <2>3
    <3>2. w = [run[s] EXCEPT !.at = @ + 1, !.held = @ \cup more]
      BY <2>2, <3>1
    <3>3. PICK f \in Process : f = run[s]
      BY <2>3
    <3>4. w = [f EXCEPT !.at = @ + 1, !.held = @ \cup more]
      BY <3>2, <3>3
    <3>5. /\ w \in Process /\ w.rev = f.rev /\ w.stamps = f.stamps /\ w.held = f.held \cup more
          /\ w.at = f.at + 1 /\ w.saw = f.saw
      BY <3>4, NextHolding
    <3> QED
      BY <3>1, <3>3, <3>5
  <2>5. run' = [run EXCEPT ![s] = w]
    BY <2>1, <2>2 DEF DeployInv, DeployTypes
  <2>6. \A k \in DOMAIN Script[w.rev] : k = run[s].at => Through(Script[w.rev][k], w.held)'
    BY <1>1, <2>1, <2>4 DEF Through, RuleStands, Deploy!On
  <2>7. w.held \cap dirt' = {}
    BY <1>1, <2>1, <2>3, <2>4
  <2>8. Keeping /\ Checking /\ run[s].held \subseteq w.held /\ w.saw # "invalid"
    BY <1>1, <2>3, <2>4, DataStay
  <2> QED
    BY <1>1, <2>4, <2>5, <2>6, <2>7, <2>8, RunAdvances
<1> QED
  BY <1>2, <1>3


LEMMA IndexLooked ==
  ASSUME DeployInv, NEW s \in Starter, Deploy!Look(s)
  PROVE  DeployInv'
<1> DEFINE is == index[Deploy!On(s)].is
           saw == IF is = "none" THEN "none" ELSE IF is = "valid" THEN "fine" ELSE "invalid"
<1>1. /\ Deploy!Reads(s) /\ Script[run[s].rev][run[s].at].do = "look"
      /\ UNCHANGED <<index, rule, version, dirt, raced>>
      /\ run' = [run EXCEPT ![s].saw = saw, ![s].at = IF saw = "invalid" THEN @ ELSE @ + 1]
  BY DEF Deploy!Look, Deploy!Does, Deploy!data
<1>2. Keeping /\ Checking
  BY <1>1, DataStay
<1>3. PICK f : f = run[s]
  OBVIOUS
<1>4. PICK x : x = saw
  OBVIOUS
<1>5. /\ f \in Process /\ f.rev \in 1..Deploy!Newest /\ f.held \cap dirt = {}
      /\ x \in {"unseen", "none", "invalid", "fine"} /\ f.at \in Nat \ {0}
  BY <1>1, <1>3, <1>4, DoesOne
<1>6. PICK w : w = [f EXCEPT !.saw = x, !.at = IF x = "invalid" THEN f.at ELSE f.at + 1]
  OBVIOUS
<1>7. /\ w \in Process /\ w.rev = f.rev /\ w.stamps = f.stamps /\ w.held = f.held
      /\ w.saw = x /\ w.at = IF x = "invalid" THEN f.at ELSE f.at + 1
  <2>1. PICK n \in Nat \ {0} : n = IF x = "invalid" THEN f.at ELSE f.at + 1
    BY <1>5
  <2>2. PICK g : g = [f EXCEPT !.saw = x]
    OBVIOUS
  <2>3. /\ g \in Process /\ g.rev = f.rev /\ g.stamps = f.stamps /\ g.held = f.held
        /\ g.saw = x
    BY <1>5, <2>2 DEF Process
  <2>4. w = [g EXCEPT !.at = n]
    BY <1>6, <2>1, <2>2, FieldByField
  <2>5. /\ w \in Process /\ w.rev = g.rev /\ w.stamps = g.stamps /\ w.held = g.held
        /\ w.saw = g.saw /\ w.at = n
    BY <2>3, <2>4 DEF Process
  <2> QED
    BY <2>1, <2>3, <2>5
<1>8. run' = [run EXCEPT ![s] = w]
  BY <1>1, <1>3, <1>4, <1>6 DEF DeployInv, DeployTypes
<1>9. \A k \in DOMAIN Script[w.rev] : k = run[s].at => Through(Script[w.rev][k], w.held)'
  BY <1>1, <1>3, <1>7 DEF Through
<1>10. \/ w.at = run[s].at /\ Script[w.rev][w.at].do = "look"
       \/ w.at = run[s].at + 1 /\ w.saw # "invalid"
  BY <1>1, <1>3, <1>7
<1>11. w.held \cap dirt' = {} /\ run[s].held \subseteq w.held
       /\ w.rev = run[s].rev /\ w.stamps = run[s].stamps
  BY <1>1, <1>3, <1>5, <1>7
<1> QED
  BY <1>1, <1>2, <1>7, <1>8, <1>9, <1>10, <1>11, RunAdvances

LEMMA IndexDropped ==
  ASSUME DeployInv, NEW s \in Starter, Deploy!DropInvalid(s)
  PROVE  DeployInv'
<1>1. /\ Deploy!Reads(s) /\ Script[run[s].rev][run[s].at].do = "look"
      /\ UNCHANGED <<rule, version, dirt>>
      /\ index' = [index EXCEPT ![Deploy!On(s)] = Deploy!Missing]
      /\ raced' = IF index[Deploy!On(s)].is = "valid" THEN raced \cup {Deploy!On(s)} ELSE raced
      /\ run' = [run EXCEPT ![s].at = @ + 1, ![s].saw = "none"]
  BY DEF Deploy!DropInvalid, Deploy!Does
<1>2. Keeping /\ Checking
  BY <1>1 DEF DeployInv, DeployTypes, DataTypes, Keeping, Checking, Deploy!Missing
<1>3. PICK f : f = run[s]
  OBVIOUS
<1>4. f \in Process /\ f.held \cap dirt = {}
  BY <1>1, <1>3, DoesOne
<1>5. PICK x \in {"unseen", "none", "invalid", "fine"} : x = "none"
  OBVIOUS
<1>6. PICK w : w = [f EXCEPT !.at = @ + 1, !.saw = x]
  OBVIOUS
<1>7. /\ w \in Process /\ w.rev = f.rev /\ w.stamps = f.stamps /\ w.held = f.held
      /\ w.at = f.at + 1 /\ w.saw = x
  BY <1>4, <1>6, NextStatement
<1>8. run' = [run EXCEPT ![s] = w]
  BY <1>1, <1>3, <1>5, <1>6 DEF DeployInv, DeployTypes
<1>9. \A k \in DOMAIN Script[w.rev] : k = run[s].at => Through(Script[w.rev][k], w.held)'
  BY <1>1, <1>3, <1>7 DEF Through
<1>10. w.held \cap dirt' = {} /\ run[s].held \subseteq w.held
       /\ w.rev = run[s].rev /\ w.stamps = run[s].stamps /\ w.at = run[s].at + 1 /\ w.saw # "invalid"
  BY <1>1, <1>3, <1>4, <1>5, <1>7
<1> QED
  BY <1>1, <1>2, <1>7, <1>8, <1>9, <1>10, RunAdvances

LEMMA IndexSkipped ==
  ASSUME DeployInv, NEW s \in Starter, Deploy!SkipIndex(s)
  PROVE  DeployInv'
<1> DEFINE i == Deploy!On(s)
<1>1. /\ Deploy!Reads(s) /\ Script[run[s].rev][run[s].at].do = "create"
      /\ index[i].is \in {"valid", "invalid"}
      /\ raced' = IF index[i].is = "invalid" /\ run[s].saw # "invalid" THEN raced \cup {i} ELSE raced
      /\ Deploy!Advance(s) /\ UNCHANGED <<index, rule, version, dirt>>
  BY DEF Deploy!SkipIndex, Deploy!Does
<1>2. Keeping /\ Checking
  BY <1>1 DEF DeployInv, DeployTypes, DataTypes, Keeping, Checking
<1>3. i \in Deploy!Touched \cap Deploy!Index /\ run[s].saw # "invalid"
  BY <1>1, DoesOne
<1>4. i \in raced' \/ (index'[i].is = "valid" /\ i \notin dirt)
  BY <1>1, <1>3 DEF DeployInv, DirtBreaksNothing
<1> QED
  BY <1>1, <1>2, <1>4, Advanced DEF Deploy!On

LEMMA OutcomeTells ==
  ASSUME DeployInv, NEW i \in Deploy!Touched \cap Deploy!Index
  PROVE  /\ Deploy!Outcome(i) \in {"invalid", "valid"}
         /\ Deploy!Outcome(i) = "valid" => i \notin dirt
  BY Kinds DEF Deploy!Outcome, DeployInv, DeployTypes, DataTypes

LEMMA IndexEnds ==
  ASSUME DeployInv, NEW s \in Starter, Deploy!EndIndex(s)
  PROVE  DeployInv'
<1> DEFINE i == Deploy!On(s)
<1>1. /\ Deploy!Reads(s) /\ Script[run[s].rev][run[s].at].do = "create"
      /\ index[i].is = "checking"
      /\ index' = [index EXCEPT ![i] = Deploy!Left(Deploy!Outcome(i))]
      /\ UNCHANGED <<rule, version, dirt, raced>>
  BY DEF Deploy!EndIndex, Deploy!Does
<1>2. i \in Deploy!Touched \cap Deploy!Index
  BY <1>1, DoesOne
<1>3. Deploy!Outcome(i) \in {"invalid", "valid"} /\ (Deploy!Outcome(i) = "valid" => i \notin dirt)
  BY <1>2, OutcomeTells
<1>4. Keeping /\ Checking
  BY <1>1, <1>2, <1>3 DEF DeployInv, DeployTypes, DataTypes, Keeping, Checking, Deploy!Left
<1>5. CASE Deploy!Outcome(i) = "valid"
  <2>1. Deploy!Advance(s)
    BY <1>5 DEF Deploy!EndIndex
  <2>2. index'[i].is = "valid" /\ i \notin dirt
    BY <1>1, <1>2, <1>3, <1>5 DEF DeployInv, DeployTypes, DataTypes, Deploy!Left
  <2> QED
    BY <1>1, <1>4, <2>1, <2>2, Advanced DEF Deploy!On
<1>6. CASE Deploy!Outcome(i) # "valid"
  <2>1. run' = [run EXCEPT ![s] = Deploy!Idle]
    BY <1>6 DEF Deploy!EndIndex, Deploy!Leaves
  <2> QED
    BY <1>1, <1>4, <2>1, RunEnds
<1> QED
  BY <1>5, <1>6

\* What PostgreSQL does to an index, and the rows.
LEMMA IndexesAndRows ==
  ASSUME DeployInv,
         \/ \E s \in Starter : Deploy!BeginIndex(s)
         \/ \E i \in DOMAIN index : Deploy!BeginGhost(i) \/ Deploy!CheckIndex(i) \/ Deploy!EndGhost(i)
         \/ \E d \in Deploy!Breakable : Deploy!BadRow(d) \/ Deploy!Correct(d)
  PROVE  DeployInv'
<1>1. CASE \E s \in Starter : Deploy!BeginIndex(s)
  <2>1. PICK s \in Starter : Deploy!BeginIndex(s)
    BY <1>1
  <2>2. UNCHANGED <<run, rule, version, dirt, raced>>
    BY <2>1 DEF Deploy!BeginIndex
  <2>3. Deploy!On(s) \in Deploy!Touched \cap Deploy!Index
    BY <2>1, DoesOne DEF Deploy!BeginIndex, Deploy!Does
  <2>4. Keeping /\ Checking
    BY <2>1, <2>2, <2>3
    DEF DeployInv, DeployTypes, DataTypes, Keeping, Checking, Deploy!BeginIndex
  <2> QED
    BY <2>2, <2>4, RunsStay
<1>2. CASE \E i \in DOMAIN index : Deploy!BeginGhost(i)
  <2>1. PICK i \in DOMAIN index : Deploy!BeginGhost(i)
    BY <1>2
  <2>2. UNCHANGED <<run, rule, version, dirt, raced>>
    BY <2>1 DEF Deploy!BeginGhost
  <2>3. Keeping /\ Checking
    BY <2>1, <2>2 DEF DeployInv, DeployTypes, DataTypes, Keeping, Checking, Deploy!BeginGhost
  <2> QED
    BY <2>2, <2>3, RunsStay
<1>3. CASE \E i \in DOMAIN index : Deploy!CheckIndex(i)
  <2>1. PICK i \in DOMAIN index : Deploy!CheckIndex(i)
    BY <1>3
  <2>2. UNCHANGED <<run, rule, version, dirt, raced>>
    BY <2>1 DEF Deploy!CheckIndex
  <2>3. PICK waiting \in SUBSET Starter : waiting = Deploy!Snapshots
    BY DEF Deploy!Snapshots, Deploy!Waiting
  <2>4. index' = [index EXCEPT ![i] = [[index[i] EXCEPT !.is = "checking"] EXCEPT !.behind = waiting]]
    BY <2>1, <2>3 DEF Deploy!CheckIndex, DeployInv, DeployTypes, DataTypes
  <2>5. PICK g : g = [index[i] EXCEPT !.is = "checking"]
    OBVIOUS
  <2>6. g \in [is : {"none", "building", "checking", "invalid", "valid"},
               by : Starter \cup {Nobody}, behind : SUBSET Starter] /\ g.is = "checking"
    BY <2>1, <2>5 DEF DeployInv, DeployTypes, DataTypes
  <2>7. PICK h : h = [g EXCEPT !.behind = waiting]
    OBVIOUS
  <2>8. h \in [is : {"none", "building", "checking", "invalid", "valid"},
               by : Starter \cup {Nobody}, behind : SUBSET Starter] /\ h.is = "checking"
    BY <2>3, <2>6, <2>7
  <2>9. index' = [index EXCEPT ![i] = h] /\ index[i].is = "building"
    BY <2>1, <2>4, <2>5, <2>7 DEF Deploy!CheckIndex
  <2>10. Keeping /\ Checking
    BY <2>2, <2>8, <2>9 DEF DeployInv, DeployTypes, DataTypes, Keeping, Checking
  <2> QED
    BY <2>2, <2>10, RunsStay
<1>4. CASE \E i \in DOMAIN index : Deploy!EndGhost(i)
  <2>1. PICK i \in DOMAIN index : Deploy!EndGhost(i)
    BY <1>4
  <2>2. /\ UNCHANGED <<run, rule, version, dirt, raced>> /\ index[i].is # "valid"
        /\ \/ index' = [index EXCEPT ![i] = Deploy!Left(Deploy!Outcome(i))]
           \/ index' = [index EXCEPT ![i] = Deploy!Left("invalid")]
    BY <2>1 DEF Deploy!EndGhost, Deploy!Built
  <2>3. Deploy!Outcome(i) \in {"invalid", "valid"} /\ (Deploy!Outcome(i) = "valid" => i \notin dirt)
    BY OutcomeTells DEF DeployInv, DeployTypes, DataTypes
  <2>4. Keeping /\ Checking
    BY <2>2, <2>3 DEF DeployInv, DeployTypes, DataTypes, Keeping, Checking, Deploy!Left
  <2> QED
    BY <2>2, <2>4, RunsStay
<1>5. CASE \E d \in Deploy!Breakable : Deploy!BadRow(d) \/ Deploy!Correct(d)
  <2>1. UNCHANGED <<run, index, rule, version, raced>>
    BY <1>5 DEF Deploy!BadRow, Deploy!Correct
  <2>2. PICK d \in Deploy!Breakable : (dirt' = dirt \cup {d} /\ ~Deploy!Guarded(d)) \/ dirt' = dirt \ {d}
    BY <1>5 DEF Deploy!BadRow, Deploy!Correct
  <2>3. Keeping /\ Checking
    BY <2>1, <2>2 DEF DeployInv, DeployTypes, DataTypes, Keeping, Checking
  <2> QED
    BY <2>1, <2>3, RunsStay
<1> QED
  BY <1>1, <1>2, <1>3, <1>4, <1>5


\* A container that begins to upgrade, gives up, or is killed.
LEMMA FreesKeeps ==
  ASSUME DeployInv, UNCHANGED <<rule, version, dirt, raced>>, NEW s \in Starter,
         \/ Deploy!Frees(s)
         \/ index' = [i \in DOMAIN index |->
                        IF index[i].by = s THEN [index[i] EXCEPT !.by = Nobody] ELSE index[i]]
  PROVE  Keeping /\ Checking
<1> DEFINE Entry == [is : {"none", "building", "checking", "invalid", "valid"},
                     by : Starter \cup {Nobody}, behind : SUBSET Starter]
<1>1. \A i \in DOMAIN index : index[i] \in Entry
  BY DEF DeployInv, DeployTypes, DataTypes
<1>2. \A f \in Entry : /\ [f EXCEPT !.behind = f.behind \ {s}] \in Entry
                       /\ [f EXCEPT !.behind = f.behind \ {s}].is = f.is
                       /\ [f EXCEPT !.by = Nobody] \in Entry
                       /\ [f EXCEPT !.by = Nobody].is = f.is
  OBVIOUS
<1>3. /\ index' \in [DOMAIN index -> Entry]
      /\ \A i \in DOMAIN index : index'[i].is = index[i].is
  <2>1. CASE Deploy!Frees(s)
    <3>1. index' = [i \in DOMAIN index |-> [index[i] EXCEPT !.behind = index[i].behind \ {s}]]
      BY <2>1 DEF Deploy!Frees
    <3> QED
      BY <1>1, <1>2, <3>1
  <2>2. CASE ~Deploy!Frees(s)
    <3>1. index' = [i \in DOMAIN index |->
                      IF index[i].by = s THEN [index[i] EXCEPT !.by = Nobody] ELSE index[i]]
      BY <2>2
    <3>2. \A i \in DOMAIN index :
            index'[i] \in Entry /\ index'[i].is = index[i].is
      <4> SUFFICES ASSUME NEW i \in DOMAIN index
                   PROVE  index'[i] \in Entry /\ index'[i].is = index[i].is
        OBVIOUS
      <4>1. PICK f \in Entry : f = index[i]
        BY <1>1
      <4>2. index'[i] = IF f.by = s THEN [f EXCEPT !.by = Nobody] ELSE f
        BY <3>1, <4>1
      <4> QED
        BY <1>2, <4>1, <4>2
    <3> QED
      BY <3>1, <3>2
  <2> QED
    BY <2>1, <2>2
<1> QED
  BY <1>3 DEF DeployInv, DeployTypes, DataTypes, Keeping, Checking

\* What is recorded and left behind, once the rules in hand are valid.
LEMMA Committed ==
  ASSUME DeployInv, DeployTypes', Keeping, NEW v \in 1..Deploy!Newest, NEW k \in DOMAIN Script[v],
         NEW held, held = {} \/ \E s \in Starter : Deploy!Running(s) /\ held = run[s].held,
         \A c \in held : rule'[c] = "valid", Through(Script[v][k], held)
  PROVE  Through(Script[v][k], {})'
<1>1. PICK none : none = {}
  OBVIOUS
<1>2. /\ Script[v][k].do \in {"validate", "enforce"} =>
           (rule'[Script[v][k].on] = "valid" \/ Script[v][k].on \in none) /\ Script[v][k].on \notin dirt'
      /\ Script[v][k].do = "create" =>
           \/ Script[v][k].on \in raced'
           \/ index'[Script[v][k].on].is = "valid" /\ Script[v][k].on \notin dirt'
  BY <1>1, StillThrough
<1> QED
  BY <1>1, <1>2 DEF Through, RuleStands, IndexStands

LEMMA UpgradeBegins ==
  ASSUME DeployInv, NEW s \in Starter, Deploy!Acquire(s)
  PROVE  DeployInv'
<1>1. /\ UNCHANGED <<rule, version, dirt, raced>> /\ Deploy!Frees(s)
      /\ run' = [run EXCEPT ![s] = [rev |-> version + 1, at |-> 1, saw |-> "unseen", held |-> {},
                                    stamps |-> 0]]
  BY DEF Deploy!Acquire
<1>2. PICK w : w = [rev |-> version + 1, at |-> 1, saw |-> "unseen", held |-> {}, stamps |-> 0]
  OBVIOUS
<1>3. Keeping /\ Checking
  BY <1>1, FreesKeeps
<1>4. version \in 0..Deploy!Newest /\ version + 1 \in 1..Deploy!Newest + 1
  BY Newests DEF DeployInv, DeployTypes, DataTypes
<1>5. /\ w \in Process /\ w.rev = version + 1 /\ w.at = 1 /\ w.saw = "unseen" /\ w.held = {}
      /\ w.stamps = 0
  BY <1>2, <1>4 DEF Process
<1>6. run' = [run EXCEPT ![s] = w] /\ run'[s] = w
  BY <1>1, <1>2 DEF DeployInv, DeployTypes
<1>7. DeployTypes'
  BY <1>3, <1>5, <1>6 DEF DeployInv, DeployTypes, Keeping
<1>8. ASSUME NEW v \in 1..version, NEW k \in DOMAIN Script[v]
      PROVE  Through(Script[v][k], {})'
  <2>1. PICK none : none = {}
    OBVIOUS
  <2>2. v \in 1..Deploy!Newest /\ Through(Script[v][k], none)
    BY <1>4, <1>8, <2>1, Newests DEF DeployInv, RecordedIsThrough, RevisionThrough
  <2> QED
    BY <1>3, <1>7, <2>1, <2>2, Committed
<1>9. BehindIsThrough(s)'
  <2>1. \A v \in 1..w.rev - 1 : v \in 1..version
    BY <1>4, <1>5
  <2>2. \A v \in 1..w.rev - 1 : RevisionThrough(v, w.held)'
    BY <1>5, <1>8, <2>1 DEF RevisionThrough
  <2>3. w.rev <= Deploy!Newest => \A k \in DOMAIN Script[w.rev] : ~(k < w.at)
    BY <1>4, <1>5, Statements
  <2> QED
    BY <1>6, <2>2, <2>3 DEF BehindIsThrough
<1>10. StampsFollow(s)' /\ SeenIsDropped(s)' /\ w.held \cap dirt' = {}
  BY <1>5, <1>6 DEF StampsFollow, SeenIsDropped
<1> QED
  BY <1>1, <1>3, <1>5, <1>6, <1>9, <1>10, RunMoves

\* The last statement of a revision is through: another one begins.
LEMMA RevisionRecorded ==
  ASSUME DeployInv, NEW s \in Starter, Deploy!Version(s)
  PROVE  DeployInv'
<1>1. /\ Deploy!Running(s) /\ run[s].rev <= Deploy!Newest /\ ~Deploy!Reads(s)
      /\ UNCHANGED <<index, rule, version, dirt, raced>>
  BY DEF Deploy!Version, Deploy!Fails, Deploy!data
<1>2. Keeping /\ Checking
  BY <1>1, DataStay
<1>3. CASE Deploy!Fails(s)
  BY <1>1, <1>2, <1>3, RunEnds DEF Deploy!Fails, Deploy!Leaves
<1>4. CASE ~Deploy!Fails(s)
  <2>1. /\ version + run[s].stamps + 1 = run[s].rev
        /\ \A t \in Starter \ {s} : Deploy!Running(t) => run[t].stamps = 0
        /\ run' = [run EXCEPT ![s].rev = @ + 1, ![s].at = 1, ![s].stamps = @ + 1]
    BY <1>4 DEF Deploy!Version
  <2>2. PICK f : f = run[s]
    OBVIOUS
  <2>3. /\ f \in Process /\ f.rev \in 1..Deploy!Newest /\ f.stamps \in Nat
        /\ BehindIsThrough(s) /\ SeenIsDropped(s) /\ f.held \cap dirt = {}
        /\ Deploy!Newest \in Nat /\ version \in Nat
    BY <1>1, <2>2, Processes, Newests DEF DeployInv, DeployTypes, DataTypes, DirtBreaksNothing
  <2>4. PICK w : w = [f EXCEPT !.rev = @ + 1, !.at = 1, !.stamps = @ + 1]
    OBVIOUS
  <2>5. w \in Process /\ w.rev = f.rev + 1 /\ w.at = 1 /\ w.saw = f.saw /\ w.held = f.held
        /\ w.stamps = f.stamps + 1
    <3>1. PICK g : g = [f EXCEPT !.rev = f.rev + 1]
      OBVIOUS
    <3>2. g \in Process /\ g.rev = f.rev + 1 /\ g.saw = f.saw /\ g.held = f.held
          /\ g.stamps = f.stamps
      BY <2>3, <3>1 DEF Process
    <3>3. PICK h : h = [g EXCEPT !.at = 1]
      OBVIOUS
    <3>4. h \in Process /\ h.rev = g.rev /\ h.at = 1 /\ h.saw = g.saw /\ h.held = g.held
          /\ h.stamps = g.stamps
      BY <3>2, <3>3 DEF Process
    <3>5. PICK n \in Nat : n = f.stamps + 1
      BY <2>3
    <3>6. w = [h EXCEPT !.stamps = n]
      BY <2>4, <3>1, <3>3, <3>5, FieldByField
    <3>7. w \in Process /\ w.rev = h.rev /\ w.at = h.at /\ w.saw = h.saw /\ w.held = h.held
          /\ w.stamps = n
      BY <3>4, <3>6 DEF Process
    <3> QED
      BY <3>2, <3>4, <3>5, <3>7
  <2>6. [f EXCEPT !.rev = @ + 1, !.at = 1, !.stamps = @ + 1] = w
    BY <2>4
  <2>7. run' = [run EXCEPT ![s] = w] /\ run'[s] = w
    BY <2>1, <2>2, <2>6 DEF DeployInv, DeployTypes
  <2>8. f.rev \in 1..Deploy!Newest /\ RevisionThrough(f.rev, f.held)
    <3>1. ~(f.at <= Len(Script[f.rev]))
      BY <1>1, <2>2 DEF Deploy!Reads
    <3>2. \A k \in DOMAIN Script[f.rev] : k < f.at
      BY <2>3, <3>1, Statements DEF Process
    <3> QED
      BY <1>1, <2>2, <2>3, <3>2 DEF BehindIsThrough, RevisionThrough
  <2>9. \A v \in 1..w.rev - 1 : RevisionThrough(v, w.held)
    <3>1. \A v \in 1..w.rev - 1 : v = f.rev \/ v \in 1..f.rev - 1
      BY <2>3, <2>5
    <3> QED
      BY <2>2, <2>3, <2>5, <2>8, <3>1 DEF BehindIsThrough
  <2>10. BehindIsThrough(s)'
    <3>1. \A v \in 1..w.rev - 1 : RevisionThrough(v, w.held)'
      BY <1>1, <2>9 DEF RevisionThrough, Through, RuleStands, IndexStands
    <3>2. w.rev <= Deploy!Newest => \A k \in DOMAIN Script[w.rev] : ~(k < w.at)
      BY <2>3, <2>5, Statements
    <3> QED
      BY <2>7, <3>1, <3>2 DEF BehindIsThrough
  <2>11. StampsFollow(s)'
    <3>1. version + w.stamps = w.rev - 1
      BY <2>1, <2>2, <2>3, <2>5
    <3>2. \A t \in Starter \ {s} : run'[t] = run[t]
      BY <2>7 DEF DeployInv, DeployTypes
    <3> QED
      BY <1>1, <2>1, <2>7, <3>1, <3>2 DEF StampsFollow, Deploy!Running
  <2>12. SeenIsDropped(s)'
    BY <1>1, <2>2, <2>3, <2>5, <2>7 DEF SeenIsDropped, Deploy!Does
  <2> QED
    BY <1>1, <1>2, <2>3, <2>5, <2>7, <2>10, <2>11, <2>12, RunMoves
<1> QED
  BY <1>3, <1>4


\* A commit, before other statements or at the end.
LEMMA Commits ==
  ASSUME DeployInv, NEW s \in Starter, Deploy!Running(s), NEW rev, rev = run[s].rev,
         run[s].stamps > 0 => version' \in 0..Deploy!Newest,
         version' = version + run[s].stamps,
         rule' = [c \in DOMAIN rule |-> IF c \in run[s].held THEN "valid" ELSE rule[c]],
         UNCHANGED <<index, dirt, raced>>,
         run' \in [Starter -> Process \cup {Deploy!Idle}]
  PROVE  /\ DeployTypes' /\ Keeping /\ Checking /\ version' >= version
         /\ \A v \in version + 1..version' : RevisionThrough(v, {})'
         /\ \A v \in 1..rev - 1 : RevisionThrough(v, {})'
         /\ rev <= Deploy!Newest =>
              \A k \in DOMAIN Script[rev] : k < run[s].at => Through(Script[rev][k], {})'
<1>1. /\ run[s].rev \in 1..Deploy!Newest + 1 /\ run[s].stamps \in Nat
      /\ run[s].held \subseteq Deploy!Touched \cap Deploy!Rule
      /\ BehindIsThrough(s) /\ StampsFollow(s) /\ run[s].held \cap dirt = {}
      /\ Deploy!Newest \in Nat /\ version \in 0..Deploy!Newest
  BY Processes, Newests DEF DeployInv, DeployTypes, DataTypes, DirtBreaksNothing
<1>2. version' \in 0..Deploy!Newest /\ version' >= version
  BY <1>1
<1>3. DataTypes'
  BY <1>2 DEF DeployInv, DeployTypes, DataTypes
<1>4. DeployTypes' /\ Keeping /\ Checking
  BY <1>1, <1>3 DEF DeployInv, DeployTypes, DataTypes, Keeping, Checking
<1>5. PICK held : held = run[s].held
  OBVIOUS
<1>6. /\ \E t \in Starter : Deploy!Running(t) /\ held = run[t].held
      /\ \A c \in held : rule'[c] = "valid"
  BY <1>1, <1>5 DEF DeployInv, DeployTypes, DataTypes
<1>7. ASSUME NEW v \in 1..Deploy!Newest, NEW k \in DOMAIN Script[v], Through(Script[v][k], held)
      PROVE  Through(Script[v][k], {})'
  BY <1>4, <1>6, <1>7, Committed
<1>8. \A v \in 1..rev - 1 : RevisionThrough(v, {})'
  <2>1. \A v \in 1..rev - 1 : v \in 1..Deploy!Newest
    BY <1>1
  <2>2. \A v \in 1..rev - 1 : \A k \in DOMAIN Script[v] : Through(Script[v][k], held)
    BY <1>1, <1>5 DEF BehindIsThrough, RevisionThrough
  <2> QED
    BY <1>7, <2>1, <2>2 DEF RevisionThrough
<1>9. ASSUME rev <= Deploy!Newest, NEW k \in DOMAIN Script[rev], k < run[s].at
      PROVE  Through(Script[rev][k], {})'
  <2>1. rev \in 1..Deploy!Newest /\ Through(Script[rev][k], held)
    BY <1>1, <1>5, <1>9 DEF BehindIsThrough
  <2> QED
    BY <1>7, <2>1
<1>10. \A v \in version + 1..version' : v \in 1..rev - 1
  BY <1>1 DEF StampsFollow
<1> QED
  BY <1>2, <1>4, <1>8, <1>9, <1>10

LEMMA UpgradeCommits ==
  ASSUME DeployInv, NEW s \in Starter, Deploy!CommitBefore(s)
  PROVE  DeployInv'
<1>1. /\ Deploy!Reads(s) /\ Script[run[s].rev][run[s].at].do = "commit"
      /\ version' = version + run[s].stamps
      /\ rule' = [c \in DOMAIN rule |-> IF c \in run[s].held THEN "valid" ELSE rule[c]]
      /\ run' = [run EXCEPT ![s].at = @ + 1, ![s].stamps = 0, ![s].held = {}]
      /\ UNCHANGED <<index, dirt, raced>>
  BY DEF Deploy!CommitBefore, Deploy!Does
<1>2. PICK f : f = run[s]
  OBVIOUS
<1>3. /\ Deploy!Running(s) /\ f \in Process /\ f.rev \in 1..Deploy!Newest /\ f.at \in Nat \ {0}
      /\ f.stamps \in Nat /\ f.saw # "invalid" /\ StampsFollow(s)
      /\ version \in Nat /\ Deploy!Newest \in Nat
  BY <1>1, <1>2, DoesOne, Processes, Newests DEF DeployInv, DeployTypes, DataTypes
<1>4. PICK w : w = [f EXCEPT !.at = @ + 1, !.stamps = 0, !.held = {}]
  OBVIOUS
<1>5. w \in Process /\ w.rev = f.rev /\ w.at = f.at + 1 /\ w.saw = f.saw /\ w.held = {} /\ w.stamps = 0
  <2>1. PICK n \in Nat \ {0} : n = f.at + 1
    BY <1>3
  <2>2. PICK g : g = [f EXCEPT !.at = n]
    OBVIOUS
  <2>3. g \in Process /\ g.rev = f.rev /\ g.at = n /\ g.saw = f.saw
    BY <1>3, <2>2 DEF Process
  <2>4. PICK h : h = [g EXCEPT !.stamps = 0]
    OBVIOUS
  <2>5. h \in Process /\ h.rev = g.rev /\ h.at = g.at /\ h.saw = g.saw /\ h.stamps = 0
    BY <2>3, <2>4 DEF Process
  <2>6. w = [h EXCEPT !.held = {}]
    BY <1>4, <2>1, <2>2, <2>4, FieldByField
  <2>7. PICK none \in SUBSET (Deploy!Touched \cap Deploy!Rule) : none = {}
    OBVIOUS
  <2>8. w \in Process /\ w.rev = h.rev /\ w.at = h.at /\ w.saw = h.saw /\ w.stamps = h.stamps
        /\ w.held = none
    BY <2>5, <2>6, <2>7 DEF Process
  <2> QED
    BY <2>1, <2>3, <2>5, <2>7, <2>8
<1>6. run' = [run EXCEPT ![s] = w] /\ run'[s] = w /\ run' \in [Starter -> Process \cup {Deploy!Idle}]
      /\ \A t \in Starter \ {s} : run'[t] = run[t]
  BY <1>1, <1>2, <1>4, <1>5 DEF DeployInv, DeployTypes
<1>7. run[s].stamps > 0 => version' \in 0..Deploy!Newest
  BY <1>1, <1>2, <1>3 DEF StampsFollow
<1>8. /\ DeployTypes' /\ Keeping /\ Checking /\ version' >= version
      /\ \A v \in version + 1..version' : RevisionThrough(v, {})'
      /\ \A v \in 1..w.rev - 1 : RevisionThrough(v, {})'
      /\ w.rev <= Deploy!Newest =>
           \A k \in DOMAIN Script[w.rev] : k < run[s].at => Through(Script[w.rev][k], {})'
  BY <1>1, <1>2, <1>3, <1>5, <1>6, <1>7, Commits
<1>9. BehindIsThrough(s)'
  <2>1. \A v \in 1..w.rev - 1 : RevisionThrough(v, w.held)'
    BY <1>2, <1>5, <1>8
  <2>2. ASSUME NEW k \in DOMAIN Script[w.rev], k < w.at
        PROVE  Through(Script[w.rev][k], w.held)'
    <3>1. k < f.at \/ k = f.at
      BY <1>3, <1>5, <2>2, Statements
    <3>2. CASE k < f.at
      BY <1>2, <1>3, <1>5, <1>8, <3>2
    <3>3. CASE k = f.at
      BY <1>1, <1>2, <1>5, <3>3 DEF Through
    <3> QED
      BY <3>1, <3>2, <3>3
  <2> QED
    BY <1>6, <2>1, <2>2 DEF BehindIsThrough
<1>10. StampsFollow(s)' /\ SeenIsDropped(s)' /\ w.held \cap dirt' = {}
  BY <1>3, <1>5, <1>6 DEF StampsFollow, SeenIsDropped
<1>11. PICK M : M = {s}
  OBVIOUS
<1>12. /\ M \in SUBSET Starter /\ \A t, u \in M : t = u
       /\ \A t \in Starter \ M : run'[t] = run[t]
       /\ \A t \in M : Deploy!Running(t)' =>
            BehindIsThrough(t)' /\ StampsFollow(t)' /\ SeenIsDropped(t)' /\ run'[t].held \cap dirt' = {}
       /\ version' = version \/ \E t \in M : Deploy!Running(t) /\ run[t].stamps > 0
  BY <1>1, <1>2, <1>3, <1>6, <1>9, <1>10, <1>11
<1> QED
  BY <1>8, <1>12, DeploysOneStep

LEMMA UpgradeFinishes ==
  ASSUME DeployInv, NEW s \in Starter, Deploy!Finish(s)
  PROVE  DeployInv'
<1>1. /\ Deploy!Running(s) /\ run[s].rev = Deploy!Newest + 1
      /\ version' = version + run[s].stamps
      /\ rule' = [c \in DOMAIN rule |-> IF c \in run[s].held THEN "valid" ELSE rule[c]]
      /\ run' = [run EXCEPT ![s] = Deploy!Idle]
      /\ UNCHANGED <<index, dirt, raced>>
  BY DEF Deploy!Finish, Deploy!Leaves
<1>2. /\ run[s].stamps \in Nat /\ StampsFollow(s) /\ Deploy!Newest \in Nat /\ version \in Nat
  BY <1>1, Processes, Newests DEF DeployInv, DeployTypes, DataTypes
<1>3. run' \in [Starter -> Process \cup {Deploy!Idle}] /\ run'[s] = Deploy!Idle
      /\ \A t \in Starter \ {s} : run'[t] = run[t]
  BY <1>1 DEF DeployInv, DeployTypes
<1>4. run[s].stamps > 0 => version' \in 0..Deploy!Newest
  BY <1>1, <1>2 DEF StampsFollow
<1>5. /\ DeployTypes' /\ Keeping /\ Checking /\ version' >= version
      /\ \A v \in version + 1..version' : RevisionThrough(v, {})'
  BY <1>1, <1>3, <1>4, Commits
<1>6. PICK M : M = {s}
  OBVIOUS
<1>7. /\ M \in SUBSET Starter /\ \A t, u \in M : t = u
      /\ \A t \in Starter \ M : run'[t] = run[t]
      /\ \A t \in M : Deploy!Running(t)' =>
           BehindIsThrough(t)' /\ StampsFollow(t)' /\ SeenIsDropped(t)' /\ run'[t].held \cap dirt' = {}
      /\ version' = version \/ \E t \in M : Deploy!Running(t) /\ run[t].stamps > 0
  BY <1>1, <1>2, <1>3, <1>6 DEF Deploy!Running
<1> QED
  BY <1>5, <1>7, DeploysOneStep

LEMMA DeployInvInit == InitAll => DeployInv
<1> SUFFICES ASSUME InitAll
             PROVE  DeployInv
  OBVIOUS
<1>1. /\ run = [s \in Starter |-> Deploy!Idle] /\ version = 0
      /\ index = [i \in Deploy!Touched \cap Deploy!Index |-> Deploy!Missing]
      /\ rule = [c \in Deploy!Touched \cap Deploy!Rule |-> "none"]
      /\ dirt \in {{}} \cup {{d} : d \in Deploy!Breakable}
  BY DEF InitAll, Deploy!Init
<1>2. DeployTypes
  BY <1>1, Newests DEF DeployTypes, DataTypes, Deploy!Missing
<1>3. RecordedIsThrough
  BY <1>1 DEF RecordedIsThrough
<1>4. ProcessesStand
  BY <1>1 DEF ProcessesStand, Deploy!Running
<1>5. DirtBreaksNothing
  BY <1>1 DEF DirtBreaksNothing, Deploy!Running, Deploy!Missing
<1> QED
  BY <1>2, <1>3, <1>4, <1>5 DEF DeployInv

LEMMA DeployInvStays ==
  ASSUME DeployInv, UNCHANGED ofDeploy
  PROVE  DeployInv'
  BY DataStay, RunsStay DEF ofDeploy

LEMMA DeployInvStep ==
  ASSUME DeployInv, [NextAny]_all
  PROVE  DeployInv'
<1>1. ASSUME NEW s \in Starter, OnDeploy(s)
      PROVE  DeployInv'
  <2>1. CASE Deploy!Start(s)
    BY <2>1, DataStay, RunsStay DEF Deploy!Start, Deploy!data
  <2>2. CASE Deploy!GiveUp(s)
    BY <2>2, FreesKeeps, RunsStay DEF Deploy!GiveUp
  <2>3. CASE Deploy!Kill(s)
    BY <2>3, FreesKeeps, RunEnds DEF Deploy!Kill, Deploy!Leaves
  <2>4. CASE Deploy!BeginIndex(s)
    BY <2>4, IndexesAndRows
  <2>5. CASE Deploy!Stop(s)
    BY <2>5, FreesKeeps, RunsStay DEF Deploy!Stop
  <2> QED
    BY <1>1, <2>1, <2>2, <2>3, <2>4, <2>5, UpgradeBegins, RowsRequired, RevisionRecorded, UpgradeCommits,
       RuleChanges, RuleEnforced, IndexLooked, IndexDropped, IndexSkipped, IndexEnds, UpgradeFinishes
    DEF OnDeploy
<1>2. ASSUME NEW i \in DOMAIN index, OnServer(i)
      PROVE  DeployInv'
  BY <1>2, IndexesAndRows DEF OnServer
<1>3. ASSUME OnRows
      PROVE  DeployInv'
  <2>1. CASE Deploy!LoseLock
    BY <2>1, DataStay, RunsStay DEF Deploy!LoseLock, Deploy!data
  <2> QED
    BY <1>3, <2>1, IndexesAndRows DEF OnRows
<1>4. CASE OnMonitor
  BY <1>4, DeployInvStays DEF OnMonitor, notMonitor
<1>5. CASE OnSwap
  BY <1>5, DeployInvStays DEF OnSwap, notSwap
<1>6. CASE OnBackup
  BY <1>6, DeployInvStays DEF OnBackup, notBackup
<1>7. CASE UNCHANGED all
  BY <1>7, DeployInvStays DEF all
<1> QED
  BY <1>1, <1>2, <1>3, <1>4, <1>5, <1>6, <1>7 DEF NextAny

LEMMA DeployInvAlways == SpecAll => []DeployInv
<1> QED
  BY DeployInvInit, DeployInvStep, PTL DEF SpecAll

\* A deploy's processes, indexes and rules are what they are declared to be.
THEOREM DeployTypesAlways == SpecAll => []DeployTypes
<1>1. DeployInv => DeployTypes
  BY DEF DeployInv
<1> QED
  BY <1>1, DeployInvAlways, PTL

\* What alembic_version says was done is done, whatever deploys failed before.
THEOREM VersionAlwaysTellsTheTruth == SpecAll => []VersionTellsTheTruth
<1>1. ASSUME DeployInv
      PROVE  VersionTellsTheTruth
  BY <1>1 DEF DeployInv, RecordedIsThrough, RevisionThrough, Through, RuleStands, IndexStands,
     VersionTellsTheTruth, Deploy!VersionTellsTheTruth
<1> QED
  BY <1>1, DeployInvAlways, PTL

-----------------------------------------------------------------------------
(* Photos replaced, and orphans moved. *)

\* The products still to be swapped, each once, and untouched but for the one
\* whose answer is waited for.
QueueStands ==
  /\ queue \in Seq(Product)
  /\ \A i, j \in 1..Len(queue) : queue[i] = queue[j] => i = j
  /\ \A i \in 1..Len(queue) : /\ log[queue[i]] = Swap!Unlogged
                              /\ taken[queue[i]] = 0 \/ (step = "sent" /\ i = 1)
  /\ step = "sent" => queue # <<>> /\ taken[queue[1]] = 1
  /\ step = "plan" => \A p \in Product : log[p] = Swap!Unlogged /\ taken[p] = 0

LogInv ==
  /\ log \in [Product -> {Swap!Unlogged, "OK", "COMPARTILHADO_BR", "ERRO", "NAO_TENTADO"}]
  /\ taken \in [Product -> Nat]
  /\ QueueStands /\ LogTellsTheSite

LEMMA CardinalitiesSame ==
  \A S : Swap!Cardinality(S) = Cardinality(S) /\ Backup!Cardinality(S) = Cardinality(S)
BY DEF Swap!Cardinality, Backup!Cardinality, Cardinality

LEMMA OneOfEach ==
  ASSUME NEW S, IsFiniteSet(S)
  PROVE  /\ Swap!SetToSeq(S) \in Seq(S)
         /\ \A i, j \in 1..Len(Swap!SetToSeq(S)) : Swap!SetToSeq(S)[i] = Swap!SetToSeq(S)[j] => i = j
         /\ Swap!Range(Swap!SetToSeq(S)) \subseteq S
<1>1. Cardinality(S) \in Nat /\ ExistsBijection(1..Cardinality(S), S)
  BY FS_CardinalityType
<1>2. PICK g : g \in Bijection(1..Cardinality(S), S)
  BY <1>1 DEF ExistsBijection
<1>3. g \in [1..Cardinality(S) -> S] /\ Swap!IsInjective(g)
  BY <1>2 DEF Bijection, Injection, Swap!IsInjective, IsInjective
<1>4. \E f \in [1..Cardinality(S) -> S] : Swap!IsInjective(f)
  BY <1>3
<1>5. Swap!SetToSeq(S) \in [1..Cardinality(S) -> S] /\ Swap!IsInjective(Swap!SetToSeq(S))
  BY <1>4, CardinalitiesSame, Zenon DEF Swap!SetToSeq
<1>6. Swap!SetToSeq(S) \in Seq(S) /\ Len(Swap!SetToSeq(S)) = Cardinality(S)
  BY <1>1, <1>5
<1> QED
  BY <1>5, <1>6 DEF Swap!IsInjective, Swap!Range


\* What does not touch the queue.
LEMMA QueueStays ==
  ASSUME LogInv, UNCHANGED <<queue, log, taken>>,
         step' = step \/ (step # "sent" /\ step' \notin {"plan", "sent"})
  PROVE  LogInv'
  BY DEF LogInv, QueueStands, LogTellsTheSite, Swap!LogTellsTheSite

\* The first of the queue is done with.
LEMMA Logged ==
  ASSUME LogInv, queue # <<>>, step \in {"swap", "sent"}, taken' = taken,
         NEW x \in {"OK", "COMPARTILHADO_BR", "ERRO"}, Swap!Logs(x),
         x = "OK" => step = "sent", x = "COMPARTILHADO_BR" => step = "swap"
  PROVE  LogInv'
<1>1. /\ queue \in Seq(Product) /\ Len(queue) \in Nat \ {0} /\ queue[1] \in Product
      /\ queue' = Tail(queue) /\ log' = [log EXCEPT ![queue[1]] = x] /\ step' = "swap"
  BY DEF LogInv, QueueStands, Swap!Logs
<1>2. /\ queue' \in Seq(Product) /\ Len(queue') = Len(queue) - 1
      /\ \A i \in 1..Len(queue') : queue'[i] = queue[i + 1]
  BY <1>1
<1>3. \A i \in 1..Len(queue') : i + 1 \in 1..Len(queue) /\ i + 1 # 1
  BY <1>1, <1>2
<1>4. \A i \in 1..Len(queue') : queue'[i] # queue[1] /\ queue'[i] \in Product
  BY <1>1, <1>2, <1>3 DEF LogInv, QueueStands
<1>5. \A i, j \in 1..Len(queue') : queue'[i] = queue'[j] => i = j
  <2> SUFFICES ASSUME NEW i \in 1..Len(queue'), NEW j \in 1..Len(queue'), queue'[i] = queue'[j]
               PROVE  i = j
    OBVIOUS
  <2>1. i + 1 = j + 1
    <3>1. PICK m \in 1..Len(queue) : m = i + 1
      BY <1>3
    <3>2. PICK n \in 1..Len(queue) : n = j + 1
      BY <1>3
    <3>3. queue[m] = queue[n]
      BY <1>2, <3>1, <3>2
    <3> QED
      BY <3>1, <3>2, <3>3 DEF LogInv, QueueStands
  <2> QED
    BY <1>1, <1>2, <2>1
<1>6. \A i \in 1..Len(queue') : log'[queue'[i]] = Swap!Unlogged /\ taken'[queue'[i]] = 0
  <2> SUFFICES ASSUME NEW i \in 1..Len(queue')
               PROVE  log'[queue'[i]] = Swap!Unlogged /\ taken'[queue'[i]] = 0
    OBVIOUS
  <2>1. log[queue[i + 1]] = Swap!Unlogged /\ taken[queue[i + 1]] = 0
    BY <1>3 DEF LogInv, QueueStands
  <2> QED
    BY <1>1, <1>2, <1>4, <2>1 DEF LogInv
<1>7. QueueStands'
  BY <1>1, <1>2, <1>5, <1>6 DEF QueueStands
<1>8. LogTellsTheSite'
  <2>1. /\ step = "sent" => taken[queue[1]] = 1
        /\ step = "swap" => taken[queue[1]] = 0
    BY <1>1 DEF LogInv, QueueStands
  <2>2. log'[queue[1]] = x /\ \A p \in Product \ {queue[1]} : log'[p] = log[p]
    BY <1>1 DEF LogInv
  <2> QED
    BY <1>1, <2>1, <2>2 DEF LogInv, LogTellsTheSite, Swap!LogTellsTheSite
<1>9. log' \in [Product -> {Swap!Unlogged, "OK", "COMPARTILHADO_BR", "ERRO", "NAO_TENTADO"}]
  BY <1>1 DEF LogInv
<1> QED
  BY <1>7, <1>8, <1>9 DEF LogInv

LEMMA PhotosPlanned ==
  ASSUME LogInv, Swap!Plan
  PROVE  LogInv'
<1>1. step = "plan" /\ UNCHANGED <<log, taken>>
  BY DEF Swap!Plan
<1>2. CASE queue' = queue /\ step' = "end"
  BY <1>1, <1>2, QueueStays
<1>3. ASSUME NEW S \in SUBSET Product, queue' = Swap!SetToSeq(S), step' = "swap"
      PROVE  LogInv'
  <2>1. IsFiniteSet(S)
    BY SwapAssumption, FS_Subset
  <2>2. PICK q : q = queue'
    OBVIOUS
  <2>3. /\ q \in Seq(S) /\ \A i, j \in 1..Len(q) : q[i] = q[j] => i = j
    BY <1>3, <2>1, <2>2, OneOfEach
  <2>4. q \in Seq(Product) /\ \A i \in 1..Len(q) : q[i] \in Product
    BY <2>3
  <2>5. \A i \in 1..Len(q) : log[q[i]] = Swap!Unlogged /\ taken[q[i]] = 0
    BY <1>1, <2>4 DEF LogInv, QueueStands
  <2>6. QueueStands'
    BY <1>1, <1>3, <2>2, <2>3, <2>4, <2>5 DEF QueueStands
  <2> QED
    BY <1>1, <2>6 DEF LogInv, LogTellsTheSite, Swap!LogTellsTheSite
<1> QED
  BY <1>2, <1>3 DEF Swap!Plan, Swap!Exits

LEMMA PhotoSent ==
  ASSUME LogInv, Swap!Send
  PROVE  LogInv'
<1>1. /\ step = "swap" /\ queue # <<>> /\ step' = "sent"
      /\ taken' = [taken EXCEPT ![queue[1]] = @ + 1] /\ UNCHANGED <<queue, log>>
  BY DEF Swap!Send
<1>2. /\ queue \in Seq(Product) /\ 1 \in 1..Len(queue) /\ queue[1] \in Product
      /\ log[queue[1]] = Swap!Unlogged /\ taken[queue[1]] = 0
  BY <1>1 DEF LogInv, QueueStands
<1>3. /\ taken' \in [Product -> Nat] /\ taken'[queue[1]] = 1
      /\ \A p \in Product \ {queue[1]} : taken'[p] = taken[p]
  BY <1>1, <1>2 DEF LogInv
<1>4. QueueStands'
  <2>1. \A i \in 1..Len(queue) : i # 1 => queue[i] # queue[1] /\ queue[i] \in Product
    BY <1>2 DEF LogInv, QueueStands
  <2>2. \A i \in 1..Len(queue) : i # 1 => taken'[queue[i]] = 0
    BY <1>1, <1>3, <2>1 DEF LogInv, QueueStands
  <2> QED
    BY <1>1, <1>3, <2>2 DEF LogInv, QueueStands
<1>5. LogTellsTheSite'
  BY <1>1, <1>2, <1>3 DEF LogInv, LogTellsTheSite, Swap!LogTellsTheSite, Swap!Unlogged
<1> QED
  BY <1>1, <1>3, <1>4, <1>5 DEF LogInv

LEMMA SessionOver ==
  ASSUME LogInv, Swap!Unauthorized
  PROVE  LogInv'
<1>1. step = "swap" /\ queue # <<>>
  BY DEF Swap!Unauthorized
<1>2. CASE UNCHANGED <<step, queue, log, taken>>
  BY <1>2, QueueStays
<1>3. CASE Swap!Logs("ERRO") /\ taken' = taken
  BY <1>1, <1>3, Logged
<1>4. ASSUME log' = [p \in Product |-> IF p \in Swap!Range(queue) THEN "NAO_TENTADO" ELSE log[p]],
             queue' = <<>>, UNCHANGED <<step, taken>>
      PROVE  LogInv'
  <2>1. \A p \in Swap!Range(queue) : taken[p] = 0
    BY <1>1 DEF LogInv, QueueStands, Swap!Range
  <2>2. QueueStands'
    <3>1. queue' \in Seq(Product) /\ Len(queue') = 0
      BY <1>4
    <3> QED
      BY <1>1, <1>4, <3>1 DEF QueueStands
  <2>3. LogTellsTheSite'
    BY <1>4, <2>1 DEF LogInv, LogTellsTheSite, Swap!LogTellsTheSite
  <2> QED
    BY <1>4, <2>2, <2>3 DEF LogInv
<1> QED
  BY <1>2, <1>3, <1>4 DEF Swap!Unauthorized

LEMMA LogInvStep ==
  ASSUME LogInv, OnSwap
  PROVE  LogInv'
<1>1. CASE Swap!NotConnected \/ Swap!Busy
  BY <1>1, QueueStays, Logged DEF Swap!NotConnected, Swap!Busy
<1>2. CASE Swap!Answered
  BY <1>2, Logged DEF Swap!Answered, LogInv, QueueStands
<1>3. CASE Swap!LoseAnswer
  BY <1>3, Logged DEF Swap!LoseAnswer
<1>4. CASE Swap!Refused
  BY <1>4, Logged DEF Swap!Refused
<1>5. CASE Swap!Expire \/ Swap!EndSwap \/ Swap!Inventory
  BY <1>5, QueueStays DEF Swap!Expire, Swap!EndSwap, Swap!Inventory, Swap!Exits, Swap!work
<1>6. CASE Swap!Batch
  BY <1>6, QueueStays DEF Swap!Batch, Swap!Exits, Swap!work
<1>7. CASE Swap!StopBatches \/ Swap!Renew \/ Swap!EndPurge
  BY <1>7, QueueStays DEF Swap!StopBatches, Swap!Renew, Swap!EndPurge, Swap!Exits, Swap!work
<1>8. CASE \E k \in Orphan : Swap!Change(k)
  BY <1>8, QueueStays DEF Swap!Change, Swap!work
<1> QED
  BY <1>1, <1>2, <1>3, <1>4, <1>5, <1>6, <1>7, <1>8, PhotosPlanned, PhotoSent, SessionOver DEF OnSwap

\* No photo is uploaded twice in a run of the script, and its log tells what was done.
THEOREM LogAlwaysTellsTheSite == SpecAll => []LogTellsTheSite
<1>1. InitAll => LogInv
  <2> SUFFICES ASSUME InitAll
               PROVE  LogInv
    OBVIOUS
  <2>1. /\ step = "plan" /\ queue = <<>> /\ log = [p \in Product |-> Swap!Unlogged]
        /\ taken = [p \in Product |-> 0]
    BY DEF InitAll, Swap!Init
  <2>2. queue \in Seq(Product) /\ Len(queue) = 0
    BY <2>1
  <2> QED
    BY <2>1, <2>2 DEF LogInv, QueueStands, LogTellsTheSite, Swap!LogTellsTheSite, Swap!Unlogged
<1>2. LogInv /\ [NextAny]_all => LogInv'
  <2> SUFFICES ASSUME LogInv, [NextAny]_all
               PROVE  LogInv'
    OBVIOUS
  <2>1. UNCHANGED ofSwap \/ OnSwap
    BY DEF NextAny, OnDeploy, OnServer, OnRows, OnMonitor, OnBackup, all,
       notDeploy, notMonitor, notBackup
  <2> QED
    BY <2>1, LogInvStep, QueueStays DEF ofSwap
<1>3. LogInv => LogTellsTheSite
  BY DEF LogInv
<1> QED
  BY <1>1, <1>2, <1>3, PTL DEF SpecAll


\* Until the script is done, what it counted is what it moved of what it listed.
OrphansStand ==
  /\ step = "plan" => Swap!Range(orphans) \subseteq Orphan /\ exit = Swap!NoExit
  /\ step \in {"plan", "swap", "sent"} => listed = {} /\ trash = {} /\ count.moved = 0
  /\ exit # Swap!NoExit => step = "end"
  /\ listed \subseteq Orphan /\ confirm \subseteq listed
  /\ step \in {"purge", "stop"} => confirm \cap trash = {} /\ count.moved = Cardinality(trash)

OrphansInv == OrphansStand /\ ListedOrphansAreMoved

LEMMA OrphansStay ==
  ASSUME OrphansInv, UNCHANGED <<listed, confirm, count, trash>>,
         orphans' = orphans \/ step' # "plan",
         \/ step' = step /\ exit' = exit
         \/ /\ exit' = exit /\ exit = Swap!NoExit /\ step' # "plan"
            /\ step' \in {"swap", "sent"} => step \in {"plan", "swap", "sent"}
            /\ step' \in {"purge", "stop"} => step \in {"purge", "stop"}
         \/ /\ step' = "end" /\ (exit' = 0 => listed \subseteq trash)
  PROVE  OrphansInv'
  BY DEF OrphansInv, OrphansStand, ListedOrphansAreMoved, Swap!ListedOrphansAreMoved

LEMMA OrphansListed ==
  ASSUME OrphansInv, Swap!Inventory
  PROVE  OrphansInv'
<1>1. /\ step = "plan" /\ listed' = Swap!Range(orphans) /\ confirm' = Swap!Range(orphans)
      /\ step' = "purge" /\ UNCHANGED <<count, trash, exit>>
  BY DEF Swap!Inventory
<1>2. trash = {} /\ count.moved = 0 /\ Swap!Range(orphans) \subseteq Orphan /\ exit = Swap!NoExit
  BY <1>1 DEF OrphansInv, OrphansStand
<1>3. Cardinality(trash) = 0
  BY <1>2, FS_EmptySet
<1> QED
  BY <1>1, <1>2, <1>3 DEF OrphansInv, OrphansStand, ListedOrphansAreMoved,
     Swap!ListedOrphansAreMoved, Swap!NoExit

LEMMA BatchMoved ==
  ASSUME OrphansInv, Swap!Batch
  PROVE  OrphansInv'
<1>1. step = "purge" /\ confirm = Swap!Range(orphans) /\ listed' = listed
  BY DEF Swap!Batch, Swap!work
<1>2. exit = Swap!NoExit /\ count.moved = Cardinality(trash)
  BY <1>1 DEF OrphansInv, OrphansStand
<1>3. PICK gone \in SUBSET {orphans[k] : k \in {n \in DOMAIN orphans : n <= BatchSize}} :
        /\ trash' = trash \cup gone
        /\ \/ /\ count'.moved = count.moved + Swap!Cardinality(gone) /\ confirm' = confirm \ gone
              /\ step' \in {"stop", "purge"} /\ exit' = exit
           \/ step' = "end" /\ exit' = 1 /\ UNCHANGED <<count, confirm>>
  BY DEF Swap!Batch, Swap!Exits
<1>4. gone \subseteq confirm /\ gone \subseteq listed /\ gone \cap trash = {}
  BY <1>1, <1>3 DEF OrphansInv, OrphansStand, Swap!Range
<1>5. IsFiniteSet(gone) /\ IsFiniteSet(trash)
  <2>1. gone \subseteq Orphan /\ trash \subseteq Orphan
    BY <1>4 DEF OrphansInv, OrphansStand, ListedOrphansAreMoved, Swap!ListedOrphansAreMoved
  <2> QED
    BY <2>1, SwapAssumption, FS_Subset
<1>6. Cardinality(trash \cup gone) = Cardinality(trash) + Cardinality(gone)
  <2>1. Cardinality(trash \cap gone) = 0
    BY <1>4, FS_EmptySet
  <2>2. Cardinality(trash) \in Nat /\ Cardinality(gone) \in Nat
    BY <1>5, FS_CardinalityType
  <2> QED
    <3>1. Cardinality(trash \cup gone)
            = Cardinality(trash) + Cardinality(gone) - Cardinality(trash \cap gone)
      BY <1>5, FS_Union
    <3> QED
      BY <2>1, <2>2, <3>1
<1>7. CASE step' = "end" /\ exit' = 1 /\ UNCHANGED <<count, confirm>>
  <2>1. trash' \subseteq listed'
    BY <1>1, <1>3, <1>4 DEF OrphansInv, ListedOrphansAreMoved, Swap!ListedOrphansAreMoved
  <2> QED
    BY <1>1, <1>4, <1>7, <2>1 DEF OrphansInv, OrphansStand, ListedOrphansAreMoved,
       Swap!ListedOrphansAreMoved
<1> QED
  BY <1>1, <1>2, <1>3, <1>4, <1>6, <1>7, CardinalitiesSame
  DEF OrphansInv, OrphansStand, ListedOrphansAreMoved, Swap!ListedOrphansAreMoved, Swap!NoExit


LEMMA PurgeEnds ==
  ASSUME OrphansInv, Swap!EndPurge
  PROVE  OrphansInv'
<1>1. /\ step \in {"purge", "stop"} /\ step' = "end" /\ exit' = Swap!Status
      /\ UNCHANGED <<orphans, listed, confirm, count, trash>>
  BY DEF Swap!EndPurge, Swap!Exits, Swap!site
<1>2. ASSUME exit' = 0
      PROVE  listed \subseteq trash
  <2>1. count.moved = Swap!Cardinality(listed)
    BY <1>1, <1>2 DEF Swap!Status, Swap!Total
  <2>2. /\ Cardinality(trash) = Cardinality(listed) /\ trash \subseteq listed
        /\ listed \subseteq Orphan
    BY <1>1, <2>1, CardinalitiesSame
    DEF OrphansInv, OrphansStand, ListedOrphansAreMoved, Swap!ListedOrphansAreMoved
  <2>3. IsFiniteSet(listed)
    BY <2>2, SwapAssumption, FS_Subset
  <2>4. listed = trash
    BY <2>2, <2>3, FS_Subset
  <2> QED
    BY <2>4
<1> QED
  BY <1>1, <1>2, OrphansStay

LEMMA OrphansInvStep ==
  ASSUME OrphansInv, OnSwap
  PROVE  OrphansInv'
<1>0. exit = Swap!NoExit \/ step = "end"
  BY DEF OrphansInv, OrphansStand
<1>1. step \in {"plan", "swap", "sent"} => listed = {}
  BY DEF OrphansInv, OrphansStand
<1>2. CASE Swap!Plan
  BY <1>0, <1>1, <1>2, OrphansStay DEF Swap!Plan, Swap!Exits, Swap!site
<1>3. CASE Swap!NotConnected \/ Swap!Busy \/ Swap!LoseAnswer
  BY <1>0, <1>3, OrphansStay DEF Swap!NotConnected, Swap!Busy, Swap!LoseAnswer, Swap!Logs, Swap!site
<1>4. CASE Swap!Answered \/ Swap!Refused
  BY <1>0, <1>4, OrphansStay DEF Swap!Answered, Swap!Refused, Swap!Logs, Swap!site
<1>5. CASE Swap!Send \/ Swap!Unauthorized
  BY <1>0, <1>5, OrphansStay DEF Swap!Send, Swap!Unauthorized, Swap!Logs, Swap!site
<1>6. CASE Swap!Expire \/ Swap!Renew
  BY <1>6, OrphansStay DEF Swap!Expire, Swap!Renew, Swap!site
<1>7. CASE Swap!EndSwap
  BY <1>1, <1>7, OrphansStay DEF Swap!EndSwap, Swap!Exits, Swap!site
<1>8. CASE Swap!StopBatches
  BY <1>0, <1>8, OrphansStay DEF Swap!StopBatches, Swap!site
<1>9. CASE \E k \in Orphan : Swap!Change(k)
  BY <1>9, OrphansStay DEF Swap!Change
<1> QED
  BY <1>2, <1>3, <1>4, <1>5, <1>6, <1>7, <1>8, <1>9, OrphansListed, BatchMoved, PurgeEnds DEF OnSwap

\* A run that moves orphans ends well only when it moved all that it listed.
THEOREM ListedOrphansAreAlwaysMoved == SpecAll => []ListedOrphansAreMoved
<1>1. InitAll => OrphansInv
  <2> SUFFICES ASSUME InitAll
               PROVE  OrphansInv
    OBVIOUS
  <2>1. /\ step = "plan" /\ listed = {} /\ confirm = {} /\ trash = {} /\ count.moved = 0
        /\ exit = Swap!NoExit
    BY DEF InitAll, Swap!Init
  <2>2. PICK S \in SUBSET Orphan : orphans = Swap!SetToSeq(S)
    BY DEF InitAll, Swap!Init
  <2>3. Swap!Range(orphans) \subseteq Orphan
    BY <2>2, SwapAssumption, FS_Subset, OneOfEach
  <2> QED
    BY <2>1, <2>3 DEF OrphansInv, OrphansStand, ListedOrphansAreMoved,
       Swap!ListedOrphansAreMoved, Swap!NoExit
<1>2. OrphansInv /\ [NextAny]_all => OrphansInv'
  <2> SUFFICES ASSUME OrphansInv, [NextAny]_all
               PROVE  OrphansInv'
    OBVIOUS
  <2>1. UNCHANGED ofSwap \/ OnSwap
    BY DEF NextAny, OnDeploy, OnServer, OnRows, OnMonitor, OnBackup, all,
       notDeploy, notMonitor, notBackup
  <2> QED
    BY <2>1, OrphansInvStep, OrphansStay DEF ofSwap
<1>3. OrphansInv => ListedOrphansAreMoved
  BY DEF OrphansInv
<1> QED
  BY <1>1, <1>2, <1>3, PTL DEF SpecAll

-----------------------------------------------------------------------------
(* Backups. *)

BackupInv ==
  /\ now \in Backup!Time /\ backup \in Backup!Time
  /\ folder \subseteq made /\ made \subseteq Backup!Time
  /\ PeriodsKeepTheirLast

\* A later time is in no earlier period, and times are in finitely many of them.
LEMMA PeriodsFollow ==
  ASSUME NEW L \in Nat \ {0}, NEW a \in Nat, NEW b \in Nat
  PROVE  /\ a \div L \in 0..a
         /\ a \div L > b \div L => a > b
<1>1. \A n \in Nat : n = L * (n \div L) + (n % L) /\ n % L \in 0..L - 1 /\ n \div L \in Int
  OBVIOUS
<1>2. a \div L \in 0..a
  <2>1. PICK q \in Int : q = a \div L
    BY <1>1
  <2>2. PICK r \in 0..L - 1 : a = L * q + r
    BY <1>1, <2>1
  <2>3. q >= 0
    BY <2>2
  <2>4. q <= a
    BY <2>2, <2>3
  <2> QED
    BY <2>1, <2>3, <2>4
<1>3. ASSUME a \div L > b \div L
      PROVE  a > b
  <2>1. PICK q \in Int : q = a \div L
    BY <1>1
  <2>2. PICK r \in 0..L - 1 : a = L * q + r
    BY <1>1, <2>1
  <2>3. PICK p \in Int : p = b \div L
    BY <1>1
  <2>4. PICK s \in 0..L - 1 : b = L * p + s
    BY <1>1, <2>3
  <2>5. q >= p + 1
    BY <1>3, <2>1, <2>3
  <2>6. L * q >= L * (p + 1)
    BY <2>5
  <2>7. L * (p + 1) = L * p + L
    OBVIOUS
  <2> QED
    BY <2>2, <2>4, <2>6, <2>7
<1> QED
  BY <1>2, <1>3


Period(period) ==
  /\ \A a \in Backup!Time : period[a] \in Nat /\ period[a] <= MaxTime
  /\ \A a, b \in Backup!Time : period[a] > period[b] => a > b

LEMMA WeeksAndMonths == Period(Backup!Week) /\ Period(Backup!Month)
<1>1. MaxTime \in Nat /\ \A a \in Backup!Time : a \in Nat /\ a <= MaxTime
  BY BackupAssumption DEF Backup!Time
<1>2. ASSUME NEW L \in Nat \ {0}
      PROVE  Period([t \in Backup!Time |-> t \div L])
  <2>1. ASSUME NEW a \in Backup!Time
        PROVE  a \div L \in Nat /\ a \div L <= MaxTime
    BY <1>1, PeriodsFollow
  <2>2. \A a, b \in Backup!Time : a \div L > b \div L => a > b
    BY <1>1, PeriodsFollow
  <2> QED
    BY <2>1, <2>2 DEF Period
<1> QED
  BY <1>2, BackupAssumption DEF Backup!Week, Backup!Month

\* The last backup of a period in which one was made is the first from the newest on.
LastOf(b, n, period) ==
  LET later == {c \in made : c > b}
  IN  period[b] \notin {period[c] : c \in later} /\ Cardinality({period[c] : c \in later}) < n

LEMMA LastIsFirst ==
  ASSUME NEW S, S \subseteq made, made \subseteq Backup!Time, NEW n \in Nat,
         NEW period, Period(period), NEW b \in S, LastOf(b, n, period)
  PROVE  b \in Backup!FirstOfEach(S, n, period)
<1> DEFINE later == {period[c] : c \in {x \in made : x > b}}
           newer == {period[c] : c \in {x \in S : period[x] > period[b]}}
<1>1. period[b] \notin later /\ Cardinality(later) < n
  BY DEF LastOf
<1>2. newer \subseteq later
  BY DEF Period
<1>3. \A p \in later : p \in Nat /\ p <= MaxTime
  BY DEF Period
<1>4. IsFiniteSet(later)
  BY <1>3, BackupAssumption, FS_BoundedSetOfNaturals
<1>5. Cardinality(newer) < n
  <2>1. Cardinality(newer) <= Cardinality(later)
    BY <1>2, <1>4, FS_Subset
  <2>2. Cardinality(newer) \in Nat /\ Cardinality(later) \in Nat
    BY <1>2, <1>4, FS_Subset, FS_CardinalityType
  <2> QED
    BY <1>1, <2>1, <2>2
<1>6. \A c \in S : c > b => period[c] # period[b]
  BY <1>1
<1> QED
  BY <1>5, <1>6, CardinalitiesSame DEF Backup!FirstOfEach

LEMMA PeriodsRead ==
  PeriodsKeepTheirLast <=>
    \A b \in made : \/ b + Recent >= now
                    \/ LastOf(b, Weekly, Backup!Week) \/ LastOf(b, Monthly, Backup!Month)
                    => b \in folder
  BY CardinalitiesSame DEF PeriodsKeepTheirLast, Backup!PeriodsKeepTheirLast, LastOf


\* A backup that is moved makes no earlier one the last of a period.
LEMMA LastWasLast ==
  ASSUME BackupInv, made' \subseteq Backup!Time, made \subseteq made',
         NEW b, NEW n \in Nat, NEW period, Period(period), LastOf(b, n, period)'
  PROVE  LastOf(b, n, period)
<1> DEFINE later == {period[c] : c \in {x \in made : x > b}}
           after == {period[c] : c \in {x \in made' : x > b}}
<1>1. period[b] \notin after /\ Cardinality(after) < n
  BY DEF LastOf
<1>2. later \subseteq after
  OBVIOUS
<1>3. \A p \in after : p \in Nat /\ p <= MaxTime
  BY DEF Period
<1>4. IsFiniteSet(after)
  BY <1>3, BackupAssumption, FS_BoundedSetOfNaturals
<1>5. Cardinality(later) <= Cardinality(after)
  BY <1>2, <1>4, FS_Subset
<1>6. Cardinality(later) \in Nat /\ Cardinality(after) \in Nat
  BY <1>2, <1>4, FS_Subset, FS_CardinalityType
<1> QED
  BY <1>1, <1>2, <1>5, <1>6 DEF LastOf

LEMMA BackupsStay ==
  ASSUME BackupInv, UNCHANGED <<folder, made>>, backup' \in Backup!Time,
         now' \in Backup!Time, now' >= now
  PROVE  BackupInv'
<1>1. ASSUME NEW b \in made,
             \/ b + Recent >= now'
             \/ LastOf(b, Weekly, Backup!Week)' \/ LastOf(b, Monthly, Backup!Month)'
      PROVE  b \in folder
  <2>1. b \in Nat /\ now \in Nat /\ now' \in Nat /\ Recent \in Nat
    BY BackupAssumption DEF BackupInv, Backup!Time
  <2>2. b + Recent >= now' => b + Recent >= now
    BY <2>1
  <2>3. /\ LastOf(b, Weekly, Backup!Week)' => LastOf(b, Weekly, Backup!Week)
        /\ LastOf(b, Monthly, Backup!Month)' => LastOf(b, Monthly, Backup!Month)
    BY DEF LastOf
  <2> QED
    BY <1>1, <2>2, <2>3, PeriodsRead DEF BackupInv
<1>2. PeriodsKeepTheirLast'
  <2>1. \A b \in made' : \/ b + Recent >= now'
                         \/ LastOf(b, Weekly, Backup!Week)' \/ LastOf(b, Monthly, Backup!Month)'
                         => b \in folder'
    BY <1>1
  <2> QED
    BY <2>1, CardinalitiesSame DEF PeriodsKeepTheirLast, Backup!PeriodsKeepTheirLast, LastOf
<1> QED
  BY <1>2 DEF BackupInv

LEMMA BackupMoved ==
  ASSUME BackupInv, Backup!Move
  PROVE  BackupInv'
<1>1. /\ folder' = folder \cup {backup} /\ made' = made \cup {backup}
      /\ UNCHANGED <<now, backup>>
  BY DEF Backup!Move, Backup!Goes
<1>2. made' \subseteq Backup!Time /\ made \subseteq made'
  BY <1>1 DEF BackupInv
<1>3. ASSUME NEW b \in made,
             \/ b + Recent >= now
             \/ LastOf(b, Weekly, Backup!Week)' \/ LastOf(b, Monthly, Backup!Month)'
      PROVE  b \in folder
  BY <1>2, <1>3, LastWasLast, WeeksAndMonths, BackupAssumption, PeriodsRead DEF BackupInv
<1>4. \A b \in made' : \/ b + Recent >= now'
                       \/ LastOf(b, Weekly, Backup!Week)' \/ LastOf(b, Monthly, Backup!Month)'
                       => b \in folder'
  BY <1>1, <1>3
<1>5. PeriodsKeepTheirLast'
  BY <1>4, CardinalitiesSame DEF PeriodsKeepTheirLast, Backup!PeriodsKeepTheirLast, LastOf
<1> QED
  BY <1>1, <1>2, <1>5 DEF BackupInv

LEMMA BackupsRetained ==
  ASSUME BackupInv, Backup!Retain
  PROVE  BackupInv'
<1>1. UNCHANGED <<now, backup, made>> /\ folder' \subseteq folder
      /\ Backup!Keep(folder) \cap folder \subseteq folder'
  BY DEF Backup!Retain, Backup!Goes
<1>2. ASSUME NEW b \in made,
             \/ b + Recent >= now
             \/ LastOf(b, Weekly, Backup!Week) \/ LastOf(b, Monthly, Backup!Month)
      PROVE  b \in folder'
  <2>1. b \in folder
    BY <1>2, PeriodsRead DEF BackupInv
  <2>2. b \in Backup!Keep(folder)
    <3>1. /\ LastOf(b, Weekly, Backup!Week) => b \in Backup!FirstOfEach(folder, Weekly, Backup!Week)
          /\ LastOf(b, Monthly, Backup!Month) => b \in Backup!FirstOfEach(folder, Monthly, Backup!Month)
      BY <2>1, LastIsFirst, WeeksAndMonths, BackupAssumption DEF BackupInv
    <3> QED
      BY <1>2, <2>1, <3>1 DEF Backup!Keep
  <2> QED
    BY <1>1, <2>1, <2>2
<1>3. \A b \in made' : \/ b + Recent >= now'
                       \/ LastOf(b, Weekly, Backup!Week)' \/ LastOf(b, Monthly, Backup!Month)'
                       => b \in folder'
  BY <1>1, <1>2 DEF LastOf
<1>4. PeriodsKeepTheirLast'
  BY <1>3, CardinalitiesSame DEF PeriodsKeepTheirLast, Backup!PeriodsKeepTheirLast, LastOf
<1> QED
  BY <1>1, <1>4 DEF BackupInv

\* The retention keeps the last backup of the newest weeks and months.
THEOREM PeriodsAlwaysKeepTheirLast == SpecAll => []PeriodsKeepTheirLast
<1>1. InitAll => BackupInv
  BY BackupAssumption
  DEF InitAll, Backup!Init, BackupInv, Backup!Time, PeriodsKeepTheirLast, Backup!PeriodsKeepTheirLast
<1>2. BackupInv /\ [NextAny]_all => BackupInv'
  <2> SUFFICES ASSUME BackupInv, [NextAny]_all
               PROVE  BackupInv'
    OBVIOUS
  <2>0. now \in Nat /\ MaxTime \in Nat /\ now \in Backup!Time /\ backup \in Backup!Time
    BY BackupAssumption DEF BackupInv, Backup!Time
  <2>1. UNCHANGED ofBackup \/ OnBackup
    BY DEF NextAny, OnDeploy, OnServer, OnRows, OnMonitor, OnSwap, all,
       notDeploy, notMonitor, notSwap
  <2>2. CASE UNCHANGED ofBackup
    BY <2>0, <2>2, BackupsStay DEF ofBackup
  <2>3. CASE Backup!Tick
    BY <2>0, <2>3, BackupsStay DEF Backup!Tick, Backup!shelf, Backup!Time
  <2>4. CASE Backup!Begin
    BY <2>0, <2>4, BackupsStay DEF Backup!Begin, Backup!Goes, Backup!shelf
  <2>5. CASE Backup!Dump \/ Backup!Export \/ Backup!Seal \/ Backup!WriteChecksum
    BY <2>0, <2>5, BackupsStay
    DEF Backup!Dump, Backup!Export, Backup!Seal, Backup!WriteChecksum, Backup!Goes, Backup!shelf
  <2>6. CASE Backup!SkipRetention \/ Backup!Stop
    BY <2>0, <2>6, BackupsStay DEF Backup!SkipRetention, Backup!Stop, Backup!Goes, Backup!shelf
  <2> QED
    BY <2>1, <2>2, <2>3, <2>4, <2>5, <2>6, BackupMoved, BackupsRetained DEF OnBackup
<1>3. BackupInv => PeriodsKeepTheirLast
  BY DEF BackupInv
<1> QED
  BY <1>1, <1>2, <1>3, PTL DEF SpecAll

==============================================================================
