-------------------------- MODULE SideEffects_proofs --------------------------
(***************************************************************************)
(* What holds of the outbox for any number of events, workers, attempts    *)
(* and crashes, of attachments for any number of files, orders and         *)
(* requests, and of photos for any number of rows, photos and requests:    *)
(* every post is counted, the outbox keeps the safety part of its          *)
(* contract, every object is accounted for, saved files stay, and a photo  *)
(* in use is in its bucket.                                                *)
(***************************************************************************)
EXTENDS SideEffects, PhotoBuckets, SequenceTheorems, TLAPS

-----------------------------------------------------------------------------
(* The outbox *)

InTodo(w, e) == \E i \in txn[w].todo : log[i] = e

LogIsDistinct == \A i, j \in DOMAIN log : log[i] = log[j] => i = j

\* What a worker has in its hands: rows of the log that nobody else has.
HoldsItsOwn ==
  /\ \A w \in Worker : \A i \in txn[w].todo : i \in DOMAIN log /\ log[i] \in Held(w)
  /\ \A w \in Worker : \A e \in Held(w) : \E i \in DOMAIN log : log[i] = e
  /\ \A w, v \in Worker : w # v => Held(w) \cap Held(v) = {}

\* An open row has an attempt left.
OpenRow(r) == r.status = "pending" /\ r.attempts < MaxAttempts

RowsHaveAttempts == \A e \in Event : row[e].status = "pending" => OpenRow(row[e])

\* A row in a transaction: as committed until it is posted, and then with one
\* attempt more and what came of it.
RowsInHand ==
  \A w \in Worker : \A e \in Held(w) :
    LET r == txn[w].mine[e]
    IN  /\ row[e].status = "pending"
        /\ InTodo(w, e) => OpenRow(r) /\ r.attempts = row[e].attempts
        /\ ~InTodo(w, e) => r.attempts = row[e].attempts + 1
        /\ r.status = "pending" => OpenRow(r)
        /\ r.status = "delivered" => e \in taken

OutboxInv == TypeOK /\ LogIsDistinct /\ HoldsItsOwn /\ RowsHaveAttempts /\ RowsInHand /\ PostsAreCounted

LEMMA InHand ==
  ASSUME TypeOK, NEW w \in Worker
  PROVE  /\ txn[w] \in Txn /\ txn[w].todo \subseteq Nat
         /\ Held(w) \subseteq Event /\ txn[w].mine \in [Held(w) -> Row]
<1>1. txn[w] \in Txn
  BY DEF TypeOK
<1>2. txn[w].todo \subseteq Nat /\ txn[w].mine \in UNION {[S -> Row] : S \in SUBSET Event}
  BY <1>1 DEF Txn
<1>3. PICK S \in SUBSET Event : txn[w].mine \in [S -> Row]
  BY <1>2
<1>4. Held(w) = S
  BY <1>3 DEF Held
<1> QED  BY <1>1, <1>2, <1>3, <1>4

LEMMA NothingInHand ==
  /\ NoTxn \in Txn /\ NoTxn.todo = {} /\ DOMAIN NoTxn.mine = {}
<1>1. [e \in {} |-> NewRow] \in [{} -> Row]
  OBVIOUS
<1>2. [e \in {} |-> NewRow] \in UNION {[S -> Row] : S \in SUBSET Event}
  BY <1>1
<1> QED  BY <1>2 DEF NoTxn, Txn

LEMMA Waits ==
  /\ \A n \in Delay : n \in Wait /\ n \in Nat
  /\ \A n \in Wait : n \in Nat /\ (n > 0 => n - 1 \in Wait)
<1>1. Delay \subseteq Nat
  <2>1. \A i \in DOMAIN RetryDelays : RetryDelays[i] \in Nat
    BY DelayAssumption, ElementOfSeq, LenProperties
  <2>2. {RetryDelays[i] : i \in DOMAIN RetryDelays} \subseteq Nat
    BY <2>1
  <2>3. RetryAfter \subseteq Nat
    BY DelayAssumption
  <2> QED  BY <2>2, <2>3, {0} \subseteq Nat, Zenon DEF Delay
<1>2. \A n \in Delay : n \in 0 .. n
  BY <1>1
<1>3. ASSUME NEW n \in Wait
      PROVE  n \in Nat /\ (n > 0 => n - 1 \in Wait)
  <2>1. PICK d \in Delay : n \in 0 .. d
    BY DEF Wait
  <2>2. n \in Nat /\ (n > 0 => n - 1 \in 0 .. d)
    BY <1>1, <2>1
  <2> QED  BY <2>2 DEF Wait
<1> QED  BY <1>1, <1>2, <1>3 DEF Wait

\* What is scheduled again is open, or dead when there is no delay or no attempt
\* left.
LEMMA Scheduled ==
  ASSUME NEW r \in Row, r.attempts >= 1, r.status = "pending",
         NEW delay \in RetryAfter \cup {NextDelay(r.attempts)}
  PROVE  /\ ScheduleRetry(r, delay) \in Row
         /\ ScheduleRetry(r, delay).attempts = r.attempts
         /\ ScheduleRetry(r, delay).status # "delivered"
         /\ ScheduleRetry(r, delay).status = "pending" => OpenRow(ScheduleRetry(r, delay))
<1>1. r.attempts \in Nat /\ r.attempts \in 0 .. MaxAttempts /\ r.wait \in Wait
  BY SizeAssumption DEF Row
<1>2. delay = -1 \/ delay \in Delay
  <2>1. CASE delay \in RetryAfter
    BY <2>1 DEF Delay
  <2>2. CASE delay = NextDelay(r.attempts) /\ r.attempts <= Len(RetryDelays)
    <3>1. r.attempts \in DOMAIN RetryDelays
      BY <1>1, <2>2, DelayAssumption, LenProperties
    <3> QED  BY <1>1, <2>2, <3>1 DEF NextDelay, Delay
  <2>3. CASE delay = NextDelay(r.attempts) /\ ~(r.attempts <= Len(RetryDelays))
    BY <1>1, <2>3, DelayAssumption, LenProperties DEF NextDelay
  <2> QED  BY <2>1, <2>2, <2>3
<1>3. CASE delay = -1 \/ r.attempts >= MaxAttempts
  BY <1>1, <1>3 DEF ScheduleRetry, Row, Status
<1>4. CASE ~(delay = -1 \/ r.attempts >= MaxAttempts)
  <2>1. delay \in Wait
    BY <1>2, <1>4, Waits
  <2>2. ScheduleRetry(r, delay) = [r EXCEPT !.status = "pending", !.wait = delay]
    BY <1>4 DEF ScheduleRetry
  <2>3. [r EXCEPT !.status = "pending", !.wait = delay] \in Row
    BY <2>1 DEF Row, Status
  <2>4. r.attempts < MaxAttempts
    BY <1>1, <1>4, SizeAssumption
  <2> QED  BY <2>2, <2>3, <2>4 DEF OpenRow, Row
<1> QED  BY <1>3, <1>4

\* What posting an event does.
LEMMA Posted ==
  ASSUME OutboxInv, NEW w \in Worker, NEW i \in txn[w].todo, PostOne(w, i)
  PROVE  /\ i \in DOMAIN log /\ log[i] \in Held(w) /\ log[i] \in Event
         /\ taken \subseteq taken' /\ taken' \subseteq taken \cup {log[i]}
         /\ \E left \in Row :
              /\ txn' = [txn EXCEPT ![w] = [todo |-> txn[w].todo \ {i},
                                            mine |-> [txn[w].mine EXCEPT ![log[i]] = left]]]
              /\ left.attempts = txn[w].mine[log[i]].attempts + 1
              /\ left.status = "pending" => OpenRow(left)
              /\ left.status = "delivered" => log[i] \in taken'
<1> DEFINE e == log[i]
           r == [txn[w].mine[e] EXCEPT !.attempts = @ + 1]
<1>1. i \in DOMAIN log /\ e \in Held(w)
  BY DEF OutboxInv, HoldsItsOwn
<1>2. e \in Event /\ txn[w].mine[e] \in Row
  BY <1>1, InHand DEF OutboxInv
<1>3. OpenRow(txn[w].mine[e])
  BY <1>1 DEF OutboxInv, RowsInHand, InTodo
<1>4. /\ r \in Row /\ r.status = "pending" /\ r.attempts = txn[w].mine[e].attempts + 1
      /\ r.attempts >= 1
  BY <1>2, <1>3, SizeAssumption DEF Row, OpenRow
<1>5. PICK left \in Accepted(r) \cup Refused(r) \cup Unavailable(r) \cup Unanswered(r) :
        /\ \/ left \in Accepted(r) /\ taken' = taken \cup {e}
           \/ left \in Refused(r) \cup Unavailable(r) /\ taken' = taken
           \/ left \in Unanswered(r) /\ taken' \in {taken, taken \cup {e}}
        /\ txn' = [txn EXCEPT ![w] = [todo |-> @.todo \ {i}, mine |-> [@.mine EXCEPT ![e] = left]]]
  BY DEF PostOne
<1> HIDE DEF r
<1>6. /\ left \in Row /\ left.attempts = r.attempts
      /\ left.status = "pending" => OpenRow(left)
      /\ left.status = "delivered" => e \in taken'
  <2>1. CASE left \in Accepted(r) /\ taken' = taken \cup {e}
    BY <1>4, <2>1 DEF Accepted, Row, Status
  <2>2. CASE left \in Refused(r)
    BY <1>4, <2>2 DEF Refused, Row, Status
  <2>3. CASE left \in Unavailable(r) \cup Unanswered(r)
    <3>1. PICK n \in RetryAfter \cup {NextDelay(r.attempts)} : left = ScheduleRetry(r, n)
      BY <2>3 DEF Unavailable, Unanswered
    <3> QED  BY <1>4, <3>1, Scheduled
  <2> QED  BY <1>5, <2>1, <2>2, <2>3
<1>7. txn' = [txn EXCEPT ![w] = [todo |-> txn[w].todo \ {i},
                                 mine |-> [txn[w].mine EXCEPT ![e] = left]]]
  BY <1>5
<1> QED  BY <1>1, <1>2, <1>4, <1>5, <1>6, <1>7

LEMMA OutboxInit == Init => OutboxInv
<1> SUFFICES ASSUME Init
             PROVE  OutboxInv
  OBVIOUS
<1>1. NewRow \in Row /\ OpenRow(NewRow) /\ NewRow.attempts = 0
  <2>1. 0 \in Wait
    BY Waits DEF Delay
  <2> QED  BY <2>1, SizeAssumption DEF NewRow, Row, Status, OpenRow
<1>2. log \in Seq(Event) /\ DOMAIN log = {}
  BY DEF Init
<1>3. TypeOK
  BY <1>1, <1>2, NothingInHand, SizeAssumption DEF Init, TypeOK
<1>4. \A w \in Worker : txn[w].todo = {} /\ Held(w) = {}
  BY NothingInHand DEF Init, Held
<1>5. LogIsDistinct /\ HoldsItsOwn /\ RowsInHand
  BY <1>2, <1>4 DEF LogIsDistinct, HoldsItsOwn, RowsInHand
<1>6. RowsHaveAttempts /\ PostsAreCounted
  BY <1>1, <1>4, SizeAssumption DEF Init, RowsHaveAttempts, PostsAreCounted
<1> QED  BY <1>3, <1>5, <1>6 DEF OutboxInv

LEMMA TickKeeps ==
  ASSUME OutboxInv, Tick
  PROVE  OutboxInv'
<1>1. ASSUME NEW e \in Event
      PROVE  /\ row'[e] \in Row
             /\ row'[e].status = row[e].status /\ row'[e].attempts = row[e].attempts
  <2>1. row[e] \in Row
    BY DEF OutboxInv, TypeOK
  <2>2. row[e].wait \in Wait
    BY <2>1 DEF Row
  <2>3. (IF row[e].wait > 0 THEN row[e].wait - 1 ELSE 0) \in Wait
    <3>1. 0 \in Wait
      BY Waits DEF Delay
    <3> QED  BY <2>2, <3>1, Waits
  <2>4. row'[e] = [row[e] EXCEPT !.wait = IF row[e].wait > 0 THEN row[e].wait - 1 ELSE 0]
    BY <2>1 DEF Tick
  <2> QED  BY <2>1, <2>3, <2>4 DEF Row
<1>2. UNCHANGED <<log, txn, posts, taken, aborts>>
  BY DEF Tick
<1>3. /\ \A w \in Worker : Held(w)' = Held(w)
      /\ \A w \in Worker, e \in Event : InTodo(w, e)' <=> InTodo(w, e)
  BY <1>2 DEF Held, InTodo
<1>4. TypeOK'
  <2>1. row' \in [Event -> Row]
    BY <1>1 DEF Tick
  <2> QED  BY <1>2, <2>1 DEF OutboxInv, TypeOK
<1>5. LogIsDistinct' /\ HoldsItsOwn'
  BY <1>2, <1>3 DEF OutboxInv, LogIsDistinct, HoldsItsOwn
<1>6. RowsHaveAttempts'
  BY <1>1 DEF OutboxInv, RowsHaveAttempts, OpenRow
<1>7. RowsInHand'
  <2> SUFFICES ASSUME NEW w \in Worker, NEW e \in Held(w)
               PROVE  (LET r == txn[w].mine[e]
                       IN  /\ row[e].status = "pending"
                           /\ InTodo(w, e) => OpenRow(r) /\ r.attempts = row[e].attempts
                           /\ ~InTodo(w, e) => r.attempts = row[e].attempts + 1
                           /\ r.status = "pending" => OpenRow(r)
                           /\ r.status = "delivered" => e \in taken)'
    BY <1>3 DEF RowsInHand
  <2>1. e \in Event
    BY InHand DEF OutboxInv
  <2> QED  BY <1>1, <1>2, <1>3, <2>1 DEF OutboxInv, RowsInHand, OpenRow
<1>8. PostsAreCounted'
  BY <1>1, <1>2, <1>3 DEF OutboxInv, PostsAreCounted
<1> QED  BY <1>4, <1>5, <1>6, <1>7, <1>8 DEF OutboxInv

LEMMA EnqueueKeeps ==
  ASSUME OutboxInv, NEW f \in Event, EnqueueEvent(f)
  PROVE  OutboxInv'
<1>1. UNCHANGED <<row, txn, posts, taken, aborts>> /\ f \notin ToSet(log)
  BY DEF EnqueueEvent
<1>2. log \in Seq(Event) /\ DOMAIN log = 1 .. Len(log) /\ Len(log) \in Nat
  BY LenProperties DEF OutboxInv, TypeOK
<1>3. /\ log' \in Seq(Event) /\ DOMAIN log' = 1 .. Len(log) + 1
      /\ \A i \in DOMAIN log : log'[i] = log[i]
      /\ log'[Len(log) + 1] = f
  BY <1>2, AppendProperties, LenProperties DEF EnqueueEvent
<1>4. \A i \in DOMAIN log : log[i] # f
  BY <1>1 DEF ToSet
<1>5. TypeOK'
  BY <1>1, <1>3 DEF OutboxInv, TypeOK
<1>6. LogIsDistinct'
  <2> SUFFICES ASSUME NEW i \in DOMAIN log', NEW j \in DOMAIN log', log'[i] = log'[j]
               PROVE  i = j
    BY DEF LogIsDistinct
  <2>1. i \in DOMAIN log \/ i = Len(log) + 1
    BY <1>2, <1>3
  <2>2. j \in DOMAIN log \/ j = Len(log) + 1
    BY <1>2, <1>3
  <2> QED  BY <1>3, <1>4, <2>1, <2>2 DEF OutboxInv, LogIsDistinct
<1>7. \A w \in Worker : Held(w)' = Held(w)
  BY <1>1 DEF Held
<1>8. \A w \in Worker : \A i \in txn[w].todo : i \in DOMAIN log /\ i \in DOMAIN log' /\ log'[i] = log[i]
  BY <1>2, <1>3 DEF OutboxInv, HoldsItsOwn
<1>9. \A w \in Worker, e \in Event : InTodo(w, e)' <=> InTodo(w, e)
  BY <1>1, <1>8 DEF InTodo
<1>10. HoldsItsOwn'
  <2>1. \A w \in Worker : \A e \in Held(w) : \E i \in DOMAIN log' : log'[i] = e
    BY <1>2, <1>3 DEF OutboxInv, HoldsItsOwn
  <2> QED  BY <1>1, <1>7, <1>8, <2>1 DEF OutboxInv, HoldsItsOwn
<1>11. RowsHaveAttempts' /\ PostsAreCounted'
  BY <1>1, <1>7 DEF OutboxInv, RowsHaveAttempts, PostsAreCounted
<1>12. RowsInHand'
  <2> SUFFICES ASSUME NEW w \in Worker, NEW e \in Held(w)
               PROVE  (LET r == txn[w].mine[e]
                       IN  /\ row[e].status = "pending"
                           /\ InTodo(w, e) => OpenRow(r) /\ r.attempts = row[e].attempts
                           /\ ~InTodo(w, e) => r.attempts = row[e].attempts + 1
                           /\ r.status = "pending" => OpenRow(r)
                           /\ r.status = "delivered" => e \in taken)'
    BY <1>7 DEF RowsInHand
  <2>1. e \in Event
    BY InHand DEF OutboxInv
  <2> QED  BY <1>1, <1>9, <2>1 DEF OutboxInv, RowsInHand
<1> QED  BY <1>5, <1>6, <1>10, <1>11, <1>12 DEF OutboxInv

LEMMA ClaimKeeps ==
  ASSUME OutboxInv, NEW w \in Worker, Claim(w)
  PROVE  OutboxInv'
<1> DEFINE H == {log[i] : i \in Batch}
           c == [todo |-> Batch, mine |-> [e \in H |-> row[e]]]
<1>1. UNCHANGED <<log, row, posts, taken, aborts>> /\ txn' = [txn EXCEPT ![w] = c]
  BY DEF Claim
<1>2. Held(w) = {}
  BY NothingInHand DEF Claim, Held
<1>3. \A i \in Batch : /\ i \in DOMAIN log /\ i \in Nat /\ log[i] \in Event
                       /\ Due(log[i]) /\ Free(log[i])
  <2>1. \A i \in DOMAIN log : i \in Nat /\ log[i] \in Event
    BY LenProperties, ElementOfSeq DEF OutboxInv, TypeOK
  <2> QED  BY <2>1 DEF Batch, Ready
<1>4. H \subseteq Event
  BY <1>3
<1>5. c \in Txn /\ c.todo = Batch /\ c.mine = [e \in H |-> row[e]] /\ DOMAIN c.mine = H
  <2>1. [e \in H |-> row[e]] \in [H -> Row]
    BY <1>4 DEF OutboxInv, TypeOK
  <2>2. [e \in H |-> row[e]] \in UNION {[S -> Row] : S \in SUBSET Event}
    BY <1>4, <2>1
  <2>3. Batch \in SUBSET Nat
    BY <1>3
  <2> HIDE DEF H
  <2> QED  BY <2>2, <2>3 DEF Txn
<1> HIDE DEF c
<1>6. txn' \in [Worker -> Txn] /\ txn'[w] = c /\ \A v \in Worker \ {w} : txn'[v] = txn[v]
  BY <1>1, <1>5 DEF OutboxInv, TypeOK
<1>7. /\ Held(w)' = H /\ \A v \in Worker \ {w} : Held(v)' = Held(v)
  BY <1>5, <1>6 DEF Held
<1>8. \A v \in Worker \ {w} : \A e \in H : e \notin Held(v)
  BY <1>3 DEF Free
<1>9. TypeOK' /\ LogIsDistinct' /\ RowsHaveAttempts'
  BY <1>1, <1>6 DEF OutboxInv, TypeOK, LogIsDistinct, RowsHaveAttempts
<1>10. HoldsItsOwn'
  <2>1. ASSUME NEW v \in Worker
        PROVE  /\ \A i \in txn'[v].todo : i \in DOMAIN log /\ log[i] \in Held(v)'
               /\ \A e \in Held(v)' : \E i \in DOMAIN log : log[i] = e
    <3>1. CASE v = w
      BY <1>3, <1>5, <1>6, <1>7, <3>1
    <3>2. CASE v # w
      BY <1>6, <1>7, <3>2 DEF OutboxInv, HoldsItsOwn
    <3> QED  BY <3>1, <3>2
  <2>2. \A v, u \in Worker : v # u => Held(v)' \cap Held(u)' = {}
    BY <1>7, <1>8 DEF OutboxInv, HoldsItsOwn
  <2> QED  BY <1>1, <2>1, <2>2 DEF HoldsItsOwn
<1>11. RowsInHand'
  <2> SUFFICES ASSUME NEW v \in Worker, NEW e \in Held(v)'
               PROVE  (LET r == txn[v].mine[e]
                       IN  /\ row[e].status = "pending"
                           /\ InTodo(v, e) => OpenRow(r) /\ r.attempts = row[e].attempts
                           /\ ~InTodo(v, e) => r.attempts = row[e].attempts + 1
                           /\ r.status = "pending" => OpenRow(r)
                           /\ r.status = "delivered" => e \in taken)'
    BY DEF RowsInHand
  <2>1. CASE v # w
    <3>1. InTodo(v, e)' <=> InTodo(v, e)
      BY <1>1, <1>6, <2>1 DEF InTodo
    <3> QED  BY <1>1, <1>6, <1>7, <2>1, <3>1 DEF OutboxInv, RowsInHand
  <2>2. CASE v = w
    <3>1. PICK i \in Batch : e = log[i]
      BY <1>7, <2>2
    <3>2. InTodo(v, e)' /\ txn'[v].mine[e] = row[e]
      BY <1>1, <1>5, <1>6, <1>7, <2>2, <3>1 DEF InTodo
    <3>3. row[e].status = "pending" /\ OpenRow(row[e])
      BY <1>3, <3>1 DEF OutboxInv, RowsHaveAttempts, Due
    <3> QED  BY <1>1, <3>2, <3>3
  <2> QED  BY <2>1, <2>2
<1>12. PostsAreCounted'
  <2> SUFFICES ASSUME NEW e \in Event
               PROVE  (/\ (\A v \in Worker : e \notin Held(v)) => posts[e] <= row[e].attempts + aborts
                       /\ \A v \in Worker : e \in Held(v) => posts[e] <= txn[v].mine[e].attempts + aborts)'
    BY DEF PostsAreCounted
  <2>1. CASE e \in H
    <3>1. \A v \in Worker : e \notin Held(v)
      BY <1>2, <1>8, <2>1
    <3>2. posts[e] <= row[e].attempts + aborts
      BY <3>1 DEF OutboxInv, PostsAreCounted
    <3>3. txn'[w].mine[e] = row[e]
      BY <1>5, <1>6, <2>1
    <3> QED  BY <1>1, <1>7, <1>8, <2>1, <3>2, <3>3
  <2>2. CASE e \notin H
    BY <1>1, <1>2, <1>6, <1>7, <2>2 DEF OutboxInv, PostsAreCounted
  <2> QED  BY <2>1, <2>2
<1> QED  BY <1>9, <1>10, <1>11, <1>12 DEF OutboxInv

LEMMA PostKeeps ==
  ASSUME OutboxInv, NEW w \in Worker, NEW i \in txn[w].todo, PostOne(w, i)
  PROVE  OutboxInv'
<1>e. PICK e \in Event : e = log[i]
  BY Posted
<1>1. UNCHANGED <<log, row, aborts>> /\ posts' = [posts EXCEPT ![e] = @ + 1]
  BY <1>e DEF PostOne, Posts
<1>2. /\ i \in DOMAIN log /\ e \in Held(w) /\ e \in Event
      /\ taken \subseteq taken' /\ taken' \subseteq taken \cup {e}
  BY <1>e, Posted
<1>3. PICK left \in Row :
        /\ txn' = [txn EXCEPT ![w] = [todo |-> txn[w].todo \ {i},
                                      mine |-> [txn[w].mine EXCEPT ![e] = left]]]
        /\ left.attempts = txn[w].mine[e].attempts + 1
        /\ left.status = "pending" => OpenRow(left)
        /\ left.status = "delivered" => e \in taken'
  BY <1>e, Posted
<1> DEFINE m == [txn[w].mine EXCEPT ![e] = left]
           c == [todo |-> txn[w].todo \ {i}, mine |-> m]
<1>4. m \in [Held(w) -> Row] /\ m[e] = left /\ \A f \in Held(w) \ {e} : m[f] = txn[w].mine[f]
  BY <1>2, InHand DEF OutboxInv
<1>5. c \in Txn /\ c.todo = txn[w].todo \ {i} /\ c.mine = m
  <2>1. Held(w) \subseteq Event /\ txn[w].todo \ {i} \in SUBSET Nat
    BY InHand DEF OutboxInv
  <2>2. m \in UNION {[S -> Row] : S \in SUBSET Event}
    BY <1>4, <2>1
  <2> HIDE DEF m
  <2> QED  BY <2>1, <2>2 DEF Txn
<1>6. txn' = [txn EXCEPT ![w] = c]
  BY <1>3
<1> HIDE DEF c, m
<1>7. txn' \in [Worker -> Txn] /\ txn'[w] = c /\ \A v \in Worker \ {w} : txn'[v] = txn[v]
  BY <1>5, <1>6 DEF OutboxInv, TypeOK
<1>8. \A v \in Worker : Held(v)' = Held(v)
  <2>1. DOMAIN m = Held(w)
    BY <1>4
  <2> QED  BY <1>5, <1>7, <2>1 DEF Held
<1>9. \A v \in Worker \ {w} : e \notin Held(v)
  BY <1>2 DEF OutboxInv, HoldsItsOwn
<1>10. /\ ~InTodo(w, e)'
       /\ \A v \in Worker, f \in Event : v # w \/ f # e => (InTodo(v, f)' <=> InTodo(v, f))
  <2>1. \A j \in txn[w].todo : log[j] = e => j = i
    BY <1>e, <1>2 DEF OutboxInv, HoldsItsOwn, LogIsDistinct
  <2>2. ~InTodo(w, e)'
    BY <1>1, <1>5, <1>7, <2>1 DEF InTodo
  <2>3. ASSUME NEW f \in Event, f # e
        PROVE  InTodo(w, f)' <=> InTodo(w, f)
    BY <1>e, <1>1, <1>5, <1>7, <2>3 DEF InTodo
  <2>4. ASSUME NEW f \in Event, NEW v \in Worker, v # w
        PROVE  InTodo(v, f)' <=> InTodo(v, f)
    BY <1>1, <1>7, <2>4 DEF InTodo
  <2> QED  BY <2>2, <2>3, <2>4
<1>11. posts' \in [Event -> Nat] /\ posts'[e] = posts[e] + 1 /\ \A f \in Event \ {e} : posts'[f] = posts[f]
  BY <1>1, <1>2 DEF OutboxInv, TypeOK
<1>12. TypeOK' /\ LogIsDistinct' /\ RowsHaveAttempts'
  BY <1>1, <1>2, <1>7, <1>11 DEF OutboxInv, TypeOK, LogIsDistinct, RowsHaveAttempts
<1>13. HoldsItsOwn'
  <2>1. \A v \in Worker : txn'[v].todo \subseteq txn[v].todo
    BY <1>5, <1>7
  <2> QED  BY <1>1, <1>8, <2>1 DEF OutboxInv, HoldsItsOwn
<1>14. RowsInHand'
  <2> SUFFICES ASSUME NEW v \in Worker, NEW f \in Held(v)
               PROVE  (LET r == txn[v].mine[f]
                       IN  /\ row[f].status = "pending"
                           /\ InTodo(v, f) => OpenRow(r) /\ r.attempts = row[f].attempts
                           /\ ~InTodo(v, f) => r.attempts = row[f].attempts + 1
                           /\ r.status = "pending" => OpenRow(r)
                           /\ r.status = "delivered" => f \in taken)'
    BY <1>8 DEF RowsInHand
  <2>1. f \in Event
    BY InHand DEF OutboxInv
  <2>2. CASE v # w \/ f # e
    <3>1. txn'[v].mine[f] = txn[v].mine[f]
      BY <1>4, <1>5, <1>7, <2>2
    <3> QED  BY <1>1, <1>2, <1>10, <2>1, <2>2, <3>1 DEF OutboxInv, RowsInHand
  <2>3. CASE v = w /\ f = e
    <3>1. txn'[v].mine[f] = left
      BY <1>4, <1>5, <1>7, <2>3
    <3>2. InTodo(v, f)
      BY <1>e, <2>3 DEF InTodo
    <3> QED  BY <1>1, <1>3, <1>10, <2>3, <3>1, <3>2 DEF OutboxInv, RowsInHand
  <2> QED  BY <2>2, <2>3
<1>15. PostsAreCounted'
  <2> SUFFICES ASSUME NEW f \in Event
               PROVE  (/\ (\A v \in Worker : f \notin Held(v)) => posts[f] <= row[f].attempts + aborts
                       /\ \A v \in Worker : f \in Held(v) => posts[f] <= txn[v].mine[f].attempts + aborts)'
    BY DEF PostsAreCounted
  <2>1. CASE f = e
    <3>1. posts[e] <= txn[w].mine[e].attempts + aborts
      BY <1>2 DEF OutboxInv, PostsAreCounted
    <3>2. txn'[w].mine[e] = left
      BY <1>4, <1>5, <1>7
    <3>3. posts[e] \in Nat /\ txn[w].mine[e].attempts \in Nat /\ aborts \in Nat
      <4>1. txn[w].mine[e] \in Row
        BY <1>2, InHand DEF OutboxInv
      <4> QED  BY <1>2, <4>1, SizeAssumption DEF OutboxInv, TypeOK, Row
    <3> QED  BY <1>1, <1>2, <1>3, <1>8, <1>9, <1>11, <2>1, <3>1, <3>2, <3>3
  <2>2. CASE f # e
    <3>1. \A v \in Worker : f \in Held(v) => txn'[v].mine[f] = txn[v].mine[f]
      BY <1>4, <1>5, <1>7, <2>2
    <3> QED  BY <1>1, <1>8, <1>11, <2>2, <3>1 DEF OutboxInv, PostsAreCounted
  <2> QED  BY <2>1, <2>2
<1> QED  BY <1>12, <1>13, <1>14, <1>15 DEF OutboxInv

\* A transaction that ends, for good or not, frees what it held.
LEMMA Freed ==
  ASSUME TypeOK, NEW w \in Worker, txn' = [txn EXCEPT ![w] = NoTxn]
  PROVE  /\ txn' \in [Worker -> Txn]
         /\ txn'[w].todo = {} /\ Held(w)' = {}
         /\ \A v \in Worker \ {w} : txn'[v] = txn[v] /\ Held(v)' = Held(v)
<1>1. txn' \in [Worker -> Txn] /\ txn'[w] = NoTxn /\ \A v \in Worker \ {w} : txn'[v] = txn[v]
  BY NothingInHand DEF TypeOK
<1> QED  BY <1>1, NothingInHand DEF Held

LEMMA CommitKeeps ==
  ASSUME OutboxInv, NEW w \in Worker, Commit(w)
  PROVE  OutboxInv'
<1>1. /\ UNCHANGED <<log, posts, taken, aborts>>
      /\ row' = [e \in Event |-> IF e \in Held(w) THEN txn[w].mine[e] ELSE row[e]]
      /\ txn' = [txn EXCEPT ![w] = NoTxn]
      /\ txn[w].todo = {}
  BY DEF Commit
<1>2. TypeOK
  BY DEF OutboxInv
<1>3. /\ txn' \in [Worker -> Txn]
      /\ txn'[w].todo = {} /\ Held(w)' = {}
      /\ \A v \in Worker \ {w} : txn'[v] = txn[v] /\ Held(v)' = Held(v)
  BY <1>1, <1>2, Freed
<1>4. /\ \A e \in Held(w) : e \in Event /\ row'[e] = txn[w].mine[e] /\ txn[w].mine[e] \in Row
      /\ \A e \in Event \ Held(w) : row'[e] = row[e]
  BY <1>1, <1>2, InHand
<1>5. TypeOK'
  <2>1. row' \in [Event -> Row]
    BY <1>1, <1>2, <1>4 DEF TypeOK
  <2> QED  BY <1>1, <1>2, <1>3, <2>1 DEF TypeOK
<1>6. LogIsDistinct' /\ HoldsItsOwn'
  <2>1. \A v \in Worker : txn'[v].todo \subseteq txn[v].todo /\ Held(v)' \subseteq Held(v)
    BY <1>3
  <2>2. \A v \in Worker : \A i \in txn'[v].todo : log[i] \in Held(v)'
    BY <1>3 DEF OutboxInv, HoldsItsOwn
  <2> QED  BY <1>1, <2>1, <2>2 DEF OutboxInv, LogIsDistinct, HoldsItsOwn
<1>7. RowsHaveAttempts'
  <2> SUFFICES ASSUME NEW e \in Event, row'[e].status = "pending"
               PROVE  OpenRow(row'[e])
    BY DEF RowsHaveAttempts, OpenRow
  <2>1. CASE e \in Held(w)
    BY <1>4, <2>1 DEF OutboxInv, RowsInHand
  <2>2. CASE e \notin Held(w)
    BY <1>4, <2>2 DEF OutboxInv, RowsHaveAttempts
  <2> QED  BY <2>1, <2>2
<1>8. RowsInHand'
  <2> SUFFICES ASSUME NEW v \in Worker, NEW e \in Held(v)'
               PROVE  (LET r == txn[v].mine[e]
                       IN  /\ row[e].status = "pending"
                           /\ InTodo(v, e) => OpenRow(r) /\ r.attempts = row[e].attempts
                           /\ ~InTodo(v, e) => r.attempts = row[e].attempts + 1
                           /\ r.status = "pending" => OpenRow(r)
                           /\ r.status = "delivered" => e \in taken)'
    BY DEF RowsInHand
  <2>1. v # w /\ e \in Held(v) /\ e \notin Held(w) /\ e \in Event
    BY <1>2, <1>3, InHand DEF OutboxInv, HoldsItsOwn
  <2>2. InTodo(v, e)' <=> InTodo(v, e)
    BY <1>1, <1>3, <2>1 DEF InTodo
  <2> QED  BY <1>1, <1>3, <1>4, <2>1, <2>2 DEF OutboxInv, RowsInHand
<1>9. PostsAreCounted'
  <2> SUFFICES ASSUME NEW e \in Event
               PROVE  (/\ (\A v \in Worker : e \notin Held(v)) => posts[e] <= row[e].attempts + aborts
                       /\ \A v \in Worker : e \in Held(v) => posts[e] <= txn[v].mine[e].attempts + aborts)'
    BY DEF PostsAreCounted
  <2>1. CASE e \in Held(w)
    <3>1. \A v \in Worker : e \notin Held(v)'
      BY <1>3, <2>1 DEF OutboxInv, HoldsItsOwn
    <3> QED  BY <1>1, <1>4, <2>1, <3>1 DEF OutboxInv, PostsAreCounted
  <2>2. CASE e \notin Held(w)
    BY <1>1, <1>3, <1>4, <2>2 DEF OutboxInv, PostsAreCounted
  <2> QED  BY <2>1, <2>2
<1> QED  BY <1>5, <1>6, <1>7, <1>8, <1>9 DEF OutboxInv

LEMMA AbortKeeps ==
  ASSUME OutboxInv, NEW w \in Worker, Abort(w)
  PROVE  OutboxInv'
<1>1. /\ UNCHANGED <<log, row>> /\ aborts < MaxAborts /\ aborts' = aborts + 1
      /\ txn' = [txn EXCEPT ![w] = NoTxn]
  BY DEF Abort
<1>2. TypeOK
  BY DEF OutboxInv
<1>3. /\ txn' \in [Worker -> Txn]
      /\ txn'[w].todo = {} /\ Held(w)' = {}
      /\ \A v \in Worker \ {w} : txn'[v] = txn[v] /\ Held(v)' = Held(v)
  BY <1>1, <1>2, Freed
<1>4. /\ aborts \in Nat /\ aborts' \in 0 .. MaxAborts
      /\ \A e \in Event : posts[e] \in Nat /\ row[e].attempts \in Nat
  <2>1. aborts \in Nat /\ aborts' \in 0 .. MaxAborts
    BY <1>1, <1>2, SizeAssumption DEF TypeOK
  <2>2. \A e \in Event : posts[e] \in Nat /\ row[e] \in Row
    BY <1>2 DEF TypeOK
  <2> QED  BY <2>1, <2>2, SizeAssumption DEF Row
<1>5. /\ posts' \in [Event -> Nat] /\ taken \subseteq taken' /\ taken' \subseteq Event
      /\ \A e \in Event : posts'[e] = posts[e] \/ (posts'[e] = posts[e] + 1 /\ InTodo(w, e))
  <2>1. CASE UNCHANGED <<posts, taken>>
    BY <1>2, <2>1 DEF TypeOK
  <2>2. CASE ~UNCHANGED <<posts, taken>>
    <3>1. PICK i \in txn[w].todo : Posts(log[i]) /\ taken' \in {taken, taken \cup {log[i]}}
      BY <2>2 DEF Abort
    <3>2. log[i] \in Event /\ InTodo(w, log[i])
      BY <1>2, InHand DEF OutboxInv, HoldsItsOwn, InTodo
    <3> QED  BY <1>2, <3>1, <3>2 DEF TypeOK, Posts
  <2> QED  BY <2>1, <2>2
<1>6. TypeOK'
  BY <1>1, <1>2, <1>3, <1>4, <1>5 DEF TypeOK
<1>7. LogIsDistinct' /\ HoldsItsOwn'
  <2>1. \A v \in Worker : txn'[v].todo \subseteq txn[v].todo /\ Held(v)' \subseteq Held(v)
    BY <1>3
  <2>2. \A v \in Worker : \A i \in txn'[v].todo : log[i] \in Held(v)'
    BY <1>3 DEF OutboxInv, HoldsItsOwn
  <2> QED  BY <1>1, <2>1, <2>2 DEF OutboxInv, LogIsDistinct, HoldsItsOwn
<1>8. RowsHaveAttempts'
  BY <1>1 DEF OutboxInv, RowsHaveAttempts
<1>9. RowsInHand'
  <2> SUFFICES ASSUME NEW v \in Worker, NEW e \in Held(v)'
               PROVE  (LET r == txn[v].mine[e]
                       IN  /\ row[e].status = "pending"
                           /\ InTodo(v, e) => OpenRow(r) /\ r.attempts = row[e].attempts
                           /\ ~InTodo(v, e) => r.attempts = row[e].attempts + 1
                           /\ r.status = "pending" => OpenRow(r)
                           /\ r.status = "delivered" => e \in taken)'
    BY DEF RowsInHand
  <2>1. v # w /\ e \in Held(v) /\ e \in Event
    BY <1>2, <1>3, InHand
  <2>2. InTodo(v, e)' <=> InTodo(v, e)
    BY <1>1, <1>3, <2>1 DEF InTodo
  <2> QED  BY <1>1, <1>3, <1>5, <2>1, <2>2 DEF OutboxInv, RowsInHand
<1>10. PostsAreCounted'
  <2> SUFFICES ASSUME NEW e \in Event
               PROVE  (/\ (\A v \in Worker : e \notin Held(v)) => posts[e] <= row[e].attempts + aborts
                       /\ \A v \in Worker : e \in Held(v) => posts[e] <= txn[v].mine[e].attempts + aborts)'
    BY DEF PostsAreCounted
  <2>1. CASE e \in Held(w)
    <3>1. \A v \in Worker : e \notin Held(v)'
      BY <1>3, <2>1 DEF OutboxInv, HoldsItsOwn
    <3>2. posts[e] <= txn[w].mine[e].attempts + aborts
      BY <2>1 DEF OutboxInv, PostsAreCounted
    <3>3. CASE InTodo(w, e)
      <4>1. txn[w].mine[e].attempts = row[e].attempts
        BY <2>1, <3>3 DEF OutboxInv, RowsInHand
      <4> QED  BY <1>1, <1>4, <1>5, <3>1, <3>2, <4>1
    <3>4. CASE ~InTodo(w, e)
      <4>1. txn[w].mine[e].attempts = row[e].attempts + 1
        BY <2>1, <3>4 DEF OutboxInv, RowsInHand
      <4> QED  BY <1>1, <1>4, <1>5, <3>1, <3>2, <3>4, <4>1
    <3> QED  BY <3>3, <3>4
  <2>2. CASE e \notin Held(w)
    <3>1. posts'[e] = posts[e]
      <4>1. ~InTodo(w, e)
        BY <2>2 DEF OutboxInv, HoldsItsOwn, InTodo
      <4> QED  BY <1>5, <4>1
    <3>2. (\A v \in Worker : e \notin Held(v)') => posts'[e] <= row'[e].attempts + aborts'
      BY <1>1, <1>3, <1>4, <2>2, <3>1 DEF OutboxInv, PostsAreCounted
    <3>3. ASSUME NEW v \in Worker, e \in Held(v)'
          PROVE  posts'[e] <= txn'[v].mine[e].attempts + aborts'
      <4>1. e \in Held(v) /\ txn'[v] = txn[v]
        BY <1>3, <3>3
      <4>2. posts[e] <= txn[v].mine[e].attempts + aborts
        BY <4>1 DEF OutboxInv, PostsAreCounted
      <4>3. txn[v].mine[e] \in Row
        BY <1>2, <4>1, InHand
      <4>4. txn[v].mine[e].attempts \in Nat
        BY <4>3, SizeAssumption DEF Row
      <4> QED  BY <1>1, <1>4, <3>1, <4>1, <4>2, <4>4
    <3> QED  BY <3>2, <3>3
  <2> QED  BY <2>1, <2>2
<1> QED  BY <1>6, <1>7, <1>8, <1>9, <1>10 DEF OutboxInv

LEMMA OutboxStep == OutboxInv /\ [Next]_vars => OutboxInv'
<1> SUFFICES ASSUME OutboxInv, [Next]_vars
             PROVE  OutboxInv'
  OBVIOUS
<1>1. ASSUME NEW w \in Worker, WorkerStep(w) \/ Abort(w)
      PROVE  OutboxInv'
  BY <1>1, ClaimKeeps, PostKeeps, CommitKeeps, AbortKeeps DEF WorkerStep, DeliverOne
<1>2. CASE UNCHANGED vars
  BY <1>2 DEF vars, OutboxInv, TypeOK, LogIsDistinct, HoldsItsOwn, Held, RowsHaveAttempts, OpenRow,
              RowsInHand, InTodo, PostsAreCounted
<1> QED  BY <1>1, <1>2, TickKeeps, EnqueueKeeps DEF Next

LEMMA OutboxAlways == Spec => []OutboxInv
  BY OutboxInit, OutboxStep, PTL DEF Spec

\* Every post is counted in the row, or being made, or went with a transaction
\* that was taken back, for any number of workers, events and attempts.
THEOREM PostsAreAlwaysCounted == Spec => []PostsAreCounted
<1>1. OutboxInv => PostsAreCounted
  BY DEF OutboxInv
<1> QED  BY <1>1, OutboxAlways, PTL

\* What the contract sees of the rows.
Outcomes == [e \in Event |-> IF row[e].status = "pending" THEN "open" ELSE row[e].status]

LEMMA EventsInLog ==
  ASSUME OutboxInv, NEW w \in Worker, NEW e \in Held(w)
  PROVE  e \in ToSet(log) /\ e \in Event /\ Outcomes[e] = "open"
<1>1. e \in Event
  BY InHand DEF OutboxInv
<1>2. e \in ToSet(log)
  BY DEF OutboxInv, HoldsItsOwn, ToSet
<1>3. row[e].status = "pending"
  BY DEF OutboxInv, RowsInHand
<1> QED  BY <1>1, <1>2, <1>3 DEF Outcomes

LEMMA ContractStep ==
  ASSUME OutboxInv, [Next]_vars
  PROVE  [Contract!Next]_Contract!vars
<1> USE DEF Contract!Next, Contract!vars
<1>a. ASSUME UNCHANGED <<log, taken>>, \A e \in Event : row'[e].status = row[e].status
      PROVE  UNCHANGED Contract!vars
  <2>1. Outcomes' = Outcomes
    BY <1>a DEF Outcomes
  <2> QED  BY <1>a, <2>1 DEF Outcomes
<1>b. ASSUME NEW w \in Worker, NEW e \in Held(w), UNCHANGED <<log, row>>, taken' \in {taken, taken \cup {e}}
      PROVE  [Contract!Next]_Contract!vars
  <2>1. CASE taken' = taken
    BY <1>b, <1>a, <2>1
  <2>2. CASE taken' = taken \cup {e}
    <3>1. e \in ToSet(log) /\ e \in Event /\ Outcomes[e] = "open" /\ Outcomes' = Outcomes
      BY <1>b, EventsInLog DEF Outcomes
    <3>2. Contract!Take(e)
      BY <1>b, <2>2, <3>1 DEF Contract!Take, Outcomes
    <3> QED  BY <3>1, <3>2
  <2> QED  BY <1>b, <2>1, <2>2
<1>1. CASE Tick
  <2>1. \A e \in Event : row'[e].status = row[e].status
    <3> SUFFICES ASSUME NEW e \in Event
                 PROVE  row'[e].status = row[e].status
      OBVIOUS
    <3>1. row[e] \in Row
      BY DEF OutboxInv, TypeOK
    <3> QED  BY <1>1, <3>1 DEF Tick, Row
  <2> QED  BY <1>1, <1>a, <2>1 DEF Tick
<1>2. ASSUME NEW e \in Event, EnqueueEvent(e)
      PROVE  [Contract!Next]_Contract!vars
  <2>1. ToSet(log') = ToSet(log) \cup {e}
    <3>1. log \in Seq(Event) /\ DOMAIN log = 1 .. Len(log) /\ Len(log) \in Nat
      BY LenProperties DEF OutboxInv, TypeOK
    <3>2. /\ DOMAIN log' = 1 .. Len(log) + 1 /\ log'[Len(log) + 1] = e
          /\ \A i \in DOMAIN log : log'[i] = log[i]
      BY <1>2, <3>1, AppendProperties, LenProperties DEF EnqueueEvent
    <3>3. DOMAIN log' = DOMAIN log \cup {Len(log) + 1}
      BY <3>1, <3>2
    <3> QED  BY <3>2, <3>3 DEF ToSet
  <2>2. Outcomes' = Outcomes /\ taken' = taken
    BY <1>2 DEF EnqueueEvent, Outcomes
  <2>3. Contract!Announce(e)
    BY <2>1, <2>2 DEF Contract!Announce, Outcomes
  <2> QED  BY <2>3
<1>3. ASSUME NEW w \in Worker, Claim(w)
      PROVE  [Contract!Next]_Contract!vars
  BY <1>3, <1>a DEF Claim
<1>4. ASSUME NEW w \in Worker, NEW i \in txn[w].todo, PostOne(w, i)
      PROVE  [Contract!Next]_Contract!vars
  <2>1. log[i] \in Held(w) /\ UNCHANGED <<log, row>> /\ taken' \in {taken, taken \cup {log[i]}}
    BY <1>4, Posted DEF PostOne
  <2> QED  BY <1>b, <2>1
<1>5. ASSUME NEW w \in Worker, Commit(w)
      PROVE  [Contract!Next]_Contract!vars
  <2> DEFINE S == {e \in Held(w) : txn[w].mine[e].status # "pending"}
             to == [e \in S |-> txn[w].mine[e].status]
  <2>1. UNCHANGED <<log, taken>>
    BY <1>5 DEF Commit
  <2>2. /\ \A e \in Held(w) : row'[e] = txn[w].mine[e] /\ txn[w].mine[e] \in Row
        /\ \A e \in Event \ Held(w) : row'[e] = row[e]
    BY <1>5, InHand DEF Commit, OutboxInv
  <2>3. \A e \in S : /\ e \in ToSet(log) /\ e \in Event /\ Outcomes[e] = "open"
                     /\ to[e] \in {"delivered", "dead_letter"}
                     /\ to[e] = "delivered" => e \in taken
    <3> SUFFICES ASSUME NEW e \in S
                 PROVE  /\ to[e] \in {"delivered", "dead_letter"}
                        /\ to[e] = "delivered" => e \in taken
      BY EventsInLog
    <3> QED  BY <2>2 DEF OutboxInv, RowsInHand, Row, Status
  <2>4. ASSUME NEW e \in Event
        PROVE  Outcomes'[e] = IF e \in S THEN to[e] ELSE Outcomes[e]
    <3>1. CASE e \in S
      BY <2>2, <3>1 DEF Outcomes
    <3>2. CASE e \in Held(w) \ S
      <4>1. Outcomes[e] = "open"
        BY <3>2, EventsInLog
      <4>2. row'[e].status = "pending"
        BY <2>2, <3>2
      <4> QED  BY <3>2, <4>1, <4>2 DEF Outcomes
    <3>3. CASE e \notin Held(w)
      BY <2>2, <3>3 DEF Outcomes
    <3> QED  BY <3>1, <3>2, <3>3
  <2>5. Outcomes' = [e \in Event |-> IF e \in S THEN to[e] ELSE Outcomes[e]]
    BY <2>4 DEF Outcomes
  <2>6. S \in SUBSET Event /\ S \subseteq ToSet(log) /\ to \in [S -> {"delivered", "dead_letter"}]
    BY <2>3
  <2> HIDE DEF S, to
  <2>7. PICK T \in SUBSET Event : T = S
    BY <2>6
  <2>8. Contract!Settle(T)
    BY <2>1, <2>3, <2>5, <2>6, <2>7 DEF Contract!Settle, Outcomes
  <2> QED  BY <2>8
<1>6. ASSUME NEW w \in Worker, Abort(w)
      PROVE  [Contract!Next]_Contract!vars
  <2>1. UNCHANGED <<log, row>>
    BY <1>6 DEF Abort
  <2>2. CASE taken' = taken
    BY <1>a, <2>1, <2>2
  <2>3. CASE taken' # taken
    <3>1. PICK i \in txn[w].todo : taken' \in {taken, taken \cup {log[i]}}
      BY <1>6, <2>3 DEF Abort
    <3>2. log[i] \in Held(w)
      BY DEF OutboxInv, HoldsItsOwn
    <3> QED  BY <1>b, <2>1, <3>1, <3>2
  <2> QED  BY <2>2, <2>3
<1>7. CASE UNCHANGED vars
  BY <1>7, <1>a DEF vars
<1> QED  BY <1>1, <1>2, <1>3, <1>4, <1>5, <1>6, <1>7 DEF Next, WorkerStep, DeliverOne

LEMMA ContractInit == Init => Contract!Init
<1> SUFFICES ASSUME Init
             PROVE  Contract!Init
  OBVIOUS
<1>1. ToSet(log) = {}
  BY DEF Init, ToSet
<1>2. \A e \in Event : row[e].status = "pending"
  BY DEF Init, NewRow
<1> QED  BY <1>1, <1>2 DEF Init, Contract!Init

\* The outbox keeps the safety part of its contract: nothing is settled without
\* the receiver having taken it or a person seeing it, and no outcome is
\* revised, for any number of workers, events, attempts and crashes.
THEOREM OutboxKeepsItsContract == Spec => Contract!Safety
  BY OutboxAlways, ContractInit, ContractStep, PTL DEF Spec, Contract!Safety

-----------------------------------------------------------------------------
(* Attachments *)

\* What a request is about to do it can still do: the object it inserts a row
\* for is there and no row's, the objects it deletes are no row's, and the files
\* of an order that it saves are still pending or of that order.
StepsStand ==
  \A r \in Request :
    LET q == req[r]
    IN  /\ q.files \subseteq sent
        /\ q.op = "insert" => q.files \subseteq objects \ Attached!Rows
        /\ q.op = "cleanup" => q.files \cap Attached!Rows = {}
        /\ q.op = "save" => /\ q.order \in Order
                            /\ \A a \in q.files : a \in Attached!Rows /\ at[a] \in {Pending, q.order}
        /\ q.op = "drop" => \E a \in Attachment : q.files = {a}

\* Nobody else knows a file before its row, and two saves are of two orders and
\* of different files.
StepsAreApart ==
  \A r, q \in Request :
    r # q =>
      /\ req[r].op = "insert" => req[r].files \cap req[q].files = {}
      /\ req[r].op = "save" /\ req[q].op = "save" =>
           req[r].order # req[q].order /\ req[r].files \cap req[q].files = {}

FilesInv == Attached!TypeOK /\ StepsStand /\ StepsAreApart /\ Attached!FilesAreAccountedFor

\* Why an object is in the bucket.
Explained(x) ==
  \/ x \in Attached!Rows \cup leaked
  \/ \E q \in Request : req[q].op \in {"insert", "cleanup"} /\ x \in req[q].files

LEMMA Accounts ==
  /\ Attached!FilesAreAccountedFor
       <=> Attached!Rows \subseteq objects /\ \A x \in objects : Explained(x)
  /\ Attached!FilesAreAccountedFor'
       <=> Attached!Rows' \subseteq objects' /\ \A x \in objects' : Explained(x)'
  BY DEF Attached!FilesAreAccountedFor, Attached!InFlight, Explained

LEMMA RowsHang ==
  ASSUME NEW S, NEW x, NEW T, Attached!Hang(S, x, T)
  PROVE  /\ Attached!Rows' = (Attached!Rows \ T) \cup S
         /\ \A a \in S : at'[a] = x
         /\ \A a \in Attached!Rows \ T : a \notin S => at'[a] = at[a]
  BY DEF Attached!Hang, Attached!Rows

LEMMA RowsGo ==
  ASSUME NEW T, Attached!Delete(T)
  PROVE  /\ Attached!Rows' = Attached!Rows \ T
         /\ \A a \in Attached!Rows \ T : at'[a] = at[a]
  BY DEF Attached!Delete, Attached!Rows

LEMMA RequestGoesOn ==
  ASSUME Attached!TypeOK, NEW r \in Request, NEW c \in Attached!Step, req' = [req EXCEPT ![r] = c]
  PROVE  /\ req' \in [Request -> Attached!Step] /\ req'[r] = c
         /\ \A q \in Request \ {r} : req'[q] = req[q]
  BY DEF Attached!TypeOK

LEMMA Steps ==
  /\ Attached!Idle \in Attached!Step
  /\ Attached!Idle.op = "idle" /\ Attached!Idle.files = {} /\ Attached!Idle.order = Pending
  /\ \A op \in {"insert", "save", "drop", "cleanup"}, o \in Order \cup {Pending}, S \in SUBSET Attachment :
       [op |-> op, order |-> o, files |-> S] \in Attached!Step
  BY DEF Attached!Idle, Attached!Step

\* The cleanup that follows, if there is one, deletes S.
LEMMA Cleanup ==
  ASSUME Attached!TypeOK, NEW r \in Request, NEW S \in SUBSET Attachment, Attached!ThenCleanup(r, S)
  PROVE  \E c \in Attached!Step :
           /\ req' = [req EXCEPT ![r] = c] /\ c.files = S /\ c.op \in {"idle", "cleanup"}
           /\ S # {} => c.op = "cleanup"
<1>1. CASE S = {}
  BY <1>1, Steps DEF Attached!ThenCleanup
<1>2. CASE S # {}
  <2> DEFINE c == [op |-> "cleanup", order |-> Pending, files |-> S]
  <2>1. c \in Attached!Step /\ req' = [req EXCEPT ![r] = c]
    BY <1>2, Steps DEF Attached!ThenCleanup
  <2> QED  BY <2>1
<1> QED  BY <1>1, <1>2

\* A step of one request leaves what the others go by.
OthersStand(r) ==
  \A q \in Request \ {r} :
    /\ req[q].op = "insert" => req[q].files \subseteq objects' \ Attached!Rows'
    /\ req[q].op = "cleanup" => req[q].files \cap Attached!Rows' = {}
    /\ req[q].op = "save" => \A a \in req[q].files : a \in Attached!Rows' /\ at'[a] = at[a]

\* What it does next, it can do.
NextStands(r, c) ==
  /\ c.files \subseteq sent'
  /\ c.op = "insert" => c.files \subseteq objects' \ Attached!Rows'
  /\ c.op = "cleanup" => c.files \cap Attached!Rows' = {}
  /\ c.op = "drop" => \E a \in Attachment : c.files = {a}
  /\ c.op = "save" => /\ c.order \in Order
                      /\ \A a \in c.files : a \in Attached!Rows' /\ at'[a] \in {Pending, c.order}

\* It gets in nobody's way.
NextIsApart(r, c) ==
  \A q \in Request \ {r} :
    /\ c.op = "insert" \/ req[q].op = "insert" => c.files \cap req[q].files = {}
    /\ c.op = "save" /\ req[q].op = "save" => req[q].order # c.order /\ c.files \cap req[q].files = {}

LEMMA OneRequest ==
  ASSUME FilesInv, Attached!TypeOK', NEW r \in Request, NEW c \in Attached!Step,
         req' = [req EXCEPT ![r] = c], sent \subseteq sent',
         OthersStand(r), NextStands(r, c), NextIsApart(r, c),
         Attached!Rows' \subseteq objects', \A x \in objects' : Explained(x)'
  PROVE  FilesInv'
<1>1. req'[r] = c /\ \A q \in Request \ {r} : req'[q] = req[q]
  BY RequestGoesOn DEF FilesInv
<1>2. StepsStand'
  <2> SUFFICES ASSUME NEW p \in Request
               PROVE  (LET q == req[p]
                       IN  /\ q.files \subseteq sent
                           /\ q.op = "insert" => q.files \subseteq objects \ Attached!Rows
                           /\ q.op = "cleanup" => q.files \cap Attached!Rows = {}
                           /\ q.op = "save" => /\ q.order \in Order
                                               /\ \A a \in q.files : a \in Attached!Rows /\ at[a] \in {Pending, q.order}
                           /\ q.op = "drop" => \E a \in Attachment : q.files = {a})'
    BY DEF StepsStand
  <2>1. CASE p = r
    BY <1>1, <2>1 DEF NextStands
  <2>2. CASE p # r
    BY <1>1, <2>2 DEF FilesInv, StepsStand, OthersStand
  <2> QED  BY <2>1, <2>2
<1>3. StepsAreApart'
  BY <1>1 DEF FilesInv, StepsAreApart, NextIsApart
<1>4. Attached!FilesAreAccountedFor'
  BY Accounts
<1> QED  BY <1>2, <1>3, <1>4 DEF FilesInv

LEMMA PutObjectKeeps ==
  ASSUME FilesInv, NEW r \in Request, NEW a \in Attachment, Attached!PutObject(r, a)
  PROVE  FilesInv'
<1>1. /\ a \notin sent /\ sent' = sent \cup {a} /\ objects' = objects \cup {a}
      /\ UNCHANGED <<orders, at, saved>>
  BY DEF Attached!PutObject
<1>2. Attached!Rows' = Attached!Rows /\ \A o \in Order : Attached!On(o)' = Attached!On(o)
  BY <1>1 DEF Attached!Rows, Attached!On
<1>3. \A q \in Request : req[q].files \subseteq sent /\ a \notin req[q].files
  BY <1>1 DEF FilesInv, StepsStand
<1>4. a \notin Attached!Rows
  BY <1>1 DEF FilesInv, Attached!TypeOK
<1>t. ASSUME leaked' \subseteq leaked \cup {a}, req' \in [Request -> Attached!Step]
      PROVE  Attached!TypeOK'
  BY <1>t, <1>1, <1>2 DEF FilesInv, Attached!TypeOK, Attached!Rows
<1>5. CASE Attached!Starts(r, "insert", Pending, {a}) /\ UNCHANGED leaked
  <2> DEFINE c == [op |-> "insert", order |-> Pending, files |-> {a}]
  <2>1. c \in Attached!Step /\ req' = [req EXCEPT ![r] = c] /\ req[r].op = "idle"
    BY <1>5, Steps DEF Attached!Starts
  <2>2. c.op = "insert" /\ c.files = {a}
    OBVIOUS
  <2> HIDE DEF c
  <2>3. req' \in [Request -> Attached!Step] /\ req'[r] = c /\ \A q \in Request \ {r} : req'[q] = req[q]
    BY <2>1, RequestGoesOn DEF FilesInv
  <2>4. Attached!TypeOK'
    BY <1>5, <1>t, <2>3
  <2>5. Attached!Rows' \subseteq objects' /\ \A x \in objects' : Explained(x)'
    <3>1. Explained(a)'
      BY <2>2, <2>3 DEF Explained
    <3>2. ASSUME NEW x \in objects
          PROVE  Explained(x)'
      <4>1. Explained(x)
        BY Accounts DEF FilesInv
      <4> QED  BY <1>2, <1>5, <2>1, <2>3, <4>1 DEF Explained
    <3> QED  BY <1>1, <1>2, <3>1, <3>2, Accounts DEF FilesInv
  <2>6. OthersStand(r)
    BY <1>1, <1>2 DEF FilesInv, StepsStand, OthersStand
  <2>7. NextStands(r, c)
    BY <1>1, <1>2, <1>4, <2>2 DEF NextStands
  <2>8. NextIsApart(r, c)
    BY <1>3, <2>2 DEF NextIsApart
  <2> QED  BY <1>1, <2>1, <2>4, <2>5, <2>6, <2>7, <2>8, OneRequest
<1>6. CASE leaked' = leaked \cup {a} /\ UNCHANGED req
  <2>1. Attached!TypeOK'
    BY <1>6, <1>t DEF FilesInv, Attached!TypeOK
  <2>2. Attached!FilesAreAccountedFor'
    BY <1>1, <1>2, <1>6, Accounts DEF FilesInv, Explained
  <2>3. StepsStand' /\ StepsAreApart'
    BY <1>1, <1>2, <1>6 DEF FilesInv, StepsStand, StepsAreApart
  <2> QED  BY <2>1, <2>2, <2>3 DEF FilesInv
<1> QED  BY <1>5, <1>6 DEF Attached!PutObject

LEMMA InsertRowKeeps ==
  ASSUME FilesInv, NEW r \in Request, Attached!InsertRow(r)
  PROVE  FilesInv'
<1> DEFINE S == req[r].files
<1>1. /\ req[r].op = "insert" /\ Attached!Hang(S, Pending, {})
      /\ req' = [req EXCEPT ![r] = Attached!Idle]
      /\ UNCHANGED <<orders, objects, saved, sent, leaked>>
  BY DEF Attached!InsertRow, Attached!Ends
<1>2. /\ Attached!Rows' = Attached!Rows \cup S
      /\ \A x \in S : at'[x] = Pending
      /\ \A x \in Attached!Rows : x \notin S => at'[x] = at[x]
  BY <1>1, RowsHang
<1>3. S \subseteq objects \ Attached!Rows /\ S \subseteq sent
  BY <1>1 DEF FilesInv, StepsStand
<1>4. \A q \in Request \ {r} : req[q].files \cap S = {}
  BY <1>1 DEF FilesInv, StepsAreApart
<1>5. \A o \in Order : Attached!On(o)' = Attached!On(o)
  BY <1>2, <1>3, PendingAssumption DEF Attached!On
<1>6. req' \in [Request -> Attached!Step] /\ req'[r] = Attached!Idle /\ \A q \in Request \ {r} : req'[q] = req[q]
  BY <1>1, Steps, RequestGoesOn DEF FilesInv
<1>7. Attached!TypeOK'
  <2>1. at' \in [Attached!Rows' -> Order \cup {Pending}]
    BY <1>1, <1>2 DEF FilesInv, Attached!TypeOK, Attached!Hang, Attached!Rows
  <2> QED  BY <1>1, <1>2, <1>3, <1>5, <1>6, <2>1 DEF FilesInv, Attached!TypeOK
<1>8. Attached!Rows' \subseteq objects' /\ \A x \in objects' : Explained(x)'
  <2>1. ASSUME NEW x \in objects
        PROVE  Explained(x)'
    <3>1. Explained(x)
      BY Accounts DEF FilesInv
    <3> QED  BY <1>1, <1>2, <1>6, <3>1 DEF Explained
  <2> QED  BY <1>1, <1>2, <1>3, <2>1, Accounts DEF FilesInv
<1>9. OthersStand(r)
  BY <1>1, <1>2, <1>4 DEF FilesInv, StepsStand, OthersStand
<1>10. NextStands(r, Attached!Idle) /\ NextIsApart(r, Attached!Idle)
  BY Steps DEF NextStands, NextIsApart
<1> QED  BY <1>1, <1>7, <1>8, <1>9, <1>10, Steps, OneRequest

LEMMA InsertFailsKeeps ==
  ASSUME FilesInv, NEW r \in Request, Attached!InsertFails(r)
  PROVE  FilesInv'
<1>1. /\ req[r].op = "insert" /\ Attached!ThenCleanup(r, req[r].files)
      /\ UNCHANGED <<orders, at, objects, saved, sent, leaked>>
  BY DEF Attached!InsertFails
<1>2. req[r].files \subseteq Attachment /\ req[r].files \subseteq sent /\ req[r].files \subseteq objects \ Attached!Rows
  BY <1>1 DEF FilesInv, StepsStand, Attached!TypeOK
<1>3. PICK c \in Attached!Step :
        /\ req' = [req EXCEPT ![r] = c] /\ c.files = req[r].files /\ c.op \in {"idle", "cleanup"}
        /\ req[r].files # {} => c.op = "cleanup"
  BY <1>1, <1>2, Cleanup DEF FilesInv
<1>4. Attached!Rows' = Attached!Rows /\ \A o \in Order : Attached!On(o)' = Attached!On(o)
  BY <1>1 DEF Attached!Rows, Attached!On
<1>5. req' \in [Request -> Attached!Step] /\ req'[r] = c /\ \A q \in Request \ {r} : req'[q] = req[q]
  BY <1>3, RequestGoesOn DEF FilesInv
<1>6. Attached!TypeOK'
  BY <1>1, <1>4, <1>5 DEF FilesInv, Attached!TypeOK
<1>7. \A x \in objects' : Explained(x)'
  <2>1. ASSUME NEW x \in objects
        PROVE  Explained(x)'
    <3>1. Explained(x)
      BY Accounts DEF FilesInv
    <3> QED  BY <1>1, <1>3, <1>4, <1>5, <3>1 DEF Explained
  <2> QED  BY <1>1, <2>1
<1>8. \A q \in Request \ {r} : c.files \cap req[q].files = {}
  BY <1>1, <1>3 DEF FilesInv, StepsAreApart
<1>9. OthersStand(r)
  BY <1>1, <1>4 DEF FilesInv, StepsStand, OthersStand
<1>10. NextStands(r, c) /\ NextIsApart(r, c)
  BY <1>1, <1>2, <1>3, <1>4, <1>8 DEF NextStands, NextIsApart
<1>11. Attached!Rows' \subseteq objects'
  BY <1>1, <1>4, Accounts DEF FilesInv
<1> QED  BY <1>1, <1>3, <1>6, <1>7, <1>9, <1>10, <1>11, OneRequest

\* A request that starts with what it read.
LEMMA StartKeeps ==
  ASSUME FilesInv, NEW r \in Request, NEW op \in {"save", "drop"}, NEW o \in Order \cup {Pending},
         NEW S \in SUBSET Attached!Rows, Attached!Starts(r, op, o, S),
         UNCHANGED <<orders, at, objects, saved, sent, leaked>>,
         op = "drop" => \E a \in Attachment : S = {a},
         op = "save" => /\ o \in Order /\ ~Attached!Busy(o) /\ S \cap Attached!Locked = {}
                        /\ \A a \in S : at[a] \in {Pending, o}
  PROVE  FilesInv'
<1> DEFINE c == [op |-> op, order |-> o, files |-> S]
<1>1. S \subseteq sent /\ S \subseteq Attachment
  BY DEF FilesInv, Attached!TypeOK
<1>2. c \in Attached!Step /\ req' = [req EXCEPT ![r] = c] /\ req[r].op = "idle"
  BY <1>1, Steps DEF Attached!Starts
<1>3. c.op = op /\ c.order = o /\ c.files = S
  OBVIOUS
<1> HIDE DEF c
<1>4. Attached!Rows' = Attached!Rows /\ \A p \in Order : Attached!On(p)' = Attached!On(p)
  BY DEF Attached!Rows, Attached!On
<1>5. req' \in [Request -> Attached!Step] /\ req'[r] = c /\ \A q \in Request \ {r} : req'[q] = req[q]
  BY <1>2, RequestGoesOn DEF FilesInv
<1>6. Attached!TypeOK'
  BY <1>4, <1>5 DEF FilesInv, Attached!TypeOK
<1>7. \A x \in objects' : Explained(x)'
  <2>1. ASSUME NEW x \in objects
        PROVE  Explained(x)'
    <3>1. Explained(x)
      BY Accounts DEF FilesInv
    <3> QED  BY <1>2, <1>4, <1>5, <3>1 DEF Explained
  <2> QED  BY <2>1
<1>8. \A q \in Request : req[q].op = "insert" => c.files \cap req[q].files = {}
  BY <1>3 DEF FilesInv, StepsStand
<1>9. op = "save" => \A q \in Request : req[q].op = "save" => req[q].order # o /\ S \cap req[q].files = {}
  BY DEF Attached!Busy, Attached!Locked
<1>10. OthersStand(r)
  BY <1>4 DEF FilesInv, StepsStand, OthersStand
<1>11. NextStands(r, c)
  BY <1>1, <1>3, <1>4 DEF NextStands
<1>12. NextIsApart(r, c)
  BY <1>3, <1>8, <1>9 DEF NextIsApart
<1>13. Attached!Rows' \subseteq objects'
  BY <1>4, Accounts DEF FilesInv
<1> QED  BY <1>2, <1>6, <1>7, <1>10, <1>11, <1>12, <1>13, OneRequest

\* The rows of an order or a drop go, and their objects are deleted next.
LEMMA RowsGoKeeps ==
  ASSUME FilesInv, Attached!TypeOK', NEW r \in Request, NEW T \in SUBSET Attached!Rows, NEW S \in SUBSET Attachment,
         Attached!ThenCleanup(r, S), T \subseteq S, S \subseteq sent,
         req[r].op # "insert", req[r].op # "cleanup",
         UNCHANGED <<objects, sent, leaked>>,
         Attached!Rows' = Attached!Rows \ T, S \cap Attached!Rows' = {},
         \A q \in Request \ {r} : /\ req[q].op = "insert" => S \cap req[q].files = {}
                                  /\ req[q].op = "save" =>
                                       \A a \in req[q].files : a \in Attached!Rows' /\ at'[a] = at[a]
  PROVE  FilesInv'
<1>1. PICK c \in Attached!Step :
        /\ req' = [req EXCEPT ![r] = c] /\ c.files = S /\ c.op \in {"idle", "cleanup"}
        /\ S # {} => c.op = "cleanup"
  BY Cleanup DEF FilesInv
<1>2. req'[r] = c /\ \A q \in Request \ {r} : req'[q] = req[q]
  BY <1>1, RequestGoesOn DEF FilesInv
<1>3. OthersStand(r)
  BY DEF FilesInv, StepsStand, OthersStand
<1>4. NextStands(r, c)
  BY <1>1 DEF NextStands
<1>5. NextIsApart(r, c)
  BY <1>1 DEF NextIsApart
<1>6. \A x \in objects' : Explained(x)'
  <2> SUFFICES ASSUME NEW x \in objects
               PROVE  Explained(x)'
    OBVIOUS
  <2>1. Explained(x)
    BY Accounts DEF FilesInv
  <2>2. CASE x \in T
    BY <1>1, <1>2, <2>2 DEF Explained
  <2>3. CASE x \notin T
    BY <1>2, <2>1, <2>3 DEF Explained
  <2> QED  BY <2>2, <2>3
<1>7. Attached!Rows' \subseteq objects'
  BY Accounts DEF FilesInv
<1> QED  BY <1>1, <1>3, <1>4, <1>5, <1>6, <1>7, OneRequest

LEMMA CommitOrderKeeps ==
  ASSUME FilesInv, NEW r \in Request, Attached!CommitOrder(r)
  PROVE  FilesInv'
<1>o. PICK o : o = req[r].order
  OBVIOUS
<1>s. PICK S : S = req[r].files
  OBVIOUS
<1>t. PICK T : T = Attached!On(o)
  OBVIOUS
<1>1. /\ req[r].op = "save" /\ Attached!Hang(S, o, T)
      /\ orders' = [orders EXCEPT ![o] = "draft"] /\ saved' = [saved EXCEPT ![o] = S]
      /\ Attached!ThenCleanup(r, T \ S)
      /\ UNCHANGED <<objects, sent, leaked>>
  BY <1>o, <1>s, <1>t DEF Attached!CommitOrder, Attached!Removed
<1>2. /\ o \in Order /\ S \subseteq Attached!Rows
      /\ \A a \in S : at[a] \in {Pending, o}
      /\ T \subseteq Attached!Rows /\ \A a \in Attached!Rows \ T : at[a] # o
  BY <1>1, <1>o, <1>s, <1>t DEF FilesInv, StepsStand, Attached!On
<1>3. /\ Attached!Rows' = (Attached!Rows \ T) \cup S
      /\ \A a \in S : at'[a] = o
      /\ \A a \in Attached!Rows \ T : a \notin S => at'[a] = at[a]
  BY <1>1, RowsHang
<1>4. Attached!Rows' = Attached!Rows \ (T \ S)
  BY <1>2, <1>3
<1>5. /\ Attached!On(o)' = S
      /\ \A p \in Order \ {o} : Attached!On(p)' = Attached!On(p)
  BY <1>2, <1>3, <1>t, PendingAssumption DEF Attached!On
<1>6. Attached!Rows \subseteq sent /\ sent \subseteq Attachment
  BY DEF FilesInv, Attached!TypeOK
<1>7. Attached!TypeOK'
  <2>1. req' \in [Request -> Attached!Step]
    <3>1. T \ S \in SUBSET Attachment
      BY <1>2, <1>6
    <3> QED  BY <1>1, <3>1, Cleanup, RequestGoesOn DEF FilesInv
  <2>2. at' \in [Attached!Rows' -> Order \cup {Pending}]
    <3>1. at' = [a \in Attached!Rows' |-> at'[a]]
      BY <1>1 DEF Attached!Hang, Attached!Rows
    <3>2. \A a \in Attached!Rows' : at'[a] \in Order \cup {Pending}
      BY <1>2, <1>3 DEF FilesInv, Attached!TypeOK
    <3> QED  BY <3>1, <3>2
  <2>3. saved' \in [Order -> SUBSET sent] /\ orders' \in [Order -> {"new", "draft", "closed", "deleted"}]
    BY <1>1, <1>2, <1>6 DEF FilesInv, Attached!TypeOK
  <2>4. \A p \in Order : Attached!On(p)' # {} => orders'[p] \in {"draft", "closed"}
    BY <1>1, <1>2, <1>5 DEF FilesInv, Attached!TypeOK
  <2> QED  BY <1>1, <1>4, <1>6, <2>1, <2>2, <2>3, <2>4 DEF FilesInv, Attached!TypeOK
<1>8. ASSUME NEW q \in Request \ {r}
      PROVE  /\ req[q].op = "insert" => (T \ S) \cap req[q].files = {}
             /\ req[q].op = "save" => \A a \in req[q].files : a \in Attached!Rows' /\ at'[a] = at[a]
  <2>1. req[q].op = "insert" => (T \ S) \cap req[q].files = {}
    BY <1>2 DEF FilesInv, StepsStand
  <2>2. ASSUME req[q].op = "save", NEW a \in req[q].files
        PROVE  a \in Attached!Rows' /\ at'[a] = at[a]
    <3>1. req[q].order \in Order /\ a \in Attached!Rows /\ at[a] \in {Pending, req[q].order}
      BY <2>2 DEF FilesInv, StepsStand
    <3>2. req[q].order # o /\ a \notin S
      BY <1>1, <1>o, <1>s, <2>2 DEF FilesInv, StepsAreApart
    <3>3. a \notin T
      BY <1>2, <1>t, <3>1, <3>2, PendingAssumption DEF Attached!On
    <3> QED  BY <1>3, <1>4, <3>1, <3>2, <3>3
  <2> QED  BY <2>1, <2>2
<1>9. T \ S \in SUBSET Attachment /\ T \ S \in SUBSET Attached!Rows /\ T \ S \subseteq sent
  BY <1>2, <1>6
<1> QED  BY <1>1, <1>4, <1>7, <1>8, <1>9, RowsGoKeeps

LEMMA DeleteOrderKeeps ==
  ASSUME FilesInv, NEW r \in Request, NEW o \in Order, Attached!DeleteOrder(r, o)
  PROVE  FilesInv'
<1>t. PICK T : T = Attached!On(o)
  OBVIOUS
<1>1. /\ req[r].op = "idle" /\ ~Attached!Busy(o) /\ Attached!Delete(T)
      /\ orders' = [orders EXCEPT ![o] = "deleted"] /\ saved' = [saved EXCEPT ![o] = {}]
      /\ Attached!ThenCleanup(r, T)
      /\ UNCHANGED <<objects, sent, leaked>>
  BY <1>t DEF Attached!DeleteOrder
<1>2. T \subseteq Attached!Rows /\ Attached!Rows \subseteq sent /\ sent \subseteq Attachment
  BY <1>t DEF FilesInv, Attached!TypeOK, Attached!On
<1>3. /\ Attached!Rows' = Attached!Rows \ T
      /\ \A a \in Attached!Rows \ T : at'[a] = at[a]
  BY <1>1, RowsGo
<1>4. /\ Attached!On(o)' = {}
      /\ \A p \in Order \ {o} : Attached!On(p)' = Attached!On(p)
  BY <1>3, <1>t DEF Attached!On
<1>5. Attached!TypeOK'
  <2>1. req' \in [Request -> Attached!Step]
    BY <1>1, <1>2, Cleanup, RequestGoesOn DEF FilesInv
  <2>2. at' \in [Attached!Rows' -> Order \cup {Pending}]
    <3>1. at' = [a \in Attached!Rows' |-> at'[a]]
      BY <1>1 DEF Attached!Delete, Attached!Rows
    <3>2. \A a \in Attached!Rows' : at'[a] \in Order \cup {Pending}
      BY <1>3 DEF FilesInv, Attached!TypeOK
    <3> QED  BY <3>1, <3>2
  <2>3. saved' \in [Order -> SUBSET sent] /\ orders' \in [Order -> {"new", "draft", "closed", "deleted"}]
    BY <1>1 DEF FilesInv, Attached!TypeOK
  <2>4. \A p \in Order : Attached!On(p)' # {} => orders'[p] \in {"draft", "closed"}
    BY <1>1, <1>4 DEF FilesInv, Attached!TypeOK
  <2> QED  BY <1>1, <1>2, <1>3, <2>1, <2>2, <2>3, <2>4 DEF FilesInv, Attached!TypeOK
<1>6. ASSUME NEW q \in Request \ {r}
      PROVE  /\ req[q].op = "insert" => T \cap req[q].files = {}
             /\ req[q].op = "save" => \A a \in req[q].files : a \in Attached!Rows' /\ at'[a] = at[a]
  <2>1. req[q].op = "insert" => T \cap req[q].files = {}
    BY <1>2 DEF FilesInv, StepsStand
  <2>2. ASSUME req[q].op = "save", NEW a \in req[q].files
        PROVE  a \in Attached!Rows' /\ at'[a] = at[a]
    <3>1. a \in Attached!Rows /\ at[a] \in {Pending, req[q].order} /\ req[q].order # o
      BY <1>1, <2>2 DEF FilesInv, StepsStand, Attached!Busy
    <3>2. a \notin T
      BY <1>t, <3>1, PendingAssumption DEF Attached!On
    <3> QED  BY <1>3, <3>1, <3>2
  <2> QED  BY <2>1, <2>2
<1> QED  BY <1>1, <1>2, <1>3, <1>5, <1>6, RowsGoKeeps

LEMMA DeleteRowKeeps ==
  ASSUME FilesInv, NEW r \in Request, Attached!DeleteRow(r)
  PROVE  FilesInv'
<1>s. PICK S : S = req[r].files
  OBVIOUS
<1>1. /\ req[r].op = "drop" /\ S \cap Attached!Locked = {} /\ Attached!Delete(S)
      /\ Attached!ThenCleanup(r, S)
      /\ UNCHANGED <<orders, objects, saved, sent, leaked>>
  BY <1>s DEF Attached!DeleteRow
<1>2. S \subseteq sent /\ S \subseteq Attachment
  BY <1>s DEF FilesInv, StepsStand, Attached!TypeOK
<1>3. /\ Attached!Rows' = Attached!Rows \ S
      /\ \A a \in Attached!Rows \ S : at'[a] = at[a]
  BY <1>1, RowsGo
<1>4. Attached!TypeOK'
  <2>1. req' \in [Request -> Attached!Step]
    BY <1>1, <1>2, Cleanup, RequestGoesOn DEF FilesInv
  <2>2. at' \in [Attached!Rows' -> Order \cup {Pending}]
    <3>1. at' = [a \in Attached!Rows' |-> at'[a]]
      BY <1>1 DEF Attached!Delete, Attached!Rows
    <3>2. \A a \in Attached!Rows' : at'[a] \in Order \cup {Pending}
      BY <1>3 DEF FilesInv, Attached!TypeOK
    <3> QED  BY <3>1, <3>2
  <2>3. \A p \in Order : Attached!On(p)' \subseteq Attached!On(p)
    BY <1>3 DEF Attached!On
  <2> QED  BY <1>1, <1>3, <2>1, <2>2, <2>3 DEF FilesInv, Attached!TypeOK
<1>5. ASSUME NEW q \in Request \ {r}
      PROVE  /\ req[q].op = "insert" => S \cap req[q].files = {}
             /\ req[q].op = "save" => \A a \in req[q].files : a \in Attached!Rows' /\ at'[a] = at[a]
  <2>1. req[q].op = "insert" => S \cap req[q].files = {}
    BY <1>s DEF FilesInv, StepsAreApart
  <2>2. ASSUME req[q].op = "save", NEW a \in req[q].files
        PROVE  a \in Attached!Rows' /\ at'[a] = at[a]
    <3>1. a \in Attached!Rows
      BY <2>2 DEF FilesInv, StepsStand
    <3>2. a \notin S
      BY <1>1, <2>2 DEF Attached!Locked
    <3> QED  BY <1>3, <3>1, <3>2
  <2> QED  BY <2>1, <2>2
<1>6. Attached!Rows \cap S \in SUBSET Attached!Rows /\ Attached!Rows' = Attached!Rows \ (Attached!Rows \cap S)
  BY <1>3
<1>7. S \cap Attached!Rows' = {}
  BY <1>3
<1> QED  BY <1>1, <1>2, <1>4, <1>5, <1>6, <1>7, RowsGoKeeps

\* A request that is over, without a change of rows.
LEMMA EndKeeps ==
  ASSUME FilesInv, NEW r \in Request, Attached!Ends(r), NEW S \in SUBSET req[r].files,
         req[r].op \in {"insert", "cleanup"} => req[r].files \ S \subseteq leaked',
         S # {} => req[r].op = "cleanup",
         leaked \subseteq leaked', leaked' \subseteq leaked \cup req[r].files,
         objects' = objects \ S, UNCHANGED <<orders, at, saved, sent>>
  PROVE  FilesInv'
<1>1. /\ req' = [req EXCEPT ![r] = Attached!Idle] /\ req' \in [Request -> Attached!Step]
      /\ \A q \in Request \ {r} : req'[q] = req[q]
  BY Steps, RequestGoesOn DEF FilesInv, Attached!Ends
<1>2. Attached!Rows' = Attached!Rows /\ \A p \in Order : Attached!On(p)' = Attached!On(p)
  BY DEF Attached!Rows, Attached!On
<1>3. Attached!TypeOK'
  BY <1>1, <1>2 DEF FilesInv, StepsStand, Attached!TypeOK
<1>4. S \cap Attached!Rows = {} /\ \A q \in Request : req[q].op = "insert" => S \cap req[q].files = {}
  <2>1. CASE S = {}
    BY <2>1
  <2>2. CASE S # {}
    BY <2>2 DEF FilesInv, StepsStand, StepsAreApart
  <2> QED  BY <2>1, <2>2
<1>5. OthersStand(r)
  BY <1>2, <1>4 DEF FilesInv, StepsStand, OthersStand
<1>6. NextStands(r, Attached!Idle) /\ NextIsApart(r, Attached!Idle)
  BY Steps DEF NextStands, NextIsApart
<1>7. Attached!Rows' \subseteq objects'
  BY <1>2, <1>4, Accounts DEF FilesInv
<1>8. \A x \in objects' : Explained(x)'
  <2> SUFFICES ASSUME NEW x \in objects, x \notin S
               PROVE  Explained(x)'
    OBVIOUS
  <2>1. Explained(x)
    BY Accounts DEF FilesInv
  <2> QED  BY <1>1, <1>2, <2>1 DEF Explained
<1> QED  BY <1>1, <1>3, <1>5, <1>6, <1>7, <1>8, Steps, OneRequest

LEMMA CloseOrderKeeps ==
  ASSUME FilesInv, NEW o \in Order, Attached!CloseOrder(o)
  PROVE  FilesInv'
<1>1. /\ orders[o] = "draft" /\ orders' = [orders EXCEPT ![o] = "closed"]
      /\ UNCHANGED <<at, objects, saved, sent, leaked, req>>
  BY DEF Attached!CloseOrder
<1>2. Attached!Rows' = Attached!Rows /\ \A p \in Order : Attached!On(p)' = Attached!On(p)
  BY <1>1 DEF Attached!Rows, Attached!On
<1>3. Attached!TypeOK'
  BY <1>1, <1>2 DEF FilesInv, Attached!TypeOK
<1>4. StepsStand' /\ StepsAreApart'
  BY <1>1, <1>2 DEF FilesInv, StepsStand, StepsAreApart
<1>5. Attached!FilesAreAccountedFor'
  BY <1>1, <1>2, Accounts DEF FilesInv, Explained
<1> QED  BY <1>3, <1>4, <1>5 DEF FilesInv

LEMMA FilesInit == Attached!Init => FilesInv
<1> SUFFICES ASSUME Attached!Init
             PROVE  FilesInv
  OBVIOUS
<1>1. Attached!Rows = {} /\ \A o \in Order : Attached!On(o) = {}
  BY DEF Attached!Init, Attached!Rows, Attached!On
<1>2. \A r \in Request : req[r] = Attached!Idle
  BY DEF Attached!Init
<1>3. Attached!TypeOK
  BY <1>1, Steps DEF Attached!Init, Attached!TypeOK, Attached!Rows
<1>4. StepsStand /\ StepsAreApart
  BY <1>2, Steps DEF StepsStand, StepsAreApart
<1>5. Attached!FilesAreAccountedFor
  BY <1>1, Accounts DEF Attached!Init
<1> QED  BY <1>3, <1>4, <1>5 DEF FilesInv

LEMMA FilesStep == FilesInv /\ [Attached!Next]_Attached!vars => FilesInv'
<1> SUFFICES ASSUME FilesInv, [Attached!Next]_Attached!vars
             PROVE  FilesInv'
  OBVIOUS
<1>1. ASSUME NEW r \in Request, NEW a \in Attachment, Attached!ReadPending(r, a)
      PROVE  FilesInv'
  <2>1. {a} \in SUBSET Attached!Rows
    BY <1>1 DEF Attached!ReadPending
  <2> QED  BY <1>1, <2>1, StartKeeps DEF Attached!ReadPending
<1>2. ASSUME NEW r \in Request, NEW o \in Order, NEW S \in SUBSET Attachment, Attached!ResolveAttachments(r, o, S)
      PROVE  FilesInv'
  <2>1. /\ S \in SUBSET Attached!Rows /\ S \cap Attached!Locked = {} /\ ~Attached!Busy(o)
        /\ \A a \in S : at[a] \in {Pending, o}
        /\ Attached!Starts(r, "save", o, S)
        /\ UNCHANGED <<orders, at, objects, saved, sent, leaked>>
    BY <1>2 DEF Attached!ResolveAttachments
  <2> QED  BY <2>1, StartKeeps
<1>3. ASSUME NEW r \in Request, Attached!DeleteObjects(r)
      PROVE  FilesInv'
  <2>1. PICK S \in SUBSET req[r].files : objects' = objects \ S /\ leaked' = leaked \cup (req[r].files \ S)
    BY <1>3 DEF Attached!DeleteObjects
  <2> QED  BY <1>3, <2>1, EndKeeps DEF Attached!DeleteObjects
<1>4. ASSUME NEW r \in Request, Attached!Crash(r)
      PROVE  FilesInv'
  <2>1. /\ Attached!Ends(r) /\ UNCHANGED <<orders, at, objects, saved, sent>>
        /\ leaked' = IF req[r].op \in {"insert", "cleanup"} THEN leaked \cup req[r].files ELSE leaked
    BY <1>4 DEF Attached!Crash
  <2>2. objects' = objects \ {} /\ {} \in SUBSET req[r].files
    BY <2>1
  <2> QED  BY <2>1, <2>2, EndKeeps
<1>5. CASE UNCHANGED Attached!vars
  <2>1. Attached!TypeOK'
    BY <1>5 DEF FilesInv, Attached!TypeOK, Attached!vars, Attached!Rows, Attached!On
  <2>2. StepsStand' /\ StepsAreApart'
    BY <1>5 DEF FilesInv, StepsStand, StepsAreApart, Attached!vars, Attached!Rows
  <2>3. Attached!FilesAreAccountedFor'
    BY <1>5 DEF FilesInv, Attached!vars, Attached!FilesAreAccountedFor, Attached!Rows, Attached!InFlight
  <2> QED  BY <2>1, <2>2, <2>3 DEF FilesInv
<1> QED
  BY <1>1, <1>2, <1>3, <1>4, <1>5, PutObjectKeeps, InsertRowKeeps, InsertFailsKeeps, CommitOrderKeeps,
     DeleteOrderKeeps, DeleteRowKeeps, CloseOrderKeeps
  DEF Attached!Next

LEMMA FilesAlways == Attached!Spec => []FilesInv
  BY FilesInit, FilesStep, PTL DEF Attached!Spec

\* A row has its object, and an object that no row names is on its way to get
\* one or to be deleted, or is known to be left behind: for any number of files,
\* orders and requests.
THEOREM FilesAreAlwaysAccountedFor == Attached!Spec => []FilesAreAccountedFor
<1>1. FilesInv => FilesAreAccountedFor
  BY DEF FilesInv, FilesAreAccountedFor
<1> QED  BY <1>1, FilesAlways, PTL

\* What a step may do to the files of an order.
FilesMove(o) ==
  \/ Attached!On(o)' = saved'[o]
  \/ Attached!On(o)' = Attached!On(o) /\ saved'[o] = saved[o]
  \/ \E r \in Request :
       /\ req[r].op = "drop"
       /\ Attached!On(o) \ Attached!On(o)' = req[r].files
       /\ saved' = saved

LEMMA FilesStay ==
  ASSUME FilesInv, Attached!Next, NEW o \in Order
  PROVE  FilesMove(o)
<1>1. ASSUME UNCHANGED <<at, saved>>
      PROVE  FilesMove(o)
  BY <1>1 DEF FilesMove, Attached!On, Attached!Rows
<1>2. ASSUME NEW r \in Request, Attached!InsertRow(r)
      PROVE  FilesMove(o)
  <2>1. Attached!Hang(req[r].files, Pending, {}) /\ req[r].op = "insert" /\ saved' = saved
    BY <1>2 DEF Attached!InsertRow
  <2>2. req[r].files \cap Attached!Rows = {}
    BY <2>1 DEF FilesInv, StepsStand
  <2>3. Attached!On(o)' = Attached!On(o)
    BY <2>1, <2>2, RowsHang, PendingAssumption DEF Attached!On
  <2> QED  BY <2>1, <2>3 DEF FilesMove
<1>3. ASSUME NEW r \in Request, Attached!CommitOrder(r)
      PROVE  FilesMove(o)
  <2>1. PICK p, S : p = req[r].order /\ S = req[r].files
    OBVIOUS
  <2>2. /\ req[r].op = "save" /\ Attached!Hang(S, p, Attached!On(p))
        /\ saved' = [saved EXCEPT ![p] = S]
    BY <1>3, <2>1 DEF Attached!CommitOrder
  <2>3. p \in Order /\ \A a \in S : a \in Attached!Rows /\ at[a] \in {Pending, p}
    BY <2>1, <2>2 DEF FilesInv, StepsStand
  <2>4. saved \in [Order -> SUBSET sent]
    BY DEF FilesInv, Attached!TypeOK
  <2>5. CASE o = p
    <3>1. Attached!On(o)' = S
      BY <2>2, <2>3, <2>5, RowsHang DEF Attached!On
    <3> QED  BY <2>2, <2>3, <2>4, <2>5, <3>1 DEF FilesMove
  <2>6. CASE o # p
    <3>1. Attached!On(o)' = Attached!On(o)
      BY <2>2, <2>3, <2>6, RowsHang, PendingAssumption DEF Attached!On
    <3> QED  BY <2>2, <2>3, <2>4, <2>6, <3>1 DEF FilesMove
  <2> QED  BY <2>5, <2>6
<1>4. ASSUME NEW r \in Request, NEW p \in Order, Attached!DeleteOrder(r, p)
      PROVE  FilesMove(o)
  <2>1. Attached!Delete(Attached!On(p)) /\ saved' = [saved EXCEPT ![p] = {}]
    BY <1>4 DEF Attached!DeleteOrder
  <2>2. saved \in [Order -> SUBSET sent]
    BY DEF FilesInv, Attached!TypeOK
  <2>3. CASE o = p
    <3>1. Attached!On(o)' = {}
      BY <2>1, <2>3, RowsGo DEF Attached!On
    <3> QED  BY <2>1, <2>2, <2>3, <3>1 DEF FilesMove
  <2>4. CASE o # p
    <3>1. Attached!On(o)' = Attached!On(o)
      BY <2>1, <2>4, RowsGo DEF Attached!On
    <3> QED  BY <2>1, <2>2, <2>4, <3>1 DEF FilesMove
  <2> QED  BY <2>3, <2>4
<1>5. ASSUME NEW r \in Request, Attached!DeleteRow(r)
      PROVE  FilesMove(o)
  <2>1. Attached!Delete(req[r].files) /\ req[r].op = "drop" /\ saved' = saved
    BY <1>5 DEF Attached!DeleteRow
  <2>2. PICK a \in Attachment : req[r].files = {a}
    BY <2>1 DEF FilesInv, StepsStand
  <2>3. CASE a \in Attached!On(o)
    <3>1. Attached!On(o)' = Attached!On(o) \ {a}
      BY <2>1, <2>2, RowsGo DEF Attached!On
    <3> QED  BY <2>1, <2>2, <2>3, <3>1 DEF FilesMove
  <2>4. CASE a \notin Attached!On(o)
    <3>1. Attached!On(o)' = Attached!On(o)
      BY <2>1, <2>2, <2>4, RowsGo DEF Attached!On
    <3> QED  BY <2>1, <3>1 DEF FilesMove
  <2> QED  BY <2>3, <2>4
<1> QED
  BY <1>1, <1>2, <1>3, <1>4, <1>5
  DEF Attached!Next, Attached!PutObject, Attached!ReadPending, Attached!ResolveAttachments,
      Attached!CloseOrder, Attached!InsertFails, Attached!DeleteObjects, Attached!Crash

\* An order keeps the files it was last saved with, whatever else is uploaded,
\* saved, dropped or deleted, but for a file that a drop had read as pending.
THEOREM SavedFilesAlwaysStay == Attached!Spec => SavedFilesStay
<1>1. FilesInv /\ [Attached!Next]_Attached!vars => [\A o \in Order : FilesMove(o)]_Attached!vars
  BY FilesStay
<1> QED
  BY <1>1, FilesAlways, PTL DEF Attached!Spec, SavedFilesStay, Attached!SavedFilesStay, FilesMove

-----------------------------------------------------------------------------
(* Photos. *)

Cited == {photo[p] : p \in Article}

\* A request that has stored a photo and not yet cited it.
Makes(w) == w.op \in {"replace", "copy"} /\ w.new # NoPicture

\* What the collection has listed, or is about to move.
Seized ==
  IF collection.at = "listed" THEN collection.listed
  ELSE IF collection.at = "move" THEN collection.todo ELSE {}

Known == Cited \cup printed \cup aged \cup confirmed \cup Seized

IsOwn(h, w) ==
  /\ w.new \in bucket /\ w.new \notin Known
  /\ w.op = "replace" => Photos!BelongsTo(w.new, w.product)
  /\ w.new # w.was
  /\ \A g \in Handler \ {h} :
       /\ handling[g] # Photos!Idle => w.new # handling[g].was
       /\ Makes(handling[g]) => w.new # handling[g].new

\* What a request has stored and not yet cited is there, and nobody else knows it.
NewOnesAreOwn == \A h \in Handler : Makes(handling[h]) => IsOwn(h, handling[h])

\* What a request found when it asked who cites the photo it replaced still holds.
Checked(w) ==
  /\ w.op \in {"finalize", "rows", "snapshots", "delete"} => w.was # NoPicture
  /\ w.op \in {"rows", "snapshots", "delete"} => Photos!BelongsTo(w.was, w.product)
  /\ w.op \in {"snapshots", "delete"} => w.was \notin Cited
  /\ w.op = "delete" => w.was \notin printed \ spoilt

ChecksStand == \A h \in Handler : Checked(handling[h])

\* No row cites a photo that was once reported as an orphan; and no order does
\* that the collection, when it comes back for it, does not know of.
OrphansStand ==
  /\ \A x \in confirmed : x \notin Cited
  /\ collection.at = "listed" /\ collection.mode = "quarantine" =>
       \A x \in confirmed \ collection.cited : x \notin printed \ spoilt
  /\ collection.at = "move" => \A x \in collection.todo : x \notin Cited /\ x \notin printed \ spoilt

PhotosInv ==
  Photos!TypeOK /\ NewOnesAreOwn /\ ChecksStand /\ OrphansStand /\ PhotosInUseAreThere

LEMMA Tasks ==
  ASSUME NEW w \in Photos!Work
  PROVE  /\ w # Photos!Idle /\ w.op \in {"replace", "rows", "snapshots", "delete", "copy", "finalize"}
         /\ w.product \in Article
         /\ w.was \in Picture \cup {NoPicture} /\ w.new \in Picture \cup {NoPicture}
<1>1. w.op \in {"replace", "rows", "snapshots", "delete", "copy", "finalize"}
  BY DEF Photos!Work
<1>2. Photos!Idle.op = "idle"
  BY DEF Photos!Idle
<1> QED
  BY <1>1, <1>2 DEF Photos!Work

\* The same request, one statement further.
LEMMA TaskGoes ==
  ASSUME NEW w \in Photos!Work, NEW op \in {"rows", "snapshots", "delete"}
  PROVE  LET v == [w EXCEPT !.op = op]
         IN  v \in Photos!Work /\ v.op = op /\ v.product = w.product /\ v.was = w.was
  BY DEF Photos!Work

LEMMA Collections ==
  ASSUME NEW c \in Photos!Purge \cup {Photos!Rest}
  PROVE  /\ c.at = "listed" => c.listed \subseteq EuPicture /\ c.cited \subseteq Picture
                               /\ c.mode \in {"inventory", "quarantine"}
         /\ c.at = "move" => c.todo \subseteq EuPicture
         /\ c.at \in {"listed", "move", "idle"}
  BY DEF Photos!Purge, Photos!Rest

\* One request takes a step, and leaves the collection alone.
LEMMA OneServed ==
  ASSUME PhotosInv, NEW h \in Handler, NEW w \in Photos!Work \cup {Photos!Idle},
         handling' = [handling EXCEPT ![h] = w],
         trash' = trash, collection' = collection, confirmed' = confirmed,
         photo' \in [Article -> Picture \cup {NoPicture}],
         printed' \subseteq Picture, spoilt' \subseteq Picture, spoilt \subseteq spoilt',
         bucket' \subseteq Picture, aged' \subseteq bucket', aged' \subseteq aged,
         \A x \in Cited' \ Cited :
           x = NoPicture \/ (Makes(handling[h]) /\ x = handling[h].new /\ x \in bucket' \cup spoilt'),
         \A x \in printed' \ printed : handling[h] # Photos!Idle /\ x = handling[h].was,
         \A x \in printed' \ spoilt' : x \in printed \ spoilt \/ x \in Cited,
         \A x \in bucket \ bucket' :
           /\ \/ handling[h] # Photos!Idle /\ x = handling[h].was
              \/ Makes(handling[h]) /\ x = handling[h].new
           /\ x \in spoilt' \/ (x \notin Cited' /\ x \notin printed'),
         Makes(w) => IsOwn(h, w)',
         w # Photos!Idle => \A g \in Handler \ {h} : Makes(handling[g]) => handling[g].new # w.was,
         Checked(w)'
  PROVE  PhotosInv'
<1>0. /\ Photos!TypeOK /\ NewOnesAreOwn /\ ChecksStand /\ OrphansStand /\ PhotosInUseAreThere
      /\ handling \in [Handler -> Photos!Work \cup {Photos!Idle}]
      /\ collection \in Photos!Purge \cup {Photos!Rest} /\ confirmed \subseteq EuPicture
  BY DEF PhotosInv, Photos!TypeOK
<1>1. handling'[h] = w /\ \A g \in Handler \ {h} : handling'[g] = handling[g]
  BY <1>0
<1>2. Seized' = Seized
  BY DEF Seized
<1>3. Photos!TypeOK'
  <2>1. handling' \in [Handler -> Photos!Work \cup {Photos!Idle}]
    BY <1>0
  <2> QED
    BY <1>0, <2>1 DEF Photos!TypeOK
<1>4. NewOnesAreOwn'
  <2> SUFFICES ASSUME NEW g \in Handler, Makes(handling'[g])
               PROVE  IsOwn(g, handling[g])'
    BY DEF NewOnesAreOwn, Makes
  <2>1. CASE g = h
    BY <1>1, <2>1 DEF IsOwn
  <2>2. CASE g # h
    <3>1. handling'[g] = handling[g] /\ Makes(handling[g]) /\ IsOwn(g, handling[g])
      BY <1>0, <1>1, <2>2 DEF NewOnesAreOwn
    <3> DEFINE x == handling[g].new
    <3>2. /\ x \in bucket /\ x \notin Known /\ x # NoPicture /\ x # handling[g].was
          /\ handling[g].op = "replace" => Photos!BelongsTo(x, handling[g].product)
          /\ \A k \in Handler \ {g} :
               /\ handling[k] # Photos!Idle => x # handling[k].was
               /\ Makes(handling[k]) => x # handling[k].new
      BY <3>1 DEF IsOwn, Makes
    <3>3. /\ handling[h] # Photos!Idle => x # handling[h].was
          /\ Makes(handling[h]) => x # handling[h].new
      BY <2>2, <3>2
    <3> HIDE DEF x
    <3>4. x \in bucket'
      BY <3>2, <3>3
    <3>5. x \notin Cited' /\ x \notin printed' /\ x \notin aged'
      BY <3>2, <3>3 DEF Known
    <3>6. x \notin Known'
      BY <1>2, <3>2, <3>5 DEF Known
    <3>7. ASSUME NEW k \in Handler \ {g}
          PROVE  /\ handling'[k] # Photos!Idle => x # handling'[k].was
                 /\ Makes(handling'[k]) => x # handling'[k].new
      <4>1. CASE k = h
        <5>1. Makes(w) => w.new # x
          BY <1>1, <2>2, <3>1 DEF IsOwn, x
        <5> QED
          BY <1>1, <2>2, <3>1, <4>1, <5>1 DEF x
      <4>2. CASE k # h
        BY <1>1, <3>2, <3>7, <4>2
      <4> QED
        BY <4>1, <4>2
    <3> QED
      BY <3>1, <3>2, <3>4, <3>6, <3>7 DEF IsOwn, Makes, Photos!BelongsTo, x
  <2> QED
    BY <2>1, <2>2
<1>5. ChecksStand'
  <2> SUFFICES ASSUME NEW g \in Handler
               PROVE  Checked(handling[g])'
    BY DEF ChecksStand
  <2>1. CASE g = h
    BY <1>1, <2>1 DEF Checked
  <2>2. CASE g # h
    <3>1. handling'[g] = handling[g] /\ Checked(handling[g])
      BY <1>0, <1>1, <2>2 DEF ChecksStand
    <3>2. handling[g].op \in {"snapshots", "delete"} => handling[g] # Photos!Idle
      BY DEF Photos!Idle
    <3>3. Makes(handling[h]) /\ handling[g] # Photos!Idle => handling[h].new # handling[g].was
      BY <1>0, <2>2 DEF NewOnesAreOwn, IsOwn
    <3>4. handling[g].op \in {"snapshots", "delete"} => handling[g].was \notin Cited'
      BY <3>1, <3>2, <3>3 DEF Checked
    <3>5. handling[g].op = "delete" => handling[g].was \notin printed' \ spoilt'
      BY <3>1 DEF Checked
    <3> QED
      BY <3>1, <3>4, <3>5 DEF Checked, Photos!BelongsTo
  <2> QED
    BY <2>1, <2>2
<1>6. OrphansStand'
  <2>1. Makes(handling[h]) => handling[h].new \notin confirmed /\ handling[h].new \notin Seized
    BY <1>0 DEF NewOnesAreOwn, IsOwn, Known
  <2>2. NoPicture \notin EuPicture
    BY PictureAssumption
  <2>3. \A x \in confirmed : x \notin Cited'
    BY <1>0, <2>1, <2>2 DEF OrphansStand
  <2>4. CASE collection.at = "move"
    <3>1. collection.todo \subseteq EuPicture /\ Seized = collection.todo
      BY <1>0, <2>4, Collections DEF Seized
    <3>2. \A x \in collection.todo : x \notin Cited' /\ x \notin printed' \ spoilt'
      BY <1>0, <2>1, <2>2, <2>4, <3>1 DEF OrphansStand
    <3> QED
      BY <2>3, <2>4, <3>2 DEF OrphansStand
  <2>5. CASE collection.at # "move"
    <3>1. collection.at = "listed" /\ collection.mode = "quarantine" =>
            \A x \in confirmed \ collection.cited : x \notin printed' \ spoilt'
      BY <1>0 DEF OrphansStand
    <3> QED
      BY <2>3, <2>5, <3>1 DEF OrphansStand
  <2> QED
    BY <2>4, <2>5
<1>7. PhotosInUseAreThere'
  <2> SUFFICES ASSUME NEW x \in Photos!InUse' \ spoilt'
               PROVE  x \in bucket'
    BY DEF PhotosInUseAreThere, Photos!PhotosInUseAreThere
  <2>1. x # NoPicture /\ (x \in Cited' \/ x \in printed') /\ x \notin spoilt
    BY DEF Photos!InUse, Cited
  <2>2. CASE x \in Cited \cup printed
    <3>1. x \in bucket
      BY <1>0, <2>1, <2>2 DEF PhotosInUseAreThere, Photos!PhotosInUseAreThere, Photos!InUse, Cited
    <3> QED
      BY <2>1, <3>1
  <2>3. CASE x \notin Cited \cup printed
    BY <2>1, <2>3
  <2> QED
    BY <2>2, <2>3
<1> QED
  BY <1>3, <1>4, <1>5, <1>6, <1>7 DEF PhotosInv

LEMMA OneTyped ==
  ASSUME PhotosInv
  PROVE  /\ Photos!TypeOK /\ handling \in [Handler -> Photos!Work \cup {Photos!Idle}]
         /\ photo \in [Article -> Picture \cup {NoPicture}]
         /\ printed \subseteq Picture /\ spoilt \subseteq Picture
         /\ bucket \subseteq Picture /\ aged \subseteq bucket
  BY DEF PhotosInv, Photos!TypeOK

\* A request reads, asks or ends, and changes nothing.
LEMMA OneReads ==
  ASSUME PhotosInv, NEW h \in Handler, NEW w \in Photos!Work \cup {Photos!Idle},
         handling' = [handling EXCEPT ![h] = w],
         UNCHANGED <<photo, printed, bucket, aged, trash, collection, confirmed, spoilt>>,
         ~Makes(w), Checked(w),
         w # Photos!Idle => w.was \in Cited \/ (handling[h] # Photos!Idle /\ w.was = handling[h].was)
  PROVE  PhotosInv'
<1>1. Cited' = Cited
  BY DEF Cited
<1>2. Checked(w)'
  BY <1>1 DEF Checked, Photos!BelongsTo
<1>3. w # Photos!Idle => \A g \in Handler \ {h} : Makes(handling[g]) => handling[g].new # w.was
  BY DEF PhotosInv, NewOnesAreOwn, IsOwn, Known
<1>4. ~Makes(w)'
  BY DEF Makes
<1> QED
  BY <1>1, <1>2, <1>3, <1>4, OneTyped, OneServed

LEMMA IdleTask == ~Makes(Photos!Idle) /\ Checked(Photos!Idle) /\ Photos!Idle \in Photos!Work \cup {Photos!Idle}
  BY DEF Photos!Idle, Makes, Checked

LEMMA OneEnds ==
  ASSUME PhotosInv, NEW h \in Handler, Photos!Ends(h),
         UNCHANGED <<photo, printed, bucket, aged, trash, collection, confirmed, spoilt>>
  PROVE  PhotosInv'
  BY IdleTask, OneReads DEF Photos!Ends

LEMMA OneGoes ==
  ASSUME PhotosInv, NEW h \in Handler, NEW op \in {"rows", "snapshots", "delete"}, Photos!Goes(h, op),
         handling[h] \in Photos!Work,
         UNCHANGED <<photo, printed, bucket, aged, trash, collection, confirmed, spoilt>>,
         \A w \in Photos!Work :
           w.op = op /\ w.product = handling[h].product /\ w.was = handling[h].was => Checked(w)
  PROVE  PhotosInv'
<1>1. PICK w : w = [handling[h] EXCEPT !.op = op]
  OBVIOUS
<1>2. w \in Photos!Work /\ w.op = op /\ w.product = handling[h].product /\ w.was = handling[h].was
  BY <1>1, TaskGoes
<1>3. handling' = [handling EXCEPT ![h] = w]
  BY <1>1, OneTyped DEF Photos!Goes
<1>4. ~Makes(w) /\ handling[h] # Photos!Idle
  BY <1>2, Tasks DEF Makes
<1> QED
  BY <1>2, <1>3, <1>4, OneReads

\* A request stores a photo that nobody knows.
LEMMA OneStores ==
  ASSUME PhotosInv, NEW h \in Handler, NEW p \in Article, NEW x \in Photos!Fresh(p),
         NEW op \in {"replace", "copy"},
         Photos!Starts(h, [op |-> op, product |-> p, was |-> photo[p], new |-> x]),
         Photos!Put(x), UNCHANGED <<photo, printed, collection, confirmed, spoilt>>
  PROVE  PhotosInv'
<1>1. PICK w : w = [op |-> op, product |-> p, was |-> photo[p], new |-> x]
  OBVIOUS
<1>2. /\ x \in Picture /\ x \notin Photos!Used /\ Photos!BelongsTo(x, p) /\ x # NoPicture
  BY PictureAssumption DEF Photos!Fresh
<1>3. w \in Photos!Work /\ w.op = op /\ w.new = x /\ w.was = photo[p] /\ w.product = p
  BY <1>1, <1>2, OneTyped DEF Photos!Work
<1>4. /\ handling' = [handling EXCEPT ![h] = w] /\ handling[h] = Photos!Idle
      /\ bucket' = bucket \cup {x} /\ UNCHANGED <<photo, printed, aged, trash, collection, confirmed, spoilt>>
  BY <1>1 DEF Photos!Starts, Photos!Put
<1>5. Cited' = Cited /\ Seized' = Seized
  BY <1>4 DEF Cited, Seized
<1>6. x \notin Cited /\ x \notin printed /\ x \notin bucket /\ x \notin confirmed /\ x \notin Photos!Collected
  BY <1>2 DEF Photos!Used, Cited
<1>7. x \notin Seized
  BY <1>6 DEF Photos!Collected, Seized
<1>8. x \notin Known
  BY <1>6, <1>7, OneTyped DEF Known
<1>9. \A g \in Handler : handling[g] # Photos!Idle => x # handling[g].new /\ x # handling[g].was
  <2>1. \A g \in Photos!Open : {handling[g].new, handling[g].was} \subseteq Photos!Used
    BY DEF Photos!Used
  <2> QED
    BY <1>2, <2>1 DEF Photos!Open
<1>10. \A g \in Handler : Makes(handling[g]) => handling[g] # Photos!Idle
  BY DEF Makes, Photos!Idle
<1>11. IsOwn(h, w)'
  <2>1. x \notin Known'
    BY <1>4, <1>5, <1>8 DEF Known
  <2>2. \A g \in Handler \ {h} : handling'[g] = handling[g]
    BY <1>4, OneTyped
  <2>3. x # photo[p]
    BY <1>6 DEF Cited
  <2>4. \A g \in Handler \ {h} : /\ handling'[g] # Photos!Idle => x # handling'[g].was
                                 /\ Makes(handling'[g]) => x # handling'[g].new
    BY <1>9, <1>10, <2>2
  <2> QED
    BY <1>2, <1>3, <1>4, <2>1, <2>3, <2>4 DEF IsOwn, Makes, Photos!BelongsTo
<1>12. Checked(w)'
  BY <1>3 DEF Checked
<1>13. \A g \in Handler \ {h} : Makes(handling[g]) => handling[g].new # w.was
  BY <1>3 DEF PhotosInv, NewOnesAreOwn, IsOwn, Known, Cited
<1>14. bucket' \subseteq Picture /\ aged' \subseteq bucket'
  BY <1>2, <1>4, OneTyped
<1> QED
  BY <1>3, <1>4, <1>5, <1>11, <1>12, <1>13, <1>14, OneTyped, OneServed

LEMMA PhotosStart ==
  ASSUME Photos!Init
  PROVE  PhotosInv
<1>1. Photos!TypeOK
  BY PictureAssumption DEF Photos!Init, Photos!TypeOK
<1>2. NewOnesAreOwn /\ ChecksStand
  BY IdleTask DEF Photos!Init, NewOnesAreOwn, ChecksStand
<1>3. OrphansStand
  BY DEF Photos!Init, Photos!Rest, OrphansStand
<1>4. PhotosInUseAreThere
  BY DEF Photos!Init, Photos!InUse, PhotosInUseAreThere, Photos!PhotosInUseAreThere
<1> QED
  BY <1>1, <1>2, <1>3, <1>4 DEF PhotosInv

\* A request that has not committed yet: its task, and what it knows of the new photo.
LEMMA OneWorks ==
  ASSUME PhotosInv, NEW h \in Handler, handling[h].op # "idle"
  PROVE  /\ handling[h] \in Photos!Work /\ handling[h] # Photos!Idle
         /\ handling[h].product \in Article
         /\ handling[h].was \in Picture \cup {NoPicture}
         /\ handling[h].new \in Picture \cup {NoPicture}
         /\ Checked(handling[h])
         /\ Makes(handling[h]) => /\ handling[h].new \in bucket /\ handling[h].new \notin Cited
                                  /\ handling[h].new \notin printed
<1>1. handling[h] # Photos!Idle
  BY DEF Photos!Idle
<1>2. handling[h] \in Photos!Work
  BY <1>1, OneTyped
<1> QED
  BY <1>1, <1>2, Tasks DEF PhotosInv, ChecksStand, NewOnesAreOwn, IsOwn, Known

\* What it leaves of the others: their new photos are not the one it replaced.
LEMMA OthersMakeTheirs ==
  ASSUME PhotosInv, NEW h \in Handler, handling[h] # Photos!Idle
  PROVE  \A g \in Handler \ {h} : Makes(handling[g]) => handling[g].new # handling[h].was
  BY DEF PhotosInv, NewOnesAreOwn, IsOwn

\* The row is written.
LEMMA OneWrites ==
  ASSUME PhotosInv, NEW h \in Handler, handling[h].op \in {"replace", "copy"},
         photo' = [photo EXCEPT ![handling[h].product] = handling[h].new]
  PROVE  /\ photo' \in [Article -> Picture \cup {NoPicture}]
         /\ \A x \in Cited' \ Cited : x = NoPicture \/ (Makes(handling[h]) /\ x = handling[h].new)
<1>1. handling[h].product \in Article /\ handling[h].new \in Picture \cup {NoPicture}
  BY OneWorks
<1>2. photo \in [Article -> Picture \cup {NoPicture}]
  BY OneTyped
<1>3. \A p \in Article : photo'[p] = photo[p] \/ photo'[p] = handling[h].new
  BY <1>1, <1>2
<1> QED
  BY <1>1, <1>2, <1>3 DEF Cited, Makes

LEMMA ReplaceCommits ==
  ASSUME PhotosInv, NEW h \in Handler, Photos!CommitReplace(h), UNCHANGED collection
  PROVE  PhotosInv'
<1>1. /\ handling[h].op = "replace"
      /\ photo' = [photo EXCEPT ![handling[h].product] = handling[h].new]
      /\ UNCHANGED <<printed, bucket, aged, trash, spoilt, confirmed>>
  BY DEF Photos!CommitReplace, Photos!objects, Photos!collector
<1>2. PICK w : w = IF handling[h].was # NoPicture /\ Photos!BelongsTo(handling[h].was, handling[h].product)
                   THEN [handling[h] EXCEPT !.op = "rows"] ELSE Photos!Idle
  OBVIOUS
<1>3. handling' = [handling EXCEPT ![h] = w]
  BY <1>2, OneTyped DEF Photos!CommitReplace, Photos!Goes, Photos!Ends
<1>4. handling[h] \in Photos!Work /\ handling[h] # Photos!Idle
  BY <1>1, OneWorks
<1>5. /\ w \in Photos!Work \cup {Photos!Idle} /\ ~Makes(w)'
      /\ w # Photos!Idle => w.was = handling[h].was
  BY <1>2, <1>4, TaskGoes, IdleTask DEF Makes
<1>6. Checked(w)'
  <2>1. CASE w = Photos!Idle
    BY <2>1 DEF Checked, Photos!Idle
  <2>2. CASE w # Photos!Idle
    <3>1. /\ w.op = "rows" /\ w.was # NoPicture /\ Photos!BelongsTo(w.was, w.product)
      BY <1>2, <1>4, <2>2, TaskGoes
    <3> QED
      BY <3>1 DEF Checked, Photos!BelongsTo
  <2> QED
    BY <2>1, <2>2
<1>7. \A x \in Cited' \ Cited :
        x = NoPicture \/ (Makes(handling[h]) /\ x = handling[h].new /\ x \in bucket' \cup spoilt')
  <2>1. Makes(handling[h]) => handling[h].new \in bucket'
    BY <1>1, OneWorks
  <2> QED
    BY <1>1, <2>1, OneWrites
<1> QED
  BY <1>1, <1>3, <1>4, <1>5, <1>6, <1>7, OneWrites, OneTyped, OneServed, OthersMakeTheirs

LEMMA ReplaceFails ==
  ASSUME PhotosInv, NEW h \in Handler, Photos!RefuseReplace(h), UNCHANGED collection
  PROVE  PhotosInv'
<1>1. /\ handling[h].op = "replace" /\ handling' = [handling EXCEPT ![h] = Photos!Idle]
      /\ UNCHANGED <<photo, printed, trash, spoilt, confirmed>>
  BY DEF Photos!RefuseReplace, Photos!objects, Photos!collector, Photos!Ends, Photos!Delete
<1>2. \/ UNCHANGED <<bucket, aged>>
      \/ Makes(handling[h]) /\ bucket' = bucket \ {handling[h].new} /\ aged' = aged \ {handling[h].new}
  BY <1>1 DEF Photos!RefuseReplace, Photos!objects, Photos!Delete, Makes
<1>3. Cited' = Cited
  BY <1>1 DEF Cited
<1>4. \A x \in bucket \ bucket' :
        Makes(handling[h]) /\ x = handling[h].new /\ x \notin Cited' /\ x \notin printed'
  BY <1>1, <1>2, <1>3, OneWorks
<1>5. bucket' \subseteq Picture /\ aged' \subseteq bucket' /\ aged' \subseteq aged
  BY <1>2, OneTyped
<1>6. ~Makes(Photos!Idle)' /\ Checked(Photos!Idle)'
  BY DEF Photos!Idle, Makes, Checked
<1> QED
  BY <1>1, <1>3, <1>4, <1>5, <1>6, OneTyped, OneServed

LEMMA ReplaceIsLost ==
  ASSUME PhotosInv, NEW h \in Handler, Photos!LoseAnswer(h), UNCHANGED collection
  PROVE  PhotosInv'
<1>1. /\ handling[h].op = "replace" /\ handling' = [handling EXCEPT ![h] = Photos!Idle]
      /\ photo' = [photo EXCEPT ![handling[h].product] = handling[h].new]
      /\ UNCHANGED <<printed, trash, confirmed>>
  BY DEF Photos!LoseAnswer, Photos!objects, Photos!collector, Photos!Ends, Photos!Delete
<1>2. \/ UNCHANGED <<bucket, aged, spoilt>> /\ ~Makes(handling[h])
      \/ /\ Makes(handling[h]) /\ bucket' = bucket \ {handling[h].new} /\ aged' = aged \ {handling[h].new}
         /\ spoilt' = spoilt \cup {handling[h].new}
  BY <1>1 DEF Photos!LoseAnswer, Photos!objects, Photos!Delete, Makes
<1>3. \A x \in Cited' \ Cited :
        x = NoPicture \/ (Makes(handling[h]) /\ x = handling[h].new /\ x \in bucket' \cup spoilt')
  BY <1>1, <1>2, OneWrites
<1>4. \A x \in bucket \ bucket' : Makes(handling[h]) /\ x = handling[h].new /\ x \in spoilt'
  BY <1>2
<1>5. /\ bucket' \subseteq Picture /\ aged' \subseteq bucket' /\ aged' \subseteq aged
      /\ spoilt' \subseteq Picture /\ spoilt \subseteq spoilt'
  BY <1>1, <1>2, OneTyped, OneWorks DEF Makes
<1>6. ~Makes(Photos!Idle)' /\ Checked(Photos!Idle)'
  BY DEF Photos!Idle, Makes, Checked
<1> QED
  BY <1>1, <1>3, <1>4, <1>5, <1>6, OneWrites, OneTyped, OneServed

LEMMA SyncCommits ==
  ASSUME PhotosInv, NEW h \in Handler, Photos!CommitSync(h), UNCHANGED collection
  PROVE  PhotosInv'
<1>1. /\ handling[h].op = "copy" /\ handling' = [handling EXCEPT ![h] = Photos!Idle]
      /\ photo' = [photo EXCEPT ![handling[h].product] = handling[h].new]
      /\ UNCHANGED <<printed, bucket, aged, trash, spoilt, confirmed>>
  BY DEF Photos!CommitSync, Photos!objects, Photos!collector, Photos!Ends
<1>2. \A x \in Cited' \ Cited :
        x = NoPicture \/ (Makes(handling[h]) /\ x = handling[h].new /\ x \in bucket' \cup spoilt')
  <2>1. Makes(handling[h]) => handling[h].new \in bucket'
    BY <1>1, OneWorks
  <2> QED
    BY <1>1, <2>1, OneWrites
<1>3. ~Makes(Photos!Idle)' /\ Checked(Photos!Idle)'
  BY DEF Photos!Idle, Makes, Checked
<1> QED
  BY <1>1, <1>2, <1>3, OneWrites, OneTyped, OneServed

LEMMA SnapshotCommits ==
  ASSUME PhotosInv, NEW h \in Handler, Photos!CommitSnapshot(h), UNCHANGED collection
  PROVE  PhotosInv'
<1> DEFINE x == handling[h].was
<1>1. /\ handling[h].op = "finalize" /\ handling' = [handling EXCEPT ![h] = Photos!Idle]
      /\ printed' = printed \cup {x} /\ spoilt' = spoilt \cup ({x} \ (printed \cup Cited))
      /\ UNCHANGED <<photo, bucket, aged, trash, confirmed>>
  BY DEF Photos!CommitSnapshot, Photos!objects, Photos!collector, Photos!Ends, Cited
<1>2. x \in Picture /\ handling[h] # Photos!Idle
  BY <1>1, OneWorks DEF Checked
<1>3. Cited' = Cited
  BY <1>1 DEF Cited
<1>4. ~Makes(Photos!Idle)' /\ Checked(Photos!Idle)'
  BY DEF Photos!Idle, Makes, Checked
<1> QED
  BY <1>1, <1>2, <1>3, <1>4, OneTyped, OneServed

LEMMA OneDeletes ==
  ASSUME PhotosInv, NEW h \in Handler, Photos!DeleteUnreferenced(h), UNCHANGED collection
  PROVE  PhotosInv'
<1> DEFINE x == handling[h].was
<1>1. /\ handling[h].op = "delete" /\ handling' = [handling EXCEPT ![h] = Photos!Idle]
      /\ bucket' = bucket \ {x} /\ aged' = aged \ {x}
      /\ UNCHANGED <<photo, printed, trash, spoilt, confirmed>>
  BY DEF Photos!DeleteUnreferenced, Photos!collector, Photos!Ends, Photos!Delete
<1>2. handling[h] # Photos!Idle /\ x \notin Cited /\ x \notin printed \ spoilt
  BY <1>1, OneWorks DEF Checked
<1>3. Cited' = Cited
  BY <1>1 DEF Cited
<1>4. ~Makes(Photos!Idle)' /\ Checked(Photos!Idle)'
  BY DEF Photos!Idle, Makes, Checked
<1>5. bucket' \subseteq Picture /\ aged' \subseteq bucket'
  BY <1>1, OneTyped
<1> QED
  BY <1>1, <1>2, <1>3, <1>4, <1>5, OneTyped, OneServed

\* The statements that only read, and the start of a request.
LEMMA RequestsRead ==
  ASSUME PhotosInv, NEW h \in Handler, UNCHANGED collection,
         \/ \E p \in Article : Photos!BeginDeletePhoto(h, p) \/ Photos!BeginSnapshot(h, p)
         \/ Photos!CheckRows(h) \/ Photos!CheckSnapshots(h) \/ Photos!Abort(h)
  PROVE  PhotosInv'
<1>0. UNCHANGED <<photo, printed, bucket, aged, trash, collection, confirmed, spoilt>>
  BY DEF Photos!BeginDeletePhoto, Photos!BeginSnapshot, Photos!CheckRows, Photos!CheckSnapshots,
         Photos!Abort, Photos!objects, Photos!collector
<1>1. ASSUME NEW p \in Article, Photos!BeginDeletePhoto(h, p) \/ Photos!BeginSnapshot(h, p)
      PROVE  PhotosInv'
  <2>1. PICK op \in {"replace", "finalize"} : /\ photo[p] # NoPicture
          /\ Photos!Starts(h, [op |-> op, product |-> p, was |-> photo[p], new |-> NoPicture])
    BY <1>1 DEF Photos!BeginDeletePhoto, Photos!BeginSnapshot
  <2>2. PICK w : w = [op |-> op, product |-> p, was |-> photo[p], new |-> NoPicture]
    OBVIOUS
  <2>3. w \in Photos!Work /\ w.op = op /\ w.was = photo[p] /\ w.new = NoPicture
    BY <2>2, OneTyped DEF Photos!Work
  <2>4. handling' = [handling EXCEPT ![h] = w]
    BY <2>1, <2>2 DEF Photos!Starts
  <2>5. ~Makes(w) /\ Checked(w) /\ w.was \in Cited
    BY <2>1, <2>3 DEF Makes, Checked, Cited
  <2> QED
    BY <1>0, <2>3, <2>4, <2>5, OneReads
<1>2. CASE Photos!Ends(h)
  BY <1>0, <1>2, OneEnds
<1>3. ASSUME handling[h].op = "rows", \A p \in Article : photo[p] # handling[h].was,
             Photos!Goes(h, "snapshots")
      PROVE  PhotosInv'
  <2>1. handling[h] \in Photos!Work /\ Checked(handling[h])
    BY <1>3, OneWorks
  <2>2. handling[h].was \notin Cited
    BY <1>3 DEF Cited
  <2>3. \A w \in Photos!Work :
          w.op = "snapshots" /\ w.product = handling[h].product /\ w.was = handling[h].was => Checked(w)
    BY <1>3, <2>1, <2>2 DEF Checked
  <2> QED
    BY <1>0, <1>3, <2>1, <2>3, OneGoes
<1>4. ASSUME handling[h].op = "snapshots", handling[h].was \notin printed, Photos!Goes(h, "delete")
      PROVE  PhotosInv'
  <2>1. handling[h] \in Photos!Work /\ Checked(handling[h])
    BY <1>4, OneWorks
  <2>2. \A w \in Photos!Work :
          w.op = "delete" /\ w.product = handling[h].product /\ w.was = handling[h].was => Checked(w)
    BY <1>4, <2>1 DEF Checked
  <2> QED
    BY <1>0, <1>4, <2>1, <2>2, OneGoes
<1> QED
  BY <1>1, <1>2, <1>3, <1>4 DEF Photos!CheckRows, Photos!CheckSnapshots, Photos!Abort

\* The collection takes a step, and no request does.
LEMMA Collects ==
  ASSUME PhotosInv, Photos!TypeOK', UNCHANGED <<photo, printed, handling, spoilt>>,
         confirmed' \cup Seized' \cup aged' \subseteq Known \cup aged',
         \A h \in Handler : Makes(handling[h]) => handling[h].new \in bucket' /\ handling[h].new \notin aged',
         OrphansStand', PhotosInUseAreThere'
  PROVE  PhotosInv'
<1>1. Cited' = Cited
  BY DEF Cited
<1>2. NewOnesAreOwn'
  <2> SUFFICES ASSUME NEW h \in Handler, Makes(handling[h])
               PROVE  IsOwn(h, handling[h])'
    BY DEF NewOnesAreOwn, Makes
  <2>1. IsOwn(h, handling[h])
    BY DEF PhotosInv, NewOnesAreOwn
  <2>2. handling[h].new \notin Known'
    BY <1>1, <2>1 DEF IsOwn, Known
  <2> QED
    BY <2>1, <2>2 DEF IsOwn, Makes, Photos!BelongsTo
<1>3. ChecksStand'
  BY <1>1 DEF PhotosInv, ChecksStand, Checked, Photos!BelongsTo
<1> QED
  BY <1>2, <1>3 DEF PhotosInv

\* It lists, reports, and answers: no object moves.
LEMMA CollectsNothing ==
  ASSUME PhotosInv, UNCHANGED <<photo, printed, bucket, aged, trash, handling, spoilt>>,
         collection' \in Photos!Purge \cup {Photos!Rest}, confirmed' \subseteq EuPicture,
         confirmed' \cup Seized' \subseteq Known, OrphansStand'
  PROVE  PhotosInv'
<1>1. Photos!TypeOK'
  BY DEF PhotosInv, Photos!TypeOK
<1>2. PhotosInUseAreThere'
  BY DEF PhotosInv, PhotosInUseAreThere, Photos!PhotosInUseAreThere, Photos!InUse
<1>3. \A h \in Handler : Makes(handling[h]) => handling[h].new \in bucket' /\ handling[h].new \notin aged'
  BY DEF PhotosInv, NewOnesAreOwn, IsOwn, Known
<1> QED
  BY <1>1, <1>2, <1>3, Collects

LEMMA OrphansListed ==
  ASSUME PhotosInv, NEW mode \in {"inventory", "quarantine"}, Photos!Inventory(mode), UNCHANGED photo
  PROVE  PhotosInv'
<1>1. /\ collection' = [at |-> "listed", mode |-> mode, listed |-> aged \cap EuPicture, cited |-> printed]
      /\ UNCHANGED <<printed, bucket, aged, trash, handling, spoilt, confirmed>>
  BY DEF Photos!Inventory, Photos!objects
<1>2. collection' \in Photos!Purge
  BY <1>1, OneTyped DEF Photos!Purge
<1>3. confirmed' \subseteq EuPicture /\ confirmed' \cup Seized' \subseteq Known
  BY <1>1 DEF PhotosInv, Photos!TypeOK, Known, Seized
<1>4. OrphansStand'
  BY <1>1 DEF PhotosInv, OrphansStand, Cited
<1> QED
  BY <1>1, <1>2, <1>3, <1>4, CollectsNothing

LEMMA OrphansReported ==
  ASSUME PhotosInv, UNCHANGED photo, Photos!Report \/ Photos!RefusePurge \/ Photos!Answer
  PROVE  PhotosInv'
<1>1. collection' = Photos!Rest /\ UNCHANGED <<printed, bucket, aged, trash, handling, spoilt>>
  BY DEF Photos!Report, Photos!RefusePurge, Photos!Answer, Photos!objects
<1>2. \/ confirmed' \subseteq confirmed
      \/ collection.at = "listed" /\ confirmed' \subseteq collection.listed \ Cited
  BY DEF Photos!Report, Photos!RefusePurge, Photos!Answer, Photos!Orphans, Cited
<1>3. confirmed' \subseteq EuPicture
  BY <1>2, Collections DEF PhotosInv, Photos!TypeOK
<1>4. confirmed' \cup Seized' \subseteq Known
  BY <1>1, <1>2 DEF Known, Seized, Photos!Rest
<1>5. OrphansStand'
  BY <1>1, <1>2 DEF PhotosInv, OrphansStand, Cited, Photos!Rest
<1> QED
  BY <1>1, <1>3, <1>4, <1>5, CollectsNothing

\* The quarantine may start: what it takes is what was reported, asked again.
LEMMA OrphansConfirmed ==
  ASSUME PhotosInv, UNCHANGED photo, Photos!Confirm
  PROVE  PhotosInv'
<1>1. /\ collection.at = "listed" /\ collection.mode = "quarantine"
      /\ collection' = [at |-> "move", todo |-> confirmed] /\ confirmed \cap collection.cited = {}
      /\ UNCHANGED <<printed, bucket, aged, trash, handling, spoilt, confirmed>>
  BY DEF Photos!Confirm, Photos!objects, Photos!Orphans
<1>2. confirmed \subseteq EuPicture
  BY DEF PhotosInv, Photos!TypeOK
<1>3. collection' \in Photos!Purge
  BY <1>1, <1>2 DEF Photos!Purge
<1>4. confirmed' \cup Seized' \subseteq Known
  BY <1>1 DEF Known, Seized
<1>5. OrphansStand'
  BY <1>1 DEF PhotosInv, OrphansStand, Cited
<1> QED
  BY <1>1, <1>2, <1>3, <1>4, <1>5, CollectsNothing

LEMMA OrphansMoved ==
  ASSUME PhotosInv, UNCHANGED photo, collection.at = "move", Photos!Quarantine
  PROVE  PhotosInv'
<1>1. PICK x \in collection.todo :
        /\ trash' \in {trash, trash \cup {x}}
        /\ \E gone \in {{}, {x}} : bucket' = bucket \ gone /\ aged' = aged \ gone
        /\ collection' = [collection EXCEPT !.todo = @ \ {x}]
        /\ UNCHANGED <<printed, handling, spoilt, confirmed>>
  <2>1. bucket = bucket \ {} /\ aged = aged \ {}
    OBVIOUS
  <2> QED
    BY <2>1 DEF Photos!Quarantine, Photos!objects
<1>2. /\ collection.todo \subseteq EuPicture /\ collection \in [at : {"move"}, todo : SUBSET EuPicture]
      /\ confirmed \subseteq EuPicture
  BY Collections DEF PhotosInv, Photos!TypeOK, Photos!Purge, Photos!Rest
<1>3. collection' \in Photos!Purge /\ collection'.at = "move" /\ collection'.todo = collection.todo \ {x}
  BY <1>1, <1>2 DEF Photos!Purge
<1>4. x \in Seized /\ x \notin Cited /\ x \notin printed \ spoilt
  BY <1>1 DEF PhotosInv, OrphansStand, Seized
<1>5. Photos!TypeOK'
  BY <1>1, <1>2, <1>3 DEF PhotosInv, Photos!TypeOK
<1>6. confirmed' \cup Seized' \cup aged' \subseteq Known \cup aged'
  BY <1>1, <1>3 DEF Known, Seized
<1>7. \A h \in Handler : Makes(handling[h]) => handling[h].new \in bucket' /\ handling[h].new \notin aged'
  BY <1>1, <1>4 DEF PhotosInv, NewOnesAreOwn, IsOwn, Known
<1>8. OrphansStand'
  BY <1>1, <1>3 DEF PhotosInv, OrphansStand, Cited
<1>9. PhotosInUseAreThere'
  BY <1>1, <1>4 DEF PhotosInv, PhotosInUseAreThere, Photos!PhotosInUseAreThere, Photos!InUse, Cited
<1> QED
  BY <1>1, <1>5, <1>6, <1>7, <1>8, <1>9, Collects

\* What comes back, is deleted for good, or grows old.
LEMMA OrphansRest ==
  ASSUME PhotosInv, UNCHANGED photo, Photos!Restore \/ Photos!DeleteForGood \/ Photos!GrowOld
  PROVE  PhotosInv'
<1>1. UNCHANGED <<printed, handling, spoilt, confirmed, collection>> /\ trash' \subseteq trash
  BY DEF Photos!Restore, Photos!DeleteForGood, Photos!GrowOld, Photos!collector
<1>2. Photos!TypeOK /\ NewOnesAreOwn /\ OrphansStand /\ PhotosInUseAreThere /\ EuPicture \subseteq Picture
  BY PictureAssumption DEF PhotosInv
<1>3. /\ bucket \subseteq bucket' /\ bucket' \subseteq Picture
      /\ aged' \subseteq bucket'
      /\ \A h \in Handler : Makes(handling[h]) => handling[h].new \notin aged'
  <2>1. CASE Photos!Restore
    <3>1. PICK x \in trash : bucket' = bucket \cup {x} /\ aged' \subseteq aged
      BY <2>1 DEF Photos!Restore
    <3> QED
      BY <1>2, <3>1 DEF Photos!TypeOK, NewOnesAreOwn, IsOwn, Known
  <2>2. CASE Photos!DeleteForGood
    BY <1>2, <2>2 DEF Photos!DeleteForGood, Photos!TypeOK, NewOnesAreOwn, IsOwn, Known
  <2>3. CASE Photos!GrowOld
    <3>1. PICK x \in bucket : /\ x \notin {handling[r].new : r \in Photos!Open}
                             /\ aged' = aged \cup {x} /\ bucket' = bucket
      BY <2>3 DEF Photos!GrowOld
    <3>2. \A h \in Handler : Makes(handling[h]) => h \in Photos!Open
      BY DEF Makes, Photos!Open, Photos!Idle
    <3> QED
      BY <1>2, <3>1, <3>2 DEF Photos!TypeOK, NewOnesAreOwn, IsOwn, Known
  <2> QED
    BY <2>1, <2>2, <2>3
<1>4. Photos!TypeOK'
  BY <1>1, <1>2, <1>3 DEF Photos!TypeOK
<1>5. confirmed' \cup Seized' \cup aged' \subseteq Known \cup aged'
  BY <1>1 DEF Known, Seized
<1>6. \A h \in Handler : Makes(handling[h]) => handling[h].new \in bucket' /\ handling[h].new \notin aged'
  BY <1>2, <1>3 DEF NewOnesAreOwn, IsOwn
<1>7. OrphansStand'
  BY <1>1, <1>2 DEF OrphansStand, Cited
<1>8. PhotosInUseAreThere'
  BY <1>1, <1>2, <1>3 DEF PhotosInUseAreThere, Photos!PhotosInUseAreThere, Photos!InUse
<1> QED
  BY <1>1, <1>4, <1>5, <1>6, <1>7, <1>8, Collects

LEMMA PhotosStep ==
  ASSUME PhotosInv, [NextPhotos]_media
  PROVE  PhotosInv'
<1>1. CASE UNCHANGED media
  BY <1>1, OneTyped
  DEF PhotosInv, media, Photos!TypeOK, NewOnesAreOwn, IsOwn, Known, Seized, Makes, ChecksStand, Checked,
      OrphansStand, Cited, PhotosInUseAreThere, Photos!PhotosInUseAreThere, Photos!InUse, Photos!BelongsTo
<1>2. ASSUME NEW h \in Handler, OnPhoto(h)
      PROVE  PhotosInv'
  <2>1. UNCHANGED collection
    BY <1>2 DEF OnPhoto
  <2>2. ASSUME NEW p \in Article, Photos!BeginUpload(h, p)
        PROVE  PhotosInv'
    <3>1. PICK x \in Photos!Fresh(p) :
            /\ Photos!Put(x)
            /\ Photos!Starts(h, [op |-> "replace", product |-> p, was |-> photo[p], new |-> x])
            /\ UNCHANGED <<photo, printed, confirmed, spoilt>>
      BY <2>2 DEF Photos!BeginUpload, Photos!collector
    <3> QED
      BY <2>1, <3>1, OneStores
  <2>3. ASSUME NEW p \in Article, Photos!BeginSync(h, p)
        PROVE  PhotosInv'
    <3>1. PICK x \in Photos!Fresh(p) :
            /\ Photos!Put(x)
            /\ Photos!Starts(h, [op |-> "copy", product |-> p, was |-> photo[p], new |-> x])
            /\ UNCHANGED <<photo, printed, confirmed, spoilt>>
      BY <2>3 DEF Photos!BeginSync, Photos!collector
    <3> QED
      BY <2>1, <3>1, OneStores
  <2> QED
    BY <1>2, <2>1, <2>2, <2>3, RequestsRead, ReplaceCommits, ReplaceFails, ReplaceIsLost, SyncCommits,
       SnapshotCommits, OneDeletes
    DEF OnPhoto
<1>3. CASE OnOrphans
  BY <1>3, OrphansListed, OrphansReported, OrphansConfirmed, OrphansMoved, OrphansRest DEF OnOrphans
<1> QED
  BY <1>1, <1>2, <1>3 DEF NextPhotos

LEMMA PhotosAlways == SpecPhotos => []PhotosInv
<1>1. InitPhotos => PhotosInv
  BY PhotosStart DEF InitPhotos
<1>2. PhotosInv /\ [NextPhotos]_media => PhotosInv'
  BY PhotosStep
<1> QED
  BY <1>1, <1>2, PTL DEF SpecPhotos

\* Rows, snapshots, buckets, requests and the collection keep to their types.
THEOREM PhotoTypes == SpecPhotos => []Photos!TypeOK
<1>1. PhotosInv => Photos!TypeOK
  BY DEF PhotosInv
<1> QED
  BY <1>1, PhotosAlways, PTL

\* A photo that a row or the snapshot of an order cites is in its bucket, whatever
\* replacement, synchronization or collection of orphans ran meanwhile, but for the
\* two races that spoilt names.
THEOREM PhotosInUseAlwaysThere == SpecPhotos => []PhotosInUseAreThere
<1>1. PhotosInv => PhotosInUseAreThere
  BY DEF PhotosInv
<1> QED
  BY <1>1, PhotosAlways, PTL

\* What leaves the Brazilian bucket.
TakenByBrazil == \A x \in (bucket \ EuPicture) \ bucket' :
                   \E h \in Photos!Open : handling[h].product \notin European

LEMMA EuropeTakesItsOwn ==
  ASSUME PhotosInv, [NextPhotos]_media
  PROVE  TakenByBrazil
<1>1. CASE bucket \subseteq bucket'
  BY <1>1 DEF TakenByBrazil
<1>2. ASSUME NEW h \in Handler, NEW y, bucket' = bucket \ {y}, handling[h] # Photos!Idle,
             Photos!BelongsTo(y, handling[h].product)
      PROVE  TakenByBrazil
  BY <1>2 DEF TakenByBrazil, Photos!Open, Photos!BelongsTo
<1>3. ASSUME NEW h \in Handler, OnPhoto(h)
      PROVE  TakenByBrazil
  <2>1. CASE Photos!RefuseReplace(h) \/ Photos!LoseAnswer(h)
    <3>1. handling[h].op = "replace"
      BY <2>1 DEF Photos!RefuseReplace, Photos!LoseAnswer
    <3>2. bucket' = bucket \/ (Makes(handling[h]) /\ bucket' = bucket \ {handling[h].new})
      BY <2>1, <3>1 DEF Photos!RefuseReplace, Photos!LoseAnswer, Photos!Delete, Photos!objects, Makes
    <3>3. handling[h] # Photos!Idle
      BY <3>1, OneWorks
    <3>4. Makes(handling[h]) => Photos!BelongsTo(handling[h].new, handling[h].product)
      BY <3>1 DEF PhotosInv, NewOnesAreOwn, IsOwn
    <3> QED
      BY <1>1, <1>2, <3>2, <3>3, <3>4
  <2>2. CASE Photos!DeleteUnreferenced(h)
    <3>1. handling[h].op = "delete" /\ bucket' = bucket \ {handling[h].was}
      BY <2>2 DEF Photos!DeleteUnreferenced, Photos!Delete
    <3>2. handling[h] # Photos!Idle /\ Photos!BelongsTo(handling[h].was, handling[h].product)
      BY <3>1, OneWorks DEF Checked
    <3> QED
      BY <1>2, <3>1, <3>2
  <2>3. CASE bucket \subseteq bucket'
    BY <1>1, <2>3
  <2> QED
    BY <1>3, <2>1, <2>2, <2>3
    DEF OnPhoto, Photos!BeginUpload, Photos!BeginDeletePhoto, Photos!BeginSync, Photos!BeginSnapshot,
        Photos!CommitReplace, Photos!CheckRows, Photos!CheckSnapshots, Photos!CommitSync,
        Photos!CommitSnapshot, Photos!Abort, Photos!objects, Photos!Put
<1>4. CASE OnOrphans
  <2>1. CASE collection.at = "move" /\ Photos!Quarantine
    <3>1. PICK x \in collection.todo : bucket \ {x} \subseteq bucket'
      BY <2>1 DEF Photos!Quarantine, Photos!objects
    <3>2. x \in EuPicture
      BY <2>1, <3>1, Collections DEF PhotosInv, Photos!TypeOK
    <3> QED
      BY <3>1, <3>2 DEF TakenByBrazil
  <2> QED
    BY <1>1, <1>4, <2>1
    DEF OnOrphans, Photos!Inventory, Photos!Report, Photos!Confirm, Photos!RefusePurge, Photos!Answer,
        Photos!Restore, Photos!DeleteForGood, Photos!GrowOld, Photos!objects
<1>5. CASE UNCHANGED media
  BY <1>1, <1>5 DEF media
<1> QED
  BY <1>3, <1>4, <1>5 DEF NextPhotos

\* What Europe does with the photos it borrows takes nothing out of the Brazilian bucket.
THEOREM BrazilAlwaysKeepsItsPhotos == SpecPhotos => BrazilKeepsItsPhotos
<1>1. PhotosInv /\ [NextPhotos]_media =>
        [\A x \in (bucket \ EuPicture) \ bucket' :
           \E r \in Photos!Open : handling[r].product \notin European]_Photos!vars
  BY EuropeTakesItsOwn DEF TakenByBrazil
<1> QED
  BY <1>1, PhotosAlways, PTL DEF SpecPhotos, BrazilKeepsItsPhotos, Photos!BrazilKeepsItsPhotos

\* The steps sorted by what they leave alone are those of ProductPhotos, all of them.
THEOREM PhotoBucketsAreProductPhotos == SpecPhotos <=> Photos!Spec
<1>1. NextPhotos => Photos!Next
  BY DEF NextPhotos, OnPhoto, OnOrphans, Photos!Next, Photos!Serve, Photos!Collect
<1>2. ASSUME NEW h \in Handler, Photos!Serve(h)
      PROVE  OnPhoto(h)
  <2>1. UNCHANGED collection
    BY <1>2 DEF Photos!Serve, Photos!BeginUpload, Photos!BeginDeletePhoto, Photos!BeginSync,
         Photos!BeginSnapshot, Photos!CommitReplace, Photos!RefuseReplace, Photos!LoseAnswer,
         Photos!CheckRows, Photos!CheckSnapshots, Photos!DeleteUnreferenced, Photos!CommitSync,
         Photos!CommitSnapshot, Photos!Abort, Photos!collector
  <2> QED
    BY <1>2, <2>1 DEF Photos!Serve, OnPhoto
<1>3. ASSUME Photos!Collect \/ Photos!GrowOld
      PROVE  OnOrphans
  <2>1. UNCHANGED photo
    BY <1>3 DEF Photos!Collect, Photos!Inventory, Photos!Report, Photos!Confirm, Photos!RefusePurge,
         Photos!Quarantine, Photos!Answer, Photos!Restore, Photos!DeleteForGood, Photos!GrowOld
  <2> QED
    BY <1>3, <2>1 DEF Photos!Collect, OnOrphans
<1>4. [NextPhotos]_media <=> [Photos!Next]_Photos!vars
  BY <1>1, <1>2, <1>3 DEF NextPhotos, Photos!Next, media, Photos!vars
<1> QED
  BY <1>4, PTL DEF SpecPhotos, InitPhotos, Photos!Spec

=============================================================================
