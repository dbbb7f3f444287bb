------------------------ MODULE OrderLifecycle_proofs ------------------------
(***************************************************************************)
(* What holds of orders for any number of them, of users, markets and      *)
(* concurrent requests: none of the safety properties of OrderLifecycle    *)
(* needs a bound on any of these.                                          *)
(***************************************************************************)
EXTENDS OrderLifecycle, TLAPS

\* The locks a transaction takes in all, and the order it decides about.
Plan(t) ==
  CASE t.op = "create" -> InsertLocks(t.order)
    [] t.op = "revise" -> ReviseLocks(t.order, t.from)
    [] t.op = "update" -> UpdateLocks(t.order)
    [] t.op \in {"finalize", "cancel"} -> TerminalLocks(t.order)
    [] t.op \in {"stage", "delete"} -> <<OrderRow(t.order)>>

Subject(t) == IF t.op = "revise" THEN t.from ELSE t.order

\* A transaction holds the first locks of its plan and has the rest to take.
FollowsPlan(t) ==
  \E n \in 0 .. Len(Plan(t)) :
    /\ Len(t.todo) = Len(Plan(t)) - n
    /\ \A i \in 1 .. Len(t.todo) : t.todo[i] = Plan(t)[n + i]
    /\ t.held = {Plan(t)[i] : i \in 1 .. n}

LocksFollowPlans == \A r \in DOMAIN txn : FollowsPlan(txn[r])

LocksAreExclusive ==
  \A r, q \in DOMAIN txn : r # q => txn[r].held \cap txn[q].held = {}

\* What was decided about an order holds for as long as its row is locked.
DecisionsStand ==
  \A r \in DOMAIN txn :
    txn[r].op # "create" /\ OrderRow(Subject(txn[r])) \in txn[r].held => Accepts(txn[r])

\* The order a request creates is new and its own; others are about orders
\* there are, or were.
OrdersOfRequests ==
  \A r \in DOMAIN txn :
    LET t == txn[r]
    IN  IF t.op \in {"create", "revise"}
        THEN /\ t.order \notin Used
             /\ \A q \in DOMAIN txn : q # r => txn[q].order # t.order
             /\ t.op = "create" => t.from = NoOrder
             /\ t.op = "revise" => /\ t.from \in Used
                                   /\ t.seen /\ t.from \in Live => Finalized(t.from)
        ELSE t.order \in Used

NumbersAreBelowCounters ==
  \A o \in Used : /\ given[o].number < numbers[CounterOf(o)]
                  /\ given[o].quote < quotes[MarketOf[o]]

\* The consumer is never ahead.
CopiesAreNotAhead ==
  \A o \in DOMAIN copy \cap Live : copy[o].source_version <= row[o].source_version

Inv ==
  /\ TablesOK
  /\ TransactionsOK
  /\ LocksFollowPlans
  /\ LocksAreExclusive
  /\ DecisionsStand
  /\ OrdersOfRequests
  /\ NumbersAreBelowCounters
  /\ CopiesAreNotAhead
  /\ RevisionsFormChains
  /\ EmailedDocumentIsTheOrder
  /\ JobsAreFinalizedEuOrders
  /\ StaleCopiesAreDetectable

-----------------------------------------------------------------------------
(* Rows and locks *)

LEMMA OrderRows ==
  /\ \A o, p : OrderRow(o) = OrderRow(p) => o = p
  /\ \A o, p : OrderRow(o) # NumberRow(p) /\ OrderRow(o) # QuoteRow(p) /\ OrderRow(o) # ClientRow(p)
  BY DEF OrderRow, NumberRow, QuoteRow, ClientRow

LEMMA LockableRows ==
  ASSUME NEW o \in Order
  PROVE  {OrderRow(o), NumberRow(o), QuoteRow(o), ClientRow(o)} \subseteq Lockable
  BY DEF Lockable

\* The rank of a row: every request locks rows in the order of their ranks.
Rank(x) ==
  CASE x[1] = "order" -> 1
    [] x[1] = "number" -> 2
    [] x[1] = "quote" -> 3
    [] x[1] = "client" -> 4

LEMMA Ranks ==
  ASSUME NEW o
  PROVE  /\ Rank(OrderRow(o)) = 1
         /\ Rank(NumberRow(o)) = 2
         /\ Rank(QuoteRow(o)) = 3
         /\ Rank(ClientRow(o)) = 4
<1>1. /\ OrderRow(o)[1] = "order" /\ NumberRow(o)[1] = "number"
      /\ QuoteRow(o)[1] = "quote" /\ ClientRow(o)[1] = "client"
  BY DEF OrderRow, NumberRow, QuoteRow, ClientRow
<1> QED  BY <1>1 DEF Rank

LEMMA PlanRows ==
  ASSUME NEW t, t.op \in Operation
  PROVE  /\ Len(Plan(t)) \in 1 .. 4
         /\ \A i \in 1 .. Len(Plan(t)) :
              Plan(t)[i] \in {OrderRow(Subject(t)), NumberRow(t.order), QuoteRow(t.order), ClientRow(t.order)}
         /\ t.op # "create" => Plan(t)[1] = OrderRow(Subject(t))
         /\ \A i \in 1 .. Len(Plan(t)) : Plan(t)[i] = OrderRow(Subject(t)) => i = 1 /\ t.op # "create"
         /\ \A i, j \in 1 .. Len(Plan(t)) : i < j => Rank(Plan(t)[i]) < Rank(Plan(t)[j])
         /\ \A i \in 1 .. Len(Plan(t)) : Rank(Plan(t)[i]) \in 1 .. 4
<1>1. CASE t.op = "create"
  <2>1. Plan(t) = <<NumberRow(t.order), QuoteRow(t.order), ClientRow(t.order)>>
    BY <1>1 DEF Plan, InsertLocks
  <2> QED  BY <1>1, <2>1, Ranks, OrderRows
<1>2. CASE t.op = "revise"
  <2>1. Plan(t) = <<OrderRow(t.from), NumberRow(t.order), QuoteRow(t.order), ClientRow(t.order)>>
    BY <1>2 DEF Plan, ReviseLocks
  <2> QED  BY <1>2, <2>1, Ranks, OrderRows DEF Subject
<1>3. CASE t.op \in {"update", "finalize", "cancel"}
  <2>1. Plan(t) = <<OrderRow(t.order), ClientRow(t.order)>>
    BY <1>3 DEF Plan, UpdateLocks, TerminalLocks
  <2> QED  BY <1>3, <2>1, Ranks, OrderRows DEF Subject
<1>4. CASE t.op \in {"stage", "delete"}
  <2>1. Plan(t) = <<OrderRow(t.order)>>
    BY <1>4 DEF Plan
  <2> QED  BY <1>4, <2>1, Ranks, OrderRows DEF Subject
<1> QED  BY <1>1, <1>2, <1>3, <1>4 DEF Operation

\* What a transaction that follows its plan holds and waits for.
LEMMA PlanFollowed ==
  ASSUME NEW t, t.op \in Operation, t.todo \in Seq(Lockable), FollowsPlan(t)
  PROVE  /\ \A o : OrderRow(o) \in t.held => o = Subject(t) /\ t.op # "create"
         /\ t.todo = <<>> /\ t.op # "create" => OrderRow(Subject(t)) \in t.held
         /\ t.todo # <<>> => /\ \A x \in t.held : Rank(x) < Rank(Head(t.todo))
                             /\ Rank(Head(t.todo)) \in 1 .. 4
<1>1. PICK n \in 0 .. Len(Plan(t)) :
        /\ Len(t.todo) = Len(Plan(t)) - n
        /\ \A i \in 1 .. Len(t.todo) : t.todo[i] = Plan(t)[n + i]
        /\ t.held = {Plan(t)[i] : i \in 1 .. n}
  BY DEF FollowsPlan
<1>2. Len(Plan(t)) \in 1 .. 4
  BY PlanRows
<1>3. \A o : OrderRow(o) \in t.held => o = Subject(t) /\ t.op # "create"
  <2> SUFFICES ASSUME NEW o, OrderRow(o) \in t.held
               PROVE  o = Subject(t) /\ t.op # "create"
    OBVIOUS
  <2>1. PICK i \in 1 .. n : OrderRow(o) = Plan(t)[i]
    BY <1>1
  <2>2. i \in 1 .. Len(Plan(t))
    BY <1>2
  <2>3. o = Subject(t)
    BY <2>1, <2>2, PlanRows, OrderRows
  <2> QED  BY <2>1, <2>2, <2>3, PlanRows
<1>4. t.todo = <<>> /\ t.op # "create" => OrderRow(Subject(t)) \in t.held
  <2> SUFFICES ASSUME t.todo = <<>>, t.op # "create"
               PROVE  OrderRow(Subject(t)) \in t.held
    OBVIOUS
  <2>1. n = Len(Plan(t))
    BY <1>1, <1>2
  <2>2. 1 \in 1 .. n
    BY <2>1, <1>2
  <2> QED  BY <2>2, <1>1, PlanRows
<1>5. ASSUME t.todo # <<>>
      PROVE  /\ \A x \in t.held : Rank(x) < Rank(Head(t.todo))
             /\ Rank(Head(t.todo)) \in 1 .. 4
  <2>1. Head(t.todo) = t.todo[1] /\ 1 \in 1 .. Len(t.todo)
    BY <1>5
  <2>2. Head(t.todo) = Plan(t)[n + 1] /\ n + 1 \in 1 .. Len(Plan(t))
    BY <2>1, <1>1, <1>2
  <2>3. ASSUME NEW x \in t.held
        PROVE  Rank(x) < Rank(Head(t.todo))
    <3>1. PICK i \in 1 .. n : x = Plan(t)[i]
      BY <1>1
    <3>2. i \in 1 .. Len(Plan(t)) /\ i < n + 1
      BY <1>2
    <3> QED  BY <3>1, <3>2, <2>2, PlanRows
  <2> QED  BY <2>2, <2>3, PlanRows
<1> QED  BY <1>3, <1>4, <1>5

-----------------------------------------------------------------------------
(* What every step does to the transactions *)

\* A request that begins holds nothing and has its whole plan to take.
LEMMA Opened ==
  ASSUME TransactionsOK, LocksFollowPlans, LocksAreExclusive,
         NEW r \in Request, r \notin DOMAIN txn,
         NEW t \in Txn, t.held = {}, t.todo = Plan(t), txn' = With(txn, r, t)
  PROVE  TransactionsOK' /\ LocksFollowPlans' /\ LocksAreExclusive'
<1>1. /\ DOMAIN txn' = DOMAIN txn \cup {r} /\ txn'[r] = t
      /\ \A q \in DOMAIN txn : txn'[q] = txn[q]
  BY DEF With
<1>2. txn' \in [DOMAIN txn' -> Txn]
  BY <1>1 DEF With, TransactionsOK
<1>3. TransactionsOK'
  BY <1>1, <1>2 DEF TransactionsOK
<1>4. FollowsPlan(t)
  <2>1. 0 \in 0 .. Len(Plan(t)) /\ Len(Plan(t)) \in Nat
    BY PlanRows DEF Txn
  <2>2. \A i \in 1 .. Len(t.todo) : t.todo[i] = Plan(t)[0 + i]
    BY <2>1
  <2>3. t.held = {Plan(t)[i] : i \in 1 .. 0}
    OBVIOUS
  <2> QED  BY <2>1, <2>2, <2>3 DEF FollowsPlan
<1>5. LocksFollowPlans'
  <2> SUFFICES ASSUME NEW q \in DOMAIN txn'
               PROVE  FollowsPlan(txn'[q])
    BY DEF LocksFollowPlans, FollowsPlan, Plan, InsertLocks, ReviseLocks, UpdateLocks, TerminalLocks
  <2>1. CASE q = r
    BY <2>1, <1>1, <1>4
  <2>2. CASE q # r
    BY <2>2, <1>1 DEF LocksFollowPlans
  <2> QED  BY <2>1, <2>2
<1>6. LocksAreExclusive'
  BY <1>1 DEF LocksAreExclusive
<1> QED  BY <1>3, <1>5, <1>6

\* A request that ends releases what it holds.
LEMMA Ended ==
  ASSUME TransactionsOK, LocksFollowPlans, LocksAreExclusive, NEW r \in DOMAIN txn, End(r)
  PROVE  /\ TransactionsOK' /\ LocksFollowPlans' /\ LocksAreExclusive'
         /\ DOMAIN txn' = DOMAIN txn \ {r}
         /\ \A q \in DOMAIN txn' : txn'[q] = txn[q]
<1>1. DOMAIN txn' = DOMAIN txn \ {r} /\ \A q \in DOMAIN txn' : txn'[q] = txn[q]
  BY DEF End
<1>2. txn' \in [DOMAIN txn' -> Txn]
  BY DEF End, TransactionsOK
<1>3. TransactionsOK'
  BY <1>1, <1>2 DEF TransactionsOK
<1>4. LocksFollowPlans'
  BY <1>1 DEF LocksFollowPlans
<1>5. LocksAreExclusive'
  BY <1>1 DEF LocksAreExclusive
<1> QED  BY <1>1, <1>3, <1>4, <1>5

\* A request that takes a lock takes the next one of its plan.
LEMMA Locked ==
  ASSUME TransactionsOK, LocksFollowPlans, LocksAreExclusive, NEW r \in DOMAIN txn, Lock(r)
  PROVE  /\ TransactionsOK' /\ LocksFollowPlans' /\ LocksAreExclusive'
         /\ DOMAIN txn' = DOMAIN txn
         /\ \A q \in DOMAIN txn \ {r} : txn'[q] = txn[q]
         /\ txn'[r] = [txn[r] EXCEPT !.todo = Tail(@), !.held = @ \cup {Head(txn[r].todo)}]
<1> DEFINE t == txn[r]
           x == Head(t.todo)
           u == [t EXCEPT !.todo = Tail(@), !.held = @ \cup {x}]
<1>1. t \in Txn /\ t.todo \in Seq(Lockable) /\ t.todo # <<>>
  BY DEF TransactionsOK, Lock, Txn
<1>2. x \in Lockable /\ Tail(t.todo) \in Seq(Lockable) /\ Len(Tail(t.todo)) = Len(t.todo) - 1
      /\ \A i \in 1 .. Len(t.todo) - 1 : Tail(t.todo)[i] = t.todo[i + 1]
  BY <1>1
<1>3. txn' = [txn EXCEPT ![r] = u]
  BY <1>1 DEF Lock, TransactionsOK, Txn
<1>4. u \in Txn
  BY <1>1, <1>2 DEF Txn
<1>5. /\ DOMAIN txn' = DOMAIN txn
      /\ \A q \in DOMAIN txn \ {r} : txn'[q] = txn[q]
      /\ txn'[r] = u
  BY <1>3 DEF TransactionsOK
<1>6. TransactionsOK'
  BY <1>3, <1>4, <1>5 DEF TransactionsOK
<1>7. FollowsPlan(u)
  <2>1. PICK n \in 0 .. Len(Plan(t)) :
          /\ Len(t.todo) = Len(Plan(t)) - n
          /\ \A i \in 1 .. Len(t.todo) : t.todo[i] = Plan(t)[n + i]
          /\ t.held = {Plan(t)[i] : i \in 1 .. n}
    BY DEF LocksFollowPlans, FollowsPlan
  <2>2. Plan(u) = Plan(t) /\ u.todo = Tail(t.todo) /\ u.held = t.held \cup {x}
    BY <1>1 DEF Plan, Txn
  <2>3. Len(Plan(t)) \in 1 .. 4
    BY <1>1, PlanRows DEF Txn
  <2>4. Len(t.todo) \in Nat /\ Len(t.todo) # 0
    BY <1>1
  <2>5. n + 1 \in 0 .. Len(Plan(u)) /\ Len(u.todo) = Len(Plan(u)) - (n + 1)
    BY <2>1, <2>2, <2>3, <2>4, <1>2
  <2>6. \A i \in 1 .. Len(u.todo) : u.todo[i] = Plan(u)[(n + 1) + i]
    <3> TAKE i \in 1 .. Len(u.todo)
    <3>1. u.todo[i] = t.todo[i + 1] /\ i + 1 \in 1 .. Len(t.todo)
      BY <1>2, <2>2, <2>4
    <3>2. t.todo[i + 1] = Plan(t)[n + (i + 1)]
      BY <3>1, <2>1
    <3>3. n + (i + 1) = (n + 1) + i
      BY <3>1
    <3> QED  BY <3>1, <3>2, <3>3, <2>2
  <2>7. x = Plan(t)[n + 1]
    BY <2>1, <2>4, <1>1
  <2>8. u.held = {Plan(u)[i] : i \in 1 .. (n + 1)}
    <3>1. \A i : i \in 1 .. (n + 1) <=> i \in 1 .. n \/ i = n + 1
      OBVIOUS
    <3>2. \A y : y \in {Plan(t)[i] : i \in 1 .. (n + 1)} <=> y \in t.held \/ y = x
      BY <3>1, <2>1, <2>7
    <3> QED  BY <3>2, <2>2
  <2> QED  BY <2>5, <2>6, <2>8 DEF FollowsPlan
<1>8. LocksFollowPlans'
  <2> SUFFICES ASSUME NEW q \in DOMAIN txn'
               PROVE  FollowsPlan(txn'[q])
    BY DEF LocksFollowPlans
  <2>1. CASE q = r
    BY <2>1, <1>5, <1>7
  <2>2. CASE q # r
    BY <2>2, <1>5 DEF LocksFollowPlans
  <2> QED  BY <2>1, <2>2
<1>9. LocksAreExclusive'
  <2>1. \A q \in DOMAIN txn : x \notin txn[q].held
    BY DEF Lock
  <2>2. u.held = t.held \cup {x}
    BY <1>1 DEF Txn
  <2> SUFFICES ASSUME NEW q \in DOMAIN txn', NEW p \in DOMAIN txn', q # p
               PROVE  txn'[q].held \cap txn'[p].held = {}
    BY DEF LocksAreExclusive
  <2>3. t.held \cap txn[q].held = {} \/ q = r
    BY <1>5 DEF LocksAreExclusive
  <2>4. t.held \cap txn[p].held = {} \/ p = r
    BY <1>5 DEF LocksAreExclusive
  <2>5. CASE q = r
    BY <2>5, <2>1, <2>2, <2>4, <1>5
  <2>6. CASE p = r
    BY <2>6, <2>1, <2>2, <2>3, <1>5
  <2>7. CASE q # r /\ p # r
    BY <2>7, <1>5 DEF LocksAreExclusive
  <2> QED  BY <2>5, <2>6, <2>7
<1> QED  BY <1>5, <1>6, <1>8, <1>9

-----------------------------------------------------------------------------
(* What a request may rely on when it commits *)

\* The order it decided about is locked, and still as it decided.
LEMMA Decided ==
  ASSUME Inv, NEW r \in DOMAIN txn, txn[r].op # "create", txn[r].todo = <<>>
  PROVE  Accepts(txn[r]) /\ OrderRow(Subject(txn[r])) \in txn[r].held
<1>1. /\ txn[r] \in Txn /\ FollowsPlan(txn[r])
      /\ txn[r].op \in Operation /\ txn[r].todo \in Seq(Lockable)
  BY DEF Inv, TransactionsOK, LocksFollowPlans, Txn
<1>2. OrderRow(Subject(txn[r])) \in txn[r].held
  BY <1>1, PlanFollowed
<1> QED  BY <1>2 DEF Inv, DecisionsStand

\* What the decisions about an order depend on has not changed.
Untouched(p) ==
  /\ p \in DOMAIN row' <=> p \in DOMAIN row
  /\ p \in DOMAIN row => row'[p] = row[p]
  /\ p \in DOMAIN emails' <=> p \in DOMAIN emails
  /\ \A s \in DOMAIN row' : row'[s].supersedes = p => s \in DOMAIN row /\ row[s].supersedes = p

\* The decisions of the others stand if a request touches only what it locks.
LEMMA OthersDecisions ==
  ASSUME Inv, NEW r \in DOMAIN txn, End(r),
         \A p \in Used : OrderRow(p) \notin txn[r].held => Untouched(p)
  PROVE  DecisionsStand'
<1> SUFFICES ASSUME NEW q \in DOMAIN txn', NEW t, t = txn[q], t = txn'[q], q # r, q \in DOMAIN txn,
                    t.op # "create", OrderRow(Subject(t)) \in t.held
             PROVE  Accepts(t)'
  <2>1. DOMAIN txn' = DOMAIN txn \ {r} /\ \A q \in DOMAIN txn' : txn'[q] = txn[q]
    BY Ended DEF Inv
  <2> QED  BY <2>1 DEF DecisionsStand, Accepts, Revisable, Editable, Finalized, Blocked, Successors, Subject
<1>1. t \in Txn
  BY DEF Inv, TransactionsOK
<1>2. Subject(t) \in Used
  BY <1>1 DEF Inv, OrdersOfRequests, Subject, Txn, Operation
<1>3. OrderRow(Subject(t)) \notin txn[r].held
  BY DEF Inv, LocksAreExclusive
<1>4. Untouched(Subject(t))
  BY <1>2, <1>3
<1>5. Accepts(t)
  BY DEF Inv, DecisionsStand
<1>6. CASE t.op = "revise"
  BY <1>4, <1>5, <1>6 DEF Untouched, Subject, Accepts, Revisable, Finalized, Successors, Live
<1>7. CASE t.op \in {"update", "finalize", "cancel", "stage", "delete"}
  BY <1>4, <1>5, <1>7 DEF Untouched, Subject, Accepts, Editable, Finalized, Blocked, Successors, Live
<1> QED  BY <1>1, <1>6, <1>7 DEF Txn, Operation

\* So does what the others have read or reserved.
LEMMA OthersOrders ==
  ASSUME Inv, NEW r \in DOMAIN txn, End(r),
         Used \subseteq Used', Used' \subseteq Used \cup {txn[r].order},
         txn[r].op \notin {"create", "revise"} => Used' = Used,
         \A o \in Used \cap DOMAIN row' : Finalized(o) => row'[o].status = "finalized",
         Used \cap DOMAIN row' \subseteq Live
  PROVE  OrdersOfRequests'
<1>1. DOMAIN txn' = DOMAIN txn \ {r} /\ \A q \in DOMAIN txn' : txn'[q] = txn[q]
  BY Ended DEF Inv
<1> SUFFICES ASSUME NEW q \in DOMAIN txn', NEW t, t = txn[q], t = txn'[q], q # r, q \in DOMAIN txn
             PROVE  IF t.op \in {"create", "revise"}
                    THEN /\ t.order \notin Used'
                         /\ \A p \in DOMAIN txn' : p # q => txn'[p].order # t.order
                         /\ t.op = "create" => t.from = NoOrder
                         /\ t.op = "revise" =>
                              /\ t.from \in Used'
                              /\ t.seen /\ t.from \in DOMAIN row' => row'[t.from].status = "finalized"
                    ELSE t.order \in Used'
  BY <1>1 DEF OrdersOfRequests, Finalized, Live
<1>2. IF t.op \in {"create", "revise"}
      THEN /\ t.order \notin Used
           /\ \A p \in DOMAIN txn : p # q => txn[p].order # t.order
           /\ t.op = "create" => t.from = NoOrder
           /\ t.op = "revise" => /\ t.from \in Used
                                 /\ t.seen /\ t.from \in Live => Finalized(t.from)
      ELSE t.order \in Used
  BY DEF Inv, OrdersOfRequests
<1>3. CASE t.op \in {"create", "revise"}
  <2>1. t.order # txn[r].order
    BY <1>2, <1>3
  <2>2. t.order \notin Used' /\ \A p \in DOMAIN txn' : p # q => txn'[p].order # t.order
    BY <1>1, <1>2, <1>3, <2>1
  <2>3. ASSUME t.op = "revise", t.seen, t.from \in DOMAIN row'
        PROVE  row'[t.from].status = "finalized"
    BY <1>2, <2>3
  <2> QED  BY <1>2, <1>3, <2>2, <2>3
<1>4. CASE t.op \notin {"create", "revise"}
  BY <1>2, <1>4
<1> QED  BY <1>3, <1>4

-----------------------------------------------------------------------------
(* The steps of a transaction before its commit *)

\* The part of the invariant that is about the tables alone.
RowsInv ==
  /\ TablesOK
  /\ NumbersAreBelowCounters
  /\ CopiesAreNotAhead
  /\ RevisionsFormChains
  /\ EmailedDocumentIsTheOrder
  /\ JobsAreFinalizedEuOrders
  /\ StaleCopiesAreDetectable

tables == <<row, numbers, quotes, given, emails, jobs, announced, copy>>

LEMMA NoTableChanges ==
  ASSUME RowsInv, UNCHANGED tables
  PROVE  RowsInv'
<1>1. TablesOK'
  BY DEF RowsInv, tables, TablesOK, Live, Used
<1>2. NumbersAreBelowCounters' /\ CopiesAreNotAhead'
  BY DEF RowsInv, tables, NumbersAreBelowCounters, CopiesAreNotAhead, Live, Used
<1>3. RevisionsFormChains' /\ EmailedDocumentIsTheOrder'
  BY DEF RowsInv, tables, RevisionsFormChains, EmailedDocumentIsTheOrder, Successors, Finalized, Live
<1>4. JobsAreFinalizedEuOrders' /\ StaleCopiesAreDetectable'
  BY DEF RowsInv, tables, JobsAreFinalizedEuOrders, StaleCopiesAreDetectable, View, Finalized, Live
<1> QED  BY <1>1, <1>2, <1>3, <1>4 DEF RowsInv

\* A decision is about what was asked, not about the locks taken so far.
LEMMA AcceptsSame ==
  ASSUME NEW t, NEW u, t.op = u.op, t.order = u.order, t.from = u.from, t.seen = u.seen,
         Accepts(t), UNCHANGED tables
  PROVE  Accepts(u)'
  BY DEF Accepts, Revisable, Editable, Finalized, Blocked, Successors, Live, tables

\* Request r begins with transaction t, to create order o or about it.
Starts(r, o, t) ==
  /\ r \notin DOMAIN txn /\ UNCHANGED tables
  /\ t \in Txn /\ t.held = {} /\ t.todo = Plan(t) /\ t.order = o
  /\ txn' = With(txn, r, t)
  /\ IF t.op \in {"create", "revise"}
     THEN /\ Fresh(o)
          /\ t.op = "create" => t.from = NoOrder
          /\ t.op = "revise" => t.from \in Live /\ (t.seen => Finalized(t.from))
     ELSE o \in Live

LEMMA Begun ==
  ASSUME NEW r \in Request, NEW o \in Order, Begin(r, o)
  PROVE  \E t : Starts(r, o, t)
<1> DEFINE T(op, from, seen, locks) ==
             [op |-> op, order |-> o, from |-> from, seen |-> seen, todo |-> locks, held |-> {}]
<1>1. InsertLocks(o) \in Seq(Lockable) /\ UpdateLocks(o) \in Seq(Lockable)
      /\ TerminalLocks(o) \in Seq(Lockable) /\ <<OrderRow(o)>> \in Seq(Lockable)
  BY LockableRows DEF InsertLocks, UpdateLocks, TerminalLocks
<1>2. ASSUME NEW from \in Order
      PROVE  ReviseLocks(o, from) \in Seq(Lockable)
  BY <1>2, LockableRows DEF ReviseLocks
<1>3. CASE BeginCreate(r, o)
  <2>1. T("create", NoOrder, FALSE, InsertLocks(o)) \in Txn
    BY <1>1 DEF Txn, Operation
  <2>2. Plan(T("create", NoOrder, FALSE, InsertLocks(o))) = InsertLocks(o)
    BY DEF Plan
  <2> QED  BY <1>3, <2>1, <2>2 DEF BeginCreate, Open, tables, Starts
<1>4. ASSUME NEW from \in Order, BeginRevise(r, o, from)
      PROVE  \E t : Starts(r, o, t)
  <2>1. PICK seen \in {Finalized(from), FALSE} : Open(r, "revise", o, from, seen, ReviseLocks(o, from))
    BY <1>4 DEF BeginRevise
  <2>2. T("revise", from, seen, ReviseLocks(o, from)) \in Txn
    BY <1>2, <2>1 DEF Txn, Operation, Finalized
  <2>3. Plan(T("revise", from, seen, ReviseLocks(o, from))) = ReviseLocks(o, from)
    BY DEF Plan
  <2>4. seen => Finalized(from)
    BY <2>1
  <2>5. Fresh(o) /\ from \in Live
    BY <1>4 DEF BeginRevise
  <2>6. Starts(r, o, T("revise", from, seen, ReviseLocks(o, from)))
    BY <2>1, <2>2, <2>3, <2>4, <2>5 DEF Open, tables, Starts
  <2> QED  BY <2>6
<1>5. ASSUME NEW op \in {"update", "finalize", "cancel", "stage", "delete"}, NEW locks \in Seq(Lockable),
             o \in Live, Open(r, op, o, NoOrder, FALSE, locks),
             locks = Plan(T(op, NoOrder, FALSE, locks))
      PROVE  \E t : Starts(r, o, t)
  <2>1. T(op, NoOrder, FALSE, locks) \in Txn
    BY <1>5 DEF Txn, Operation
  <2> QED  BY <1>5, <2>1 DEF Open, tables, Starts
<1>6. /\ Plan(T("update", NoOrder, FALSE, UpdateLocks(o))) = UpdateLocks(o)
      /\ Plan(T("finalize", NoOrder, FALSE, TerminalLocks(o))) = TerminalLocks(o)
      /\ Plan(T("cancel", NoOrder, FALSE, TerminalLocks(o))) = TerminalLocks(o)
      /\ Plan(T("stage", NoOrder, FALSE, <<OrderRow(o)>>)) = <<OrderRow(o)>>
      /\ Plan(T("delete", NoOrder, FALSE, <<OrderRow(o)>>)) = <<OrderRow(o)>>
  BY DEF Plan
<1> QED  BY <1>1, <1>3, <1>4, <1>5, <1>6
     DEF Begin, BeginUpdate, BeginFinalize, BeginCancel, BeginStage, BeginDelete

LEMMA BeginKeepsInv ==
  ASSUME Inv, NEW r \in Request, NEW o \in Order, Begin(r, o)
  PROVE  Inv'
<1>1. PICK t : Starts(r, o, t)
  BY Begun
<1>2. /\ DOMAIN txn' = DOMAIN txn \cup {r} /\ txn'[r] = t
      /\ \A q \in DOMAIN txn : q # r /\ txn'[q] = txn[q]
  BY <1>1 DEF Starts, With
<1>3. TransactionsOK' /\ LocksFollowPlans' /\ LocksAreExclusive'
  BY <1>1, Opened DEF Inv, Starts
<1>4. DecisionsStand'
  <2> SUFFICES ASSUME NEW q \in DOMAIN txn', NEW u, u = txn'[q], u.op # "create",
                      OrderRow(Subject(u)) \in u.held
               PROVE  Accepts(u)'
    BY DEF DecisionsStand, Accepts, Revisable, Editable, Finalized, Blocked, Successors, Subject, Live
  <2>1. q # r
    BY <1>1, <1>2 DEF Starts
  <2>2. u = txn[q] /\ q \in DOMAIN txn
    BY <1>2, <2>1
  <2>3. Accepts(u)
    BY <2>2 DEF Inv, DecisionsStand
  <2> QED  BY <1>1, <2>3, AcceptsSame DEF Starts
<1>5. OrdersOfRequests'
  <2> SUFFICES ASSUME NEW q \in DOMAIN txn', NEW u, u = txn'[q]
               PROVE  IF u.op \in {"create", "revise"}
                      THEN /\ u.order \notin Used
                           /\ \A p \in DOMAIN txn' : p # q => txn'[p].order # u.order
                           /\ u.op = "create" => u.from = NoOrder
                           /\ u.op = "revise" => /\ u.from \in Used
                                                 /\ u.seen /\ u.from \in Live => Finalized(u.from)
                      ELSE u.order \in Used
    BY <1>1 DEF OrdersOfRequests, Starts, tables, Used, Live, Finalized
  <2>1. Live \subseteq Used
    BY DEF Inv, TablesOK
  <2>2. CASE q = r
    BY <1>1, <1>2, <2>1, <2>2 DEF Starts, Fresh
  <2>3. CASE q # r
    <3>1. q \in DOMAIN txn /\ u = txn[q]
      BY <1>2, <2>3
    <3>2. u.op \in {"create", "revise"} => u.order # t.order
      BY <1>1, <2>1, <3>1 DEF Starts, Fresh, Inv, OrdersOfRequests
    <3> QED  BY <1>2, <3>1, <3>2 DEF Inv, OrdersOfRequests
  <2> QED  BY <2>2, <2>3
<1> QED  BY <1>1, <1>3, <1>4, <1>5, NoTableChanges DEF Inv, RowsInv, Starts

LEMMA LockKeepsInv ==
  ASSUME Inv, NEW r \in DOMAIN txn, Lock(r)
  PROVE  Inv'
<1> DEFINE t == txn[r]
           x == Head(t.todo)
<1>1. UNCHANGED tables /\ (x[1] = "order" => Accepts(t))
  BY DEF Lock, tables
<1>2. /\ TransactionsOK' /\ LocksFollowPlans' /\ LocksAreExclusive'
      /\ DOMAIN txn' = DOMAIN txn
      /\ \A q \in DOMAIN txn \ {r} : txn'[q] = txn[q]
      /\ txn'[r] = [t EXCEPT !.todo = Tail(@), !.held = @ \cup {x}]
  BY Locked DEF Inv
<1>3. t \in Txn
  BY DEF Inv, TransactionsOK
<1>4. /\ txn'[r].op = t.op /\ txn'[r].order = t.order /\ txn'[r].from = t.from
      /\ txn'[r].seen = t.seen /\ txn'[r].held = t.held \cup {x}
  BY <1>2, <1>3 DEF Txn
<1>5. DecisionsStand'
  <2> SUFFICES ASSUME NEW q \in DOMAIN txn', NEW u, u = txn'[q], u.op # "create",
                      OrderRow(Subject(u)) \in u.held
               PROVE  Accepts(u)'
    BY DEF DecisionsStand, Accepts, Revisable, Editable, Finalized, Blocked, Successors, Subject, Live
  <2>1. CASE q = r
    <3>1. Subject(u) = Subject(t) /\ t.op # "create"
      BY <1>4, <2>1 DEF Subject
    <3>2. OrderRow(Subject(t))[1] = "order"
      BY DEF OrderRow
    <3>3. OrderRow(Subject(t)) \in t.held \/ OrderRow(Subject(t)) = x
      BY <1>4, <2>1, <3>1
    <3>4. Accepts(t)
      BY <1>1, <3>1, <3>2, <3>3 DEF Inv, DecisionsStand
    <3> QED  BY <1>1, <1>4, <2>1, <3>4, AcceptsSame
  <2>2. CASE q # r
    <3>1. q \in DOMAIN txn /\ u = txn[q]
      BY <1>2, <2>2
    <3>2. Accepts(u)
      BY <3>1 DEF Inv, DecisionsStand
    <3> QED  BY <1>1, <3>2, AcceptsSame
  <2> QED  BY <2>1, <2>2
<1>6. OrdersOfRequests'
  <2>1. \A q \in DOMAIN txn : /\ txn'[q].op = txn[q].op /\ txn'[q].order = txn[q].order
                              /\ txn'[q].from = txn[q].from /\ txn'[q].seen = txn[q].seen
    BY <1>2, <1>4
  <2> QED  BY <1>1, <1>2, <2>1 DEF Inv, OrdersOfRequests, tables, Used, Live, Finalized
<1> QED  BY <1>1, <1>2, <1>5, <1>6, NoTableChanges DEF Inv, RowsInv

LEMMA RollbackKeepsInv ==
  ASSUME Inv, NEW r \in DOMAIN txn, Rollback(r)
  PROVE  Inv'
<1>1. UNCHANGED tables /\ End(r)
  BY DEF Rollback, tables
<1>2. TransactionsOK' /\ LocksFollowPlans' /\ LocksAreExclusive'
  BY <1>1, Ended DEF Inv
<1>3. DecisionsStand'
  <2>1. \A p : Untouched(p)
    BY <1>1 DEF Untouched, tables
  <2> QED  BY <1>1, <2>1, OthersDecisions
<1>4. OrdersOfRequests'
  <2>1. Used' = Used /\ Live \subseteq Used
    BY <1>1 DEF tables, Used, Inv, TablesOK
  <2>2. \A p \in Live : Finalized(p) => row'[p].status = "finalized"
    BY <1>1 DEF tables, Finalized
  <2> QED  BY <1>1, <2>1, <2>2, OthersOrders DEF tables, Live
<1> QED  BY <1>1, <1>2, <1>3, <1>4, NoTableChanges DEF Inv, RowsInv

-----------------------------------------------------------------------------
(* Commits that change an order: update, finalize, cancel, stage *)

\* Order o, about which r was the one to decide, becomes v.
Changes(r, o, v) ==
  /\ End(r) /\ o = txn[r].order /\ o \in Live /\ v \in Row
  /\ txn[r].op \in {"update", "finalize", "cancel", "stage"}
  /\ txn[r].todo = <<>>
  /\ row' = [row EXCEPT ![o] = v]
  /\ v.supersedes = row[o].supersedes /\ v.revision = row[o].revision
  /\ v.source_version = row[o].source_version + 1
  /\ row[o].status # "draft" => /\ v.status = row[o].status
                                /\ v.content = row[o].content
                                /\ v.document_version = row[o].document_version
  /\ UNCHANGED <<numbers, quotes, given, announced, copy>>

LEMMA ChangesKeep ==
  ASSUME Inv, NEW r \in DOMAIN txn, NEW o, NEW v, Changes(r, o, v),
         \A p : p # o => (p \in DOMAIN emails' <=> p \in DOMAIN emails)
  PROVE  /\ TransactionsOK' /\ LocksFollowPlans' /\ LocksAreExclusive'
         /\ DecisionsStand' /\ OrdersOfRequests'
         /\ NumbersAreBelowCounters' /\ CopiesAreNotAhead'
         /\ RevisionsFormChains' /\ StaleCopiesAreDetectable'
         /\ row' \in [Live' -> Row] /\ Live' = Live /\ Used' = Used
         /\ row'[o] = v /\ \A p \in Live : p # o => row'[p] = row[p]
<1>1. TransactionsOK' /\ LocksFollowPlans' /\ LocksAreExclusive'
  BY Ended DEF Inv, Changes
<1>2. row \in [Live -> Row] /\ Live \subseteq Used /\ copy \in [DOMAIN copy -> [source_version: Nat,
                               view: [status: Status, stage: Stage, content: Nat]]]
  BY DEF Inv, TablesOK
<1>3. /\ row' \in [Live -> Row] /\ DOMAIN row' = DOMAIN row /\ Used' = Used /\ DOMAIN row = Live
      /\ row'[o] = v /\ \A p \in Live : p # o => row'[p] = row[p]
  BY <1>2 DEF Changes, Used, Live
<1>4. \A p \in Live : row'[p].supersedes = row[p].supersedes /\ row'[p].revision = row[p].revision
  BY <1>3 DEF Changes
<1>5. \A p \in Live : row[p].status = "finalized" => row'[p].status = "finalized"
  BY <1>3 DEF Changes
<1>6. DecisionsStand'
  <2>1. OrderRow(o) \in txn[r].held
    BY Decided DEF Changes, Subject
  <2>2. \A p : p # o => Untouched(p)
    BY <1>3, <1>4 DEF Untouched
  <2> QED  BY <2>1, <2>2, OthersDecisions DEF Changes
<1>7. OrdersOfRequests'
  <2>1. \A p \in Used \cap DOMAIN row' : Finalized(p) => row'[p].status = "finalized"
    BY <1>3, <1>5 DEF Finalized
  <2> QED  BY <1>2, <1>3, <2>1, OthersOrders DEF Changes
<1>8. NumbersAreBelowCounters'
  BY DEF Inv, NumbersAreBelowCounters, Changes, Used
<1>9. \A p \in Live : row[p].source_version \in Nat /\ (p # o => row'[p] = row[p])
                      /\ row'[o].source_version = row[o].source_version + 1
  BY <1>2, <1>3 DEF Row, Changes
<1>10. CopiesAreNotAhead'
  <2> SUFFICES ASSUME NEW p \in DOMAIN copy, p \in Live
               PROVE  copy[p].source_version <= row'[p].source_version
    BY <1>3 DEF CopiesAreNotAhead, Changes, Live
  <2>1. copy[p].source_version <= row[p].source_version /\ copy[p].source_version \in Nat
    BY <1>2 DEF Inv, CopiesAreNotAhead
  <2> QED  BY <1>9, <2>1
<1>11. RevisionsFormChains'
  <2> SUFFICES ASSUME NEW s \in Live, NEW x, x = row[s].supersedes, x # NoOrder
               PROVE  /\ x \in Live /\ row'[x].status = "finalized"
                      /\ {y \in Live : row'[y].supersedes = x} = {s}
                      /\ row'[s].revision = row'[x].revision + 1
    BY <1>3, <1>4 DEF RevisionsFormChains, Successors, Finalized, Live
  <2>1. /\ x \in Live /\ row[x].status = "finalized"
        /\ {y \in Live : row[y].supersedes = x} = {s}
        /\ row[s].revision = row[x].revision + 1
    BY DEF Inv, RevisionsFormChains, Successors, Finalized
  <2>2. {y \in Live : row'[y].supersedes = x} = {y \in Live : row[y].supersedes = x}
    BY <1>4
  <2> QED  BY <1>4, <1>5, <2>1, <2>2
<1>12. StaleCopiesAreDetectable'
  <2> SUFFICES ASSUME NEW p \in DOMAIN copy
               PROVE  IF p \in Live
                      THEN copy[p].source_version = row'[p].source_version =>
                             copy[p].view = [status |-> row'[p].status, stage |-> row'[p].stage,
                                             content |-> row'[p].content]
                      ELSE p \in announced
    BY <1>3 DEF StaleCopiesAreDetectable, View, Changes, Live
  <2>1. IF p \in Live
        THEN copy[p].source_version = row[p].source_version =>
               copy[p].view = [status |-> row[p].status, stage |-> row[p].stage,
                               content |-> row[p].content]
        ELSE p \in announced
    BY DEF Inv, StaleCopiesAreDetectable, View
  <2>2. CASE p = o
    <3>1. copy[p].source_version <= row[p].source_version /\ copy[p].source_version \in Nat
      BY <1>2, <2>2 DEF Inv, CopiesAreNotAhead, Changes
    <3> QED  BY <1>9, <2>2, <3>1 DEF Changes
  <2>3. CASE p # o
    BY <1>3, <2>1, <2>3
  <2> QED  BY <2>2, <2>3
<1> QED  BY <1>1, <1>3, <1>6, <1>7, <1>8, <1>10, <1>11, <1>12 DEF Live

\* An order that is no longer a draft was sent as it is.
LEMMA ChangesKeepDocuments ==
  ASSUME Inv, NEW r \in DOMAIN txn, NEW o, NEW v, Changes(r, o, v), UNCHANGED emails
  PROVE  EmailedDocumentIsTheOrder'
<1>1. Live' = Live /\ row'[o] = v /\ \A p \in Live : p # o => row'[p] = row[p]
  BY ChangesKeep
<1> SUFFICES ASSUME NEW p \in DOMAIN emails
             PROVE  /\ p \in Live /\ row'[p].status = "finalized"
                    /\ emails[p] = [version |-> row'[p].document_version, content |-> row'[p].content]
  BY <1>1 DEF EmailedDocumentIsTheOrder, Finalized
<1>2. /\ p \in Live /\ row[p].status = "finalized"
      /\ emails[p] = [version |-> row[p].document_version, content |-> row[p].content]
  BY DEF Inv, EmailedDocumentIsTheOrder, Finalized
<1> QED  BY <1>1, <1>2 DEF Changes

\* Only finalizing decides whether Moloni has a job for an order.
LEMMA ChangesKeepJobs ==
  ASSUME Inv, NEW r \in DOMAIN txn, NEW o, NEW v, Changes(r, o, v), UNCHANGED <<emails, jobs>>,
         v.status = "finalized" <=> row[o].status = "finalized"
  PROVE  JobsAreFinalizedEuOrders'
<1>1. Live' = Live /\ row'[o] = v /\ \A p \in Live : p # o => row'[p] = row[p]
  BY ChangesKeep
<1>2. \A p \in Live : row'[p].status = "finalized" <=> row[p].status = "finalized"
  BY <1>1
<1>3. jobs = {p \in Live : row[p].status = "finalized" /\ MarketOf[p] = EU /\ ~MoloniBlocked}
  BY DEF Inv, JobsAreFinalizedEuOrders, Finalized
<1>4. jobs' = {p \in Live : row'[p].status = "finalized" /\ MarketOf[p] = EU /\ ~MoloniBlocked}
  BY <1>2, <1>3
<1> QED  BY <1>1, <1>4 DEF JobsAreFinalizedEuOrders, Finalized

LEMMA ChangesKeepTables ==
  ASSUME Inv, NEW r \in DOMAIN txn, NEW o, NEW v, Changes(r, o, v), UNCHANGED <<emails, jobs>>
  PROVE  TablesOK'
<1>1. row' \in [Live' -> Row] /\ Live' = Live /\ Used' = Used
  BY ChangesKeep
<1> QED  BY <1>1 DEF Inv, TablesOK, Changes

\* What the handler requires of the order it has locked holds when it commits.
LEMMA CommitsOnAccepted ==
  ASSUME Inv, NEW r \in DOMAIN txn, NEW op \in {"update", "finalize", "cancel", "stage", "delete"},
         Ready(r, op)
  PROVE  /\ txn[r].op = op /\ txn[r].todo = <<>> /\ End(r)
         /\ OrderRow(txn[r].order) \in txn[r].held
         /\ txn[r].order \in Live /\ row[txn[r].order] \in Row
         /\ op \in {"update", "finalize", "cancel"} => row[txn[r].order].status = "draft"
         /\ op = "stage" => row[txn[r].order].status = "finalized"
         /\ op = "delete" => ~Blocked(txn[r].order)
<1>1. txn[r].op = op /\ txn[r].todo = <<>> /\ End(r)
  BY DEF Ready
<1>2. Accepts(txn[r]) /\ OrderRow(txn[r].order) \in txn[r].held
  BY <1>1, Decided DEF Subject
<1>3. txn[r].order \in Live
  BY <1>1, <1>2 DEF Accepts, Editable, Finalized
<1>4. row[txn[r].order] \in Row
  BY <1>3 DEF Inv, TablesOK
<1> QED  BY <1>1, <1>2, <1>3, <1>4 DEF Accepts, Editable, Finalized

LEMMA RowFields ==
  ASSUME NEW w \in Row
  PROVE  /\ w.status \in Status /\ w.stage \in Stage /\ w.content \in Nat /\ w.content + 1 \in Nat
         /\ w.source_version + 1 \in Nat \ {0} /\ w.document_version \in Nat \ {0}
         /\ w.document_version + 1 \in Nat \ {0}
         /\ w.supersedes \in Order \cup {NoOrder} /\ w.revision \in Nat \ {0}
         /\ DOMAIN w = {"status", "stage", "content", "source_version", "document_version",
                        "supersedes", "revision"}
  BY DEF Row

LEMMA UpdateKeepsInv ==
  ASSUME Inv, NEW r \in DOMAIN txn, CommitUpdate(r)
  PROVE  Inv'
<1> DEFINE o == txn[r].order
<1>1. /\ txn[r].op = "update" /\ txn[r].todo = <<>> /\ End(r)
      /\ o \in Live /\ row[o] \in Row /\ row[o].status = "draft"
  BY CommitsOnAccepted DEF CommitUpdate
<1>2. PICK same \in BOOLEAN :
        row' = [row EXCEPT ![o].content = IF same THEN @ ELSE @ + 1,
                           ![o].source_version = @ + 1, ![o].document_version = @ + 1]
  BY DEF CommitUpdate
<1> DEFINE v == [row[o] EXCEPT !.content = IF same THEN @ ELSE @ + 1,
                               !.source_version = @ + 1, !.document_version = @ + 1]
<1>3. row' = [row EXCEPT ![o] = v]
  BY <1>1, <1>2 DEF Inv, TablesOK
<1>4. v \in Row /\ v.source_version = row[o].source_version + 1 /\ v.status = "draft"
      /\ v.supersedes = row[o].supersedes /\ v.revision = row[o].revision
  BY <1>1, RowFields DEF Row
<1>5. Changes(r, o, v) /\ UNCHANGED <<emails, jobs>>
  BY <1>1, <1>3, <1>4 DEF Changes, CommitUpdate
<1> HIDE DEF v, o
<1> QED  BY <1>1, <1>4, <1>5, ChangesKeep, ChangesKeepDocuments, ChangesKeepJobs, ChangesKeepTables
         DEF Inv

LEMMA CancelKeepsInv ==
  ASSUME Inv, NEW r \in DOMAIN txn, CommitCancel(r)
  PROVE  Inv'
<1> DEFINE o == txn[r].order
           v == [row[o] EXCEPT !.status = "cancelled",
                               !.source_version = @ + 1, !.document_version = @ + 1]
<1>1. /\ txn[r].op = "cancel" /\ txn[r].todo = <<>> /\ End(r)
      /\ o \in Live /\ row[o] \in Row /\ row[o].status = "draft"
  BY CommitsOnAccepted DEF CommitCancel
<1>2. row' = [row EXCEPT ![o] = v]
  BY <1>1 DEF CommitCancel, Inv, TablesOK
<1>3. v \in Row /\ v.source_version = row[o].source_version + 1 /\ v.status = "cancelled"
      /\ v.supersedes = row[o].supersedes /\ v.revision = row[o].revision
  BY <1>1, RowFields DEF Row, Status
<1>4. Changes(r, o, v) /\ UNCHANGED <<emails, jobs>>
  BY <1>1, <1>2, <1>3 DEF Changes, CommitCancel
<1> HIDE DEF v, o
<1> QED  BY <1>1, <1>3, <1>4, ChangesKeep, ChangesKeepDocuments, ChangesKeepJobs, ChangesKeepTables
         DEF Inv

LEMMA StageKeepsInv ==
  ASSUME Inv, NEW r \in DOMAIN txn, CommitStage(r)
  PROVE  Inv'
<1> DEFINE o == txn[r].order
<1>1. /\ txn[r].op = "stage" /\ txn[r].todo = <<>> /\ End(r)
      /\ o \in Live /\ row[o] \in Row /\ row[o].status = "finalized"
  BY CommitsOnAccepted DEF CommitStage
<1>2. PICK to \in {"production", "delivered"} :
        row' = [row EXCEPT ![o].stage = to, ![o].source_version = @ + 1]
  BY DEF CommitStage
<1> DEFINE v == [row[o] EXCEPT !.stage = to, !.source_version = @ + 1]
<1>3. row' = [row EXCEPT ![o] = v]
  BY <1>1, <1>2 DEF Inv, TablesOK
<1>4. /\ v \in Row /\ v.source_version = row[o].source_version + 1 /\ v.status = "finalized"
      /\ v.content = row[o].content /\ v.document_version = row[o].document_version
      /\ v.supersedes = row[o].supersedes /\ v.revision = row[o].revision
  BY <1>1, RowFields DEF Row, Stage
<1>5. Changes(r, o, v) /\ UNCHANGED <<emails, jobs>>
  BY <1>1, <1>3, <1>4 DEF Changes, CommitStage
<1> HIDE DEF v, o
<1> QED  BY <1>1, <1>4, <1>5, ChangesKeep, ChangesKeepDocuments, ChangesKeepJobs, ChangesKeepTables
         DEF Inv

LEMMA FinalizeKeepsInv ==
  ASSUME Inv, NEW r \in DOMAIN txn, CommitFinalize(r)
  PROVE  Inv'
<1> DEFINE o == txn[r].order
           v == [row[o] EXCEPT !.status = "finalized", !.stage = "production",
                               !.source_version = @ + 1, !.document_version = @ + 1]
           e == [version |-> row[o].document_version + 1, content |-> row[o].content]
<1>1. /\ txn[r].op = "finalize" /\ txn[r].todo = <<>> /\ End(r)
      /\ o \in Live /\ row[o] \in Row /\ row[o].status = "draft"
  BY CommitsOnAccepted DEF CommitFinalize
<1>2. row' = [row EXCEPT ![o] = v]
  BY <1>1 DEF CommitFinalize, Inv, TablesOK
<1>3. /\ v \in Row /\ v.source_version = row[o].source_version + 1 /\ v.status = "finalized"
      /\ v.content = row[o].content /\ v.document_version = row[o].document_version + 1
      /\ v.supersedes = row[o].supersedes /\ v.revision = row[o].revision
  BY <1>1, RowFields DEF Row, Status, Stage
<1>4. Changes(r, o, v)
  BY <1>1, <1>2, <1>3 DEF Changes, CommitFinalize
<1>5. e \in [version: Nat, content: Nat] /\ e = [version |-> v.document_version, content |-> v.content]
  BY <1>1, <1>3 DEF Row
<1>6. emails' = With(emails, o, e) \/ emails' = emails
  BY DEF CommitFinalize
<1>7. jobs' = IF MarketOf[o] = EU /\ ~MoloniBlocked THEN jobs \cup {o} ELSE jobs
  BY DEF CommitFinalize
<1>8. o \in Live
  BY <1>1
<1> HIDE DEF v, o, e
<1>9. /\ DOMAIN emails' \subseteq DOMAIN emails \cup {o} /\ DOMAIN emails \subseteq DOMAIN emails'
      /\ \A p \in DOMAIN emails : p # o => emails'[p] = emails[p]
      /\ o \in DOMAIN emails' => emails'[o] = e \/ (o \in DOMAIN emails /\ emails'[o] = emails[o])
  BY <1>6 DEF With
<1>10. /\ TransactionsOK' /\ LocksFollowPlans' /\ LocksAreExclusive'
       /\ DecisionsStand' /\ OrdersOfRequests'
       /\ NumbersAreBelowCounters' /\ CopiesAreNotAhead'
       /\ RevisionsFormChains' /\ StaleCopiesAreDetectable'
       /\ row' \in [Live' -> Row] /\ Live' = Live /\ Used' = Used
       /\ row'[o] = v /\ \A p \in Live : p # o => row'[p] = row[p]
  BY <1>4, <1>9, ChangesKeep
<1>11. TablesOK'
  <2>1. emails' \in [DOMAIN emails' -> [version: Nat, content: Nat]]
    <3>1. emails \in [DOMAIN emails -> [version: Nat, content: Nat]]
      BY DEF Inv, TablesOK
    <3> QED  BY <3>1, <1>5, <1>6 DEF With
  <2>2. DOMAIN emails' \cup jobs' \subseteq Used
    BY <1>7, <1>8, <1>9 DEF Inv, TablesOK
  <2> QED  BY <1>4, <1>10, <2>1, <2>2 DEF Inv, TablesOK, Changes
<1>12. EmailedDocumentIsTheOrder'
  <2> SUFFICES ASSUME NEW p \in DOMAIN emails'
               PROVE  /\ p \in Live /\ row'[p].status = "finalized"
                      /\ emails'[p] = [version |-> row'[p].document_version, content |-> row'[p].content]
    BY <1>10 DEF EmailedDocumentIsTheOrder, Finalized
  <2>1. \A q \in DOMAIN emails :
          /\ q \in Live /\ row[q].status = "finalized"
          /\ emails[q] = [version |-> row[q].document_version, content |-> row[q].content]
    BY DEF Inv, EmailedDocumentIsTheOrder, Finalized
  <2>2. o \notin DOMAIN emails
    BY <1>1, <2>1 DEF o
  <2> QED  BY <1>3, <1>5, <1>8, <1>9, <1>10, <2>1, <2>2
<1>13. JobsAreFinalizedEuOrders'
  <2>1. jobs = {p \in Live : row[p].status = "finalized" /\ MarketOf[p] = EU /\ ~MoloniBlocked}
    BY DEF Inv, JobsAreFinalizedEuOrders, Finalized
  <2>2. jobs' = {p \in Live : row'[p].status = "finalized" /\ MarketOf[p] = EU /\ ~MoloniBlocked}
    <3>1. \A p \in Live : row'[p].status = "finalized" <=> (p = o \/ row[p].status = "finalized")
      BY <1>3, <1>10
    <3> QED  BY <1>7, <1>8, <2>1, <3>1
  <2> QED  BY <1>10, <2>2 DEF JobsAreFinalizedEuOrders, Finalized
<1> QED  BY <1>10, <1>11, <1>12, <1>13 DEF Inv

-----------------------------------------------------------------------------
(* Commits that add or remove an order *)

\* The new order is the request's own, and its source can still be revised.
LEMMA InsertsOnAccepted ==
  ASSUME Inv, NEW r \in DOMAIN txn, CommitInsert(r)
  PROVE  /\ End(r) /\ txn[r].op \in {"create", "revise"}
         /\ txn[r].order \in Order /\ txn[r].order \notin Used
         /\ \/ txn[r].from = NoOrder
            \/ /\ txn[r].from \in Live /\ row[txn[r].from].status = "finalized"
               /\ \A s \in Live : row[s].supersedes # txn[r].from
               /\ OrderRow(txn[r].from) \in txn[r].held
<1>1. End(r) /\ txn[r].op \in {"create", "revise"} /\ txn[r].todo = <<>>
  BY DEF CommitInsert, Ready
<1>2. txn[r].order \in Order /\ txn[r].order \notin Used
  BY <1>1 DEF Inv, TransactionsOK, Txn, OrdersOfRequests
<1>3. CASE txn[r].op = "create"
  BY <1>1, <1>2, <1>3 DEF Inv, OrdersOfRequests
<1>4. CASE txn[r].op = "revise"
  <2>1. Accepts(txn[r]) /\ OrderRow(txn[r].from) \in txn[r].held
    BY <1>1, <1>4, Decided DEF Subject
  <2>2. /\ txn[r].from \in Live /\ (txn[r].seen \/ Finalized(txn[r].from))
        /\ Successors(txn[r].from) = {}
    BY <1>4, <2>1 DEF Accepts, Revisable
  <2>3. Finalized(txn[r].from)
    BY <1>4, <2>2 DEF Inv, OrdersOfRequests
  <2> QED  BY <1>1, <1>2, <2>1, <2>2, <2>3 DEF Finalized, Successors
<1> QED  BY <1>1, <1>3, <1>4

LEMMA InsertKeepsInv ==
  ASSUME Inv, NEW r \in DOMAIN txn, CommitInsert(r)
  PROVE  Inv'
<1> DEFINE o == txn[r].order
           from == txn[r].from
           v == [status |-> "draft", stage |-> "none", content |-> 0,
                 source_version |-> 1, document_version |-> 1, supersedes |-> from,
                 revision |-> IF from = NoOrder THEN 1 ELSE row[from].revision + 1]
           g == [number |-> NextNumber(o), quote |-> quotes[MarketOf[o]]]
<1>1. /\ End(r) /\ txn[r].op \in {"create", "revise"} /\ o \in Order /\ o \notin Used
      /\ \/ from = NoOrder
         \/ /\ from \in Live /\ row[from].status = "finalized"
            /\ \A s \in Live : row[s].supersedes # from
            /\ OrderRow(from) \in txn[r].held
  BY InsertsOnAccepted
<1>2. /\ row' = With(row, o, v) /\ given' = With(given, o, g)
      /\ numbers' = [numbers EXCEPT ![CounterOf(o)] = @ + 1]
      /\ quotes' = [quotes EXCEPT ![MarketOf[o]] = @ + 1]
      /\ UNCHANGED <<emails, jobs, announced, copy>>
  BY DEF CommitInsert
<1>3. /\ row \in [Live -> Row] /\ Live \subseteq Used /\ Used \subseteq Order
      /\ given \in [Used -> [number: Nat \ {0}, quote: Nat \ {0}]]
      /\ numbers \in [Market \X User -> Nat \ {0}] /\ quotes \in [Market -> Nat \ {0}]
  BY DEF Inv, TablesOK
<1>4. CounterOf(o) \in Market \X User /\ MarketOf[o] \in Market
      /\ \A p \in Order : CounterOf(p) \in Market \X User /\ MarketOf[p] \in Market
  BY <1>1, MarketAssumption, OwnerAssumption DEF CounterOf
<1>5. v \in Row /\ v.status = "draft" /\ v.supersedes = from
      /\ v.revision = IF from = NoOrder THEN 1 ELSE row[from].revision + 1
  <2>1. from \in Live => row[from].revision + 1 \in Nat \ {0}
    BY <1>3 DEF Row
  <2>2. from \in Order \cup {NoOrder}
    BY <1>1, <1>3
  <2>3. (IF from = NoOrder THEN 1 ELSE row[from].revision + 1) \in Nat \ {0}
    BY <1>1, <2>1
  <2> QED  BY <2>2, <2>3 DEF Row, Status, Stage
<1>6. g \in [number: Nat \ {0}, quote: Nat \ {0}] /\ g.number = numbers[CounterOf(o)]
      /\ g.quote = quotes[MarketOf[o]]
  BY <1>3, <1>4 DEF NextNumber
<1> HIDE DEF v, o, from, g
<1>7. /\ Live' = Live \cup {o} /\ DOMAIN row' = Live \cup {o} /\ o \notin Live
      /\ row'[o] = v /\ \A p \in Live : row'[p] = row[p]
  BY <1>1, <1>2, <1>3 DEF With, Live
<1>8. /\ Used' = Used \cup {o} /\ given'[o] = g /\ \A p \in Used : given'[p] = given[p]
  BY <1>1, <1>2, <1>3 DEF With, Used
<1>9. row' \in [Live' -> Row] /\ given' \in [Used' -> [number: Nat \ {0}, quote: Nat \ {0}]]
  BY <1>2, <1>3, <1>5, <1>6, <1>7, <1>8 DEF With, Live, Used
<1>10. /\ numbers' \in [Market \X User -> Nat \ {0}] /\ quotes' \in [Market -> Nat \ {0}]
       /\ numbers'[CounterOf(o)] = numbers[CounterOf(o)] + 1
       /\ quotes'[MarketOf[o]] = quotes[MarketOf[o]] + 1
       /\ \A k \in Market \X User : k # CounterOf(o) => numbers'[k] = numbers[k]
       /\ \A m \in Market : m # MarketOf[o] => quotes'[m] = quotes[m]
  <2>1. \A n \in Nat \ {0} : n + 1 \in Nat \ {0}
    OBVIOUS
  <2> QED  BY <1>2, <1>3, <1>4, <2>1
<1>11. TablesOK'
  <2>1. Used' \subseteq Order /\ Live' \subseteq Used'
    BY <1>1, <1>3, <1>7, <1>8
  <2>2. /\ emails' \in [DOMAIN emails' -> [version: Nat, content: Nat]]
        /\ DOMAIN emails' \cup jobs' \cup announced' \cup DOMAIN copy' \subseteq Used'
        /\ copy' \in [DOMAIN copy' -> [source_version: Nat,
                               view: [status: Status, stage: Stage, content: Nat]]]
    BY <1>2, <1>8 DEF Inv, TablesOK
  <2> QED  BY <1>9, <1>10, <2>1, <2>2 DEF TablesOK
<1>12. TransactionsOK' /\ LocksFollowPlans' /\ LocksAreExclusive'
  BY <1>1, Ended DEF Inv
<1>13. DecisionsStand'
  <2> SUFFICES ASSUME NEW p \in Used, OrderRow(p) \notin txn[r].held
               PROVE  Untouched(p)
    BY <1>1, OthersDecisions
  <2>1. p # from /\ p # o
    BY <1>1, <1>3, NoOrderAssumption
  <2> QED  BY <1>2, <1>5, <1>7, <2>1 DEF Untouched, Live
<1>14. OrdersOfRequests'
  <2>1. Used' = Used \cup {txn[r].order}
    BY <1>8 DEF o
  <2>2. \A p \in Used \cap DOMAIN row' : p \in Live /\ row'[p] = row[p]
    BY <1>1, <1>7
  <2> QED  BY <1>1, <2>1, <2>2, OthersOrders DEF Finalized
<1>15. NumbersAreBelowCounters'
  <2> SUFFICES ASSUME NEW p \in Used'
               PROVE  /\ given'[p].number < numbers'[CounterOf(p)]
                      /\ given'[p].quote < quotes'[MarketOf[p]]
    BY DEF NumbersAreBelowCounters, CounterOf
  <2>1. CASE p = o
    BY <1>3, <1>4, <1>6, <1>8, <1>10, <2>1
  <2>2. CASE p \in Used
    <3>1. p \in Order /\ given'[p] = given[p] /\ given[p].number \in Nat /\ given[p].quote \in Nat
      BY <1>3, <1>8, <2>2
    <3>2. given[p].number < numbers[CounterOf(p)] /\ given[p].quote < quotes[MarketOf[p]]
      BY <2>2 DEF Inv, NumbersAreBelowCounters
    <3>3. numbers[CounterOf(p)] \in Nat /\ numbers'[CounterOf(p)] \in Nat
          /\ numbers[CounterOf(p)] <= numbers'[CounterOf(p)]
      <4> DEFINE k == CounterOf(p)
      <4>1. k \in Market \X User
        BY <1>4, <3>1
      <4> HIDE DEF k
      <4>2. numbers[k] \in Nat /\ (numbers'[k] = numbers[k] \/ numbers'[k] = numbers[k] + 1)
        BY <1>3, <1>10, <4>1
      <4>3. numbers[k] \in Nat /\ numbers'[k] \in Nat /\ numbers[k] <= numbers'[k]
        BY <4>2
      <4> QED  BY <4>3 DEF k
    <3>4. quotes[MarketOf[p]] \in Nat /\ quotes'[MarketOf[p]] \in Nat
          /\ quotes[MarketOf[p]] <= quotes'[MarketOf[p]]
      <4> DEFINE m == MarketOf[p]
      <4>1. m \in Market
        BY <1>4, <3>1
      <4> HIDE DEF m
      <4>2. quotes[m] \in Nat /\ (quotes'[m] = quotes[m] \/ quotes'[m] = quotes[m] + 1)
        BY <1>3, <1>10, <4>1
      <4>3. quotes[m] \in Nat /\ quotes'[m] \in Nat /\ quotes[m] <= quotes'[m]
        BY <4>2
      <4> QED  BY <4>3 DEF m
    <3> QED  BY <3>1, <3>2, <3>3, <3>4
  <2> QED  BY <1>8, <2>1, <2>2
<1>16. CopiesAreNotAhead' /\ StaleCopiesAreDetectable'
  <2>1. \A p \in DOMAIN copy : p # o
    BY <1>1 DEF Inv, TablesOK
  <2> QED  BY <1>2, <1>7, <2>1 DEF Inv, CopiesAreNotAhead, StaleCopiesAreDetectable, View
<1>17. RevisionsFormChains'
  <2> SUFFICES ASSUME NEW s \in Live', NEW x, x = row'[s].supersedes, x # NoOrder
               PROVE  /\ x \in Live /\ row'[x].status = "finalized"
                      /\ \A y \in Live' : row'[y].supersedes = x <=> y = s
                      /\ row'[s].revision = row'[x].revision + 1
    BY <1>7 DEF RevisionsFormChains, Successors, Finalized
  <2>1. \A q \in Live : LET w == row[q].supersedes
                        IN  w # NoOrder =>
                              /\ w \in Live /\ row[w].status = "finalized"
                              /\ \A y \in Live : row[y].supersedes = w <=> y = q
                              /\ row[q].revision = row[w].revision + 1
    BY DEF Inv, RevisionsFormChains, Successors, Finalized
  <2>2. CASE s = o
    BY <1>1, <1>5, <1>7, <2>2
  <2>3. CASE s \in Live
    <3>1. x # from
      BY <1>1, <1>7, <2>3
    <3> QED  BY <1>5, <1>7, <2>1, <2>3, <3>1
  <2> QED  BY <1>7, <2>2, <2>3
<1>18. EmailedDocumentIsTheOrder'
  BY <1>2, <1>7 DEF Inv, EmailedDocumentIsTheOrder, Finalized
<1>19. JobsAreFinalizedEuOrders'
  <2>1. jobs = {p \in Live : row[p].status = "finalized" /\ MarketOf[p] = EU /\ ~MoloniBlocked}
    BY DEF Inv, JobsAreFinalizedEuOrders, Finalized
  <2>2. jobs' = {p \in Live' : row'[p].status = "finalized" /\ MarketOf[p] = EU /\ ~MoloniBlocked}
    BY <1>2, <1>5, <1>7, <2>1
  <2> QED  BY <2>2 DEF JobsAreFinalizedEuOrders, Finalized
<1> QED  BY <1>11, <1>12, <1>13, <1>14, <1>15, <1>16, <1>17, <1>18, <1>19 DEF Inv

LEMMA DeleteKeepsInv ==
  ASSUME Inv, NEW r \in DOMAIN txn, CommitDelete(r)
  PROVE  Inv'
<1> DEFINE o == txn[r].order
<1>1. /\ End(r) /\ txn[r].op = "delete" /\ o \in Live /\ OrderRow(o) \in txn[r].held
      /\ \A s \in Live : row[s].supersedes # o
      /\ o \notin DOMAIN emails
  BY CommitsOnAccepted DEF CommitDelete, Blocked, Successors
<1>2. /\ row' = [x \in Live \ {o} |-> row[x]]
      /\ announced' = announced \cup {o} /\ jobs' = jobs \ {o}
      /\ UNCHANGED <<numbers, quotes, given, emails, copy>>
  BY DEF CommitDelete
<1>3. row \in [Live -> Row] /\ Live \subseteq Used
  BY DEF Inv, TablesOK
<1> HIDE DEF o
<1>4. /\ Live' = Live \ {o} /\ DOMAIN row' = Live \ {o} /\ Used' = Used
      /\ \A p \in Live' : p \in Live /\ p # o /\ row'[p] = row[p]
  BY <1>2 DEF Live, Used
<1>5. TablesOK'
  <2>1. row' \in [Live' -> Row]
    BY <1>2, <1>3, <1>4
  <2>2. Live' \subseteq Used' /\ DOMAIN emails \cup jobs' \cup announced' \cup DOMAIN copy \subseteq Used
    BY <1>1, <1>2, <1>3, <1>4 DEF Inv, TablesOK
  <2> QED  BY <1>2, <1>4, <2>1, <2>2 DEF Inv, TablesOK
<1>6. TransactionsOK' /\ LocksFollowPlans' /\ LocksAreExclusive'
  BY <1>1, Ended DEF Inv
<1>7. DecisionsStand'
  <2>1. \A p : p # o => Untouched(p)
    BY <1>2, <1>4 DEF Untouched, Live
  <2> QED  BY <1>1, <2>1, OthersDecisions
<1>8. OrdersOfRequests'
  BY <1>1, <1>4, OthersOrders DEF Finalized
<1>9. NumbersAreBelowCounters' /\ CopiesAreNotAhead'
  BY <1>2, <1>4 DEF Inv, NumbersAreBelowCounters, CopiesAreNotAhead
<1>10. RevisionsFormChains'
  <2> SUFFICES ASSUME NEW s \in Live', NEW x, x = row[s].supersedes, x # NoOrder
               PROVE  /\ x \in Live' /\ row[x].status = "finalized"
                      /\ \A y \in Live' : row[y].supersedes = x <=> y = s
                      /\ row[s].revision = row[x].revision + 1
    BY <1>4 DEF RevisionsFormChains, Successors, Finalized
  <2>1. /\ x \in Live /\ row[x].status = "finalized"
        /\ \A y \in Live : row[y].supersedes = x <=> y = s
        /\ row[s].revision = row[x].revision + 1
    BY <1>4 DEF Inv, RevisionsFormChains, Successors, Finalized
  <2> QED  BY <1>1, <1>4, <2>1
<1>11. EmailedDocumentIsTheOrder'
  BY <1>1, <1>2, <1>4 DEF Inv, EmailedDocumentIsTheOrder, Finalized
<1>12. JobsAreFinalizedEuOrders'
  <2>1. jobs = {p \in Live : row[p].status = "finalized" /\ MarketOf[p] = EU /\ ~MoloniBlocked}
    BY DEF Inv, JobsAreFinalizedEuOrders, Finalized
  <2>2. jobs' = {p \in Live' : row'[p].status = "finalized" /\ MarketOf[p] = EU /\ ~MoloniBlocked}
    BY <1>2, <1>4, <2>1
  <2> QED  BY <2>2 DEF JobsAreFinalizedEuOrders, Finalized
<1>13. StaleCopiesAreDetectable'
  BY <1>2, <1>4 DEF Inv, StaleCopiesAreDetectable, View
<1> QED  BY <1>5, <1>6, <1>7, <1>8, <1>9, <1>10, <1>11, <1>12, <1>13 DEF Inv

-----------------------------------------------------------------------------
(* The consumer *)

LEMMA ConsumerKeepsInv ==
  ASSUME Inv, NEW o \in Order, Pull(o) \/ ReceiveDeleted(o)
  PROVE  Inv'
<1> DEFINE c == [source_version |-> row[o].source_version, view |-> View(o)]
<1>1. UNCHANGED <<row, numbers, quotes, given, emails, jobs, announced, txn>>
  BY DEF Pull, ReceiveDeleted
<1>2. \/ o \in Live /\ copy' = With(copy, o, c)
      \/ copy' = [x \in DOMAIN copy \ {o} |-> copy[x]]
  BY DEF Pull, ReceiveDeleted
<1>3. o \in Live => /\ c \in [source_version: Nat, view: [status: Status, stage: Stage, content: Nat]]
                    /\ c.source_version = row[o].source_version /\ c.view = View(o)
                    /\ row[o].source_version \in Nat
  <2>1. o \in Live => row[o] \in Row
    BY DEF Inv, TablesOK
  <2> QED  BY <2>1 DEF View, Row
<1>4. copy \in [DOMAIN copy -> [source_version: Nat, view: [status: Status, stage: Stage, content: Nat]]]
      /\ DOMAIN copy \subseteq Used /\ Live \subseteq Used
  BY DEF Inv, TablesOK
<1> HIDE DEF c
<1>5. /\ copy' \in [DOMAIN copy' -> [source_version: Nat,
                                     view: [status: Status, stage: Stage, content: Nat]]]
      /\ \A p \in DOMAIN copy' : \/ p = o /\ o \in Live /\ copy'[p] = c
                                 \/ p \in DOMAIN copy /\ copy'[p] = copy[p]
  BY <1>2, <1>3, <1>4 DEF With
<1>6. DOMAIN copy' \subseteq Used
  BY <1>4, <1>5
<1>7. TablesOK'
  BY <1>1, <1>5, <1>6 DEF Inv, TablesOK, Live, Used
<1>8. CopiesAreNotAhead' /\ StaleCopiesAreDetectable'
  <2>1. CopiesAreNotAhead'
    BY <1>1, <1>3, <1>5 DEF Inv, CopiesAreNotAhead, Live
  <2>2. StaleCopiesAreDetectable'
    BY <1>1, <1>3, <1>5 DEF Inv, StaleCopiesAreDetectable, View, Live
  <2> QED  BY <2>1, <2>2
<1>9. TransactionsOK' /\ LocksFollowPlans' /\ LocksAreExclusive'
  BY <1>1 DEF Inv, TransactionsOK, LocksFollowPlans, LocksAreExclusive
<1>10. DecisionsStand' /\ OrdersOfRequests'
  BY <1>1 DEF Inv, DecisionsStand, Accepts, Revisable, Editable, Finalized, Blocked, Successors,
              OrdersOfRequests, Live, Used, Subject
<1>11. NumbersAreBelowCounters' /\ RevisionsFormChains' /\ EmailedDocumentIsTheOrder'
       /\ JobsAreFinalizedEuOrders'
  BY <1>1 DEF Inv, NumbersAreBelowCounters, RevisionsFormChains, EmailedDocumentIsTheOrder,
              JobsAreFinalizedEuOrders, Finalized, Successors, Live, Used
<1> QED  BY <1>7, <1>8, <1>9, <1>10, <1>11 DEF Inv

-----------------------------------------------------------------------------
(* The invariant *)

LEMMA InitInv == Init => Inv
<1> SUFFICES ASSUME Init PROVE Inv
  OBVIOUS
<1>1. /\ DOMAIN row = {} /\ DOMAIN given = {} /\ DOMAIN emails = {} /\ DOMAIN copy = {}
      /\ DOMAIN txn = {} /\ jobs = {} /\ announced = {}
  BY DEF Init, Empty
<1>2. /\ row \in [Live -> Row] /\ given \in [Used -> [number: Nat \ {0}, quote: Nat \ {0}]]
      /\ emails \in [DOMAIN emails -> [version: Nat, content: Nat]]
      /\ copy \in [DOMAIN copy -> [source_version: Nat,
                                   view: [status: Status, stage: Stage, content: Nat]]]
      /\ txn \in [DOMAIN txn -> Txn]
  BY DEF Init, Empty, Live, Used
<1>3. numbers \in [Market \X User -> Nat \ {0}] /\ quotes \in [Market -> Nat \ {0}]
  BY DEF Init
<1>4. TablesOK /\ TransactionsOK
  BY <1>1, <1>2, <1>3 DEF TablesOK, TransactionsOK, Live, Used
<1>5. LocksFollowPlans /\ LocksAreExclusive /\ DecisionsStand /\ OrdersOfRequests
  BY <1>1 DEF LocksFollowPlans, LocksAreExclusive, DecisionsStand, OrdersOfRequests
<1>6. NumbersAreBelowCounters /\ CopiesAreNotAhead
  BY <1>1 DEF NumbersAreBelowCounters, CopiesAreNotAhead, Used
<1>7. RevisionsFormChains /\ EmailedDocumentIsTheOrder
  BY <1>1 DEF RevisionsFormChains, EmailedDocumentIsTheOrder, Live
<1>8. JobsAreFinalizedEuOrders /\ StaleCopiesAreDetectable
  BY <1>1 DEF JobsAreFinalizedEuOrders, StaleCopiesAreDetectable, Live
<1> QED  BY <1>4, <1>5, <1>6, <1>7, <1>8 DEF Inv

LEMMA NextKeepsInv == Inv /\ [Next]_vars => Inv'
<1> SUFFICES ASSUME Inv, [Next]_vars PROVE Inv'
  OBVIOUS
<1>1. ASSUME NEW r \in Request, NEW o \in Order, Begin(r, o)
      PROVE  Inv'
  BY <1>1, BeginKeepsInv
<1>2. ASSUME NEW r \in DOMAIN txn, Lock(r) \/ Commit(r) \/ Rollback(r)
      PROVE  Inv'
  BY <1>2, LockKeepsInv, RollbackKeepsInv, InsertKeepsInv, UpdateKeepsInv, FinalizeKeepsInv,
     CancelKeepsInv, StageKeepsInv, DeleteKeepsInv DEF Commit
<1>3. ASSUME NEW o \in Order, Pull(o) \/ ReceiveDeleted(o)
      PROVE  Inv'
  BY <1>3, ConsumerKeepsInv
<1>4. CASE UNCHANGED vars
  <2>1. UNCHANGED tables /\ txn' = txn
    BY <1>4 DEF vars, tables
  <2>2. TransactionsOK' /\ LocksFollowPlans' /\ LocksAreExclusive'
    BY <2>1 DEF Inv, TransactionsOK, LocksFollowPlans, LocksAreExclusive
  <2>3. DecisionsStand' /\ OrdersOfRequests'
    BY <2>1 DEF Inv, DecisionsStand, Accepts, Revisable, Editable, Finalized, Blocked, Successors,
                OrdersOfRequests, Live, Used, Subject, tables
  <2> QED  BY <2>1, <2>2, <2>3, NoTableChanges DEF Inv, RowsInv
<1> QED  BY <1>1, <1>2, <1>3, <1>4 DEF Next

\* Whatever the orders, users, markets and requests, the tables stay as the
\* invariant says.
THEOREM OrdersInvariant == Spec => []Inv
  BY InitInv, NextKeepsInv, PTL DEF Spec

-----------------------------------------------------------------------------
(* What follows from it *)

\* Every table and every open transaction keeps its type.
THEOREM OrdersTypeCorrect == Spec => []TypeOK
<1>1. Inv => TypeOK
  BY DEF Inv, TypeOK
<1> QED  BY <1>1, OrdersInvariant, PTL

\* Only a commit that adds an order gives numbers.
LEMMA WhoGivesNumbers ==
  ASSUME [Next]_vars
  PROVE  given' = given \/ \E r \in DOMAIN txn : CommitInsert(r)
<1>1. ASSUME NEW r \in Request, NEW o \in Order, Begin(r, o)
      PROVE  given' = given
  BY <1>1, Begun DEF Starts, tables
<1>2. ASSUME NEW r \in DOMAIN txn, Lock(r) \/ Rollback(r)
      PROVE  given' = given
  BY <1>2 DEF Lock, Rollback
<1>3. ASSUME NEW r \in DOMAIN txn, Commit(r), ~CommitInsert(r)
      PROVE  given' = given
  BY <1>3 DEF Commit, CommitUpdate, CommitFinalize, CommitCancel, CommitStage, CommitDelete
<1>4. ASSUME NEW o \in Order, Pull(o) \/ ReceiveDeleted(o)
      PROVE  given' = given
  BY <1>4 DEF Pull, ReceiveDeleted
<1> QED  BY <1>1, <1>2, <1>3, <1>4 DEF Next, vars

LEMMA NewNumbersAreNew ==
  ASSUME Inv, NumbersAreNeverReused, NEW r \in DOMAIN txn, CommitInsert(r)
  PROVE  NumbersAreNeverReused'
<1> DEFINE n == txn[r].order
<1>1. n \in Order /\ n \notin Used
  BY InsertsOnAccepted
<1>2. /\ Used' = Used \cup {n} /\ \A p \in Used : given'[p] = given[p]
      /\ given'[n] = [number |-> numbers[CounterOf(n)], quote |-> quotes[MarketOf[n]]]
  BY <1>1 DEF CommitInsert, With, Used, NextNumber
<1>3. ASSUME NEW p \in Used
      PROVE  /\ given[p].number < numbers[CounterOf(p)] /\ given[p].number \in Nat
             /\ given[p].quote < quotes[MarketOf[p]] /\ given[p].quote \in Nat
  BY DEF Inv, TablesOK, NumbersAreBelowCounters
<1>4. ASSUME NEW p \in Used, MarketOf[p] = MarketOf[n]
      PROVE  /\ given'[p].quote # given'[n].quote
             /\ OwnerOf[p] = OwnerOf[n] => given'[p].number # given'[n].number
  <2>1. /\ given[p].quote # quotes[MarketOf[n]]
        /\ OwnerOf[p] = OwnerOf[n] => given[p].number # numbers[CounterOf(n)]
    <3>1. OwnerOf[p] = OwnerOf[n] => CounterOf(p) = CounterOf(n)
      BY <1>4 DEF CounterOf
    <3>2. \A i \in Nat : \A j : i < j => i # j
      OBVIOUS
    <3>3. given[p].quote # quotes[MarketOf[n]]
      BY <1>3, <1>4, <3>2
    <3>4. given[p].number # numbers[CounterOf(p)]
      BY <1>3, <3>2
    <3> QED  BY <3>1, <3>3, <3>4
  <2> QED  BY <1>2, <2>1
<1> SUFFICES ASSUME NEW o \in Used', NEW x \in Used', o # x, MarketOf[o] = MarketOf[x]
             PROVE  /\ given'[o].quote # given'[x].quote
                    /\ OwnerOf[o] = OwnerOf[x] => given'[o].number # given'[x].number
  BY DEF NumbersAreNeverReused
<1>5. CASE o \in Used /\ x \in Used
  BY <1>2, <1>5 DEF NumbersAreNeverReused
<1>6. CASE o = n /\ x \in Used
  BY <1>4, <1>6
<1>7. CASE o \in Used /\ x = n
  BY <1>4, <1>7
<1> QED  BY <1>2, <1>5, <1>6, <1>7

\* PED and ORC numbers are never given twice, to orders since deleted either
\* (_next_codes): the number of an order is below its counter for good.
THEOREM NumbersNeverReused == Spec => []NumbersAreNeverReused
<1>1. Init => NumbersAreNeverReused
  BY DEF Init, Empty, NumbersAreNeverReused, Used
<1>2. Inv /\ NumbersAreNeverReused /\ [Next]_vars => NumbersAreNeverReused'
  <2> SUFFICES ASSUME Inv, NumbersAreNeverReused, [Next]_vars
               PROVE  NumbersAreNeverReused'
    OBVIOUS
  <2>1. CASE given' = given
    BY <2>1 DEF NumbersAreNeverReused, Used
  <2>2. ASSUME NEW r \in DOMAIN txn, CommitInsert(r)
        PROVE  NumbersAreNeverReused'
    BY <2>2, NewNumbersAreNew
  <2> QED  BY <2>1, <2>2, WhoGivesNumbers
<1> QED  BY <1>1, <1>2, OrdersInvariant, PTL DEF Spec

\* Revisions form chains, so that no handler runs into the unique and foreign
\* keys of the orders table (_create_order_core, _order_delete_blocker).
THEOREM RevisionChains == Spec => []RevisionsFormChains
<1>1. Inv => RevisionsFormChains
  BY DEF Inv
<1> QED  BY <1>1, OrdersInvariant, PTL

\* An e-mailed document is the order's for as long as it exists.
THEOREM DocumentsAreOrders == Spec => []EmailedDocumentIsTheOrder
<1>1. Inv => EmailedDocumentIsTheOrder
  BY DEF Inv
<1> QED  BY <1>1, OrdersInvariant, PTL

\* Where Moloni is not blocked, it has a job for exactly the finalized European
\* orders, and where it is, for none.
THEOREM JobsAreOrders == Spec => []JobsAreFinalizedEuOrders
<1>1. Inv => JobsAreFinalizedEuOrders
  BY DEF Inv
<1> QED  BY <1>1, OrdersInvariant, PTL

\* A consumer that compares source_version misses no change and no deletion.
THEOREM CopiesAreDetectable == Spec => []StaleCopiesAreDetectable
<1>1. Inv => StaleCopiesAreDetectable
  BY DEF Inv
<1> QED  BY <1>1, OrdersInvariant, PTL

-----------------------------------------------------------------------------
(* Deadlock *)

\* How far a request has come: the rank of the row it waits for.
Level(r) == IF txn[r].todo = <<>> THEN 5 ELSE Rank(Head(txn[r].todo))

LEMMA WaitsForHigher ==
  ASSUME Inv, NEW r \in DOMAIN txn, NEW q \in DOMAIN txn
  PROVE  /\ Level(r) \in 1 .. 5
         /\ WaitsFor(r, q) => Level(r) < Level(q)
<1>1. /\ txn[r].op \in Operation /\ txn[r].todo \in Seq(Lockable) /\ FollowsPlan(txn[r])
      /\ txn[q].op \in Operation /\ txn[q].todo \in Seq(Lockable) /\ FollowsPlan(txn[q])
  BY DEF Inv, TransactionsOK, LocksFollowPlans, Txn
<1>2. txn[r].todo # <<>> => Rank(Head(txn[r].todo)) \in 1 .. 4
  BY <1>1, PlanFollowed
<1>3. ASSUME NEW x \in txn[q].held, txn[q].todo # <<>>
      PROVE  Rank(x) < Rank(Head(txn[q].todo))
  BY <1>1, <1>3, PlanFollowed
<1> QED  BY <1>2, <1>3 DEF Level, WaitsFor

\* Requests never wait for each other in a circle, in whatever number and about
\* whatever orders: all handlers take their locks in one order.
THEOREM NoDeadlock == Spec => []NoWaitCycle
<1>1. Inv => NoWaitCycle
  <2> SUFFICES ASSUME Inv, NEW S \in SUBSET DOMAIN txn, S # {},
                      \A r \in S : \E q \in S : WaitsFor(r, q)
               PROVE  FALSE
    BY DEF NoWaitCycle
  <2>1. \A r \in S : Level(r) \in 1 .. 5 /\ \E q \in S : Level(r) < Level(q)
    BY WaitsForHigher
  <2>2. \A r \in S : Level(r) # 5
    BY <2>1
  <2>3. \A r \in S : Level(r) # 4
    BY <2>1, <2>2
  <2>4. \A r \in S : Level(r) # 3
    BY <2>1, <2>2, <2>3
  <2>5. \A r \in S : Level(r) # 2
    BY <2>1, <2>2, <2>3, <2>4
  <2> QED  BY <2>1, <2>2, <2>3, <2>4, <2>5
<1> QED  BY <1>1, OrdersInvariant, PTL

-----------------------------------------------------------------------------
(* Closed orders *)

StaysClosed(o) ==
  row[o].status # "draft" /\ o \in DOMAIN row' =>
    /\ row'[o].status = row[o].status
    /\ row'[o].content = row[o].content
    /\ row'[o].document_version = row[o].document_version

LEMMA NextKeepsClosed ==
  ASSUME Inv, Next, NEW o \in Live
  PROVE  StaysClosed(o)
<1>1. CASE row' = row
  BY <1>1 DEF StaysClosed
<1>2. ASSUME NEW r \in DOMAIN txn, CommitInsert(r)
      PROVE  StaysClosed(o)
  <2>1. txn[r].order \notin Live
    BY <1>2, InsertsOnAccepted DEF Inv, TablesOK
  <2> QED  BY <1>2, <2>1 DEF CommitInsert, With, StaysClosed, Live
<1>3. ASSUME NEW r \in DOMAIN txn, CommitUpdate(r) \/ CommitFinalize(r) \/ CommitCancel(r)
      PROVE  StaysClosed(o)
  <2>1. row[txn[r].order].status = "draft" /\ row \in [Live -> Row]
    BY <1>3, CommitsOnAccepted DEF CommitUpdate, CommitFinalize, CommitCancel, Inv, TablesOK
  <2>2. o # txn[r].order => row'[o] = row[o]
    BY <1>3, <2>1 DEF CommitUpdate, CommitFinalize, CommitCancel
  <2> QED  BY <2>1, <2>2 DEF StaysClosed
<1>4. ASSUME NEW r \in DOMAIN txn, CommitStage(r)
      PROVE  StaysClosed(o)
  <2>1. PICK to : row' = [row EXCEPT ![txn[r].order].stage = to, ![txn[r].order].source_version = @ + 1]
    BY <1>4 DEF CommitStage
  <2>2. row \in [Live -> Row] /\ row[o] \in Row
    BY DEF Inv, TablesOK
  <2>3. o # txn[r].order => row'[o] = row[o]
    BY <2>1, <2>2
  <2>4. o = txn[r].order => row'[o] = [row[o] EXCEPT !.stage = to, !.source_version = @ + 1]
    BY <2>1, <2>2
  <2>5. o = txn[r].order => /\ row'[o].status = row[o].status
                            /\ row'[o].content = row[o].content
                            /\ row'[o].document_version = row[o].document_version
    BY <2>2, <2>4 DEF Row
  <2> QED  BY <2>3, <2>5 DEF StaysClosed
<1>5. ASSUME NEW r \in DOMAIN txn, CommitDelete(r)
      PROVE  StaysClosed(o)
  BY <1>5 DEF CommitDelete, StaysClosed
<1>6. ASSUME NEW r \in Request, NEW x \in Order, Begin(r, x)
      PROVE  row' = row
  BY <1>6, Begun DEF Starts, tables
<1>7. ASSUME NEW r \in DOMAIN txn, Lock(r) \/ Rollback(r)
      PROVE  row' = row
  BY <1>7 DEF Lock, Rollback
<1>8. ASSUME NEW x \in Order, Pull(x) \/ ReceiveDeleted(x)
      PROVE  row' = row
  BY <1>8 DEF Pull, ReceiveDeleted
<1> QED  BY <1>1, <1>2, <1>3, <1>4, <1>5, <1>6, <1>7, <1>8 DEF Next, Commit

\* A finalized or cancelled order is closed: no request, however old its read
\* of the order, changes its status, its contents or its document version.
THEOREM ClosedForGood == Spec => ClosedOrdersStayClosed
<1>1. Inv /\ [Next]_vars => [\A o \in Live : StaysClosed(o)]_vars
  BY NextKeepsClosed
<1>2. Inv /\ [Next]_vars =>
        [\A o \in Live : row[o].status # "draft" /\ o \in DOMAIN row' =>
           /\ row'[o].status = row[o].status
           /\ row'[o].content = row[o].content
           /\ row'[o].document_version = row[o].document_version]_vars
  BY <1>1 DEF StaysClosed
<1> QED  BY <1>2, OrdersInvariant, PTL DEF Spec, ClosedOrdersStayClosed
=============================================================================
