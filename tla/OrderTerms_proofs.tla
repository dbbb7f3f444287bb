--------------------------- MODULE OrderTerms_proofs ---------------------------
(***************************************************************************)
(* What holds of the terms of an order for any lines, products, catalogs   *)
(* and representatives: every discount rests on a grant that carries no    *)
(* other line, and what is ordered was for its representative to sell when *)
(* it was written.  And what holds of their VAT for any products, groups,  *)
(* rates and open requests: a rate that is invoiced was signed.            *)
(***************************************************************************)
EXTENDS OrderTerms, VatOfOrders, FiniteSetTheorems, FunctionTheorems, TLAPS

Orders ==
  [status : {"open", "finalized", "cancelled"}, list : List, rep : Rep \cup {NoRep},
   exempt : BOOLEAN, byClient : BOOLEAN, lines : [Slot -> Line \cup {NoLine}]]

Given(o) == {s \in Written(o.lines) : o.lines[s].discount > 0}

\* A discount rests on a grant for its product in the order's list, and a grant
\* carries one line.
Granted(o) ==
  /\ \A s \in Given(o) :
       /\ o.lines[s].grant \in Grant
       /\ o.lines[s].grant.product = o.lines[s].product /\ o.lines[s].grant.list = o.list
  /\ \A s, t \in Given(o) : o.lines[s].grant.id = o.lines[t].grant.id => s = t

\* What an order holds is all in the catalogs of its client and representative:
\* so it is when the lines are written.
Sold(o) ==
  \A s \in Written(o.lines) :
    /\ catalogOf[o.lines[s].product] \in bought
    /\ o.rep \in Rep \ ended /\ ~o.byClient => catalogOf[o.lines[s].product] \in sold[o.rep]

\* And so it stays for what nobody moved or withdrew.
Fits(o) ==
  \A s \in Written(o.lines) :
    o.lines[s].product \notin moved \cup withdrawn =>
      /\ catalogOf[o.lines[s].product] \in bought
      /\ o.rep \in Rep \ ended /\ ~o.byClient => catalogOf[o.lines[s].product] \in sold[o.rep]

\* The catalog stored with an order is that of every line whose product stayed.
Stored(o) ==
  orderCatalog # None =>
    \A s \in Written(o.lines) :
      o.lines[s].product \notin moved => catalogOf[o.lines[s].product] = orderCatalog

TermsInv == TypeOK /\ (order # NoOrder => Granted(order) /\ Fits(order) /\ Stored(order))

LEMMA TermsTell == TermsInv => DiscountsWereGranted /\ RepSellsTheOrder
  BY DEF TermsInv, Granted, Given, Fits, DiscountsWereGranted, RepSellsTheOrder

-----------------------------------------------------------------------------
(* Lines. *)

LEMMA Levels == 0 \in Level /\ MaxDiscount \in Level /\ \A d \in Level : d \in Nat
  BY TermsAssumption DEF Level

LEMMA MostIsALevel ==
  ASSUME TypeOK, NEW a \in Actors, NEW rep \in Rep \cup {NoRep}, NEW list \in List
  PROVE  Most(a, rep, list) \in Level
<1>1. /\ (IF rep = NoRep THEN 0 ELSE ceiling[rep]) \in Level
      /\ clientMost \in Level /\ 0 \in Level /\ MaxDiscount \in Level
  BY Levels DEF TypeOK
<1> QED
  BY <1>1 DEF Most

LEMMA ScopeIsBought ==
  ASSUME NEW a, NEW rep \in Rep \cup {NoRep}, NEW p \in Scope(a, rep)
  PROVE  /\ catalogOf[p] \in bought /\ p \in Product
         /\ a.role # "client" /\ rep \in Rep => catalogOf[p] \in sold[rep]
  BY TermsAssumption DEF Scope, CatalogScope

LEMMA NewLines ==
  ASSUME NEW s \in Slot, NEW p \in Product, NEW d \in Level, NEW list \in List, NEW exempt \in BOOLEAN
  PROVE  LET l == NewLine(s, p, d, list, exempt)
         IN  /\ l \in Line /\ l.product = p /\ l.discount = d
             /\ d > 0 => l.grant = [id |-> s, product |-> p, list |-> list] /\ l.grant \in Grant
  BY DEF NewLine, Line, Grant, Level

\* A new order of new lines.
LEMMA NewOrders ==
  ASSUME NEW a \in Actors, NEW list \in List, NEW rep \in Rep \cup {NoRep}, NEW exempt \in BOOLEAN,
         NEW lines,
         lines = [s \in Slot |-> lines[s]],
         \A s \in Slot : \/ lines[s] = NoLine
                         \/ \E p \in Scope(a, rep), d \in Level : lines[s] = NewLine(s, p, d, list, exempt)
  PROVE  LET o == Opened(a, list, rep, exempt, lines)
         IN  o \in Orders /\ Granted(o) /\ Sold(o)
<1> DEFINE o == Opened(a, list, rep, exempt, lines)
<1>1. \A s \in Written(lines) :
        /\ lines[s] \in Line /\ lines[s].product \in Scope(a, rep)
        /\ lines[s].discount > 0 => /\ lines[s].grant \in Grant /\ lines[s].grant.id = s
                                    /\ lines[s].grant.product = lines[s].product
                                    /\ lines[s].grant.list = list
  <2>1. SUFFICES ASSUME NEW s \in Written(lines)
                 PROVE  /\ lines[s] \in Line /\ lines[s].product \in Scope(a, rep)
                        /\ lines[s].discount > 0 => /\ lines[s].grant \in Grant /\ lines[s].grant.id = s
                                                    /\ lines[s].grant.product = lines[s].product
                                                    /\ lines[s].grant.list = list
    OBVIOUS
  <2>2. PICK p \in Scope(a, rep), d \in Level : lines[s] = NewLine(s, p, d, list, exempt)
    BY <2>1 DEF Written
  <2>3. s \in Slot /\ p \in Product
    BY <2>1, <2>2, ScopeIsBought DEF Written
  <2>a. PICK l : l = NewLine(s, p, d, list, exempt)
    OBVIOUS
  <2>4. /\ l \in Line /\ l.product = p /\ l.discount = d
        /\ d > 0 => l.grant = [id |-> s, product |-> p, list |-> list] /\ l.grant \in Grant
    BY <2>3, <2>a, NewLines
  <2> QED
    BY <2>2, <2>a, <2>4
<1>2. lines \in [Slot -> Line \cup {NoLine}]
  BY <1>1 DEF Written
<1>3. /\ o.list = list /\ o.rep = rep /\ o.lines = lines /\ (o.byClient <=> a.role = "client")
      /\ o \in Orders
  BY <1>2 DEF Opened, Orders
<1>4. Granted(o)
  BY <1>1, <1>3 DEF Granted, Given
<1>5. Sold(o)
  BY <1>1, <1>3, ScopeIsBought DEF Sold
<1> QED
  BY <1>3, <1>4, <1>5

\* There are names for the lines that are not kept which no kept line has.
LEMMA FreeNames ==
  ASSUME NEW K \in SUBSET Slot, NEW h \in [K -> Slot]
  PROVE  \E f \in [Slot \ K -> Slot] : IsInjective(f) /\ Range(f) \cap {h[s] : s \in K} = {}
<1> DEFINE H == {h[s] : s \in K}
           m == Cardinality(Slot \ K)
           n == Cardinality(Slot \ H)
<1>1. IsFiniteSet(Slot) /\ IsFiniteSet(K)
  BY TermsAssumption, FS_Subset
<1>2. Cardinality(H) <= Cardinality(K) /\ IsFiniteSet(H) /\ H \subseteq Slot
  <2>1. h \in Surjection(K, H)
    BY DEF Surjection
  <2> QED
    BY <1>1, <2>1, FS_Surjection
<1>3. Slot \cap K = K /\ Slot \cap H = H
  BY <1>2
<1>4. /\ m = Cardinality(Slot) - Cardinality(K) /\ IsFiniteSet(Slot \ K)
      /\ n = Cardinality(Slot) - Cardinality(H) /\ IsFiniteSet(Slot \ H)
  BY <1>1, <1>3, FS_Difference
<1>5. m \in Nat /\ n \in Nat /\ m <= n
  BY <1>1, <1>2, <1>4, FS_CardinalityType
<1>6. ExistsBijection(Slot \ K, 1..m) /\ ExistsBijection(1..n, Slot \ H)
  <2>1. ExistsBijection(1..m, Slot \ K) /\ ExistsBijection(1..n, Slot \ H)
    <3>1. IsFiniteSet(Slot \ K) /\ IsFiniteSet(Slot \ H)
      BY <1>4
    <3> HIDE DEF H
    <3> QED
      BY <3>1, FS_CardinalityType
  <2> HIDE DEF m, n, H
  <2> QED
    BY <2>1, Fun_ExistsBijSymmetric
<1> HIDE DEF m, n
<1>7. PICK p \in [Slot \ K -> 1..m] : IsInjective(p)
  BY <1>6 DEF ExistsBijection, Bijection, Injection
<1>8. PICK q \in [1..n -> Slot \ H] : IsInjective(q)
  BY <1>6 DEF ExistsBijection, Bijection, Injection
<1> DEFINE f == [s \in Slot \ K |-> q[p[s]]]
<1>9. \A s \in Slot \ K : p[s] \in 1..n
  BY <1>5, <1>7
<1>10. f \in [Slot \ K -> Slot] /\ \A s \in Slot \ K : f[s] \notin H
  BY <1>8, <1>9
<1>11. IsInjective(f)
  BY <1>7, <1>8, <1>9 DEF IsInjective
<1>12. Range(f) \cap H = {}
  BY <1>10 DEF Range
<1> QED
  BY <1>10, <1>11, <1>12

-----------------------------------------------------------------------------
(* The actions. *)

LEMMA AssignedRep ==
  ASSUME TypeOK, NEW a \in Actors, NEW asked \in Rep \cup {NoRep}
  PROVE  Assigned(a, asked) \in Rep \cup {NoRep}
  BY DEF TypeOK, Assigned, Actors

\* The catalog of an order is that of every line.
LEMMA OneCatalog ==
  ASSUME NEW lines, TheCatalog(lines) # None
  PROVE  /\ TheCatalog(lines) \in Catalog
         /\ \A s \in Written(lines) : catalogOf[lines[s].product] = TheCatalog(lines)
<1> DEFINE C == {catalogOf[lines[s].product] : s \in Written(lines)}
<1>1. \E c \in Catalog : C = {c}
  BY DEF TheCatalog
<1>2. TheCatalog(lines) = CHOOSE c \in Catalog : C = {c}
  BY <1>1 DEF TheCatalog
<1> HIDE DEF C
<1>3. TheCatalog(lines) \in Catalog /\ C = {TheCatalog(lines)}
  BY <1>1, <1>2
<1> QED
  BY <1>3 DEF C

LEMMA NewOrderStays ==
  ASSUME TermsInv, UNCHANGED world, LinesWritten, order' \in Orders, Granted(order'), Sold(order')
  PROVE  TermsInv'
<1>1. PICK c : c = TheCatalog(order'.lines)
  OBVIOUS
<1>2. orderCatalog' = c /\ moved' = {} /\ withdrawn' = {}
  BY <1>1 DEF LinesWritten
<1>3. c # None => c \in Catalog /\ \A s \in Written(order'.lines) : catalogOf[order'.lines[s].product] = c
  BY <1>1, OneCatalog
<1>4. /\ UNCHANGED <<market, ceiling, clientMost, clientRep, ended, catalogOf, sold, bought, changes>>
  BY DEF world, catalogs
<1>5. TypeOK'
  BY <1>2, <1>3, <1>4 DEF TermsInv, TypeOK, Orders
<1>6. Granted(order)' = Granted(order')
  BY DEF Granted, Given, Written
<1>7. Fits(order)'
  BY <1>4 DEF Fits, Sold, Written
<1>8. Stored(order)'
  BY <1>2, <1>3, <1>4 DEF Stored, Written
<1> QED
  BY <1>5, <1>6, <1>7, <1>8 DEF TermsInv

LEMMA Choices == \A list \in ListChoice : list \in List
  BY DEF ListChoice, List

LEMMA CreateStep ==
  ASSUME TermsInv, NEW a \in Actors, Create(a)
  PROVE  TermsInv'
<1>1. PICK list \in ListChoice, asked \in Rep \cup {NoRep}, exempt \in BOOLEAN :
        LET rep == Assigned(a, asked) IN
        /\ MayOrder(a, rep)
        /\ MayExempt(a, FALSE, exempt)
        /\ \E lines \in [Slot -> [product : Scope(a, rep), discount : 0..Most(a, rep, list)] \cup {NoLine}] :
             /\ Written(lines) # {}
             /\ order' = Opened(a, list, rep, exempt,
                  [s \in Slot |-> IF lines[s] = NoLine THEN NoLine
                                  ELSE NewLine(s, lines[s].product, lines[s].discount, list, exempt)])
  BY DEF Create
<1>2. PICK rep \in Rep \cup {NoRep} : rep = Assigned(a, asked)
  BY AssignedRep DEF TermsInv
<1>3. list \in List /\ Most(a, rep, list) \in Level
  BY Choices, MostIsALevel DEF TermsInv
<1>4. PICK lines \in [Slot -> [product : Scope(a, rep), discount : 0..Most(a, rep, list)] \cup {NoLine}] :
        order' = Opened(a, list, rep, exempt,
                   [s \in Slot |-> IF lines[s] = NoLine THEN NoLine
                                   ELSE NewLine(s, lines[s].product, lines[s].discount, list, exempt)])
  BY <1>1, <1>2
<1>5. PICK new : new = [s \in Slot |-> IF lines[s] = NoLine THEN NoLine
                                       ELSE NewLine(s, lines[s].product, lines[s].discount, list, exempt)]
  OBVIOUS
<1>6. \A s \in Slot : lines[s] # NoLine => lines[s].product \in Scope(a, rep) /\ lines[s].discount \in Level
  BY <1>3, <1>4, TermsAssumption DEF Level
<1>7. \A s \in Slot : \/ new[s] = NoLine
                      \/ \E p \in Scope(a, rep), d \in Level : new[s] = NewLine(s, p, d, list, exempt)
  BY <1>5, <1>6
<1>8. order' = Opened(a, list, rep, exempt, new) /\ new = [s \in Slot |-> new[s]]
  BY <1>4, <1>5
<1>9. order' \in Orders /\ Granted(order') /\ Sold(order')
  BY <1>3, <1>7, <1>8, NewOrders
<1> QED
  BY <1>9, NewOrderStays DEF Create

LEMMA CopyStep ==
  ASSUME TermsInv, NEW a \in Actors, Copy(a)
  PROVE  TermsInv'
<1>1. PICK kept \in SUBSET Written(order.lines), list \in ListChoice, asked \in Rep \cup {NoRep}, exempt \in BOOLEAN :
        order' = Opened(a, list, Assigned(a, asked), exempt,
                   Copied(kept, Most(a, Assigned(a, asked), list), Scope(a, Assigned(a, asked)), list, exempt))
  BY DEF Copy
<1>2. PICK rep \in Rep \cup {NoRep} : rep = Assigned(a, asked)
  BY AssignedRep DEF TermsInv
<1>3. list \in List /\ Most(a, rep, list) \in Level /\ order \in Orders
  BY Choices, MostIsALevel DEF TermsInv, TypeOK, Orders, Copy
<1>4. PICK most \in Level : most = Most(a, rep, list)
  BY <1>3
<1>5. PICK new : new = Copied(kept, most, Scope(a, rep), list, exempt)
  OBVIOUS
<1>6. order' = Opened(a, list, rep, exempt, new)
  BY <1>1, <1>2, <1>4, <1>5
<1>7. \A s \in kept : order.lines[s].discount \in Level /\ s \in Slot
  BY <1>3 DEF Written, Orders, Line
<1>8. new = [s \in Slot |-> new[s]]
  BY <1>5 DEF Copied
<1>9. \A s \in Slot : \/ new[s] = NoLine
                      \/ \E p \in Scope(a, rep), d \in Level : new[s] = NewLine(s, p, d, list, exempt)
  BY <1>5, <1>7 DEF Copied
<1>10. order' \in Orders /\ Granted(order') /\ Sold(order')
  BY <1>3, <1>6, <1>8, <1>9, NewOrders
<1> QED
  BY <1>10, NewOrderStays DEF Copy

LEMMA ReviseStep ==
  ASSUME TermsInv, NEW a \in Actors, Revise(a)
  PROVE  TermsInv'
<1>1. order \in Orders
  BY DEF TermsInv, TypeOK, Orders, Revise
<1>2. PICK rep \in Rep \cup {NoRep} : rep = Assigned(a, order.rep)
  BY <1>1, AssignedRep DEF TermsInv, Orders
<1>3. PICK new : new = [s \in Slot |-> IF order.lines[s] = NoLine THEN NoLine
                          ELSE NewLine(s, order.lines[s].product, order.lines[s].discount, order.list, order.exempt)]
  OBVIOUS
<1>4. /\ order' = Opened(a, order.list, rep, order.exempt, new)
      /\ \A s \in Written(order.lines) : order.lines[s].product \in Scope(a, rep)
  BY <1>2, <1>3 DEF Revise
<1>5. \A s \in Written(order.lines) : order.lines[s].discount \in Level
  BY <1>1 DEF Orders, Written, Line
<1>6. \A s \in Slot : \/ new[s] = NoLine
                      \/ \E p \in Scope(a, rep), d \in Level :
                           new[s] = NewLine(s, p, d, order.list, order.exempt)
  BY <1>3, <1>4, <1>5 DEF Written
<1>7. new = [s \in Slot |-> new[s]] /\ order.list \in List /\ order.exempt \in BOOLEAN
  BY <1>1, <1>3 DEF Orders
<1>8. order' \in Orders /\ Granted(order') /\ Sold(order')
  BY <1>4, <1>6, <1>7, NewOrders
<1> QED
  BY <1>8, NewOrderStays DEF Revise

\* An edit of the header leaves the lines and the list as they are.
LEMMA Header ==
  ASSUME NEW o, NEW x, NEW y
  PROVE  [o EXCEPT !.rep = x, !.byClient = y] = [[o EXCEPT !.rep = x] EXCEPT !.byClient = y]
  OBVIOUS

LEMMA EditHeaderStep ==
  ASSUME TermsInv, NEW a \in Actors, EditHeader(a)
  PROVE  TermsInv'
<1>1. order \in Orders /\ order # NoOrder /\ Granted(order) /\ Stored(order) /\ a.role # "client"
  BY DEF TermsInv, TypeOK, Orders, EditHeader, CanOperate
<1>2. PICK asked \in Rep :
        /\ ItemCatalogs \subseteq CatalogScope(a, asked)
        /\ order' = [order EXCEPT !.rep = asked, !.byClient = FALSE]
  BY DEF EditHeader
<1>3. PICK o \in Orders : o = [order EXCEPT !.rep = asked]
  BY <1>1 DEF Orders
<1>4. order' = [o EXCEPT !.byClient = FALSE]
  BY <1>2, <1>3, Header
<1>5. order' \in Orders
  BY <1>3, <1>4 DEF Orders
<1>6. order'.lines = order.lines /\ order'.list = order.list /\ order'.rep = asked
  BY <1>1, <1>3, <1>4 DEF Orders
<1>7. /\ UNCHANGED <<market, ceiling, clientMost, clientRep, ended, catalogOf, sold, bought, changes>>
      /\ withdrawn' = {} /\ orderCatalog' = orderCatalog /\ moved' = moved
  BY DEF EditHeader, RepWritten, world, catalogs
<1>8. ASSUME NEW s \in Written(order.lines), order.lines[s].product \notin moved
      PROVE  catalogOf[order.lines[s].product] \in bought \cap sold[asked]
  <2>1. catalogOf[order.lines[s].product] \in ItemCatalogs
    BY <1>1, <1>8 DEF ItemCatalogs, Stored
  <2>2. CatalogScope(a, asked) = bought \cap sold[asked]
    BY <1>1, TermsAssumption DEF CatalogScope
  <2> QED
    BY <1>2, <2>1, <2>2
<1>9. Granted(order)'
  BY <1>1, <1>6 DEF Granted, Given, Written
<1>10. Fits(order)'
  BY <1>6, <1>7, <1>8 DEF Fits, Written
<1>11. Stored(order)'
  BY <1>1, <1>6, <1>7 DEF Stored, Written
<1>12. TypeOK'
  BY <1>5, <1>7 DEF TermsInv, TypeOK, Orders
<1> QED
  BY <1>9, <1>10, <1>11, <1>12 DEF TermsInv

\* An edit of the lines replaces all but the state.
LEMMA FiveEdits ==
  ASSUME NEW o, NEW v, NEW w, NEW x, NEW y, NEW z
  PROVE  [o EXCEPT !.rep = IF v # NoRep THEN v ELSE @, !.list = w, !.exempt = x, !.byClient = y, !.lines = z]
           = [[[[[o EXCEPT !.rep = IF v # NoRep THEN v ELSE o.rep] EXCEPT !.list = w]
                    EXCEPT !.exempt = x] EXCEPT !.byClient = y] EXCEPT !.lines = z]
  OBVIOUS

Rewrites(e, o, v, list, exempt, lines) ==
  e = [o EXCEPT !.rep = IF v # NoRep THEN v ELSE @, !.list = list, !.exempt = exempt,
                !.byClient = FALSE, !.lines = lines]

LEMMA Rewritten ==
  ASSUME NEW o \in Orders, NEW v \in Rep \cup {NoRep}, NEW list \in List, NEW exempt \in BOOLEAN,
         NEW lines \in [Slot -> Line \cup {NoLine}], NEW e, Rewrites(e, o, v, list, exempt, lines)
  PROVE  /\ e \in Orders /\ e.lines = lines /\ e.list = list
         /\ e.rep = IF v # NoRep THEN v ELSE o.rep
<1>1. PICK rep \in Rep \cup {NoRep} : rep = IF v # NoRep THEN v ELSE o.rep
  BY DEF Orders
<1>2. PICK a \in Orders : a = [o EXCEPT !.rep = rep]
  BY DEF Orders
<1>3. PICK b \in Orders : b = [a EXCEPT !.list = list]
  BY DEF Orders
<1>4. PICK c \in Orders : c = [b EXCEPT !.exempt = exempt]
  BY DEF Orders
<1>5. PICK d \in Orders : d = [c EXCEPT !.byClient = FALSE]
  BY DEF Orders
<1>6. e = [d EXCEPT !.lines = lines]
  BY <1>1, <1>2, <1>3, <1>4, <1>5, FiveEdits DEF Rewrites
<1>7. e \in Orders /\ e.lines = lines
  BY <1>6 DEF Orders
<1>8. e.list = list /\ e.rep = rep
  BY <1>2, <1>3, <1>4, <1>5, <1>6 DEF Orders
<1> QED
  BY <1>1, <1>7, <1>8

\* What an edit that may have these lines makes of them: a line beyond the ceiling
\* has the grant of its source, which no other line has; the others are new.
LEMMA EditedLines ==
  ASSUME order \in Orders, Granted(order), NEW list \in List, NEW exempt \in BOOLEAN, NEW most \in Level,
         NEW lines,
         \A s \in Written(lines) :
           /\ lines[s].product \in Product /\ lines[s].discount \in Level
           /\ lines[s].discount <= LineMost(lines, s, list, most)
           /\ lines[s].discount > most => lines[s].source \in {None} \cup Written(order.lines)
  PROVE  LET new == Edited(lines, list, most, exempt) IN
         /\ new \in [Slot -> Line \cup {NoLine}]
         /\ \A s \in Written(new) : s \in Written(lines) /\ new[s].product = lines[s].product
         /\ \A s \in Written(new) : new[s].discount > 0 =>
              /\ new[s].grant \in Grant /\ new[s].grant.product = new[s].product
              /\ new[s].grant.list = list
         /\ \A s, t \in Written(new) :
              new[s].discount > 0 /\ new[t].discount > 0 /\ new[s].grant.id = new[t].grant.id => s = t
<1> DEFINE kept == {s \in Written(lines) : lines[s].discount > most}
           g(s) == order.lines[lines[s].source].grant
           held == {order.lines[lines[s].source].grant.id : s \in kept}
           ok(f) == IsInjective(f) /\ Range(f) \cap held = {}
           name == CHOOSE f \in [Slot \ kept -> Slot] : IsInjective(f) /\ Range(f) \cap held = {}
           new == Edited(lines, list, most, exempt)
<1>1. \A s \in kept : s \in Slot /\ lines[s].discount > 0 /\ Keeps(lines, s, list)
  <2>1. SUFFICES ASSUME NEW s \in kept PROVE s \in Slot /\ lines[s].discount > 0 /\ Keeps(lines, s, list)
    OBVIOUS
  <2>2. most \in Nat /\ lines[s].discount \in Nat /\ lines[s].discount > most
    BY Levels
  <2>3. lines[s].discount <= LineMost(lines, s, list, most)
    OBVIOUS
  <2>4. LineMost(lines, s, list, most) # most
    BY <2>2, <2>3
  <2> QED
    BY <2>2, <2>4 DEF LineMost, Written
<1>2. \A s \in kept :
        /\ lines[s].source \in Given(order)
        /\ list = order.list /\ order.lines[lines[s].source].product = lines[s].product
  <2>1. SUFFICES ASSUME NEW s \in kept
                 PROVE  /\ lines[s].source \in Given(order)
                        /\ list = order.list /\ order.lines[lines[s].source].product = lines[s].product
    OBVIOUS
  <2>2. /\ list = order.list /\ order.lines[lines[s].source].product = lines[s].product
        /\ lines[s].source \in Written(order.lines)
    BY <1>1 DEF Keeps
  <2>3. most \in Nat /\ lines[s].discount \in Nat /\ lines[s].discount > most
    BY Levels
  <2>4. order.lines[lines[s].source].discount \in Nat
    BY <2>2, Levels DEF Orders, Line, Written
  <2>5. lines[s].discount <= LineMost(lines, s, list, most)
    OBVIOUS
  <2>6. order.lines[lines[s].source].discount > 0
    BY <2>3, <2>4, <2>5 DEF LineMost
  <2> QED
    BY <2>2, <2>6 DEF Given
<1>3. \A s \in kept : g(s) \in Grant /\ g(s).product = lines[s].product /\ g(s).list = list
  BY <1>2 DEF Granted
<1>4. \A s, t \in kept : g(s).id = g(t).id => s = t
  <2>1. SUFFICES ASSUME NEW s \in kept, NEW t \in kept, g(s).id = g(t).id PROVE s = t
    OBVIOUS
  <2>2. lines[s].source = lines[t].source
    BY <1>2, <2>1 DEF Granted
  <2>3. s \in Nat /\ t \in Nat /\ s \in Slot /\ t \in Slot /\ lines[s] # NoLine /\ lines[t] # NoLine
    BY <1>1, TermsAssumption DEF Written
  <2>4. ~(s < t) /\ ~(t < s)
    BY <1>1, <2>2, <2>3 DEF Keeps
  <2> QED
    BY <2>3, <2>4
<1>5. \E f \in [Slot \ kept -> Slot] : IsInjective(f) /\ Range(f) \cap held = {}
  <2>1. PICK h : h = [s \in kept |-> g(s).id]
    OBVIOUS
  <2>2. h \in [kept -> Slot] /\ kept \in SUBSET Slot
    BY <1>1, <1>3, <2>1 DEF Grant
  <2>3. held = {h[s] : s \in kept}
    BY <2>1
  <2> HIDE DEF kept, held
  <2> QED
    BY <2>2, <2>3, FreeNames
<1>6. name \in [Slot \ kept -> Slot] /\ IsInjective(name) /\ Range(name) \cap held = {}
  <2> HIDE DEF held, kept
  <2> QED
    BY <1>5
<1>7. \A s \in Slot : new[s] =
        CASE lines[s] = NoLine -> NoLine
          [] s \in kept -> [product |-> lines[s].product, discount |-> lines[s].discount,
                            taxed |-> ~exempt, grant |-> g(s)]
          [] OTHER -> NewLine(name[s], lines[s].product, lines[s].discount, list, exempt)
  BY DEF Edited
<1>8. new = [s \in Slot |-> new[s]]
  BY DEF Edited
<1> HIDE DEF new, name
<1>9. ASSUME NEW s \in Slot, lines[s] # NoLine
      PROVE  /\ new[s] \in Line
             /\ new[s].product = lines[s].product
             /\ new[s].discount > 0 =>
                  /\ new[s].grant \in Grant /\ new[s].grant.product = new[s].product
                  /\ new[s].grant.list = list
                  /\ new[s].grant.id = IF s \in kept THEN g(s).id ELSE name[s]
  <2>1. s \in Written(lines) /\ lines[s].product \in Product /\ lines[s].discount \in Level
    BY <1>9 DEF Written
  <2>2. CASE s \in kept
    <3>1. new[s] = [product |-> lines[s].product, discount |-> lines[s].discount,
                    taxed |-> ~exempt, grant |-> g(s)]
      BY <1>7, <1>9, <2>2
    <3>2. g(s) \in Grant /\ g(s).product = lines[s].product /\ g(s).list = list
      BY <1>3, <2>2
    <3> QED
      BY <2>1, <2>2, <3>1, <3>2 DEF Line
  <2>3. CASE s \notin kept
    <3>1. name[s] \in Slot
      BY <1>6, <2>3
    <3>2. PICK l : l = NewLine(name[s], lines[s].product, lines[s].discount, list, exempt)
      OBVIOUS
    <3>3. /\ l \in Line /\ l.product = lines[s].product /\ l.discount = lines[s].discount
          /\ lines[s].discount > 0 =>
               /\ l.grant = [id |-> name[s], product |-> lines[s].product, list |-> list]
               /\ l.grant \in Grant
      BY <2>1, <3>1, <3>2, NewLines
    <3>4. new[s] = l
      BY <1>7, <1>9, <2>3, <3>2
    <3> QED
      BY <2>3, <3>3, <3>4
  <2> QED
    BY <2>2, <2>3
<1>10. \A s \in Slot : lines[s] = NoLine => new[s] = NoLine
  BY <1>7 DEF Written
<1>11. \A s \in Written(new) : s \in Slot /\ lines[s] # NoLine
  BY <1>10 DEF Written
<1>12. ASSUME NEW s \in Written(new), NEW t \in Written(new), new[s].discount > 0, new[t].discount > 0,
              new[s].grant.id = new[t].grant.id
       PROVE  s = t
  <2>1. s \in Slot /\ t \in Slot /\ lines[s] # NoLine /\ lines[t] # NoLine
    BY <1>11
  <2>2. /\ new[s].grant.id = IF s \in kept THEN g(s).id ELSE name[s]
        /\ new[t].grant.id = IF t \in kept THEN g(t).id ELSE name[t]
    BY <1>9, <1>12, <2>1
  <2>3. \A u \in Slot \ kept : name[u] \notin held
    BY <1>6 DEF Range
  <2>4. \A u \in kept : g(u).id \in held
    OBVIOUS
  <2>5. \A u, v \in Slot \ kept : name[u] = name[v] => u = v
    BY <1>6 DEF IsInjective
  <2> HIDE DEF kept, g, held
  <2> QED
    BY <1>4, <1>12, <2>1, <2>2, <2>3, <2>4, <2>5
<1>13. new \in [Slot -> Line \cup {NoLine}]
  BY <1>8, <1>9, <1>10
<1>14. \A s \in Written(new) : s \in Written(lines) /\ new[s].product = lines[s].product
  BY <1>9, <1>11 DEF Written
<1>15. \A s \in Written(new) : new[s].discount > 0 =>
         new[s].grant \in Grant /\ new[s].grant.product = new[s].product /\ new[s].grant.list = list
  BY <1>9, <1>11
<1> QED
  BY <1>12, <1>13, <1>14, <1>15 DEF new

LEMMA EditLinesStep ==
  ASSUME TermsInv, NEW a \in Actors, EditLines(a)
  PROVE  TermsInv'
<1>1. order \in Orders /\ Granted(order) /\ a.role # "client"
  BY DEF TermsInv, TypeOK, Orders, EditLines, CanOperate
<1>2. PICK asked \in Rep \cup {NoRep}, list \in ListChoice, exempt \in BOOLEAN :
        LET rep == IF asked # NoRep THEN asked ELSE ActiveRep(order.rep)
            most == Most(a, rep, list)
        IN /\ MayName(a, asked)
           /\ MayExempt(a, order.exempt, exempt)
           /\ \E lines \in [Slot -> Entry(Scope(a, rep), most) \cup {NoLine}] :
                /\ Written(lines) # {}
                /\ \A s \in Written(lines) : lines[s].discount <= LineMost(lines, s, list, most)
                /\ order' = [order EXCEPT !.rep = IF asked # NoRep THEN asked ELSE @, !.list = list,
                               !.exempt = exempt, !.byClient = FALSE,
                               !.lines = Edited(lines, list, most, exempt)]
  BY DEF EditLines
<1>3. PICK rep \in Rep \cup {NoRep} : rep = IF asked # NoRep THEN asked ELSE ActiveRep(order.rep)
  BY <1>1 DEF Orders, ActiveRep
<1>4. list \in List /\ Most(a, rep, list) \in Level
  BY Choices, MostIsALevel DEF TermsInv
<1>5. PICK most \in Level : most = Most(a, rep, list)
  BY <1>4
<1>6. PICK lines \in [Slot -> Entry(Scope(a, rep), most) \cup {NoLine}] :
        /\ \A s \in Written(lines) : lines[s].discount <= LineMost(lines, s, list, most)
        /\ order' = [order EXCEPT !.rep = IF asked # NoRep THEN asked ELSE @, !.list = list,
                       !.exempt = exempt, !.byClient = FALSE,
                       !.lines = Edited(lines, list, most, exempt)]
  BY <1>2, <1>3, <1>5
<1>7. ASSUME NEW s \in Written(lines)
      PROVE  /\ lines[s].product \in Scope(a, rep) /\ lines[s].product \in Product
             /\ lines[s].discount \in Level
             /\ lines[s].discount > most => lines[s].source \in {None} \cup Written(order.lines)
  <2>1. lines[s] \in Entry(Scope(a, rep), most)
    BY <1>6, <1>7 DEF Written
  <2>2. Scope(a, rep) \subseteq Product
    BY ScopeIsBought
  <2>3. CASE lines[s] \in [product : Scope(a, rep), discount : 0..most, source : {None}]
    BY <2>2, <2>3, TermsAssumption DEF Level
  <2>4. CASE lines[s] \in [product : Scope(a, rep), discount : {d \in Level : d > most},
                           source : {None} \cup Written(order.lines)]
    BY <2>2, <2>4
  <2> QED
    BY <2>1, <2>3, <2>4 DEF Entry
<1>8. PICK new : new = Edited(lines, list, most, exempt)
  OBVIOUS
<1>9. /\ new \in [Slot -> Line \cup {NoLine}]
      /\ \A s \in Written(new) : s \in Written(lines) /\ new[s].product = lines[s].product
      /\ \A s \in Written(new) : new[s].discount > 0 =>
           /\ new[s].grant \in Grant /\ new[s].grant.product = new[s].product
           /\ new[s].grant.list = list
      /\ \A s, t \in Written(new) :
           new[s].discount > 0 /\ new[t].discount > 0 /\ new[s].grant.id = new[t].grant.id => s = t
  BY <1>1, <1>4, <1>6, <1>7, <1>8, EditedLines
<1>10. /\ order' \in Orders /\ order'.lines = new /\ order'.list = list
       /\ order'.rep = IF asked # NoRep THEN asked ELSE order.rep
  <2>1. PICK e : e = order'
    OBVIOUS
  <2>2. Rewrites(e, order, asked, list, exempt, new)
    BY <1>6, <1>8, <2>1 DEF Rewrites
  <2>3. new \in [Slot -> Line \cup {NoLine}]
    BY <1>9
  <2>4. /\ e \in Orders /\ e.lines = new /\ e.list = list
        /\ e.rep = IF asked # NoRep THEN asked ELSE order.rep
    BY <1>1, <1>4, <2>2, <2>3, Rewritten
  <2> QED
    BY <2>1, <2>4
<1>11. Granted(order')
  BY <1>9, <1>10 DEF Granted, Given
<1>12. Sold(order')
  <2>1. order'.rep \in Rep \ ended => rep = order'.rep
    BY <1>3, <1>10 DEF ActiveRep
  <2>2. \A s \in Written(new) : new[s].product \in Scope(a, rep)
    BY <1>7, <1>9
  <2> QED
    BY <1>1, <1>10, <2>1, <2>2, ScopeIsBought DEF Sold
<1> QED
  BY <1>10, <1>11, <1>12, NewOrderStays DEF EditLines

LEMMA StateStep ==
  ASSUME TermsInv, NEW a \in Actors, Finalize(a) \/ Cancel(a)
  PROVE  TermsInv'
<1>1. order \in Orders /\ Granted(order) /\ Fits(order) /\ Stored(order)
  BY DEF TermsInv, TypeOK, Orders, Finalize, Cancel
<1>2. PICK x \in {"finalized", "cancelled"} : order' = [order EXCEPT !.status = x]
  BY DEF Finalize, Cancel
<1>3. /\ order' \in Orders /\ order'.lines = order.lines /\ order'.list = order.list
      /\ order'.rep = order.rep /\ order'.byClient = order.byClient
  BY <1>1, <1>2 DEF Orders
<1>4. /\ UNCHANGED <<market, ceiling, clientMost, clientRep, ended, catalogOf, sold, bought, changes>>
      /\ UNCHANGED <<orderCatalog, moved, withdrawn>>
  BY DEF Finalize, Cancel, world, since, catalogs
<1>5. Granted(order)' /\ Fits(order)' /\ Stored(order)'
  BY <1>1, <1>3, <1>4 DEF Granted, Given, Fits, Stored, Written
<1>6. TypeOK'
  BY <1>3, <1>4 DEF TermsInv, TypeOK, Orders
<1> QED
  BY <1>5, <1>6 DEF TermsInv

\* Of the world an order knows the representatives whose relationship ended, and
\* those only become more.
LEMMA EndingStep ==
  ASSUME TermsInv, NEW x \in Rep, DeleteRepresentative(x) \/ EndRelationship(x)
  PROVE  TermsInv'
<1>1. order' = order /\ ended' = ended \cup {x} /\ clientRep' \in Rep \cup {NoRep}
  BY DEF DeleteRepresentative, EndRelationship, TermsInv, TypeOK
<1>2. UNCHANGED <<market, ceiling, clientMost, catalogOf, sold, bought, changes, orderCatalog, moved, withdrawn>>
  BY DEF DeleteRepresentative, EndRelationship, catalogs, since
<1>3. TypeOK'
  BY <1>1, <1>2 DEF TermsInv, TypeOK
<1>4. ASSUME order # NoOrder PROVE Granted(order)' /\ Fits(order)' /\ Stored(order)'
  <2>1. Granted(order) /\ Fits(order) /\ Stored(order)
    BY <1>4 DEF TermsInv
  <2> QED
    BY <1>1, <1>2, <2>1 DEF Granted, Given, Fits, Stored, Written
<1> QED
  BY <1>1, <1>3, <1>4 DEF TermsInv

\* A change of catalogs sets aside the products it concerns; of the others each
\* is in the catalogs it was in.
LEMMA CatalogStep ==
  ASSUME TermsInv, TypeOK', order' = order, UNCHANGED <<ended, orderCatalog>>,
         moved \subseteq moved', withdrawn \subseteq withdrawn',
         \A p \in Product \ moved' : catalogOf'[p] = catalogOf[p],
         \A p \in Product \ (moved' \cup withdrawn') : catalogOf[p] \in bought => catalogOf[p] \in bought',
         \A p \in Product \ (moved' \cup withdrawn'), x \in Rep :
           catalogOf[p] \in sold[x] => catalogOf[p] \in sold'[x]
  PROVE  TermsInv'
<1>1. ASSUME order # NoOrder PROVE Granted(order)' /\ Fits(order)' /\ Stored(order)'
  <2>1. Granted(order) /\ Fits(order) /\ Stored(order) /\ order \in Orders
    BY <1>1 DEF TermsInv, TypeOK, Orders
  <2>2. \A s \in Written(order.lines) : order.lines[s].product \in Product
    BY <2>1 DEF Orders, Line, Written
  <2>3. Granted(order)'
    BY <2>1 DEF Granted, Given, Written
  <2>4. Fits(order)'
    BY <2>1, <2>2 DEF Fits, Written
  <2>5. Stored(order)'
    BY <2>1, <2>2 DEF Stored, Written
  <2> QED
    BY <2>3, <2>4, <2>5
<1> QED
  BY <1>1 DEF TermsInv

LEMMA UpdateRepresentativeStep ==
  ASSUME TermsInv, NEW x \in Rep, NEW most \in Level, NEW S \in SUBSET Catalog, UpdateRepresentative(x, most, S)
  PROVE  TermsInv'
<1>1. /\ UNCHANGED <<market, order, clientMost, clientRep, ended, catalogOf, bought, orderCatalog, moved>>
      /\ ceiling' \in [Rep -> Level] /\ sold' \in [Rep -> SUBSET Catalog]
      /\ \A y \in Rep : sold'[y] = IF y = x THEN S ELSE sold[y]
      /\ withdrawn' = withdrawn \cup InCatalogs(sold[x] \ S)
      /\ changes' \in Nat
  BY DEF UpdateRepresentative, Counted, TermsInv, TypeOK
<1>2. withdrawn' \subseteq Product
  BY <1>1 DEF InCatalogs, TermsInv, TypeOK
<1>3. TypeOK'
  BY <1>1, <1>2 DEF TermsInv, TypeOK
<1>4. \A p \in Product \ withdrawn', y \in Rep : catalogOf[p] \in sold[y] => catalogOf[p] \in sold'[y]
  BY <1>1 DEF InCatalogs
<1> QED
  BY <1>1, <1>3, <1>4, CatalogStep

LEMMA UpdateClientStep ==
  ASSUME TermsInv, NEW x \in Rep \cup {NoRep}, NEW most \in Level, NEW S \in SUBSET Catalog, UpdateClient(x, most, S)
  PROVE  TermsInv'
<1>1. /\ UNCHANGED <<market, order, ceiling, ended, catalogOf, sold, orderCatalog, moved>>
      /\ clientRep' = x /\ clientMost' = most /\ bought' = S
      /\ withdrawn' = withdrawn \cup InCatalogs(bought \ S)
      /\ changes' \in Nat
  BY DEF UpdateClient, Counted, TermsInv, TypeOK
<1>2. withdrawn' \subseteq Product
  BY <1>1 DEF InCatalogs, TermsInv, TypeOK
<1>3. TypeOK'
  BY <1>1, <1>2 DEF TermsInv, TypeOK
<1>4. \A p \in Product \ withdrawn' : catalogOf[p] \in bought => catalogOf[p] \in bought'
  BY <1>1 DEF InCatalogs
<1> QED
  BY <1>1, <1>3, <1>4, CatalogStep

LEMMA MoveProductStep ==
  ASSUME TermsInv, NEW p \in Product, NEW c \in Catalog, MoveProduct(p, c)
  PROVE  TermsInv'
<1>1. /\ UNCHANGED <<market, order, ceiling, clientMost, clientRep, ended, sold, bought, orderCatalog, withdrawn>>
      /\ catalogOf' \in [Product -> Catalog] /\ moved' = moved \cup {p} /\ changes' \in Nat
      /\ \A q \in Product \ {p} : catalogOf'[q] = catalogOf[q]
  BY DEF MoveProduct, TermsInv, TypeOK
<1>2. TypeOK'
  BY <1>1 DEF TermsInv, TypeOK
<1> QED
  BY <1>1, <1>2, CatalogStep

LEMMA TermsStart == Init => TermsInv
  BY Levels DEF Init, TermsInv, TypeOK

LEMMA TermsStep == TermsInv /\ [Next]_vars => TermsInv'
<1> SUFFICES ASSUME TermsInv, [Next]_vars PROVE TermsInv'
  OBVIOUS
<1>1. CASE \E a \in Actors : Create(a) \/ Copy(a) \/ Revise(a)
  BY <1>1, CreateStep, CopyStep, ReviseStep
<1>2. CASE \E a \in Actors : EditHeader(a) \/ EditLines(a) \/ Finalize(a) \/ Cancel(a)
  BY <1>2, EditHeaderStep, EditLinesStep, StateStep
<1>3. CASE \E x \in Rep : DeleteRepresentative(x) \/ EndRelationship(x)
  BY <1>3, EndingStep
<1>4. CASE \E most \in Level, S \in (SUBSET Catalog) \ {{}} :
             \/ \E x \in Rep : UpdateRepresentative(x, most, S)
             \/ \E x \in Rep \cup {NoRep} : UpdateClient(x, most, S)
  BY <1>4, UpdateRepresentativeStep, UpdateClientStep
<1>5. CASE \E p \in Product, c \in Catalog : MoveProduct(p, c)
  BY <1>5, MoveProductStep
<1>6. CASE UNCHANGED vars
  <2>1. /\ UNCHANGED <<market, order, ceiling, clientMost, clientRep, ended, catalogOf, sold, bought, changes>>
        /\ UNCHANGED <<orderCatalog, moved, withdrawn>>
    BY <1>6 DEF vars, world, since, catalogs
  <2> QED
    BY <2>1 DEF TermsInv, TypeOK, Granted, Given, Fits, Stored, Written
<1> QED
  BY <1>1, <1>2, <1>3, <1>4, <1>5, <1>6 DEF Next

-----------------------------------------------------------------------------
(* Results. *)

\* Orders, ceilings and representatives are well formed.
THEOREM TermsTypes == Spec => []TypeOK
<1>1. TermsInv => TypeOK
  BY DEF TermsInv
<1> QED
  BY <1>1, TermsStart, TermsStep, PTL DEF Spec

\* DiscountsWereGranted: through any copies, revisions and edits a discount rests
\* on a grant for its product in the list of the order, and no grant carries two
\* lines.
THEOREM DiscountsAlwaysGranted == Spec => []DiscountsWereGranted
  BY TermsStart, TermsStep, TermsTell, PTL DEF Spec

\* RepSellsTheOrder: what an order holds is in the catalogs of its client and of
\* its representative, whoever wrote the lines or the representative last: of any
\* product that has not changed catalogs since the lines were written, and whose
\* catalog nobody lost since lines or representative were.
THEOREM RepAlwaysSells == Spec => []RepSellsTheOrder
  BY TermsStart, TermsStep, TermsTell, PTL DEF Spec

-----------------------------------------------------------------------------
(* VAT. *)

\* An approved row that no race has changed has the rate that was signed for it.
RowsAreSigned ==
  \A p \in DOMAIN taxRow \ disputed :
    Vat!Approved(p) => signed[p] # Untaxed /\ signed[p].rate = taxRow[p].rate

SignedFor(rate, signatures) == \A s \in signatures : s # Untaxed /\ s.rate = rate

\* A request is about a product there is, and approves a rate in somebody's
\* name; what it found to be approved, or invoiced, was signed for.
WorkSigned(w) ==
  /\ w.op \in {"decide", "order", "priced"} => w.product \in DOMAIN taxRow
  /\ w.op = "decide" /\ w.wanted.status = "approved" =>
       w.wanted.rate # Untaxed /\ w.wanted.by # Untaxed
  /\ w.op = "priced" /\ w.status = "approved" => SignedFor(w.rate, w.signatures)
  /\ w.op = "invoiced" => SignedFor(w.rate, w.signatures)

WorkIsSigned == \A r \in TaxRequest : WorkSigned(deciding[r])

VatInv ==
  /\ Vat!TypeOK /\ DOMAIN deciding = TaxRequest
  /\ RowsAreSigned /\ WorkIsSigned

LEMMA VatTells == VatInv => InvoicedRatesWereSigned
  BY DEF VatInv, WorkIsSigned, WorkSigned, SignedFor, InvoicedRatesWereSigned, Vat!InvoicedRatesWereSigned

LEMMA NoApprovalIsNone == \A a \in Vat!Approval : a # Untaxed
  BY UntaxedAssumption DEF Vat!Approval

\* The columns of the VAT replaced, and the product stopped.
LEMMA FourEdits ==
  ASSUME NEW x, NEW rate, NEW status, NEW by, NEW dated
  PROVE  [x EXCEPT !.rate = rate, !.status = status, !.by = by, !.dated = dated]
           = [[[[x EXCEPT !.rate = rate] EXCEPT !.status = status] EXCEPT !.by = by] EXCEPT !.dated = dated]
  OBVIOUS

Revatted(y, x, rate, status, by, dated) ==
  y = [x EXCEPT !.rate = rate, !.status = status, !.by = by, !.dated = dated]

LEMMA VatEdits ==
  ASSUME NEW x \in Vat!Row, NEW rate \in VatRate \cup {Untaxed},
         NEW status \in {"pending", "approved", "rejected"},
         NEW by \in Approver \cup {Untaxed}, NEW dated \in BOOLEAN,
         NEW y, Revatted(y, x, rate, status, by, dated)
  PROVE  y \in Vat!Row /\ y.rate = rate /\ y.status = status /\ y.by = by /\ y.dated = dated
<1>1. PICK a \in Vat!Row : a = [x EXCEPT !.rate = rate]
  BY DEF Vat!Row
<1>2. PICK b \in Vat!Row : b = [a EXCEPT !.status = status]
  BY DEF Vat!Row
<1>3. PICK c \in Vat!Row : c = [b EXCEPT !.by = by]
  BY DEF Vat!Row
<1>4. PICK d \in Vat!Row : d = [c EXCEPT !.dated = dated]
  BY DEF Vat!Row
<1>5. d.rate = rate /\ d.status = status /\ d.by = by /\ d.dated = dated
  BY <1>1, <1>2, <1>3, <1>4 DEF Vat!Row
<1>6. y = d
  BY <1>1, <1>2, <1>3, <1>4, FourEdits DEF Revatted
<1> QED
  BY <1>5, <1>6

LEMMA ImportEdits ==
  ASSUME NEW x, NEW rate, NEW status, NEW by, NEW dated, NEW available
  PROVE  [x EXCEPT !.rate = rate, !.status = status, !.by = by, !.dated = dated, !.available = available]
           = [[x EXCEPT !.rate = rate, !.status = status, !.by = by, !.dated = dated]
                EXCEPT !.available = available]
  OBVIOUS

LEMMA ImportedRow ==
  ASSUME NEW x \in Vat!Row, NEW rate \in VatRate, NEW available \in BOOLEAN
  PROVE  LET y == Vat!Imported(x, rate, available)
         IN  y \in Vat!Row /\ Vat!Allowed(y) /\ y.status = "pending"
<1>1. PICK a : a = [x EXCEPT !.rate = rate, !.status = "pending", !.by = Untaxed, !.dated = FALSE]
  OBVIOUS
<1>2. PICK status \in {"pending", "approved", "rejected"}, by \in Approver \cup {Untaxed}, dated \in BOOLEAN :
        status = "pending" /\ by = Untaxed /\ dated = FALSE
  OBVIOUS
<1>3. Revatted(a, x, rate, status, by, dated)
  BY <1>1, <1>2 DEF Revatted
<1>4. rate \in VatRate \cup {Untaxed}
  OBVIOUS
<1>5. a \in Vat!Row /\ a.status = status /\ a.by = by /\ a.dated = dated
  BY <1>3, <1>4, VatEdits
<1>6. PICK b \in Vat!Row : b = [a EXCEPT !.available = available]
  BY <1>5 DEF Vat!Row
<1>7. b.status = "pending" /\ b.by = Untaxed /\ b.dated = FALSE
  BY <1>2, <1>5, <1>6 DEF Vat!Row
<1>8. Vat!Imported(x, rate, available) = b
  BY <1>1, <1>6, ImportEdits DEF Vat!Imported
<1> QED
  BY <1>7, <1>8 DEF Vat!Allowed

\* What a decision writes over a row is a row.
LEMMA MergedRow ==
  ASSUME NEW x \in Vat!Row, NEW loaded \in Vat!VatRow, NEW wanted \in Vat!VatRow
  PROVE  Vat!Merged(x, loaded, wanted) \in Vat!Row
<1> DEFINE W == Vat!Written(loaded, wanted)
           R == Vat!Merged(x, loaded, wanted)
<1>1. /\ DOMAIN x = {"group", "active", "available", "rate", "status", "by", "dated"}
      /\ DOMAIN loaded = {"rate", "status", "by", "dated"}
  BY DEF Vat!Row, Vat!VatRow
<1>2. W \subseteq {"rate", "status", "by", "dated"}
  BY <1>1 DEF Vat!Written
<1> HIDE DEF W
<1>3. R = [f \in DOMAIN x |-> IF f \in W THEN wanted[f] ELSE x[f]]
  BY DEF Vat!Merged, W
<1>4. R = [group |-> x.group, active |-> x.active, available |-> x.available,
           rate |-> IF "rate" \in W THEN wanted.rate ELSE x.rate,
           status |-> IF "status" \in W THEN wanted.status ELSE x.status,
           by |-> IF "by" \in W THEN wanted.by ELSE x.by,
           dated |-> IF "dated" \in W THEN wanted.dated ELSE x.dated]
  BY <1>1, <1>2, <1>3
<1> HIDE DEF R
<1>5. R \in Vat!Row
  BY <1>4 DEF Vat!Row, Vat!VatRow
<1> QED
  BY <1>5 DEF R

-----------------------------------------------------------------------------
(* A step changes rows, or what one request has read. *)

LEMMA VatStart == Vat!Init => VatInv
<1> SUFFICES ASSUME Vat!Init PROVE VatInv
  OBVIOUS
<1>1. DOMAIN taxRow = {}
  BY DEF Vat!Init
<1>2. DOMAIN deciding = TaxRequest /\ \A r \in TaxRequest : deciding[r] = Vat!Idle
  BY DEF Vat!Init
<1>3. Vat!Idle \in Vat!Requests /\ WorkSigned(Vat!Idle)
  BY DEF Vat!Requests, Vat!Idle, WorkSigned
<1>4. europe \in BOOLEAN /\ disputed = {} /\ signed \in [TaxedProduct -> Vat!Approval \cup {Untaxed}]
  BY DEF Vat!Init
<1>5. Vat!TypeOK
  BY <1>1, <1>2, <1>3, <1>4 DEF Vat!TypeOK, Vat!Known
<1>6. RowsAreSigned /\ WorkIsSigned
  BY <1>1, <1>2, <1>3 DEF RowsAreSigned, WorkIsSigned
<1> QED
  BY <1>2, <1>5, <1>6 DEF VatInv

LEMMA RowsChange ==
  ASSUME VatInv, DOMAIN deciding' = TaxRequest,
         \A r \in TaxRequest : deciding'[r] = deciding[r] \/ deciding'[r] = Vat!Idle,
         europe' = europe,
         DOMAIN taxRow \subseteq DOMAIN taxRow', DOMAIN taxRow' \subseteq TaxedProduct,
         \A p \in DOMAIN taxRow' : taxRow'[p] \in Vat!Row /\ Vat!Allowed(taxRow'[p]),
         signed' \in [TaxedProduct -> Vat!Approval \cup {Untaxed}],
         disputed' \subseteq DOMAIN taxRow',
         RowsAreSigned'
  PROVE  VatInv'
<1>1. Vat!Idle \in Vat!Requests
  BY DEF Vat!Requests
<1>2. Vat!TypeOK'
  BY <1>1 DEF VatInv, Vat!TypeOK, Vat!Known
<1>3. ASSUME NEW r \in TaxRequest
      PROVE  WorkSigned(deciding[r])'
  <2>1. CASE deciding'[r] = deciding[r]
    BY <2>1 DEF VatInv, WorkIsSigned, WorkSigned, SignedFor
  <2>2. CASE deciding'[r] = Vat!Idle
    BY <2>2 DEF WorkSigned, Vat!Idle
  <2> QED
    BY <2>1, <2>2
<1> QED
  BY <1>2, <1>3 DEF VatInv, WorkIsSigned

\* One row is written.
LEMMA RowChange ==
  ASSUME VatInv, DOMAIN deciding' = TaxRequest,
         \A r \in TaxRequest : deciding'[r] = deciding[r] \/ deciding'[r] = Vat!Idle,
         europe' = europe,
         NEW p \in TaxedProduct, NEW x \in Vat!Row, Vat!Allowed(x),
         NEW signature \in Vat!Approval \cup {Untaxed},
         p \in DOMAIN taxRow, taxRow' = [taxRow EXCEPT ![p] = x],
         signed' = [signed EXCEPT ![p] = signature],
         disputed' \subseteq disputed \cup {p}, disputed \subseteq disputed' \cup {p},
         p \notin disputed' /\ x.status = "approved" /\ x.rate # Untaxed =>
           signature # Untaxed /\ signature.rate = x.rate
  PROVE  VatInv'
<1>1. /\ DOMAIN taxRow \subseteq TaxedProduct /\ disputed \subseteq DOMAIN taxRow
      /\ \A q \in DOMAIN taxRow : taxRow[q] \in Vat!Row /\ Vat!Allowed(taxRow[q])
      /\ signed \in [TaxedProduct -> Vat!Approval \cup {Untaxed}]
  BY DEF VatInv, Vat!TypeOK, Vat!Known
<1>2. /\ DOMAIN taxRow' = DOMAIN taxRow /\ taxRow'[p] = x
      /\ \A q \in DOMAIN taxRow : q # p => taxRow'[q] = taxRow[q]
  OBVIOUS
<1>3. signed' \in [TaxedProduct -> Vat!Approval \cup {Untaxed}]
  BY <1>1
<1>4. signed'[p] = signature /\ \A q \in TaxedProduct : q # p => signed'[q] = signed[q]
  BY <1>1
<1>5. \A q \in DOMAIN taxRow' : taxRow'[q] \in Vat!Row /\ Vat!Allowed(taxRow'[q])
  BY <1>1, <1>2
<1>6. ASSUME NEW q \in DOMAIN taxRow' \ disputed', taxRow'[q].status = "approved", taxRow'[q].rate # Untaxed
      PROVE  signed'[q] # Untaxed /\ signed'[q].rate = taxRow'[q].rate
  <2>1. CASE q = p
    BY <1>2, <1>4, <1>6, <2>1
  <2>2. CASE q # p
    BY <1>1, <1>2, <1>4, <1>6, <2>2 DEF VatInv, RowsAreSigned, Vat!Approved
  <2> QED
    BY <2>1, <2>2
<1>7. RowsAreSigned'
  BY <1>6 DEF RowsAreSigned, Vat!Approved
<1> QED
  BY <1>1, <1>2, <1>3, <1>5, <1>7, RowsChange

LEMMA WorkChange ==
  ASSUME VatInv, NEW r \in TaxRequest, NEW w \in Vat!Requests, WorkSigned(w),
         deciding' = [deciding EXCEPT ![r] = w],
         taxRow' = taxRow, europe' \in BOOLEAN, signed' = signed, disputed' = disputed
  PROVE  VatInv'
<1>1. /\ DOMAIN deciding' = TaxRequest /\ deciding'[r] = w
      /\ \A q \in TaxRequest : q # r => deciding'[q] = deciding[q]
  BY DEF VatInv
<1>2. Vat!TypeOK'
  BY <1>1 DEF VatInv, Vat!TypeOK, Vat!Known
<1>3. ASSUME NEW q \in TaxRequest
      PROVE  WorkSigned(deciding[q])'
  <2>1. WorkSigned(deciding'[q])
    BY <1>1 DEF VatInv, WorkIsSigned
  <2> QED
    BY <2>1 DEF WorkSigned, SignedFor
<1>4. RowsAreSigned'
  BY DEF VatInv, RowsAreSigned, Vat!Approved
<1> QED
  BY <1>1, <1>2, <1>3, <1>4 DEF VatInv, WorkIsSigned

\* What the working copies of each kind of request are.
LEMMA Work ==
  ASSUME NEW w \in Vat!Requests
  PROVE  /\ w.op = "decide" => /\ w.product \in TaxedProduct
                               /\ w.loaded \in Vat!VatRow /\ w.wanted \in Vat!VatRow
         /\ w.op \in {"order", "priced"} => /\ w.product \in TaxedProduct
                                            /\ w.group \in TaxGroup \cup {Untaxed}
         /\ w.op = "priced" => /\ w.rate \in VatRate \cup {Untaxed}
                               /\ w.status \in {"pending", "approved", "rejected"}
                               /\ w.signatures \in SUBSET (Vat!Approval \cup {Untaxed})
  BY DEF Vat!Requests, Vat!Idle

LEMMA Idleness ==
  ASSUME VatInv, NEW r \in TaxRequest, Vat!Ends(r),
         taxRow' = taxRow, europe' \in BOOLEAN, signed' = signed, disputed' = disputed
  PROVE  VatInv'
<1>1. Vat!Idle \in Vat!Requests /\ WorkSigned(Vat!Idle)
  BY DEF Vat!Requests, Vat!Idle, WorkSigned
<1> QED
  BY <1>1, WorkChange DEF Vat!Ends

-----------------------------------------------------------------------------
(* Step by step: the catalogue. *)

LEMMA StepCreate ==
  ASSUME VatInv, NEW p \in TaxedProduct, NEW g \in TaxGroup \cup {Untaxed}, Vat!Create(p, g)
  PROVE  VatInv'
<1>1. Vat!New(g) \in Vat!Row /\ Vat!Allowed(Vat!New(g)) /\ Vat!New(g).status = "pending"
  BY DEF Vat!New, Vat!Row, Vat!Allowed
<1> DEFINE Made == [q \in DOMAIN taxRow \cup {p} |-> IF q = p THEN Vat!New(g) ELSE taxRow[q]]
<1>2. /\ p \notin DOMAIN taxRow /\ taxRow' = Made /\ UNCHANGED <<europe, deciding, signed, disputed>>
  BY DEF Vat!Create, Vat!Known, Vat!ghosts
<1>3. /\ DOMAIN taxRow' = DOMAIN taxRow \cup {p} /\ taxRow'[p] = Vat!New(g)
      /\ \A q \in DOMAIN taxRow : taxRow'[q] = taxRow[q]
  BY <1>2
<1>4. /\ DOMAIN taxRow \subseteq TaxedProduct /\ disputed \subseteq DOMAIN taxRow
      /\ \A q \in DOMAIN taxRow : taxRow[q] \in Vat!Row /\ Vat!Allowed(taxRow[q])
      /\ signed \in [TaxedProduct -> Vat!Approval \cup {Untaxed}] /\ DOMAIN deciding = TaxRequest
  BY DEF VatInv, Vat!TypeOK, Vat!Known
<1>5. \A q \in DOMAIN taxRow' : taxRow'[q] \in Vat!Row /\ Vat!Allowed(taxRow'[q])
  BY <1>1, <1>3, <1>4
<1>6. RowsAreSigned'
  BY <1>1, <1>2, <1>3 DEF VatInv, RowsAreSigned, Vat!Approved
<1> QED
  BY <1>2, <1>3, <1>4, <1>5, <1>6, RowsChange

LEMMA StepChangeType ==
  ASSUME VatInv, NEW p \in TaxedProduct, NEW g \in TaxGroup \cup {Untaxed}, Vat!ChangeType(p, g)
  PROVE  VatInv'
<1>1. /\ p \in DOMAIN taxRow /\ taxRow[p] \in Vat!Row /\ Vat!Allowed(taxRow[p])
      /\ signed[p] \in Vat!Approval \cup {Untaxed} /\ DOMAIN deciding = TaxRequest
      /\ signed \in [TaxedProduct -> Vat!Approval \cup {Untaxed}]
  BY DEF VatInv, Vat!TypeOK, Vat!Known, Vat!ChangeType
<1>2. PICK x \in Vat!Row : x = [taxRow[p] EXCEPT !.group = g]
  BY <1>1 DEF Vat!Row
<1>3. x.rate = taxRow[p].rate /\ x.status = taxRow[p].status /\ x.by = taxRow[p].by /\ x.dated = taxRow[p].dated
  BY <1>1, <1>2 DEF Vat!Row
<1>4. Vat!Allowed(x)
  BY <1>1, <1>3 DEF Vat!Allowed
<1>5. taxRow' = [taxRow EXCEPT ![p] = x] /\ UNCHANGED <<europe, deciding, signed, disputed>>
  BY <1>2 DEF Vat!ChangeType, Vat!ghosts
<1>6. signed' = [signed EXCEPT ![p] = signed[p]]
  BY <1>1, <1>5
<1>7. p \notin disputed' /\ x.status = "approved" /\ x.rate # Untaxed =>
        signed[p] # Untaxed /\ signed[p].rate = x.rate
  BY <1>1, <1>3, <1>5 DEF VatInv, RowsAreSigned, Vat!Approved
<1> QED
  BY <1>1, <1>4, <1>5, <1>6, <1>7, RowChange

LEMMA StepDelete ==
  ASSUME VatInv, NEW p \in TaxedProduct, Vat!Delete(p)
  PROVE  VatInv'
<1>1. /\ p \in DOMAIN taxRow /\ taxRow[p] \in Vat!Row /\ Vat!Allowed(taxRow[p])
      /\ signed[p] \in Vat!Approval \cup {Untaxed} /\ DOMAIN deciding = TaxRequest
      /\ signed \in [TaxedProduct -> Vat!Approval \cup {Untaxed}]
  BY DEF VatInv, Vat!TypeOK, Vat!Known, Vat!Delete
<1>2. PICK y \in Vat!Row : y = [taxRow[p] EXCEPT !.active = FALSE]
  BY <1>1 DEF Vat!Row
<1>3. PICK x \in Vat!Row : x = [y EXCEPT !.available = FALSE]
  BY <1>2 DEF Vat!Row
<1>4. x.rate = taxRow[p].rate /\ x.status = taxRow[p].status /\ x.by = taxRow[p].by /\ x.dated = taxRow[p].dated
  BY <1>1, <1>2, <1>3 DEF Vat!Row
<1>5. Vat!Allowed(x)
  BY <1>1, <1>4 DEF Vat!Allowed
<1>6. /\ taxRow' = [taxRow EXCEPT ![p].active = FALSE, ![p].available = FALSE]
      /\ UNCHANGED <<europe, deciding, signed, disputed>>
  BY DEF Vat!Delete, Vat!ghosts
<1>7. taxRow' = [[taxRow EXCEPT ![p] = y] EXCEPT ![p] = x]
  BY <1>1, <1>2, <1>3, <1>6
<1>8. taxRow' = [taxRow EXCEPT ![p] = x]
  BY <1>7
<1>9. signed' = [signed EXCEPT ![p] = signed[p]]
  BY <1>1, <1>6
<1>10. p \notin disputed' /\ x.status = "approved" /\ x.rate # Untaxed =>
        signed[p] # Untaxed /\ signed[p].rate = x.rate
  BY <1>1, <1>4, <1>6 DEF VatInv, RowsAreSigned, Vat!Approved
<1> QED
  BY <1>1, <1>5, <1>6, <1>8, <1>9, <1>10, RowChange

LEMMA StepImport ==
  ASSUME VatInv, NEW p \in TaxedProduct, NEW rate \in VatRate, NEW available \in BOOLEAN,
         Vat!Import(p, rate, available)
  PROVE  VatInv'
<1>1. p \in DOMAIN taxRow /\ taxRow[p] \in Vat!Row /\ DOMAIN deciding = TaxRequest
  BY DEF VatInv, Vat!TypeOK, Vat!Known, Vat!Import
<1>2. PICK x : x = Vat!Imported(taxRow[p], rate, available)
  OBVIOUS
<1>3. x \in Vat!Row /\ Vat!Allowed(x) /\ x.status = "pending"
  BY <1>1, <1>2, ImportedRow
<1>4. /\ taxRow' = [taxRow EXCEPT ![p] = x] /\ signed' = [signed EXCEPT ![p] = Untaxed]
      /\ disputed' = disputed \ {p} /\ UNCHANGED <<europe, deciding>>
  BY <1>2 DEF Vat!Import
<1> QED
  BY <1>1, <1>3, <1>4, RowChange

-----------------------------------------------------------------------------
(* Step by step: decisions. *)

LEMMA StepBeginDecision ==
  ASSUME VatInv, NEW r \in TaxRequest, NEW p \in TaxedProduct, NEW u \in Approver,
         NEW status \in {"pending", "approved", "rejected"}, NEW rate \in VatRate \cup {Untaxed},
         Vat!BeginDecision(r, p, status, rate, u)
  PROVE  VatInv'
<1>1. /\ p \in DOMAIN taxRow /\ taxRow[p] \in Vat!Row /\ europe \in BOOLEAN
  BY DEF VatInv, Vat!TypeOK, Vat!Known, Vat!BeginDecision
<1>2. PICK loaded \in Vat!VatRow : loaded = Vat!Vat(taxRow[p])
  BY <1>1 DEF Vat!Vat, Vat!VatRow, Vat!Row
<1>3. PICK wanted : wanted = Vat!Decided(loaded, status, rate, u)
  OBVIOUS
<1>4. wanted \in Vat!VatRow
  BY <1>2, <1>3 DEF Vat!Decided, Vat!VatRow
<1>5. u # Untaxed
  BY UntaxedAssumption
<1>6. wanted.status = "approved" => wanted.rate # Untaxed /\ wanted.by # Untaxed
  BY <1>3, <1>5 DEF Vat!Decided, Vat!BeginDecision
<1>7. PICK w : w = [op |-> "decide", product |-> p, loaded |-> loaded, wanted |-> wanted]
  OBVIOUS
<1>8. w \in Vat!Requests
  BY <1>4, <1>7 DEF Vat!Requests
<1>9. WorkSigned(w)
  BY <1>1, <1>6, <1>7 DEF WorkSigned
<1>10. deciding' = [deciding EXCEPT ![r] = w] /\ UNCHANGED <<taxRow, europe, signed, disputed>>
  BY <1>2, <1>3, <1>7 DEF Vat!BeginDecision, Vat!Starts, Vat!ghosts
<1> QED
  BY <1>1, <1>8, <1>9, <1>10, WorkChange

LEMMA StepCommitDecision ==
  ASSUME VatInv, NEW r \in TaxRequest, Vat!CommitDecision(r)
  PROVE  VatInv'
<1>1. PICK w \in Vat!Requests : w = deciding[r] /\ w.op = "decide" /\ WorkSigned(w)
  BY DEF VatInv, Vat!TypeOK, WorkIsSigned, Vat!CommitDecision
<1>2. PICK p \in TaxedProduct, loaded \in Vat!VatRow, wanted \in Vat!VatRow :
        p = w.product /\ loaded = w.loaded /\ wanted = w.wanted
  BY <1>1, Work
<1>3. /\ p \in DOMAIN taxRow
      /\ wanted.status = "approved" => wanted.rate # Untaxed /\ wanted.by # Untaxed
  BY <1>1, <1>2 DEF WorkSigned
<1>4. taxRow[p] \in Vat!Row /\ europe \in BOOLEAN /\ DOMAIN deciding = TaxRequest
  BY <1>3 DEF VatInv, Vat!TypeOK, Vat!Known
<1>5. PICK x : x = Vat!Merged(taxRow[p], loaded, wanted)
  OBVIOUS
<1>6. x \in Vat!Row
  BY <1>4, <1>5, MergedRow
<1>7. Vat!Ends(r) /\ europe' = europe
  BY DEF Vat!CommitDecision
<1>8. CASE ~Vat!Allowed(x)
  <2>1. UNCHANGED <<taxRow, signed, disputed>>
    BY <1>1, <1>2, <1>5, <1>8 DEF Vat!CommitDecision, Vat!ghosts
  <2> QED
    BY <1>4, <1>7, <2>1, Idleness
<1>9. CASE Vat!Allowed(x)
  <2>1. /\ taxRow' = [taxRow EXCEPT ![p] = x]
        /\ signed' = [signed EXCEPT ![p] = Vat!Signature(wanted)]
        /\ disputed' = IF Vat!Vat(x) = wanted THEN disputed \ {p} ELSE disputed \cup {p}
    BY <1>1, <1>2, <1>5, <1>9 DEF Vat!CommitDecision
  <2>2. PICK signature : signature = Vat!Signature(wanted)
    OBVIOUS
  <2>3. signature \in Vat!Approval \cup {Untaxed}
    BY <1>3, <2>2 DEF Vat!Signature, Vat!Approval, Vat!VatRow
  <2>4. ASSUME p \notin disputed', x.status = "approved", x.rate # Untaxed
        PROVE  signature # Untaxed /\ signature.rate = x.rate
    <3>1. Vat!Vat(x) = wanted
      BY <2>1, <2>4
    <3>2. wanted.status = "approved" /\ wanted.rate = x.rate
      BY <2>4, <3>1 DEF Vat!Vat
    <3>3. signature = [rate |-> wanted.rate, by |-> wanted.by]
      BY <2>2, <3>2 DEF Vat!Signature
    <3>4. signature \in Vat!Approval
      BY <1>3, <3>2, <3>3 DEF Vat!Approval, Vat!VatRow
    <3> QED
      BY <3>2, <3>3, <3>4, NoApprovalIsNone
  <2>5. \A q \in TaxRequest : deciding'[q] = deciding[q] \/ deciding'[q] = Vat!Idle
    BY <1>4, <1>7 DEF Vat!Ends
  <2>6. DOMAIN deciding' = TaxRequest
    BY <1>4, <1>7 DEF Vat!Ends
  <2>7. disputed' \subseteq disputed \cup {p} /\ disputed \subseteq disputed' \cup {p}
    BY <2>1
  <2>8. signed' = [signed EXCEPT ![p] = signature]
    BY <2>1, <2>2
  <2>9. p \notin disputed' /\ x.status = "approved" /\ x.rate # Untaxed =>
          signature # Untaxed /\ signature.rate = x.rate
    BY <2>4
  <2> QED
    BY <1>3, <1>6, <1>7, <1>9, <2>1, <2>3, <2>5, <2>6, <2>7, <2>8, <2>9, RowChange
<1> QED
  BY <1>8, <1>9

LEMMA StepApproveGroup ==
  ASSUME VatInv, NEW g \in TaxGroup, NEW rate \in VatRate, NEW u \in Approver,
         Vat!ApproveGroup(g, rate, u)
  PROVE  VatInv'
<1> DEFINE G == Vat!GroupOf(g)
<1>1. /\ DOMAIN taxRow \subseteq TaxedProduct /\ disputed \subseteq DOMAIN taxRow
      /\ \A q \in DOMAIN taxRow : taxRow[q] \in Vat!Row /\ Vat!Allowed(taxRow[q])
      /\ signed \in [TaxedProduct -> Vat!Approval \cup {Untaxed}] /\ DOMAIN deciding = TaxRequest
  BY DEF VatInv, Vat!TypeOK, Vat!Known
<1>2. G \subseteq DOMAIN taxRow
  BY DEF Vat!GroupOf, Vat!Known
<1>3. [rate |-> rate, by |-> u] \in Vat!Approval /\ rate # Untaxed /\ u # Untaxed
  BY UntaxedAssumption DEF Vat!Approval
<1>4. /\ taxRow' = [p \in DOMAIN taxRow |->
            IF p \in G
              THEN [taxRow[p] EXCEPT !.rate = rate, !.status = "approved", !.by = u, !.dated = TRUE]
              ELSE taxRow[p]]
      /\ signed' = [p \in TaxedProduct |-> IF p \in G THEN [rate |-> rate, by |-> u] ELSE signed[p]]
      /\ disputed' = disputed \ G /\ UNCHANGED <<europe, deciding>>
  BY DEF Vat!ApproveGroup, Vat!Known
<1> HIDE DEF G
<1>5. signed' \in [TaxedProduct -> Vat!Approval \cup {Untaxed}]
  BY <1>1, <1>3, <1>4
<1>6. DOMAIN taxRow' = DOMAIN taxRow /\ \A q \in DOMAIN taxRow \ G : taxRow'[q] = taxRow[q]
  BY <1>4
<1>7. ASSUME NEW q \in G
      PROVE  taxRow'[q] \in Vat!Row /\ Vat!Allowed(taxRow'[q]) /\ taxRow'[q].rate = rate
  <2>1. PICK status \in {"pending", "approved", "rejected"}, by \in Approver \cup {Untaxed}, dated \in BOOLEAN :
          status = "approved" /\ by = u /\ dated = TRUE
    OBVIOUS
  <2>2. PICK y : y = [taxRow[q] EXCEPT !.rate = rate, !.status = "approved", !.by = u, !.dated = TRUE]
    OBVIOUS
  <2>3. PICK x \in Vat!Row : x = taxRow[q]
    BY <1>1, <1>2
  <2>4. Revatted(y, x, rate, status, by, dated)
    BY <2>1, <2>2, <2>3 DEF Revatted
  <2>5. rate \in VatRate \cup {Untaxed}
    OBVIOUS
  <2>6. y \in Vat!Row /\ y.rate = rate /\ y.status = status /\ y.by = by /\ y.dated = dated
    BY <2>4, <2>5, VatEdits
  <2>7. Vat!Allowed(y)
    BY <1>3, <2>1, <2>6 DEF Vat!Allowed
  <2>8. taxRow'[q] = y
    BY <1>2, <1>4, <2>2
  <2> QED
    BY <2>6, <2>7, <2>8
<1>8. \A q \in DOMAIN taxRow' : taxRow'[q] \in Vat!Row /\ Vat!Allowed(taxRow'[q])
  BY <1>1, <1>6, <1>7
<1>9. ASSUME NEW q \in DOMAIN taxRow' \ disputed', taxRow'[q].status = "approved", taxRow'[q].rate # Untaxed
      PROVE  signed'[q] # Untaxed /\ signed'[q].rate = taxRow'[q].rate
  <2>1. CASE q \in G
    <3>1. signed'[q] = [rate |-> rate, by |-> u]
      BY <1>1, <1>2, <1>4, <2>1
    <3> QED
      BY <1>3, <1>7, <2>1, <3>1, NoApprovalIsNone
  <2>2. CASE q \notin G
    <3>1. q \in DOMAIN taxRow \ disputed /\ taxRow'[q] = taxRow[q] /\ signed'[q] = signed[q]
      BY <1>1, <1>4, <1>6, <1>9, <2>2
    <3> QED
      BY <1>9, <3>1 DEF VatInv, RowsAreSigned, Vat!Approved
  <2> QED
    BY <2>1, <2>2
<1>10. RowsAreSigned'
  BY <1>9 DEF RowsAreSigned, Vat!Approved
<1> QED
  BY <1>1, <1>4, <1>5, <1>6, <1>8, <1>10, RowsChange

-----------------------------------------------------------------------------
(* Step by step: the market and its orders. *)

LEMMA StepBeginActivation ==
  ASSUME VatInv, NEW r \in TaxRequest, Vat!BeginActivation(r)
  PROVE  VatInv'
<1>1. PICK w : w = [op |-> "activate"]
  OBVIOUS
<1>2. w \in Vat!Requests /\ WorkSigned(w)
  BY <1>1 DEF Vat!Requests, WorkSigned
<1>3. /\ deciding' = [deciding EXCEPT ![r] = w] /\ europe \in BOOLEAN
      /\ UNCHANGED <<taxRow, europe, signed, disputed>>
  BY <1>1 DEF Vat!BeginActivation, Vat!Starts, Vat!ghosts, VatInv, Vat!TypeOK
<1> QED
  BY <1>2, <1>3, WorkChange

LEMMA StepCommitActivation ==
  ASSUME VatInv, NEW r \in TaxRequest, Vat!CommitActivation(r)
  PROVE  VatInv'
<1>1. Vat!Ends(r) /\ europe' \in BOOLEAN /\ UNCHANGED <<taxRow, signed, disputed>>
  BY DEF Vat!CommitActivation, Vat!ghosts, VatInv, Vat!TypeOK
<1> QED
  BY <1>1, Idleness

LEMMA StepDeactivate ==
  ASSUME VatInv, Vat!Deactivate
  PROVE  VatInv'
<1>1. europe' \in BOOLEAN /\ UNCHANGED <<taxRow, deciding, signed, disputed>>
  BY DEF Vat!Deactivate, Vat!ghosts
<1>2. Vat!TypeOK'
  BY <1>1 DEF VatInv, Vat!TypeOK, Vat!Known
<1>3. RowsAreSigned' /\ WorkIsSigned'
  BY <1>1 DEF VatInv, RowsAreSigned, Vat!Approved, WorkIsSigned, WorkSigned, SignedFor
<1> QED
  BY <1>1, <1>2, <1>3 DEF VatInv

LEMMA StepBeginOrder ==
  ASSUME VatInv, NEW r \in TaxRequest, NEW p \in TaxedProduct, Vat!BeginOrder(r, p)
  PROVE  VatInv'
<1>1. p \in DOMAIN taxRow /\ taxRow[p].group \in TaxGroup \cup {Untaxed} /\ europe \in BOOLEAN
  BY DEF VatInv, Vat!TypeOK, Vat!Known, Vat!Row, Vat!BeginOrder
<1>2. PICK w : w = [op |-> "order", product |-> p, group |-> taxRow[p].group]
  OBVIOUS
<1>3. w \in Vat!Requests
  BY <1>1, <1>2 DEF Vat!Requests
<1>4. WorkSigned(w)
  BY <1>1, <1>2 DEF WorkSigned
<1>5. deciding' = [deciding EXCEPT ![r] = w] /\ UNCHANGED <<taxRow, europe, signed, disputed>>
  BY <1>2 DEF Vat!BeginOrder, Vat!Starts, Vat!ghosts
<1> QED
  BY <1>1, <1>3, <1>4, <1>5, WorkChange

LEMMA StepReadVat ==
  ASSUME VatInv, NEW r \in TaxRequest, Vat!ReadVat(r)
  PROVE  VatInv'
<1>1. PICK o \in Vat!Requests : o = deciding[r] /\ o.op = "order" /\ WorkSigned(o)
  BY DEF VatInv, Vat!TypeOK, WorkIsSigned, Vat!ReadVat
<1>2. PICK p \in TaxedProduct, g \in TaxGroup \cup {Untaxed} :
        p = o.product /\ g = o.group /\ p \in DOMAIN taxRow
  BY <1>1, Work DEF WorkSigned
<1>3. /\ taxRow[p].rate \in VatRate \cup {Untaxed}
      /\ taxRow[p].status \in {"pending", "approved", "rejected"}
      /\ taxRow[p].status = "approved" => taxRow[p].rate # Untaxed
      /\ europe \in BOOLEAN /\ signed[p] \in Vat!Approval \cup {Untaxed}
  BY <1>2 DEF VatInv, Vat!TypeOK, Vat!Known, Vat!Row, Vat!Allowed
<1>4. PICK signatures : signatures = Vat!Signatures({p})
  OBVIOUS
<1>5. signatures \in SUBSET (Vat!Approval \cup {Untaxed})
  BY <1>3, <1>4 DEF Vat!Signatures
<1>6. taxRow[p].status = "approved" => SignedFor(taxRow[p].rate, signatures)
  BY <1>2, <1>3, <1>4 DEF VatInv, RowsAreSigned, Vat!Approved, SignedFor, Vat!Signatures
<1>7. PICK w : w = [op |-> "priced", product |-> p, group |-> g, rate |-> taxRow[p].rate,
                    status |-> taxRow[p].status, signatures |-> signatures]
  OBVIOUS
<1>8. w \in Vat!Requests
  BY <1>3, <1>5, <1>7 DEF Vat!Requests
<1>9. WorkSigned(w)
  BY <1>2, <1>6, <1>7 DEF WorkSigned
<1>10. deciding' = [deciding EXCEPT ![r] = w] /\ UNCHANGED <<taxRow, europe, signed, disputed>>
  BY <1>1, <1>2, <1>4, <1>7 DEF Vat!ReadVat, Vat!ghosts
<1> QED
  BY <1>3, <1>8, <1>9, <1>10, WorkChange

\* The only rate of the approved products of a group was signed for each of them.
LEMMA GroupIsSigned ==
  ASSUME VatInv, NEW g \in TaxGroup \cup {Untaxed}, NEW rate, Vat!GroupRates(g) = {rate}
  PROVE  /\ rate \in VatRate
         /\ Vat!Signatures(Vat!Approvers(g)) \in SUBSET (Vat!Approval \cup {Untaxed})
         /\ SignedFor(rate, Vat!Signatures(Vat!Approvers(g)))
<1> DEFINE A == Vat!Approvers(g)
<1>1. A \subseteq DOMAIN taxRow /\ \A p \in A : Vat!Approved(p)
  BY DEF Vat!Approvers, Vat!GroupOf, Vat!Known
<1>2. {taxRow[p].rate : p \in A} = {rate}
  BY DEF Vat!GroupRates
<1>3. \A p \in A : taxRow[p].rate = rate
  BY <1>2
<1>4. PICK p \in A : taxRow[p].rate = rate
  BY <1>2
<1>5. rate \in VatRate
  BY <1>1, <1>4 DEF VatInv, Vat!TypeOK, Vat!Known, Vat!Row, Vat!Approved
<1>6. \A q \in A : signed[q] \in Vat!Approval \cup {Untaxed}
  BY <1>1 DEF VatInv, Vat!TypeOK, Vat!Known
<1>7. \A q \in A \ disputed : signed[q] # Untaxed /\ signed[q].rate = rate
  BY <1>1, <1>3 DEF VatInv, RowsAreSigned
<1>8. Vat!Signatures(A) = {signed[q] : q \in A \ disputed}
  BY DEF Vat!Signatures
<1> QED
  BY <1>5, <1>6, <1>7, <1>8 DEF SignedFor

LEMMA StepCommitOrder ==
  ASSUME VatInv, NEW r \in TaxRequest, Vat!CommitOrder(r)
  PROVE  VatInv'
<1>1. PICK o \in Vat!Requests : o = deciding[r] /\ o.op = "priced" /\ WorkSigned(o)
  BY DEF VatInv, Vat!TypeOK, WorkIsSigned, Vat!CommitOrder
<1>2. /\ o.group \in TaxGroup \cup {Untaxed} /\ o.rate \in VatRate \cup {Untaxed}
      /\ o.signatures \in SUBSET (Vat!Approval \cup {Untaxed})
      /\ europe \in BOOLEAN /\ UNCHANGED <<taxRow, europe, signed, disputed>>
  BY <1>1, Work DEF VatInv, Vat!TypeOK, Vat!CommitOrder, Vat!ghosts
<1>3. CASE Vat!Ends(r)
  BY <1>2, <1>3, Idleness
<1>4. CASE \E work \in Vat!Resolved(o) : deciding' = [deciding EXCEPT ![r] = work]
  <2>1. PICK w \in Vat!Resolved(o) : deciding' = [deciding EXCEPT ![r] = w]
    BY <1>4
  <2>2. PICK rate \in VatRate, signatures \in SUBSET (Vat!Approval \cup {Untaxed}) :
          w = Vat!Invoiced(rate, signatures) /\ SignedFor(rate, signatures)
    <3>1. CASE o.status = "approved" /\ o.rate # Untaxed
      <4>1. w = Vat!Invoiced(o.rate, o.signatures)
        BY <3>1 DEF Vat!Resolved
      <4>2. SignedFor(o.rate, o.signatures)
        BY <1>1, <3>1 DEF WorkSigned
      <4> QED
        BY <1>2, <3>1, <4>1, <4>2
    <3>2. CASE ~(o.status = "approved" /\ o.rate # Untaxed)
      <4>1. PICK x : /\ w = Vat!Invoiced(x, Vat!Signatures(Vat!Approvers(o.group)))
                     /\ Vat!GroupRates(o.group) = {x}
        BY <3>2 DEF Vat!Resolved
      <4> QED
        BY <1>2, <4>1, GroupIsSigned
    <3> QED
      BY <3>1, <3>2
  <2>3. w \in Vat!Requests /\ WorkSigned(w)
    BY <2>2 DEF Vat!Invoiced, Vat!Requests, WorkSigned
  <2> QED
    BY <1>2, <2>1, <2>3, WorkChange
<1> QED
  BY <1>1, <1>3, <1>4 DEF Vat!CommitOrder

LEMMA StepAnswer ==
  ASSUME VatInv, NEW r \in TaxRequest, Vat!Answer(r)
  PROVE  VatInv'
<1>1. Vat!Ends(r) /\ europe \in BOOLEAN /\ UNCHANGED <<taxRow, europe, signed, disputed>>
  BY DEF Vat!Answer, Vat!ghosts, VatInv, Vat!TypeOK
<1> QED
  BY <1>1, Idleness

-----------------------------------------------------------------------------

LEMMA VatStep == VatInv /\ [Vat!Next]_(Vat!vars) => VatInv'
<1> SUFFICES ASSUME VatInv, [Vat!Next]_(Vat!vars) PROVE VatInv'
  OBVIOUS
<1>1. CASE UNCHANGED Vat!vars
  <2>1. UNCHANGED <<taxRow, europe, deciding, signed, disputed>>
    BY <1>1 DEF Vat!vars
  <2>2. Vat!TypeOK'
    BY <2>1 DEF VatInv, Vat!TypeOK, Vat!Known
  <2>3. RowsAreSigned' /\ WorkIsSigned'
    BY <2>1 DEF VatInv, RowsAreSigned, Vat!Approved, WorkIsSigned, WorkSigned, SignedFor
  <2> QED
    BY <2>1, <2>2, <2>3 DEF VatInv
<1>2. CASE \E p \in TaxedProduct, g \in TaxGroup \cup {Untaxed} : Vat!Create(p, g) \/ Vat!ChangeType(p, g)
  BY <1>2, StepCreate, StepChangeType
<1>3. CASE \E p \in TaxedProduct : Vat!Delete(p)
  BY <1>3, StepDelete
<1>4. CASE \E p \in TaxedProduct, rate \in VatRate, available \in BOOLEAN : Vat!Import(p, rate, available)
  BY <1>4, StepImport
<1>5. CASE \E g \in TaxGroup, rate \in VatRate, u \in Approver : Vat!ApproveGroup(g, rate, u)
  BY <1>5, StepApproveGroup
<1>6. CASE \E r \in TaxRequest, p \in TaxedProduct, u \in Approver, rate \in VatRate \cup {Untaxed} :
             \E status \in {"pending", "approved", "rejected"} : Vat!BeginDecision(r, p, status, rate, u)
  BY <1>6, StepBeginDecision
<1>7. CASE \E r \in TaxRequest : Vat!CommitDecision(r)
  BY <1>7, StepCommitDecision
<1>8. CASE \E r \in TaxRequest : Vat!BeginActivation(r) \/ Vat!CommitActivation(r)
  BY <1>8, StepBeginActivation, StepCommitActivation
<1>9. CASE Vat!Deactivate
  BY <1>9, StepDeactivate
<1>10. CASE \E r \in TaxRequest, p \in TaxedProduct : Vat!BeginOrder(r, p)
  BY <1>10, StepBeginOrder
<1>11. CASE \E r \in TaxRequest : Vat!ReadVat(r) \/ Vat!CommitOrder(r) \/ Vat!Answer(r)
  BY <1>11, StepReadVat, StepCommitOrder, StepAnswer
<1> QED
  BY <1>1, <1>2, <1>3, <1>4, <1>5, <1>6, <1>7, <1>8, <1>9, <1>10, <1>11 DEF Vat!Next

\* The steps of VatOfOrders are those of EuropeanVat.
LEMMA VatNext == NextVat => Vat!Next
<1> SUFFICES ASSUME NextVat PROVE Vat!Next
  OBVIOUS
<1>1. CASE OnProducts
  BY <1>1 DEF OnProducts, Vat!Next
<1>2. CASE OnRates
  BY <1>2 DEF OnRates, Vat!Next
<1>3. CASE OnMarket
  BY <1>3 DEF OnMarket, Vat!Next
<1> QED
  BY <1>1, <1>2, <1>3 DEF NextVat

LEMMA VatRefines == SpecVat => Vat!Spec
<1>1. InitVat => Vat!Init
  BY DEF InitVat
<1>2. [NextVat]_taxes => [Vat!Next]_(Vat!vars)
  BY VatNext DEF taxes, Vat!vars
<1> QED
  BY <1>1, <1>2, PTL DEF SpecVat, Vat!Spec

LEMMA VatAlwaysHolds == Vat!Spec => []VatInv
  BY VatStart, VatStep, PTL DEF Vat!Spec

\* The rows of product_markets, and what the requests on them have read, have
\* their shape, and a row is approved with its rate, its approver and its date
\* or with neither (ck_product_markets_vat_approval), although a decision is
\* merged column by column into whatever row it finds.
THEOREM VatTypes == SpecVat => []Vat!TypeOK
<1>1. VatInv => Vat!TypeOK
  BY DEF VatInv
<1> QED
  BY <1>1, VatRefines, VatAlwaysHolds, PTL

\* The VAT of every item of an order (_resolve_eu_vat) was approved for its
\* product or for every approved product of its group, whatever is created,
\* imported, decided or deleted between the statements that read them: of any
\* product whose row is as the last decision on it meant it to be.
THEOREM RatesAlwaysSigned == SpecVat => []InvoicedRatesWereSigned
  BY VatTells, VatRefines, VatAlwaysHolds, PTL

=============================================================================
