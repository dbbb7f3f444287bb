------------------------------ MODULE OrderTerms ------------------------------
(***************************************************************************)
(* The commercial terms of an order: price list, representative, VAT       *)
(* exemption, and the product and discount of every line, as               *)
(* api/routers/orders.py settles them when an order is created, edited,    *)
(* copied or revised, while ceilings, catalogs, representatives and the    *)
(* client change around it.                                                *)
(*                                                                         *)
(* One client and one order are followed; a copy or a revision takes the   *)
(* place of the order it was made from.  Prices, quantities, special       *)
(* lines and the availability of products are left out.  Discounts go up   *)
(* to MaxDiscount, what an administrator may give, and a representative or *)
(* a client whose ceiling is as high may give too.                         *)
(***************************************************************************)
EXTENDS Naturals, FiniteSets, Functions

CONSTANTS
  Slot,        \* positions of lines, 1..n in the order the request lists them
  Product,
  Rep,
  Catalog,
  Market,      \* the markets followed
  NoRep, NoLine, NoOrder, None,
  MaxDiscount, \* what an administrator may give
  MaxChanges   \* bound: changes of catalogs, in each market

ASSUME TermsAssumption ==
  /\ Slot \subseteq Nat /\ IsFiniteSet(Slot)
  /\ Market \subseteq {"BR", "EU"}
  /\ NoRep \notin Rep /\ None \notin Catalog
  /\ MaxDiscount \in Nat /\ MaxChanges \in [Market -> Nat]

List == {"pvp", "lojista"}
Level == 0 .. MaxDiscount

VARIABLES
  market,      \* "BR" or "EU"
  order,       \* [status, list, rep, exempt, byClient, lines] or NoOrder
  ceiling,     \* Representative.max_discount
  clientMost,  \* Client.max_discount
  clientRep,   \* Client.rep_id
  ended,       \* representatives whose relationship ended
  catalogOf,   \* Product.catalog_id
  sold,        \* the catalogs a representative sells
  bought,      \* the catalogs the client may buy from
  orderCatalog, \* Order.catalog_id
  changes,     \* changes of catalogs so far
  moved,       \* products that changed catalogs since the lines were written
  withdrawn    \* products whose catalog somebody lost since lines or representative were written

catalogs == <<catalogOf, sold, bought, changes>>
since == <<orderCatalog, moved, withdrawn>>
world == <<market, ceiling, clientMost, clientRep, ended, catalogs>>
vars == <<order, world, since>>

\* A line with a discount remembers the grant it rests on (not part of the code):
\* the product and list it was given for, and which grant it was.
Grant == [id : Slot, product : Product, list : List]
Line == [product : Product, discount : Level, taxed : BOOLEAN, grant : Grant \cup {None}]

Actors == {[role |-> r, rep |-> NoRep] : r \in {"admin", "seller", "products", "client"}}
            \cup {[role |-> "rep", rep |-> x] : x \in Rep \ ended}

Init ==
  /\ market \in Market
  /\ order = NoOrder
  /\ ceiling \in [Rep -> Level] /\ clientMost = MaxDiscount
  /\ clientRep \in Rep
  /\ ended = {}
  /\ catalogOf \in [Product -> Catalog]
  /\ sold \in [Rep -> (SUBSET Catalog) \ {{}}] /\ bought \in (SUBSET Catalog) \ {{}}
  /\ orderCatalog = None
  /\ changes = 0 /\ moved = {} /\ withdrawn = {}

TypeOK ==
  /\ market \in Market
  /\ order = NoOrder \/
       order \in [status : {"open", "finalized", "cancelled"}, list : List, rep : Rep \cup {NoRep},
                  exempt : BOOLEAN, byClient : BOOLEAN, lines : [Slot -> Line \cup {NoLine}]]
  /\ ceiling \in [Rep -> Level] /\ clientMost \in Level
  /\ clientRep \in Rep \cup {NoRep}
  /\ ended \subseteq Rep
  /\ catalogOf \in [Product -> Catalog]
  /\ sold \in [Rep -> SUBSET Catalog] /\ bought \subseteq Catalog
  /\ orderCatalog \in Catalog \cup {None}
  /\ changes \in Nat /\ moved \subseteq Product /\ withdrawn \subseteq Product

-----------------------------------------------------------------------------
(* Rules *)

CanOperate(a) == a.role # "client"
CanCreate(a) == a.role # "products"
CanExempt(a) == a.role \in {"admin", "seller", "rep"}
Sees(a) == a.role = "rep" => order.rep = a.rep

Written(lines) == {s \in Slot : lines[s] # NoLine}
ActiveRep(x) == IF x \in ended THEN NoRep ELSE x

\* _resolve_max_discount
Most(a, rep, list) ==
  LET ofRep == IF rep = NoRep THEN 0 ELSE ceiling[rep] IN
  IF market = "EU"
  THEN CASE list # "pvp" \/ a.role \in {"client", "products"} -> 0
         [] a.role = "admin" -> MaxDiscount
         [] OTHER -> ofRep
  ELSE CASE a.role = "rep" -> ofRep
         [] a.role = "seller" -> IF rep = NoRep THEN clientMost ELSE ofRep
         [] a.role = "client" -> clientMost
         [] a.role = "admin" -> MaxDiscount
         [] OTHER -> 0

\* order_catalog_scope, and the products in it today
CatalogScope(a, rep) == IF a.role = "client" \/ rep = NoRep THEN bought ELSE bought \cap sold[rep]
Scope(a, rep) == {p \in Product : catalogOf[p] \in CatalogScope(a, rep)}

\* _order_catalog: the catalog of an order whose lines are all of one.
TheCatalog(lines) ==
  LET C == {catalogOf[lines[s].product] : s \in Written(lines)}
  IN  IF \E c \in Catalog : C = {c} THEN CHOOSE c \in Catalog : C = {c} ELSE None

\* _order_item_catalog_ids: the one stored, or what the products are in today.
ItemCatalogs ==
  IF orderCatalog # None THEN {orderCatalog}
  ELSE {catalogOf[order.lines[s].product] : s \in Written(order.lines)}

LinesWritten == orderCatalog' = TheCatalog(order'.lines) /\ moved' = {} /\ withdrawn' = {}
RepWritten == withdrawn' = {} /\ UNCHANGED <<orderCatalog, moved>>

\* The representative a new order gets from the one the request names.  That an
\* administrator may work for a fixed one (order_rep_id) only narrows the choice.
Assigned(a, asked) ==
  CASE a.role = "rep" -> a.rep
    [] a.role = "client" -> clientRep
    [] OTHER -> asked

\* What every new order is checked for: the representative is still there, and
\* one who orders does it for a client of their own.
MayOrder(a, rep) == CanCreate(a) /\ rep \notin ended /\ (a.role = "rep" => clientRep = a.rep)

\* _resolve_vat_exemption
MayExempt(a, old, new) == new # old => CanExempt(a) /\ (new => market = "EU")

-----------------------------------------------------------------------------
(* New orders *)

\* A line somebody enters under their own ceiling rests on a grant of theirs.
NewLine(s, product, discount, list, exempt) ==
  [product |-> product, discount |-> discount, taxed |-> ~exempt,
   grant |-> IF discount = 0 THEN None ELSE [id |-> s, product |-> product, list |-> list]]

Opened(a, list, rep, exempt, lines) ==
  [status |-> "open", list |-> list, rep |-> rep, exempt |-> exempt,
   byClient |-> a.role = "client", lines |-> lines]

\* Brazil sells at the client's list; in Europe the order chooses.
ListChoice == IF market = "EU" THEN List ELSE {"lojista"}

Create(a) ==
  /\ order = NoOrder
  /\ \E list \in ListChoice, asked \in Rep \cup {NoRep}, exempt \in BOOLEAN :
       LET rep == Assigned(a, asked) IN
       /\ MayOrder(a, rep)
       /\ MayExempt(a, FALSE, exempt)
       /\ \E lines \in [Slot -> [product : Scope(a, rep), discount : 0..Most(a, rep, list)] \cup {NoLine}] :
            /\ Written(lines) # {}
            /\ order' = Opened(a, list, rep, exempt,
                 [s \in Slot |-> IF lines[s] = NoLine THEN NoLine
                                 ELSE NewLine(s, lines[s].product, lines[s].discount, list, exempt)])
  /\ LinesWritten
  /\ UNCHANGED world

\* A copy takes the chosen lines the client may buy today, each discount cut to
\* what the one who copies may give.  POST /copy keeps the list of a European
\* order and its representative and exempts nothing; the order page, which sends
\* copy_source_order_id, may choose them.
Copied(kept, most, scope, list, exempt) ==
  [s \in Slot |->
     IF s \in kept /\ order.lines[s].product \in scope
     THEN NewLine(s, order.lines[s].product,
                  IF order.lines[s].discount > most THEN most ELSE order.lines[s].discount, list, exempt)
     ELSE NoLine]

Copy(a) ==
  /\ order # NoOrder /\ Sees(a)
  /\ \E kept \in SUBSET Written(order.lines), list \in ListChoice,
        asked \in Rep \cup {NoRep}, exempt \in BOOLEAN :
       LET rep == Assigned(a, asked)
           lines == Copied(kept, Most(a, rep, list), Scope(a, rep), list, exempt)
       IN /\ MayOrder(a, rep)
          /\ MayExempt(a, FALSE, exempt)
          /\ Written(lines) # {}
          /\ order' = Opened(a, list, rep, exempt, lines)
  /\ LinesWritten
  /\ UNCHANGED world

\* A revision takes everything over, and fails if the one who revises may not
\* give one of its discounts or sell one of its products today.
Revise(a) ==
  /\ order # NoOrder /\ Sees(a)
  /\ CanOperate(a)
  /\ order.status = "finalized"
  /\ LET rep == Assigned(a, order.rep)
         lines == order.lines
     IN /\ MayOrder(a, rep)
        /\ \A s \in Written(lines) : /\ lines[s].product \in Scope(a, rep)
                                     /\ lines[s].discount <= Most(a, rep, order.list)
        /\ order' = Opened(a, order.list, rep, order.exempt,
             [s \in Slot |-> IF lines[s] = NoLine THEN NoLine
                             ELSE NewLine(s, lines[s].product, lines[s].discount,
                                          order.list, order.exempt)])
  /\ LinesWritten
  /\ UNCHANGED world

-----------------------------------------------------------------------------
(* Edits: one request, with or without the lines *)

\* The representative an edit names: one's own for a representative, and one
\* whose relationship holds.
MayName(a, asked) == asked # NoRep => asked \notin ended /\ (a.role = "rep" => asked = a.rep)

\* Faulty variant: the new representative is not held against the lines.
EditHeaderUnchecked(a) ==
  /\ order # NoOrder /\ Sees(a)
  /\ CanOperate(a)
  /\ order.status = "open"
  /\ \E asked \in Rep :
       /\ MayName(a, asked)
       /\ order' = [order EXCEPT !.rep = asked, !.byClient = FALSE]
  /\ RepWritten
  /\ UNCHANGED world

\* An edit without lines: neither list nor exemption may change, and a new
\* representative must sell the catalogs of what the order holds (DEC-05).
EditHeader(a) ==
  /\ order # NoOrder /\ Sees(a)
  /\ CanOperate(a)
  /\ order.status = "open"
  /\ \E asked \in Rep :
       /\ MayName(a, asked)
       /\ ItemCatalogs \subseteq CatalogScope(a, asked)
       /\ order' = [order EXCEPT !.rep = asked, !.byClient = FALSE]
  /\ RepWritten
  /\ UNCHANGED world

\* Faulty variant: a line may be repeated with the discount of its source.
KeepsAgain(lines, s, list) ==
  /\ market = "EU" /\ list = order.list
  /\ lines[s].source # None
  /\ order.lines[lines[s].source].product = lines[s].product

\* Whether the line in slot s may keep the discount of its source: in Europe,
\* in the same list, for the same product, and once.
Keeps(lines, s, list) ==
  /\ market = "EU" /\ list = order.list
  /\ lines[s].source # None
  /\ \A t \in Slot : t < s /\ lines[t] # NoLine => lines[t].source # lines[s].source
  /\ order.lines[lines[s].source].product = lines[s].product

LineMost(lines, s, list, most) ==
  IF Keeps(lines, s, list) /\ order.lines[lines[s].source].discount > most
  THEN order.lines[lines[s].source].discount
  ELSE most

\* Lines within the ceiling rest on new grants, whose names are free; the others
\* on the grant of their source.
Edited(lines, list, most, exempt) ==
  LET kept == {s \in Written(lines) : lines[s].discount > most}
      held == {order.lines[lines[s].source].grant.id : s \in kept}
      name == CHOOSE f \in [Slot \ kept -> Slot] : IsInjective(f) /\ Range(f) \cap held = {}
  IN [s \in Slot |->
        CASE lines[s] = NoLine -> NoLine
          [] s \in kept -> [product |-> lines[s].product, discount |-> lines[s].discount,
                             taxed |-> ~exempt, grant |-> order.lines[lines[s].source].grant]
          [] OTHER -> NewLine(name[s], lines[s].product, lines[s].discount, list, exempt)]

\* Lines of a request: only one beyond the ceiling has use for its source.
Entry(products, most) ==
  [product : products, discount : 0..most, source : {None}]
    \cup [product : products, discount : {d \in Level : d > most},
          source : {None} \cup Written(order.lines)]

EditLines(a) ==
  /\ order # NoOrder /\ Sees(a)
  /\ CanOperate(a)
  /\ order.status = "open"
  /\ \E asked \in Rep \cup {NoRep}, list \in ListChoice, exempt \in BOOLEAN :
       LET rep == IF asked # NoRep THEN asked ELSE ActiveRep(order.rep)
           most == Most(a, rep, list)
       IN /\ MayName(a, asked)
          /\ MayExempt(a, order.exempt, exempt)
          /\ \E lines \in [Slot -> Entry(Scope(a, rep), most) \cup {NoLine}] :
               /\ Written(lines) # {}
               /\ \A s \in Written(lines) : lines[s].discount <= LineMost(lines, s, list, most)
               /\ order' = [order EXCEPT !.rep = IF asked # NoRep THEN asked ELSE @, !.list = list,
                              !.exempt = exempt, !.byClient = FALSE,
                              !.lines = Edited(lines, list, most, exempt)]
  /\ LinesWritten
  /\ UNCHANGED world

Finalize(a) ==
  /\ order # NoOrder /\ Sees(a)
  /\ CanOperate(a)
  /\ order.status = "open"
  /\ order' = [order EXCEPT !.status = "finalized"]
  /\ UNCHANGED <<world, since>>

Cancel(a) ==
  /\ order # NoOrder /\ Sees(a)
  /\ CanOperate(a)
  /\ order.status = "open"
  /\ order' = [order EXCEPT !.status = "cancelled"]
  /\ UNCHANGED <<world, since>>

-----------------------------------------------------------------------------
(* The world around the order *)

Counted(S, T) == changes + (IF S = T THEN 0 ELSE 1)
InCatalogs(S) == {p \in Product : catalogOf[p] \in S}

\* The ceiling and the catalogs of a representative, at least one; no order is
\* looked at.
UpdateRepresentative(x, most, S) ==
  /\ x \notin ended
  /\ Counted(sold[x], S) <= MaxChanges[market]
  /\ ceiling' = [ceiling EXCEPT ![x] = most]
  /\ sold' = [sold EXCEPT ![x] = S]
  /\ withdrawn' = withdrawn \cup InCatalogs(sold[x] \ S)
  /\ changes' = Counted(sold[x], S)
  /\ UNCHANGED <<market, order, clientMost, clientRep, ended, catalogOf, bought, orderCatalog, moved>>

\* _validated_rep_id takes a representative whose relationship ended, too.
UpdateClient(x, most, S) ==
  /\ Counted(bought, S) <= MaxChanges[market]
  /\ clientRep' = x /\ clientMost' = most
  /\ bought' = S
  /\ withdrawn' = withdrawn \cup InCatalogs(bought \ S)
  /\ changes' = Counted(bought, S)
  /\ UNCHANGED <<market, order, ceiling, ended, catalogOf, sold, orderCatalog, moved>>

\* update_product, import_products: the orders keep their products.
MoveProduct(p, c) ==
  /\ c # catalogOf[p] /\ changes < MaxChanges[market]
  /\ catalogOf' = [catalogOf EXCEPT ![p] = c]
  /\ moved' = moved \cup {p}
  /\ changes' = changes + 1
  /\ UNCHANGED <<market, order, ceiling, clientMost, clientRep, ended, sold, bought, orderCatalog, withdrawn>>

\* delete_representative takes the clients away from the representative;
\* end_representative_relationship leaves them.
DeleteRepresentative(x) ==
  /\ x \notin ended
  /\ ended' = ended \cup {x}
  /\ clientRep' = IF clientRep = x THEN NoRep ELSE clientRep
  /\ UNCHANGED <<market, order, ceiling, clientMost, catalogs, since>>

EndRelationship(x) ==
  /\ x \notin ended
  /\ ended' = ended \cup {x}
  /\ UNCHANGED <<market, order, ceiling, clientMost, clientRep, catalogs, since>>

Next ==
  \/ \E a \in Actors : \/ Create(a) \/ Copy(a) \/ Revise(a)
                       \/ EditHeader(a) \/ EditLines(a)
                       \/ Finalize(a) \/ Cancel(a)
  \/ \E x \in Rep : DeleteRepresentative(x) \/ EndRelationship(x)
  \/ \E most \in Level, S \in (SUBSET Catalog) \ {{}} :
       \/ \E x \in Rep : UpdateRepresentative(x, most, S)
       \/ \E x \in Rep \cup {NoRep} : UpdateClient(x, most, S)
  \/ \E p \in Product, c \in Catalog : MoveProduct(p, c)

Spec == Init /\ [][Next]_vars

-----------------------------------------------------------------------------
(* What the terms must satisfy *)

\* Every discount on an order rests on a grant somebody entitled to it gave for
\* that product in the order's list, and no grant carries two lines: neither a
\* change of list or product nor a line repeated in an edit multiplies it
\* (orders.py 766-776, 2238-2250).
DiscountsWereGranted ==
  order # NoOrder =>
    LET given == {s \in Written(order.lines) : order.lines[s].discount > 0} IN
    /\ \A s \in given : LET line == order.lines[s] IN
         line.grant.product = line.product /\ line.grant.list = order.list
    /\ \A s, t \in given : order.lines[s].grant.id = order.lines[t].grant.id => s = t

\* What an order holds is in the catalogs of its client and of its
\* representative, whichever request wrote the lines or the representative last;
\* but a client's own order only follows the client's catalogs, and a
\* representative whose relationship ended sells nothing any more
\* (catalog_access.py 82-93, orders.py 2075-2092).  Orders stay as they are when
\* a product changes catalogs after the lines were written, or somebody loses a
\* catalog after lines or representative were.
RepSellsTheOrder ==
  order # NoOrder =>
    \A s \in Written(order.lines) :
      LET p == order.lines[s].product
      IN  p \notin moved \cup withdrawn =>
            /\ catalogOf[p] \in bought
            /\ order.rep \in Rep \ ended /\ ~order.byClient => catalogOf[p] \in sold[order.rep]

=============================================================================
