---------------------------- MODULE FiscalCatalogue ----------------------------
(***************************************************************************)
(* The catalogue that Brazil's IPI is billed from: a product names its     *)
(* type, a type belongs to a group, a group has a rate, and each change of *)
(* one of these links leaves an event in a trail.  A request opens its     *)
(* transaction, reads, checks and then commits, locking nothing; the       *)
(* object mapper writes the columns whose value differs from what was      *)
(* read.  An event has the time its transaction began, and no other order. *)
(* Imports take an advisory lock, which keeps out other imports and        *)
(* nothing else.  The market of Portugal has the same tables and forms,    *)
(* without rates and trail, and an import of prices for the products there *)
(* are.                                                                    *)
(***************************************************************************)
EXTENDS Naturals, FiniteSets

CONSTANTS
  Product, Type, Group,   \* rows of products, product_types and product_groups
  Name,                   \* names of types; a product holds the name, not the row
  Outro,                  \* the name that stands for no type
  Rate, Price,
  None,
  Request,                \* requests that can be open at once
  MaxCommits              \* bound on the changes of a behaviour

\* No row, id or rate is what stands for the lack of one.
ASSUME NoneAssumption ==
  None \notin [name : Name, group : Group \cup {None}] \cup Group \cup Rate \cup {0}

ASSUME RowsAssumption == Group \cap Type = {} /\ Group \cap Product = {} /\ Type \cap Product = {}

ASSUME CommitsAssumption == MaxCommits \in Nat

VARIABLES
  market,     \* the market whose tables these are
  group,      \* the rate of each group there is
  type,       \* name and group of each type there is
  product,    \* the row of each product there is
  available,  \* product_markets.is_available
  trail,      \* what the newest fiscal event of each row says: None that it was deleted
  req,        \* what each open request has read, found in use, and is about to write
  elders,     \* the open requests whose transaction began before that of a request
  told,       \* rows with an event of a transaction that began after that of a request
  crossed,    \* ghost: rows whose newest event is not about their last change
  overtaken,  \* ghost: products whose last commit had read an older version
  commits

tables == <<market, group, type, product, available>>
log == <<trail, told, crossed>>
vars == <<tables, log, req, elders, overtaken, commits>>

-----------------------------------------------------------------------------

\* shown: the columns other handlers write, a photo and the finishes declared.
Row == [type : Name \cup {Outro}, price : Price, shown : BOOLEAN, active : BOOLEAN, version : Nat]
New(n, v) == [type |-> n, price |-> v, shown |-> FALSE, active |-> TRUE, version |-> 1]
Brazil == market = "BR"

\* f with the entry x |-> v, and f without the entry of x.
With(f, x, v) == [y \in DOMAIN f \cup {x} |-> IF y = x THEN v ELSE f[y]]
Without(f, x) == [y \in DOMAIN f \ {x} |-> f[y]]

Called(types, n) == {t \in DOMAIN types : types[t] # None /\ types[t].name = n}
Named(n) == Called(type, n)
Exists(n) == n = Outro \/ Named(n) # {}
Users(n) == {p \in DOMAIN product : product[p].active /\ product[p].type = n}

Idle == [op |-> "idle"]
Opened == [op |-> "open"]
Importing == \E r \in Request : req[r].op \in {"groups", "types", "products"}
Counted == commits < MaxCommits /\ commits' = commits + 1

\* The first statement of a request, which looks up who sends it.
Open(r) ==
  /\ commits < MaxCommits
  /\ req[r] = Idle /\ req' = [req EXCEPT ![r] = Opened]
  /\ elders' = [elders EXCEPT ![r] = {q \in Request : req[q] # Idle}]
  /\ UNCHANGED <<tables, log, overtaken, commits>>

Starts(r, work) ==
  /\ req[r] = Opened /\ req' = [req EXCEPT ![r] = work]
  /\ UNCHANGED <<tables, log, elders, overtaken, commits>>

Ends(r) ==
  /\ req' = [req EXCEPT ![r] = Idle]
  /\ elders' = [q \in Request |-> IF q = r THEN {} ELSE elders[q] \ {r}]

\* The event of what r changes, which left the row as it says unless it is
\* mixed.  One that is later has been recorded if a transaction that began later
\* ended earlier.
Records(r, part, says, mixed) ==
  LET x == req[r].on
      late == req[r].was # None /\ x \in told[r]
  IN  /\ trail' = IF late THEN trail ELSE [trail EXCEPT ![part] = With(@, x, says)]
      /\ crossed' = IF late \/ mixed THEN crossed \cup {x} ELSE crossed \ {x}
      /\ told' = [q \in Request |->
                    CASE q = r -> {}
                      [] q \in elders[r] -> told[q] \cup {x}
                      [] OTHER -> told[q]]

RecordsNothing(r) == UNCHANGED <<trail, crossed>> /\ told' = [told EXCEPT ![r] = {}]

\* The columns that a request which read a row as was and wants it to be as is
\* writes over the row as it is now.
Written(now, was, is) == [c \in DOMAIN now |-> IF is[c] = was[c] THEN now[c] ELSE is[c]]

\* A group or none, a type of it and products of that type, as the forms leave them.
Init == \E G \in SUBSET Group, t \in Type, n \in Name, x \in Rate, v \in Price, S \in SUBSET Product :
  /\ market \in {"BR", "EU"}
  /\ Cardinality(G) <= 1
  /\ group = [g \in G |-> IF Brazil THEN x ELSE 0]
  /\ \E g \in IF G = {} THEN {None} ELSE G : type = With(<<>>, t, [name |-> n, group |-> g])
  /\ product = [p \in S |-> New(n, v)]
  /\ available = S
  /\ trail = IF Brazil THEN [group |-> group, type |-> type, product |-> [p \in S |-> n]]
                       ELSE [group |-> <<>>, type |-> <<>>, product |-> <<>>]
  /\ req = [r \in Request |-> Idle]
  /\ elders = [r \in Request |-> {}] /\ told = [r \in Request |-> {}]
  /\ crossed = {} /\ overtaken = {} /\ commits = 0

TypeOK ==
  /\ market \in {"BR", "EU"}
  /\ DOMAIN group \subseteq Group /\ \A g \in DOMAIN group : group[g] \in Rate \cup {0}
  /\ DOMAIN type \subseteq Type
  /\ \A t \in DOMAIN type : type[t] \in [name : Name, group : DOMAIN group \cup {None}]
  /\ DOMAIN product \subseteq Product /\ \A p \in DOMAIN product : product[p] \in Row
  /\ available \subseteq DOMAIN product
  /\ elders \in [Request -> SUBSET Request]
  /\ told \in [Request -> SUBSET (Group \cup Type \cup Product)]
  /\ crossed \subseteq Group \cup Type \cup Product /\ overtaken \subseteq Product
  /\ commits \in 0 .. MaxCommits

-----------------------------------------------------------------------------
(* Groups.  A rate is 0 outside Brazil, and nothing is recorded there. *)

\* An id that no row has had, as far as the trail goes.
NewGroup(g) == g \notin DOMAIN group \cup DOMAIN trail.group

BeginCreateGroup(r, g, x) ==
  /\ NewGroup(g) /\ (Brazil \/ x = 0)
  /\ Starts(r, [op |-> "group", on |-> g, was |-> None, is |-> x])

BeginUpdateGroup(r, g, x) ==
  /\ Brazil /\ g \in DOMAIN group /\ x # group[g]
  /\ Starts(r, [op |-> "group", on |-> g, was |-> group[g], is |-> x])

BeginImportGroup(r, g, x) ==
  /\ Brazil /\ ~Importing
  /\ g \in DOMAIN group \/ NewGroup(g)
  /\ Starts(r, [op |-> "groups", on |-> g,
                was |-> IF g \in DOMAIN group THEN group[g] ELSE None, is |-> x])

BeginDeleteGroup(r, g) ==
  /\ g \in DOMAIN group
  /\ Starts(r, [op |-> "drop group", on |-> g, was |-> group[g], is |-> None])

\* Faulty variant: the trail is told of the changes of the form only.
CommitGroupQuietly(r) == LET g == req[r].on IN
  /\ req[r].op \in {"group", "groups"}
  /\ Counted /\ Ends(r)
  /\ g \in DOMAIN group <=> req[r].was # None
  /\ group' = With(group, g, req[r].is)
  /\ IF Brazil /\ req[r].op = "group" THEN Records(r, "group", req[r].is, FALSE) ELSE RecordsNothing(r)
  /\ UNCHANGED <<market, type, product, available, overtaken>>

\* A row that is gone, or came, since it was looked for rolls the request back.
CommitGroup(r) == LET g == req[r].on IN
  /\ req[r].op \in {"group", "groups"}
  /\ Counted /\ Ends(r)
  /\ g \in DOMAIN group <=> req[r].was # None
  /\ group' = IF req[r].was = req[r].is THEN group ELSE With(group, g, req[r].is)
  /\ IF Brazil /\ req[r].was # req[r].is THEN Records(r, "group", req[r].is, FALSE) ELSE RecordsNothing(r)
  /\ UNCHANGED <<market, type, product, available, overtaken>>

\* fk_product_types_group_same_market keeps a group that a type is in.
CommitDropGroup(r) == LET g == req[r].on IN
  /\ req[r].op = "drop group"
  /\ Counted /\ Ends(r)
  /\ g \in DOMAIN group /\ \A t \in DOMAIN type : type[t].group # g
  /\ group' = Without(group, g)
  /\ IF Brazil THEN Records(r, "group", None, FALSE) ELSE RecordsNothing(r)
  /\ UNCHANGED <<market, type, product, available, overtaken>>

-----------------------------------------------------------------------------
(* Types. *)

NewType(t) == t \notin DOMAIN type \cup DOMAIN trail.type

BeginCreateType(r, t, n, g) ==
  /\ NewType(t)
  /\ Starts(r, [op |-> "type", on |-> t, was |-> None, is |-> [name |-> n, group |-> g]])

\* In Brazil a type that active products name keeps its name.
BeginUpdateType(r, t, n, g) ==
  /\ t \in DOMAIN type
  /\ Brazil /\ n # type[t].name => Users(type[t].name) = {}
  /\ Starts(r, [op |-> "type", on |-> t, was |-> type[t], is |-> [name |-> n, group |-> g]])

\* A row of the file: the type of that name, or a new one.
BeginImportType(r, t, n, g) ==
  /\ ~Importing
  /\ IF Named(n) = {} THEN NewType(t) ELSE t \in Named(n)
  /\ Starts(r, [op |-> "types", on |-> t, was |-> IF t \in DOMAIN type THEN type[t] ELSE None,
                is |-> [name |-> n, group |-> g]])

BeginDeleteType(r, t) ==
  /\ t \in DOMAIN type
  /\ Brazil => Users(type[t].name) = {}
  /\ Starts(r, [op |-> "drop type", on |-> t, was |-> type[t], is |-> None])

\* The constraints of the table: a name once, a group that is there.
CommitType(r) == LET t == req[r].on  was == req[r].was  is == req[r].is
                     now == IF was = None THEN is ELSE Written(type[t], was, is) IN
  /\ req[r].op \in {"type", "types"}
  /\ Counted /\ Ends(r)
  /\ t \in DOMAIN type <=> was # None
  /\ Named(now.name) \subseteq {t} /\ now.group \in DOMAIN group \cup {None}
  /\ type' = With(type, t, now)
  /\ IF Brazil /\ is # was THEN Records(r, "type", is, now # is) ELSE RecordsNothing(r)
  /\ UNCHANGED <<market, group, product, available, overtaken>>

CommitDropType(r) == LET t == req[r].on IN
  /\ req[r].op = "drop type"
  /\ Counted /\ Ends(r)
  /\ t \in DOMAIN type
  /\ type' = Without(type, t)
  /\ IF Brazil THEN Records(r, "type", None, FALSE) ELSE RecordsNothing(r)
  /\ UNCHANGED <<market, group, product, available, overtaken>>

-----------------------------------------------------------------------------
(* Products. *)

BeginCreateProduct(r, p, n, v) ==
  /\ p \notin DOMAIN product /\ Exists(n)
  /\ Starts(r, [op |-> "product", on |-> p, was |-> None, is |-> New(n, v)])

\* The form sends what it changes: here the type, the price, or neither.
BeginUpdateProduct(r, p, n, v) ==
  /\ p \in available /\ product[p].active
  /\ n = None \/ (v = None /\ Exists(n))
  /\ Starts(r, [op |-> "product", on |-> p, was |-> product[p],
                is |-> [product[p] EXCEPT !.type = IF n = None THEN @ ELSE n,
                                          !.price = IF v = None THEN @ ELSE v,
                                          !.version = @ + 1]])

\* Faulty variant: a deactivation leaves source_version as it is.
BeginDeleteProductSilently(r, p) ==
  /\ p \in DOMAIN product /\ product[p].active
  /\ Brazil \/ p \in available
  /\ Starts(r, [op |-> "drop product", on |-> p, was |-> product[p],
                is |-> [product[p] EXCEPT !.active = FALSE]])

BeginDeleteProduct(r, p) ==
  /\ p \in DOMAIN product /\ product[p].active
  /\ Brazil \/ p \in available
  /\ Starts(r, [op |-> "drop product", on |-> p, was |-> product[p],
                is |-> [product[p] EXCEPT !.active = FALSE, !.version = @ + 1]])

\* A row of the file, whose product may be one that was deactivated.
BeginImportProduct(r, p, n, v) ==
  /\ Brazil /\ ~Importing /\ Named(n) # {}
  /\ Starts(r, IF p \in DOMAIN product
       THEN [op |-> "products", on |-> p, was |-> product[p],
             is |-> [product[p] EXCEPT !.type = n, !.price = v, !.version = @ + 1]]
       ELSE [op |-> "products", on |-> p, was |-> None, is |-> New(n, v)])

CommitProduct(r) == LET p == req[r].on  was == req[r].was  is == req[r].is
                        typed == was = None \/ was.type # is.type IN
  /\ req[r].op \in {"product", "drop product", "products"}
  /\ Counted /\ Ends(r)
  /\ p \in DOMAIN product <=> was # None
  /\ product' = With(product, p, IF was = None THEN is ELSE Written(product[p], was, is))
  /\ available' = CASE req[r].op = "drop product" -> available \ {p}
                    [] was = None \/ req[r].op = "products" -> available \cup {p}
                    [] OTHER -> available
  /\ IF Brazil /\ typed THEN Records(r, "product", is.type, FALSE) ELSE RecordsNothing(r)
  /\ overtaken' = IF was # None /\ was.version # product[p].version
                    THEN overtaken \cup {p} ELSE overtaken \ {p}
  /\ UNCHANGED <<market, group, type>>

\* import_europe_catalog: prices and availability, whatever the version.
ImportEurope(p, v, offered) ==
  /\ ~Brazil /\ p \in DOMAIN product
  /\ Counted
  /\ product' = With(product, p, [product[p] EXCEPT !.price = v])
  /\ available' = IF offered THEN available \cup {p} ELSE available \ {p}
  /\ UNCHANGED <<market, group, type, log, req, elders, overtaken>>

\* The photo of a product, and the categories of finishes it declares when one
\* of them is renamed or deleted, are written without a look at the version, too.
Show(p) ==
  /\ p \in DOMAIN product
  /\ Counted
  /\ product' = With(product, p, [product[p] EXCEPT !.shown = ~@])
  /\ UNCHANGED <<market, group, type, available, log, req, elders, overtaken>>

\* The request is refused at its commit, fails, or dies.
Abort(r) ==
  /\ req[r] # Idle /\ Ends(r) /\ RecordsNothing(r)
  /\ UNCHANGED <<tables, overtaken, commits>>

-----------------------------------------------------------------------------

Begin(r) ==
  \/ \E g \in Group, x \in Rate : BeginUpdateGroup(r, g, x) \/ BeginImportGroup(r, g, x)
  \/ \E g \in Group : BeginDeleteGroup(r, g) \/ \E x \in Rate \cup {0} : BeginCreateGroup(r, g, x)
  \/ \E t \in Type, n \in Name, g \in DOMAIN group \cup {None} :
       BeginCreateType(r, t, n, g) \/ BeginUpdateType(r, t, n, g) \/ BeginImportType(r, t, n, g)
  \/ \E t \in Type : BeginDeleteType(r, t)
  \/ \E p \in Product, v \in Price :
       \/ \E n \in Name \cup {Outro} : BeginCreateProduct(r, p, n, v)
       \/ \E n \in Name : BeginImportProduct(r, p, n, v)
  \/ \E p \in Product, n \in Name \cup {Outro, None}, v \in Price \cup {None} :
       BeginUpdateProduct(r, p, n, v)
  \/ \E p \in Product : BeginDeleteProduct(r, p)

Commit(r) ==
  \/ CommitGroup(r) \/ CommitDropGroup(r)
  \/ CommitType(r) \/ CommitDropType(r)
  \/ CommitProduct(r)

Next ==
  \/ \E r \in Request : Open(r) \/ Begin(r) \/ Commit(r) \/ Abort(r)
  \/ \E p \in Product : Show(p) \/ \E v \in Price, offered \in BOOLEAN : ImportEurope(p, v, offered)

Spec == Init /\ [][Next]_vars

-----------------------------------------------------------------------------

\* The rates that types and groups give to a product of type n: _resolve_br_ipi
\* bills the one there is and refuses the product if there is none.
Ipi(groups, types, n) ==
  {groups[types[t].group] :
     t \in {u \in Called(types, n) : /\ types[u].group \in DOMAIN groups
                                     /\ groups[types[u].group] # None}}

\* The trail explains what is billed: the newest events of a product, of its
\* type and of its group, by the time they carry, give the rate that the rows
\* give.  Only one of these rows that two requests changed at a time may have an
\* event that says something else.
TrailTellsTheIpi ==
  Brazil => \A p \in DOMAIN product \ crossed :
    LET n == product[p].type IN
    \/ Ipi(group, type, n) = Ipi(trail.group, trail.type, trail.product[p])
    \/ crossed \cap (Named(n) \cup Called(trail.type, n)) # {}
    \/ \E t \in Named(n) : type[t].group \in crossed

\* Who keeps a copy of a product sees by source_version that what the forms and
\* the import of products write of it is stale: a commit that changes its type,
\* its state or, in Brazil, its price raises it, unless another one came between
\* what it read and what it wrote.  Photos, renamed finishes and the import of
\* prices in Europe do not.
ChangesRaiseTheVersion ==
  [][\A p \in DOMAIN product :
       LET was == product[p]  is == product'[p] IN
       \/ is.type = was.type /\ is.active = was.active /\ (Brazil => is.price = was.price)
       \/ is.version > was.version
       \/ p \in overtaken']_vars

=============================================================================
