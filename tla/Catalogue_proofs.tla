--------------------------- MODULE Catalogue_proofs ---------------------------
(***************************************************************************)
(* What holds of the catalogue for any number of products, types, groups,  *)
(* optionals, categories, slots and open requests: the trail explains the  *)
(* rate that is billed, a change of a product raises its version, and what *)
(* does not fit was left by a request that another had overtaken.          *)
(***************************************************************************)
EXTENDS Catalogue, TLAPS

TypeRow == [name : Name, group : Group \cup {None}]
GroupOps == {"group", "groups"}
TypeOps == {"type", "types"}
ProductOps == {"product", "drop product", "products"}
Rows == Group \cup Type \cup Product

\* What a request is about to write; a product's version is one more than what
\* was read.
WorkOK(w) ==
  /\ w.op \in GroupOps => w.on \in Group /\ w.is \in Rate \cup {0}
  /\ w.op = "drop group" => w.on \in Group
  /\ w.op \in TypeOps => w.on \in Type /\ w.was \in TypeRow \cup {None} /\ w.is \in TypeRow
  /\ w.op = "drop type" => w.on \in Type
  /\ w.op \in ProductOps =>
       /\ w.on \in Product /\ w.was \in Row \cup {None} /\ w.is \in Row
       /\ w.was # None => w.is.version = w.was.version + 1

FiscalInv ==
  /\ TypeOK
  /\ DOMAIN req = Request /\ \A r \in Request : WorkOK(req[r])

\* The newest event of a row that is not crossed is its state; a row of the trail
\* that is gone, and not crossed, is one that was deleted.
Follows(says, rows, C) ==
  /\ DOMAIN rows \subseteq DOMAIN says
  /\ \A x \in DOMAIN rows \ C : says[x] = rows[x]
  /\ \A x \in DOMAIN says \ (DOMAIN rows \cup C) : says[x] = None

TypesOf(rows) == [p \in DOMAIN rows |-> rows[p].type]

TrailFollows ==
  Brazil =>
    /\ trail = [group |-> trail.group, type |-> trail.type, product |-> trail.product]
    /\ DOMAIN trail.group \subseteq Group /\ Follows(trail.group, group, crossed)
    /\ DOMAIN trail.type \subseteq Type /\ Follows(trail.type, type, crossed)
    /\ DOMAIN trail.product \subseteq Product /\ Follows(trail.product, TypesOf(product), crossed)

\* What a request of the finishes decided agrees with what it saw.
SightOK(w) ==
  /\ w.op \in {"create", "import"} => w.to \in Code /\ w.on \in Optional /\ w.saw = TRUE
  /\ w.op = "move" => w.to \in Code /\ w.saw = <<TRUE, {}>>
  /\ w.op = "drop" => w.saw = {}
  /\ w.op = "rename" => w.to \in Code
  /\ w.op \in {"rename", "remove", "slot"} => w.saw.names \subseteq Code
  /\ w.op = "slot" =>
       /\ w.on \in Slot
       /\ w.is \in [category : Category, all : BOOLEAN, allowed : SUBSET Optional]
       /\ w.is.all \/ w.is.allowed # {}
       /\ \A o \in w.is.allowed : w.saw.kinds[o] = w.saw.sheds
       /\ \A was \in w.saw.was : was.all \in BOOLEAN
  /\ w.op = "declare" => w.names \subseteq Code /\ w.saw = w.names

TablesOK ==
  /\ DOMAIN code \subseteq Category /\ Finish!Registered(code) \subseteq Code
  /\ \A c, d \in DOMAIN code : code[c] = code[d] => c = d
  /\ DOMAIN kind \subseteq Optional /\ \A o \in DOMAIN kind : kind[o] \in Code
  /\ DOMAIN slot \subseteq Slot
  /\ \A a \in DOMAIN slot :
       slot[a] \in [category : DOMAIN code, all : BOOLEAN, allowed : SUBSET DOMAIN kind]
  /\ declared \subseteq Code

Misfits == Finish!Unfit(code, kind, slot, declared)

FinishInv ==
  /\ Finish!TypeOK
  /\ DOMAIN work = Request /\ \A r \in Request : SightOK(work[r])

LEMMA EmptyDomain == DOMAIN <<>> = {}
  OBVIOUS

-----------------------------------------------------------------------------
(* What the requests write is typed. *)

\* What is written over a row is a row; if the row is as it was read, it is what
\* was wanted.
LEMMA WrittenProduct ==
  ASSUME NEW now \in Row, NEW was \in Row, NEW is \in Row
  PROVE  /\ Written(now, was, is) \in Row
         /\ Written(now, was, is).type = IF is.type = was.type THEN now.type ELSE is.type
         /\ Written(now, was, is).price = IF is.price = was.price THEN now.price ELSE is.price
         /\ Written(now, was, is).version = IF is.version = was.version THEN now.version ELSE is.version
         /\ now = was => Written(now, was, is) = is
<1> DEFINE R == Written(now, was, is)
<1>1. DOMAIN now = {"type", "price", "shown", "active", "version"}
  BY DEF Row
<1>2. R = [type |-> IF is.type = was.type THEN now.type ELSE is.type,
           price |-> IF is.price = was.price THEN now.price ELSE is.price,
           shown |-> IF is.shown = was.shown THEN now.shown ELSE is.shown,
           active |-> IF is.active = was.active THEN now.active ELSE is.active,
           version |-> IF is.version = was.version THEN now.version ELSE is.version]
  BY <1>1 DEF Written
<1>3. R \in Row
  BY <1>2 DEF Row
<1>4. now = was => R = is
  BY <1>2 DEF Row
<1> QED
  BY <1>2, <1>3, <1>4

\* Edits of several columns are edits one after the other.
LEMMA ThreeEdits ==
  ASSUME NEW f, NEW n, NEW v
  PROVE  [f EXCEPT !.type = n, !.price = v, !.version = @ + 1]
           = [[[f EXCEPT !.type = n] EXCEPT !.price = v] EXCEPT !.version = f.version + 1]
  OBVIOUS

LEMMA TwoEdits ==
  ASSUME NEW f, NEW v
  PROVE  [f EXCEPT !.active = v, !.version = @ + 1]
           = [[f EXCEPT !.active = v] EXCEPT !.version = f.version + 1]
  OBVIOUS

\* A row with another type, another price, or another state, and the next version.
LEMMA EditedRow ==
  ASSUME NEW row \in Row, NEW n \in Name \cup {Outro}, NEW v \in Price
  PROVE  LET is == [row EXCEPT !.type = n, !.price = v, !.version = @ + 1]
         IN  is \in Row /\ is.version = row.version + 1
<1>0. row.version + 1 \in Nat
  BY DEF Row
<1>1. PICK a \in Row : a = [row EXCEPT !.type = n]
  BY DEF Row
<1>2. PICK b \in Row : b = [a EXCEPT !.price = v]
  BY DEF Row
<1>3. PICK c \in Row : c = [b EXCEPT !.version = row.version + 1]
  BY <1>0 DEF Row
<1>4. [row EXCEPT !.type = n, !.price = v, !.version = @ + 1]
        = [[[row EXCEPT !.type = n] EXCEPT !.price = v] EXCEPT !.version = row.version + 1]
  BY ThreeEdits
<1>5. c.version = row.version + 1
  BY <1>3 DEF Row
<1> QED
  BY <1>1, <1>2, <1>3, <1>4, <1>5

LEMMA StoppedRow ==
  ASSUME NEW row \in Row
  PROVE  LET is == [row EXCEPT !.active = FALSE, !.version = @ + 1]
         IN  is \in Row /\ is.version = row.version + 1
<1>0. row.version + 1 \in Nat
  BY DEF Row
<1>1. PICK a \in Row : a = [row EXCEPT !.active = FALSE]
  BY DEF Row
<1>2. PICK b \in Row : b = [a EXCEPT !.version = row.version + 1]
  BY <1>0 DEF Row
<1>3. [row EXCEPT !.active = FALSE, !.version = @ + 1]
        = [[row EXCEPT !.active = FALSE] EXCEPT !.version = row.version + 1]
  BY TwoEdits
<1>4. b.version = row.version + 1
  BY <1>2 DEF Row
<1> QED
  BY <1>1, <1>2, <1>3, <1>4

\* A row with another price, or with another photo.
LEMMA PricedRow ==
  ASSUME NEW row \in Row, NEW v \in Price
  PROVE  LET is == [row EXCEPT !.price = v]
         IN  is \in Row /\ is.type = row.type /\ is.active = row.active
  BY DEF Row

LEMMA ShownRow ==
  ASSUME NEW row \in Row
  PROVE  LET is == [row EXCEPT !.shown = ~@]
         IN  is \in Row /\ is.type = row.type /\ is.active = row.active /\ is.price = row.price
<1>1. PICK b \in BOOLEAN : b = ~row.shown
  BY DEF Row
<1>2. [row EXCEPT !.shown = ~@] = [row EXCEPT !.shown = b]
  BY <1>1
<1>3. LET is == [row EXCEPT !.shown = b]
      IN  is \in Row /\ is.type = row.type /\ is.active = row.active /\ is.price = row.price
  BY DEF Row
<1> QED
  BY <1>2, <1>3

LEMMA WrittenType ==
  ASSUME NEW now \in TypeRow, NEW was \in TypeRow, NEW is \in TypeRow
  PROVE  /\ Written(now, was, is) \in TypeRow
         /\ now = was => Written(now, was, is) = is
<1> DEFINE R == Written(now, was, is)
<1>1. DOMAIN now = {"name", "group"}
  BY DEF TypeRow
<1>2. R = [name |-> IF is.name = was.name THEN now.name ELSE is.name,
           group |-> IF is.group = was.group THEN now.group ELSE is.group]
  BY <1>1 DEF Written
<1>3. R \in TypeRow
  BY <1>2 DEF TypeRow
<1>4. now = was => R = is
  BY <1>2 DEF TypeRow
<1> QED
  BY <1>3, <1>4

LEMMA TypeRows == TypeOK => \A t \in DOMAIN type : type[t] \in TypeRow
  BY DEF TypeOK, TypeRow

-----------------------------------------------------------------------------
(* Types. *)

LEMMA FiscalStart == Init => FiscalInv
<1> SUFFICES ASSUME Init PROVE FiscalInv
  OBVIOUS
<1>1. PICK G \in SUBSET Group, t \in Type, n \in Name, x \in Rate, v \in Price, S \in SUBSET Product :
        /\ group = [g \in G |-> IF Brazil THEN x ELSE 0]
        /\ \E g \in IF G = {} THEN {None} ELSE G : type = With(<<>>, t, [name |-> n, group |-> g])
        /\ product = [p \in S |-> New(n, v)]
        /\ available = S
  BY DEF Init
<1>2. DOMAIN group = G /\ \A g \in G : group[g] \in Rate \cup {0}
  BY <1>1
<1>3. PICK g \in DOMAIN group \cup {None} : type = With(<<>>, t, [name |-> n, group |-> g])
  BY <1>1, <1>2
<1>4. DOMAIN type = {t} /\ type[t] = [name |-> n, group |-> g]
  BY <1>3, EmptyDomain DEF With
<1>5. DOMAIN product = S /\ \A p \in S : product[p] \in Row
  BY <1>1 DEF New, Row
<1>6. /\ market \in {"BR", "EU"} /\ crossed = {} /\ overtaken = {} /\ commits = 0
      /\ req = [r \in Request |-> Idle]
      /\ elders = [r \in Request |-> {}] /\ told = [r \in Request |-> {}]
  BY DEF Init
<1>7. TypeOK
  BY <1>1, <1>2, <1>3, <1>4, <1>5, <1>6, CommitsAssumption DEF TypeOK
<1> QED
  BY <1>6, <1>7 DEF FiscalInv, WorkOK, Idle, GroupOps, TypeOps, ProductOps

\* What the open requests hold is typed, whatever the tables are.
LEMMA WorkIsKept ==
  ASSUME FiscalInv, NEW r \in Request, NEW w, req' = [req EXCEPT ![r] = w], WorkOK(w), TypeOK'
  PROVE  FiscalInv'
<1>1. DOMAIN req' = Request /\ \A q \in Request : req'[q] = IF q = r THEN w ELSE req[q]
  BY DEF FiscalInv
<1>2. \A q \in Request : WorkOK(req[q])
  BY DEF FiscalInv
<1>3. \A q \in Request : WorkOK(req'[q])
  BY <1>1, <1>2
<1> QED
  BY <1>1, <1>3 DEF FiscalInv, WorkOK, Row, TypeRow

\* A request that starts puts down what it will write.
LEMMA StartIsTyped ==
  ASSUME FiscalInv, NEW r \in Request, NEW w, Starts(r, w), WorkOK(w)
  PROVE  FiscalInv'
<1>1. TypeOK'
  BY DEF FiscalInv, Starts, tables, log, TypeOK, Row
<1> QED
  BY <1>1, WorkIsKept DEF Starts

LEMMA OpenIsTyped ==
  ASSUME FiscalInv, NEW r \in Request, Open(r)
  PROVE  FiscalInv'
<1>1. elders' \in [Request -> SUBSET Request]
  BY DEF FiscalInv, Open, TypeOK
<1>2. TypeOK'
  BY <1>1 DEF FiscalInv, Open, tables, log, TypeOK, Row
<1>3. WorkOK(Opened)
  BY DEF WorkOK, GroupOps, TypeOps, ProductOps, Opened
<1> QED
  BY <1>2, <1>3, WorkIsKept DEF Open

\* The log stays typed when a request ends, whether it records something or not.
LEMMA LogIsTyped ==
  ASSUME TypeOK, NEW r \in Request, Ends(r),
         \/ RecordsNothing(r)
         \/ req[r].on \in Rows /\ \E table, says, mixed : Records(r, table, says, mixed)
  PROVE  /\ elders' \in [Request -> SUBSET Request]
         /\ told' \in [Request -> SUBSET Rows]
         /\ crossed' \subseteq Rows
<1>1. elders' \in [Request -> SUBSET Request]
  BY DEF Ends, TypeOK
<1>2. told \in [Request -> SUBSET Rows] /\ crossed \subseteq Rows
  BY DEF TypeOK, Rows
<1>3. CASE RecordsNothing(r)
  BY <1>1, <1>2, <1>3 DEF RecordsNothing
<1>4. CASE req[r].on \in Rows /\ \E table, says, mixed : Records(r, table, says, mixed)
  <2>1. PICK x \in Rows : x = req[r].on
    BY <1>4
  <2>2. told' = [q \in Request |-> CASE q = r -> {} [] q \in elders[r] -> told[q] \cup {x}
                                     [] OTHER -> told[q]]
    BY <1>4, <2>1 DEF Records
  <2>3. \A q \in Request : (CASE q = r -> {} [] q \in elders[r] -> told[q] \cup {x}
                              [] OTHER -> told[q]) \in SUBSET Rows
    BY <1>2, <2>1
  <2>4. crossed' = crossed \cup {x} \/ crossed' = crossed \ {x}
    BY <1>4, <2>1 DEF Records
  <2>5. told' \in [Request -> SUBSET Rows]
    BY <2>2, <2>3
  <2> QED
    BY <1>1, <1>2, <2>1, <2>4, <2>5
<1> QED
  BY <1>3, <1>4

LEMMA EndIsTyped ==
  ASSUME FiscalInv, NEW r \in Request, Ends(r), TypeOK'
  PROVE  FiscalInv'
<1>1. WorkOK(Idle)
  BY DEF WorkOK, GroupOps, TypeOps, ProductOps, Idle
<1> QED
  BY <1>1, WorkIsKept DEF Ends

LEMMA BeginIsTyped ==
  ASSUME FiscalInv, NEW r \in Request, Begin(r)
  PROVE  FiscalInv'
<1> USE DEF WorkOK, GroupOps, TypeOps, ProductOps
<1>1. CASE \E g \in Group, x \in Rate : BeginUpdateGroup(r, g, x)
  BY <1>1, StartIsTyped DEF BeginUpdateGroup
<1>2. CASE \E g \in Group, x \in Rate : BeginImportGroup(r, g, x)
  BY <1>2, StartIsTyped DEF BeginImportGroup
<1>a. CASE \E g \in Group, x \in Rate \cup {0} : BeginCreateGroup(r, g, x)
  BY <1>a, StartIsTyped DEF BeginCreateGroup
<1>b. CASE \E g \in Group : BeginDeleteGroup(r, g)
  BY <1>b, StartIsTyped DEF BeginDeleteGroup
<1>3. CASE \E t \in Type, n \in Name, g \in DOMAIN group \cup {None} : BeginCreateType(r, t, n, g)
  <2>1. PICK t \in Type, n \in Name, g \in DOMAIN group \cup {None} : BeginCreateType(r, t, n, g)
    BY <1>3
  <2>2. [name |-> n, group |-> g] \in TypeRow
    BY <2>1 DEF FiscalInv, TypeOK, TypeRow
  <2> QED
    BY <2>1, <2>2, StartIsTyped DEF BeginCreateType
<1>4. CASE \E t \in Type, n \in Name, g \in DOMAIN group \cup {None} : BeginUpdateType(r, t, n, g)
  <2>1. PICK t \in Type, n \in Name, g \in DOMAIN group \cup {None} : BeginUpdateType(r, t, n, g)
    BY <1>4
  <2>2. [name |-> n, group |-> g] \in TypeRow /\ type[t] \in TypeRow
    BY <2>1 DEF BeginUpdateType, FiscalInv, TypeOK, TypeRow
  <2> QED
    BY <2>1, <2>2, StartIsTyped DEF BeginUpdateType
<1>5. CASE \E t \in Type, n \in Name, g \in DOMAIN group \cup {None} : BeginImportType(r, t, n, g)
  <2>1. PICK t \in Type, n \in Name, g \in DOMAIN group \cup {None} : BeginImportType(r, t, n, g)
    BY <1>5
  <2>2. [name |-> n, group |-> g] \in TypeRow /\ (t \in DOMAIN type => type[t] \in TypeRow)
    BY <2>1 DEF FiscalInv, TypeOK, TypeRow
  <2> QED
    BY <2>1, <2>2, StartIsTyped DEF BeginImportType
<1>6. CASE \E t \in Type : BeginDeleteType(r, t)
  BY <1>6, StartIsTyped DEF BeginDeleteType
<1>7. CASE \E p \in Product, v \in Price, n \in Name \cup {Outro} : BeginCreateProduct(r, p, n, v)
  <2>1. PICK p \in Product, v \in Price, n \in Name \cup {Outro} : BeginCreateProduct(r, p, n, v)
    BY <1>7
  <2>2. New(n, v) \in Row
    BY DEF New, Row
  <2> QED
    BY <2>1, <2>2, StartIsTyped DEF BeginCreateProduct
<1>8. CASE \E p \in Product, v \in Price, n \in Name : BeginImportProduct(r, p, n, v)
  <2>1. PICK p \in Product, v \in Price, n \in Name : BeginImportProduct(r, p, n, v)
    BY <1>8
  <2>2. New(n, v) \in Row
    BY DEF New, Row
  <2>3. CASE p \in DOMAIN product
    <3>1. product[p] \in Row
      BY <2>3 DEF FiscalInv, TypeOK
    <3> DEFINE is == [product[p] EXCEPT !.type = n, !.price = v, !.version = @ + 1]
    <3>2. is \in Row /\ is.version = product[p].version + 1
      BY <2>1, <3>1, EditedRow
    <3> QED
      BY <2>1, <2>3, <3>1, <3>2, StartIsTyped DEF BeginImportProduct
  <2>4. CASE p \notin DOMAIN product
    BY <2>1, <2>2, <2>4, StartIsTyped DEF BeginImportProduct
  <2> QED
    BY <2>3, <2>4
<1>9. CASE \E p \in Product, n \in Name \cup {Outro, None}, v \in Price \cup {None} :
             BeginUpdateProduct(r, p, n, v)
  <2>1. PICK p \in Product, n \in Name \cup {Outro, None}, v \in Price \cup {None} :
          BeginUpdateProduct(r, p, n, v)
    BY <1>9
  <2>2. product[p] \in Row
    BY <2>1 DEF BeginUpdateProduct, FiscalInv, TypeOK
  <2> DEFINE is == [product[p] EXCEPT !.type = IF n = None THEN @ ELSE n,
                                      !.price = IF v = None THEN @ ELSE v,
                                      !.version = @ + 1]
  <2> DEFINE m == IF n = None THEN product[p].type ELSE n
             u == IF v = None THEN product[p].price ELSE v
             same == [product[p] EXCEPT !.type = m, !.price = u, !.version = @ + 1]
  <2>3. m \in Name \cup {Outro} /\ u \in Price
    BY <2>1, <2>2 DEF Row
  <2>4. same \in Row /\ same.version = product[p].version + 1
    <3> HIDE DEF m, u
    <3> QED
      BY <2>2, <2>3, EditedRow
  <2>5. is = same
    BY <2>2 DEF Row
  <2>6. is \in Row /\ is.version = product[p].version + 1
    BY <2>4, <2>5
  <2> QED
    BY <2>1, <2>2, <2>6, StartIsTyped DEF BeginUpdateProduct
<1>10. CASE \E p \in Product : BeginDeleteProduct(r, p)
  <2>1. PICK p \in Product : BeginDeleteProduct(r, p)
    BY <1>10
  <2>2. product[p] \in Row
    BY <2>1 DEF BeginDeleteProduct, FiscalInv, TypeOK
  <2> DEFINE is == [product[p] EXCEPT !.active = FALSE, !.version = @ + 1]
  <2>3. is \in Row /\ is.version = product[p].version + 1
    BY <2>2, StoppedRow
  <2> QED
    BY <2>1, <2>2, <2>3, StartIsTyped DEF BeginDeleteProduct
<1> QED
  BY <1>1, <1>2, <1>a, <1>b, <1>3, <1>4, <1>5, <1>6, <1>7, <1>8, <1>9, <1>10 DEF Begin

LEMMA CommitIsTyped ==
  ASSUME FiscalInv, NEW r \in Request, Commit(r) \/ Abort(r)
  PROVE  FiscalInv'
<1> DEFINE w == req[r]
<1>a. commits \in 0 .. MaxCommits /\ (commits' = commits \/ Counted) /\ Ends(r)
  BY DEF Commit, FiscalInv, TypeOK, CommitGroup, CommitDropGroup, CommitType, CommitDropType,
         CommitProduct, Abort
<1>0. WorkOK(w) /\ TypeOK /\ commits' \in 0 .. MaxCommits
  BY <1>a, CommitsAssumption DEF FiscalInv, Counted
<1> DEFINE LogOK == /\ elders' \in [Request -> SUBSET Request]
                    /\ told' \in [Request -> SUBSET Rows]
                    /\ crossed' \subseteq Rows
<1>b. ASSUME TypeOK' PROVE FiscalInv'
  BY <1>a, <1>b, EndIsTyped
<1>1. CASE CommitGroup(r)
  <2>1. w.on \in Group /\ w.is \in Rate \cup {0}
    BY <1>0, <1>1 DEF CommitGroup, WorkOK, GroupOps
  <2>2. group' = group \/ group' = With(group, w.on, w.is)
    BY <1>1 DEF CommitGroup
  <2>3. DOMAIN group \subseteq DOMAIN group' /\ DOMAIN group' \subseteq Group
    BY <1>0, <2>1, <2>2 DEF With, TypeOK
  <2>4. \A g \in DOMAIN group' : group'[g] \in Rate \cup {0}
    BY <1>0, <2>1, <2>2 DEF With, TypeOK
  <2>5. LogOK
    BY <1>0, <1>1, <1>a, <2>1, LogIsTyped DEF CommitGroup, Rows
  <2>6. UNCHANGED <<market, type, product, available, overtaken>>
    BY <1>1 DEF CommitGroup
  <2>7. TypeOK'
    BY <1>0, <2>3, <2>4, <2>5, <2>6 DEF TypeOK, Rows, Row
  <2> QED
    BY <1>b, <2>7
<1>2. CASE CommitDropGroup(r)
  <2>1. w.on \in Group
    BY <1>0, <1>2 DEF CommitDropGroup, WorkOK
  <2>2. /\ group' = Without(group, w.on)
        /\ \A t \in DOMAIN type : type[t].group # w.on
        /\ UNCHANGED <<market, type, product, available, overtaken>>
    BY <1>2 DEF CommitDropGroup
  <2>3. DOMAIN group' = DOMAIN group \ {w.on} /\ \A g \in DOMAIN group' : group'[g] = group[g]
    BY <2>2 DEF Without
  <2>4. \A t \in DOMAIN type : type[t] \in [name : Name, group : DOMAIN group' \cup {None}]
    BY <1>0, <2>2, <2>3 DEF TypeOK
  <2>5. LogOK
    BY <1>0, <1>2, <1>a, <2>1, LogIsTyped DEF CommitDropGroup, Rows
  <2>6. TypeOK'
    BY <1>0, <2>2, <2>3, <2>4, <2>5 DEF TypeOK, Rows, Row
  <2> QED
    BY <1>b, <2>6
<1>3. CASE CommitType(r)
  <2>0. PICK now : now = IF w.was = None THEN w.is ELSE Written(type[w.on], w.was, w.is)
    OBVIOUS
  <2>1. w.on \in Type /\ w.was \in TypeRow \cup {None} /\ w.is \in TypeRow
    BY <1>0, <1>3 DEF CommitType, WorkOK, TypeOps
  <2>2. now \in TypeRow
    BY <1>0, <1>3, <2>0, <2>1, TypeRows, WrittenType DEF CommitType
  <2>3. now.group \in DOMAIN group \cup {None} /\ type' = With(type, w.on, now)
    BY <1>3, <2>0 DEF CommitType
  <2>4. now \in [name : Name, group : DOMAIN group \cup {None}]
    BY <2>2, <2>3 DEF TypeRow
  <2>5. DOMAIN type' \subseteq Type
    BY <1>0, <2>1, <2>3 DEF With, TypeOK
  <2>6. \A t \in DOMAIN type' : type'[t] \in [name : Name, group : DOMAIN group \cup {None}]
    BY <1>0, <2>3, <2>4 DEF With, TypeOK
  <2>7. LogOK
    <3>1. RecordsNothing(r) \/ \E says, mixed : Records(r, "type", says, mixed)
      BY <1>3 DEF CommitType
    <3> QED
      BY <1>0, <1>a, <2>1, <3>1, LogIsTyped DEF Rows
  <2>8. UNCHANGED <<market, group, product, available, overtaken>>
    BY <1>3 DEF CommitType
  <2>9. TypeOK'
    BY <1>0, <2>5, <2>6, <2>7, <2>8 DEF TypeOK, Rows, Row
  <2> QED
    BY <1>b, <2>9
<1>4. CASE CommitDropType(r)
  <2>1. w.on \in Type
    BY <1>0, <1>4 DEF CommitDropType, WorkOK
  <2>2. LogOK
    BY <1>0, <1>4, <1>a, <2>1, LogIsTyped DEF CommitDropType, Rows
  <2>3. type' = Without(type, w.on) /\ UNCHANGED <<market, group, product, available, overtaken>>
    BY <1>4 DEF CommitDropType
  <2>4. TypeOK'
    BY <1>0, <2>2, <2>3 DEF TypeOK, Without, Rows, Row
  <2> QED
    BY <1>b, <2>4
<1>5. CASE CommitProduct(r)
  <2>0. PICK now : now = IF w.was = None THEN w.is ELSE Written(product[w.on], w.was, w.is)
    OBVIOUS
  <2>1. w.on \in Product /\ w.was \in Row \cup {None} /\ w.is \in Row
    BY <1>0, <1>5 DEF CommitProduct, WorkOK, ProductOps
  <2>2. now \in Row
    <3>1. w.was # None => product[w.on] \in Row
      BY <1>0, <1>5 DEF CommitProduct, TypeOK
    <3> QED
      BY <2>0, <2>1, <3>1, WrittenProduct
  <2>3. product' = With(product, w.on, now)
    BY <1>5, <2>0 DEF CommitProduct
  <2>4. DOMAIN product' = DOMAIN product \cup {w.on} /\ DOMAIN product' \subseteq Product
    BY <1>0, <2>1, <2>3 DEF With, TypeOK
  <2>5. \A p \in DOMAIN product' : product'[p] \in Row
    BY <1>0, <2>2, <2>3 DEF With, TypeOK
  <2>6. available' \subseteq DOMAIN product' /\ overtaken' \subseteq Product
    BY <1>0, <1>5, <2>1, <2>4 DEF TypeOK, CommitProduct
  <2>7. LogOK
    <3>1. RecordsNothing(r) \/ \E says, mixed : Records(r, "product", says, mixed)
      BY <1>5 DEF CommitProduct
    <3> QED
      BY <1>0, <1>a, <2>1, <3>1, LogIsTyped DEF Rows
  <2>8. UNCHANGED <<market, group, type>>
    BY <1>5 DEF CommitProduct
  <2>9. TypeOK'
    BY <1>0, <2>4, <2>5, <2>6, <2>7, <2>8 DEF TypeOK, Rows, Row
  <2> QED
    BY <1>b, <2>9
<1>6. CASE Abort(r)
  <2>1. LogOK
    BY <1>0, <1>6, <1>a, LogIsTyped DEF Abort
  <2>2. TypeOK'
    BY <1>0, <1>6, <2>1 DEF Abort, tables, TypeOK, Rows, Row
  <2> QED
    BY <1>b, <2>2
<1> QED
  BY <1>1, <1>2, <1>3, <1>4, <1>5, <1>6 DEF Commit

LEMMA ShowIsTyped ==
  ASSUME FiscalInv, NEW p \in Product,
         Show(p) \/ \E v \in Price, offered \in BOOLEAN : ImportEurope(p, v, offered)
  PROVE  FiscalInv'
<1>a. TypeOK /\ commits \in 0 .. MaxCommits
  BY DEF FiscalInv, TypeOK
<1>b. Counted
  BY DEF Show, ImportEurope
<1>0. TypeOK /\ commits' \in 0 .. MaxCommits
  BY <1>a, <1>b, CommitsAssumption DEF Counted
<1>1. PICK row \in Row : product' = With(product, p, row) /\ p \in DOMAIN product
  <2>1. CASE Show(p)
    BY <1>0, <2>1, ShownRow DEF Show, TypeOK
  <2>2. CASE \E v \in Price, offered \in BOOLEAN : ImportEurope(p, v, offered)
    BY <1>0, <2>2, PricedRow DEF ImportEurope, TypeOK
  <2> QED
    BY <2>1, <2>2
<1>2. DOMAIN product' = DOMAIN product /\ \A q \in DOMAIN product' : product'[q] \in Row
  BY <1>0, <1>1 DEF With, TypeOK
<1>3. available' \subseteq DOMAIN product'
  BY <1>0, <1>1, <1>2 DEF Show, ImportEurope, TypeOK
<1>4. UNCHANGED <<market, group, type, log, req, elders, overtaken>>
  BY DEF Show, ImportEurope
<1>5. UNCHANGED <<market, group, type, trail, told, crossed, req, elders, overtaken>>
  BY <1>4 DEF log
<1>6. TypeOK'
  BY <1>0, <1>2, <1>3, <1>5 DEF TypeOK, Row
<1> QED
  BY <1>5, <1>6 DEF FiscalInv, WorkOK, Row, TypeRow

LEMMA FiscalStep == FiscalInv /\ [Next]_vars => FiscalInv'
<1> SUFFICES ASSUME FiscalInv, [Next]_vars PROVE FiscalInv'
  OBVIOUS
<1>1. CASE \E r \in Request : Open(r)
  BY <1>1, OpenIsTyped
<1>2. CASE \E r \in Request : Begin(r)
  BY <1>2, BeginIsTyped
<1>3. CASE \E r \in Request : Commit(r) \/ Abort(r)
  BY <1>3, CommitIsTyped
<1>4. CASE \E p \in Product : Show(p) \/ \E v \in Price, offered \in BOOLEAN : ImportEurope(p, v, offered)
  BY <1>4, ShowIsTyped
<1>5. CASE UNCHANGED vars
  BY <1>5 DEF vars, tables, log, FiscalInv, TypeOK, WorkOK, Row, TypeRow, GroupOps, TypeOps, ProductOps
<1> QED
  BY <1>1, <1>2, <1>3, <1>4, <1>5 DEF Next

\* The tables and the open requests of the fiscal catalogue are well formed.
THEOREM CatalogueTypes == Spec => []TypeOK
<1>1. FiscalInv => TypeOK
  BY DEF FiscalInv
<1> QED
  BY <1>1, FiscalStart, FiscalStep, PTL DEF Spec

-----------------------------------------------------------------------------
(* The trail. *)

\* A request that opens, starts or goes leaves tables and trail alone.
LEMMA BeginLeaves ==
  ASSUME NEW r \in Request, Open(r) \/ Begin(r) \/ Abort(r)
  PROVE  UNCHANGED <<tables, trail, crossed, overtaken>>
  BY DEF Open, Begin, Starts, BeginUpdateGroup, BeginImportGroup, BeginCreateGroup, BeginDeleteGroup,
         BeginCreateType, BeginUpdateType, BeginImportType, BeginDeleteType, BeginCreateProduct,
         BeginImportProduct, BeginUpdateProduct, BeginDeleteProduct, Abort, RecordsNothing, log

\* The market is never another.
LEMMA MarketStays == [Next]_vars => market' = market
  BY BeginLeaves DEF Next, vars, tables, Commit, CommitGroup, CommitDropGroup, CommitType,
         CommitDropType, CommitProduct, ImportEurope, Show

LEMMA TrailStarts == Init => TrailFollows
<1> SUFFICES ASSUME Init, Brazil PROVE TrailFollows
  BY DEF TrailFollows
<1>1. PICK n \in Name, v \in Price, S \in SUBSET Product :
        /\ product = [p \in S |-> New(n, v)]
        /\ trail = [group |-> group, type |-> type, product |-> [p \in S |-> n]]
  <2>1. \A S, n : trail = (IF Brazil THEN [group |-> group, type |-> type, product |-> [p \in S |-> n]]
                                     ELSE [group |-> <<>>, type |-> <<>>, product |-> <<>>])
                   => trail = [group |-> group, type |-> type, product |-> [p \in S |-> n]]
    OBVIOUS
  <2>2. \E n \in Name, v \in Price, S \in SUBSET Product :
          /\ product = [p \in S |-> New(n, v)]
          /\ trail = IF Brazil THEN [group |-> group, type |-> type, product |-> [p \in S |-> n]]
                               ELSE [group |-> <<>>, type |-> <<>>, product |-> <<>>]
    BY ZenonT(60) DEF Init
  <2> QED
    BY <2>1, <2>2
<1>2. TypesOf(product) = [p \in S |-> n]
  BY <1>1 DEF New, TypesOf
<1>3. TypeOK
  BY FiscalStart DEF FiscalInv
<1>4. DOMAIN group \subseteq Group /\ DOMAIN type \subseteq Type
  BY <1>3 DEF TypeOK
<1> QED
  BY <1>1, <1>2, <1>4 DEF TrailFollows, Follows

\* An event changes what the trail says of its row, unless it is late: then, or
\* when it is mixed, the row is crossed.
LEMMA RecordedIsTold ==
  ASSUME NEW r \in Request, NEW table, NEW says, NEW mixed, Records(r, table, says, mixed)
  PROVE  LET x == req[r].on IN
         \/ req[r].was # None /\ trail' = trail /\ crossed' = crossed \cup {x}
         \/ /\ trail' = [trail EXCEPT ![table] = With(@, x, says)]
            /\ crossed' = IF mixed THEN crossed \cup {x} ELSE crossed \ {x}
  BY DEF Records

\* What says follows after an event of x that is told, and after one that is late.
LEMMA ToldFollows ==
  ASSUME NEW says, NEW rows, NEW C, NEW D, NEW x, NEW news, NEW now,
         Follows(says, rows, C), C \subseteq D \cup {x}, x \in D \/ news = now
  PROVE  Follows(With(says, x, news), With(rows, x, now), D)
  BY DEF Follows, With

LEMMA LateFollows ==
  ASSUME NEW says, NEW rows, NEW C, NEW D, NEW x, NEW now,
         Follows(says, rows, C), C \subseteq D, x \in D, x \in DOMAIN rows
  PROVE  Follows(says, With(rows, x, now), D)
  BY DEF Follows, With

LEMMA GoneFollows ==
  ASSUME NEW says, NEW rows, NEW C, NEW D, NEW x,
         Follows(says, rows, C), C \subseteq D \cup {x}, x \in DOMAIN rows
  PROVE  /\ Follows(With(says, x, None), Without(rows, x), D)
         /\ x \in D => Follows(says, Without(rows, x), D)
  BY DEF Follows, With, Without

\* A row written as it was, and a row of another table, change nothing.
LEMMA SameFollows ==
  ASSUME NEW says, NEW rows, NEW C, NEW x \in DOMAIN rows, Follows(says, rows, C)
  PROVE  Follows(says, With(rows, x, rows[x]), C)
  BY DEF Follows, With

LEMMA OthersFollow ==
  ASSUME NEW says, NEW rows, NEW C, NEW D, NEW x,
         Follows(says, rows, C), C \subseteq D \cup {x}, x \notin DOMAIN says
  PROVE  Follows(says, rows, D)
  BY DEF Follows

LEMMA WithDomain ==
  ASSUME NEW f, NEW x, NEW v
  PROVE  DOMAIN With(f, x, v) = DOMAIN f \cup {x}
  BY DEF With

\* The commit of one row, its event being the one the action records.
LEMMA GroupKeepsTrail ==
  ASSUME FiscalInv, TrailFollows, Brazil, market' = market, NEW r \in Request,
         CommitGroup(r) \/ CommitDropGroup(r)
  PROVE  TrailFollows'
<1> DEFINE w == req[r]
           x == w.on
<1>0. /\ WorkOK(w) /\ TypeOK
      /\ trail = [group |-> trail.group, type |-> trail.type, product |-> trail.product]
      /\ DOMAIN trail.group \subseteq Group /\ Follows(trail.group, group, crossed)
      /\ DOMAIN trail.type \subseteq Type /\ Follows(trail.type, type, crossed)
      /\ DOMAIN trail.product \subseteq Product /\ Follows(trail.product, TypesOf(product), crossed)
  BY DEF FiscalInv, TrailFollows
<1>1. x \in Group /\ UNCHANGED <<type, product>>
  BY <1>0 DEF CommitGroup, CommitDropGroup, WorkOK, GroupOps
<1>2. x \notin DOMAIN trail.type /\ x \notin DOMAIN trail.product
  BY <1>0, <1>1, RowsAssumption
<1>3. CASE UNCHANGED <<group, trail, crossed>>
  BY <1>0, <1>1, <1>3 DEF TrailFollows
<1>4. ASSUME NEW T, trail' = [trail EXCEPT !.group = T], DOMAIN T \subseteq Group,
             Follows(T, group', crossed'), crossed \subseteq crossed' \cup {x}
      PROVE  TrailFollows'
  <2>1. trail' = [group |-> T, type |-> trail.type, product |-> trail.product]
    BY <1>0, <1>4
  <2>2. Follows(trail.type, type, crossed') /\ Follows(trail.product, TypesOf(product), crossed')
    BY <1>0, <1>2, <1>4, OthersFollow
  <2> QED
    BY <1>0, <1>1, <1>4, <2>1, <2>2 DEF TrailFollows
<1>5. CASE CommitGroup(r) /\ w.was # w.is
  <2>1. /\ group' = With(group, x, w.is) /\ Records(r, "group", w.is, FALSE)
        /\ x \in DOMAIN group <=> w.was # None
    BY <1>5 DEF CommitGroup
  <2>2. CASE w.was # None /\ trail' = trail /\ crossed' = crossed \cup {x}
    <3>1. Follows(trail.group, group', crossed')
      BY <1>0, <2>1, <2>2, LateFollows
    <3>2. trail' = [trail EXCEPT !.group = trail.group]
      BY <1>0, <2>2
    <3> QED
      BY <1>0, <1>4, <2>2, <3>1, <3>2
  <2>3. CASE trail' = [trail EXCEPT !.group = With(@, x, w.is)] /\ crossed' = crossed \ {x}
    <3>1. PICK T : T = With(trail.group, x, w.is)
      OBVIOUS
    <3>2. Follows(T, group', crossed') /\ crossed \subseteq crossed' \cup {x}
      BY <1>0, <2>1, <2>3, <3>1, ToldFollows
    <3>3. DOMAIN T = DOMAIN trail.group \cup {x} /\ DOMAIN T \subseteq Group
      <4>1. DOMAIN T = DOMAIN trail.group \cup {x}
        BY <3>1, WithDomain
      <4>2. DOMAIN trail.group \subseteq Group /\ x \in Group
        BY <1>0, <1>1
      <4> HIDE DEF x
      <4> QED
        BY <4>1, <4>2
    <3>4. trail' = [trail EXCEPT !.group = T]
      BY <2>3, <3>1
    <3> QED
      BY <1>4, <3>2, <3>3, <3>4
  <2> QED
    BY <2>1, <2>2, <2>3, RecordedIsTold
<1>6. CASE CommitGroup(r) /\ w.was = w.is
  <2>1. group' = group /\ RecordsNothing(r)
    BY <1>6 DEF CommitGroup
  <2> QED
    BY <1>3, <2>1 DEF RecordsNothing
<1>7. CASE CommitDropGroup(r)
  <2>1. group' = Without(group, x) /\ Records(r, "group", None, FALSE) /\ x \in DOMAIN group
    BY <1>7 DEF CommitDropGroup
  <2>2. CASE trail' = trail /\ crossed' = crossed \cup {x}
    <3>1. Follows(trail.group, group', crossed')
      BY <1>0, <2>1, <2>2, GoneFollows
    <3>2. trail' = [trail EXCEPT !.group = trail.group]
      BY <1>0, <2>2
    <3> QED
      BY <1>0, <1>4, <2>2, <3>1, <3>2
  <2>3. CASE trail' = [trail EXCEPT !.group = With(@, x, None)] /\ crossed' = crossed \ {x}
    <3>1. PICK T : T = With(trail.group, x, None)
      OBVIOUS
    <3>2. Follows(T, group', crossed') /\ crossed \subseteq crossed' \cup {x}
      BY <1>0, <2>1, <2>3, <3>1, GoneFollows
    <3>3. DOMAIN T = DOMAIN trail.group \cup {x} /\ DOMAIN T \subseteq Group
      <4>1. DOMAIN T = DOMAIN trail.group \cup {x}
        BY <3>1, WithDomain
      <4>2. DOMAIN trail.group \subseteq Group /\ x \in Group
        BY <1>0, <1>1
      <4> HIDE DEF x
      <4> QED
        BY <4>1, <4>2
    <3>4. trail' = [trail EXCEPT !.group = T]
      BY <2>3, <3>1
    <3> QED
      BY <1>4, <3>2, <3>3, <3>4
  <2> QED
    BY <2>1, <2>2, <2>3, RecordedIsTold
<1> QED
  BY <1>5, <1>6, <1>7

LEMMA TypeKeepsTrail ==
  ASSUME FiscalInv, TrailFollows, Brazil, market' = market, NEW r \in Request,
         CommitType(r) \/ CommitDropType(r)
  PROVE  TrailFollows'
<1> DEFINE w == req[r]
           x == w.on
<1>0. /\ WorkOK(w) /\ TypeOK
      /\ trail = [group |-> trail.group, type |-> trail.type, product |-> trail.product]
      /\ DOMAIN trail.group \subseteq Group /\ Follows(trail.group, group, crossed)
      /\ DOMAIN trail.type \subseteq Type /\ Follows(trail.type, type, crossed)
      /\ DOMAIN trail.product \subseteq Product /\ Follows(trail.product, TypesOf(product), crossed)
  BY DEF FiscalInv, TrailFollows
<1>1. x \in Type /\ UNCHANGED <<group, product>>
  BY <1>0 DEF CommitType, CommitDropType, WorkOK, TypeOps
<1>2. x \notin DOMAIN trail.group /\ x \notin DOMAIN trail.product
  BY <1>0, <1>1, RowsAssumption
<1>4. ASSUME NEW T, trail' = [trail EXCEPT !.type = T], DOMAIN T \subseteq Type,
             Follows(T, type', crossed'), crossed \subseteq crossed' \cup {x}
      PROVE  TrailFollows'
  <2>1. trail' = [group |-> trail.group, type |-> T, product |-> trail.product]
    BY <1>0, <1>4
  <2>2. Follows(trail.group, group, crossed') /\ Follows(trail.product, TypesOf(product), crossed')
    BY <1>0, <1>2, <1>4, OthersFollow
  <2> QED
    BY <1>0, <1>1, <1>4, <2>1, <2>2 DEF TrailFollows
<1>5. CASE CommitType(r)
  <2>0. PICK now : now = IF w.was = None THEN w.is ELSE Written(type[x], w.was, w.is)
    OBVIOUS
  <2>1. w.was \in TypeRow \cup {None} /\ w.is \in TypeRow /\ None \notin TypeRow
    BY <1>0, <1>5, NoneAssumption DEF CommitType, WorkOK, TypeOps, TypeRow
  <2>2. type' = With(type, x, now) /\ Follows(trail.type, type, crossed)
    BY <1>0, <1>5, <2>0 DEF CommitType
  <2>3. /\ type' = With(type, x, now) /\ x \in DOMAIN type <=> w.was # None
        /\ IF w.is # w.was THEN Records(r, "type", w.is, now # w.is) ELSE RecordsNothing(r)
    BY <1>5, <2>0 DEF CommitType
  <2>4. CASE w.is # w.was /\ w.was # None /\ trail' = trail /\ crossed' = crossed \cup {x}
    <3>1. Follows(trail.type, type', crossed')
      BY <1>0, <2>3, <2>4, LateFollows
    <3>2. trail' = [trail EXCEPT !.type = trail.type]
      BY <1>0, <2>4
    <3> QED
      BY <1>0, <1>4, <2>4, <3>1, <3>2
  <2>5. CASE /\ trail' = [trail EXCEPT !.type = With(@, x, w.is)]
             /\ crossed' = IF now # w.is THEN crossed \cup {x} ELSE crossed \ {x}
    <3>1. PICK T : T = With(trail.type, x, w.is)
      OBVIOUS
    <3>2. crossed \subseteq crossed' \cup {x} /\ (x \in crossed' \/ w.is = now)
      BY <2>5
    <3>3. Follows(T, type', crossed')
      BY <2>2, <3>1, <3>2, ToldFollows
    <3>4. DOMAIN T = DOMAIN trail.type \cup {x} /\ DOMAIN T \subseteq Type
      <4>1. DOMAIN T = DOMAIN trail.type \cup {x}
        BY <3>1, WithDomain
      <4>2. DOMAIN trail.type \subseteq Type /\ x \in Type
        BY <1>0, <1>1
      <4> HIDE DEF x
      <4> QED
        BY <4>1, <4>2
    <3>5. trail' = [trail EXCEPT !.type = T]
      BY <2>5, <3>1
    <3> QED
      BY <1>4, <3>2, <3>3, <3>4, <3>5
  <2>6. CASE w.is = w.was
    <3>1. UNCHANGED <<trail, crossed>> /\ x \in DOMAIN type /\ type[x] \in TypeRow
      BY <1>0, <2>1, <2>3, <2>6, TypeRows DEF RecordsNothing
    <3>2. now = type[x]
      <4>1. now = Written(type[x], w.is, w.is)
        BY <2>0, <2>1, <2>6
      <4>2. DOMAIN type[x] = {"name", "group"}
        BY <3>1 DEF TypeRow
      <4> QED
        BY <3>1, <4>1, <4>2 DEF Written, TypeRow
    <3>3. Follows(trail.type, type', crossed')
      BY <2>2, <3>1, <3>2, SameFollows
    <3>4. trail' = [trail EXCEPT !.type = trail.type]
      BY <1>0, <3>1
    <3> QED
      BY <1>0, <1>4, <3>1, <3>3, <3>4
  <2>7. CASE w.is # w.was
    <3>1. Records(r, "type", w.is, now # w.is)
      BY <2>3, <2>7
    <3> QED
      BY <2>4, <2>5, <2>7, <3>1, RecordedIsTold
  <2> QED
    BY <2>6, <2>7
<1>7. CASE CommitDropType(r)
  <2>1. type' = Without(type, x) /\ Records(r, "type", None, FALSE) /\ x \in DOMAIN type
    BY <1>7 DEF CommitDropType
  <2>2. CASE trail' = trail /\ crossed' = crossed \cup {x}
    <3>1. Follows(trail.type, type', crossed')
      BY <1>0, <2>1, <2>2, GoneFollows
    <3>2. trail' = [trail EXCEPT !.type = trail.type]
      BY <1>0, <2>2
    <3> QED
      BY <1>0, <1>4, <2>2, <3>1, <3>2
  <2>3. CASE trail' = [trail EXCEPT !.type = With(@, x, None)] /\ crossed' = crossed \ {x}
    <3>1. PICK T : T = With(trail.type, x, None)
      OBVIOUS
    <3>2. Follows(T, type', crossed') /\ crossed \subseteq crossed' \cup {x}
      BY <1>0, <2>1, <2>3, <3>1, GoneFollows
    <3>3. DOMAIN T = DOMAIN trail.type \cup {x} /\ DOMAIN T \subseteq Type
      <4>1. DOMAIN T = DOMAIN trail.type \cup {x}
        BY <3>1, WithDomain
      <4>2. DOMAIN trail.type \subseteq Type /\ x \in Type
        BY <1>0, <1>1
      <4> HIDE DEF x
      <4> QED
        BY <4>1, <4>2
    <3>4. trail' = [trail EXCEPT !.type = T]
      BY <2>3, <3>1
    <3> QED
      BY <1>4, <3>2, <3>3, <3>4
  <2> QED
    BY <2>1, <2>2, <2>3, RecordedIsTold
<1> QED
  BY <1>5, <1>7

LEMMA TypesWith ==
  ASSUME NEW rows, NEW p, NEW now
  PROVE  TypesOf(With(rows, p, now)) = With(TypesOf(rows), p, now.type)
  BY DEF TypesOf, With

LEMMA ProductKeepsTrail ==
  ASSUME FiscalInv, TrailFollows, Brazil, market' = market, NEW r \in Request, CommitProduct(r)
  PROVE  TrailFollows'
<1> DEFINE w == req[r]
           x == w.on
<1>0. /\ WorkOK(w) /\ TypeOK
      /\ trail = [group |-> trail.group, type |-> trail.type, product |-> trail.product]
      /\ DOMAIN trail.group \subseteq Group /\ Follows(trail.group, group, crossed)
      /\ DOMAIN trail.type \subseteq Type /\ Follows(trail.type, type, crossed)
      /\ DOMAIN trail.product \subseteq Product /\ Follows(trail.product, TypesOf(product), crossed)
  BY DEF FiscalInv, TrailFollows
<1>1. x \in Product /\ w.was \in Row \cup {None} /\ w.is \in Row /\ UNCHANGED <<group, type>>
  BY <1>0 DEF CommitProduct, WorkOK, ProductOps
<1>2. x \notin DOMAIN trail.group /\ x \notin DOMAIN trail.type
  BY <1>0, <1>1, RowsAssumption
<1>3. PICK now : now = IF w.was = None THEN w.is ELSE Written(product[x], w.was, w.is)
  OBVIOUS
<1>4. ASSUME NEW T, trail' = [trail EXCEPT !.product = T], DOMAIN T \subseteq Product,
             Follows(T, TypesOf(product'), crossed'), crossed \subseteq crossed' \cup {x}
      PROVE  TrailFollows'
  <2>1. trail' = [group |-> trail.group, type |-> trail.type, product |-> T]
    BY <1>0, <1>4
  <2>2. Follows(trail.group, group, crossed') /\ Follows(trail.type, type, crossed')
    BY <1>0, <1>2, <1>4, OthersFollow
  <2> QED
    BY <1>0, <1>1, <1>4, <2>1, <2>2 DEF TrailFollows
<1>5. PICK typed \in BOOLEAN : typed <=> (w.was = None \/ w.was.type # w.is.type)
  OBVIOUS
<1>6. /\ x \in DOMAIN product <=> w.was # None
      /\ product' = With(product, x, now)
      /\ IF typed THEN Records(r, "product", w.is.type, FALSE) ELSE RecordsNothing(r)
  BY <1>3, <1>5 DEF CommitProduct
<1>7. now.type = IF typed THEN w.is.type ELSE product[x].type
  <2>1. w.was # None => product[x] \in Row
    BY <1>0, <1>6 DEF TypeOK
  <2> QED
    BY <1>1, <1>3, <1>5, <2>1, WrittenProduct
<1>8. DOMAIN TypesOf(product) = DOMAIN product
  BY DEF TypesOf
<1>9. CASE typed
  <2>1. TypesOf(product') = With(TypesOf(product), x, w.is.type)
    BY <1>6, <1>7, <1>9, TypesWith
  <2>2. CASE w.was # None /\ trail' = trail /\ crossed' = crossed \cup {x}
    <3>1. Follows(trail.product, TypesOf(product'), crossed')
      BY <1>0, <1>6, <1>8, <2>1, <2>2, LateFollows
    <3>2. trail' = [trail EXCEPT !.product = trail.product]
      BY <1>0, <2>2
    <3> QED
      BY <1>0, <1>4, <2>2, <3>1, <3>2
  <2>3. CASE trail' = [trail EXCEPT !.product = With(@, x, w.is.type)] /\ crossed' = crossed \ {x}
    <3>1. PICK T : T = With(trail.product, x, w.is.type)
      OBVIOUS
    <3>2. Follows(T, TypesOf(product'), crossed') /\ crossed \subseteq crossed' \cup {x}
      BY <1>0, <2>1, <2>3, <3>1, ToldFollows
    <3>3. DOMAIN T = DOMAIN trail.product \cup {x} /\ DOMAIN T \subseteq Product
      <4>1. DOMAIN T = DOMAIN trail.product \cup {x}
        BY <3>1, WithDomain
      <4>2. DOMAIN trail.product \subseteq Product /\ x \in Product
        BY <1>0, <1>1
      <4> HIDE DEF x
      <4> QED
        BY <4>1, <4>2
    <3>4. trail' = [trail EXCEPT !.product = T]
      BY <2>3, <3>1
    <3> QED
      BY <1>4, <3>2, <3>3, <3>4
  <2> QED
    BY <1>6, <1>9, <2>2, <2>3, RecordedIsTold
<1>10. CASE ~typed
  <2>1. x \in DOMAIN TypesOf(product) /\ UNCHANGED <<trail, crossed>>
    BY <1>5, <1>6, <1>8, <1>10 DEF RecordsNothing
  <2>2. TypesOf(product') = With(TypesOf(product), x, TypesOf(product)[x])
    BY <1>6, <1>7, <1>8, <1>10, <2>1, TypesWith DEF TypesOf
  <2>3. Follows(trail.product, TypesOf(product'), crossed')
    BY <1>0, <2>1, <2>2, SameFollows
  <2>4. trail' = [trail EXCEPT !.product = trail.product]
    BY <1>0, <2>1
  <2> QED
    BY <1>0, <1>4, <2>1, <2>3, <2>4
<1> QED
  BY <1>9, <1>10

LEMMA TrailStep == FiscalInv /\ TrailFollows /\ [Next]_vars => TrailFollows'
<1> SUFFICES ASSUME FiscalInv, TrailFollows, [Next]_vars, Brazil PROVE TrailFollows'
  BY MarketStays DEF TrailFollows, Brazil
<1>0. market' = market
  BY MarketStays
<1>1. CASE \E r \in Request : Open(r) \/ Begin(r) \/ Abort(r)
  <2>1. UNCHANGED <<tables, trail, crossed>>
    BY <1>1, BeginLeaves
  <2>2. UNCHANGED <<group, type, product, trail, crossed>>
    BY <2>1 DEF tables
  <2> QED
    BY <2>2 DEF TrailFollows
<1>2. CASE \E r \in Request : Commit(r)
  BY <1>0, <1>2, GroupKeepsTrail, TypeKeepsTrail, ProductKeepsTrail DEF Commit
<1>3. CASE \E p \in Product : Show(p) \/ \E v \in Price, offered \in BOOLEAN : ImportEurope(p, v, offered)
  <2>1. PICK p \in Product : Show(p)
    BY <1>3 DEF ImportEurope
  <2>2. p \in DOMAIN product /\ product[p] \in Row
    BY <2>1 DEF Show, FiscalInv, TypeOK
  <2>3. PICK row : row = [product[p] EXCEPT !.shown = ~@]
    OBVIOUS
  <2>4. product' = With(product, p, row) /\ row.type = product[p].type
    BY <2>1, <2>2, <2>3, ShownRow DEF Show
  <2>5. p \in DOMAIN TypesOf(product) /\ TypesOf(product)[p] = row.type
    BY <2>2, <2>4 DEF TypesOf
  <2>6. TypesOf(product') = With(TypesOf(product), p, TypesOf(product)[p])
    BY <2>4, <2>5, TypesWith
  <2>7. UNCHANGED <<group, type, trail, crossed>>
    BY <2>1 DEF Show, log
  <2>8. Follows(trail.product, TypesOf(product'), crossed)
    BY <2>5, <2>6, SameFollows DEF TrailFollows
  <2> QED
    BY <2>7, <2>8 DEF TrailFollows
<1>4. CASE UNCHANGED vars
  <2>1. UNCHANGED <<group, type, product, trail, crossed>>
    BY <1>4 DEF vars, tables, log
  <2> QED
    BY <2>1 DEF TrailFollows
<1> QED
  BY <1>1, <1>2, <1>3, <1>4 DEF Next

\* A trail that follows tells the rate: the types of a name, and their groups, are
\* in it what they are in the tables.
LEMMA TrailTells == FiscalInv /\ TrailFollows => TrailTellsTheIpi
<1> SUFFICES ASSUME FiscalInv, TrailFollows, Brazil, NEW p \in DOMAIN product \ crossed,
                    NEW n, n = product[p].type,
                    crossed \cap (Named(n) \cup Called(trail.type, n)) = {},
                    ~ \E t \in Named(n) : type[t].group \in crossed
             PROVE  Ipi(group, type, n) = Ipi(trail.group, trail.type, trail.product[p])
  BY DEF TrailTellsTheIpi
<1>0. /\ TypeOK /\ Follows(trail.group, group, crossed) /\ Follows(trail.type, type, crossed)
      /\ Follows(trail.product, TypesOf(product), crossed)
  BY DEF FiscalInv, TrailFollows
<1>1. trail.product[p] = n
  BY <1>0 DEF Follows, TypesOf
<1>2. \A t \in DOMAIN type : type[t] # None
  <2>1. None \notin TypeRow
    BY NoneAssumption DEF TypeRow
  <2> QED
    BY <1>0, <2>1, TypeRows
<1>3. ASSUME NEW t PROVE t \in Named(n) <=> t \in Called(trail.type, n)
  BY <1>0, <1>2 DEF Named, Called, Follows
<1>4. ASSUME NEW t \in Named(n) PROVE t \in DOMAIN type /\ trail.type[t] = type[t] /\ type[t].group \notin crossed
  BY <1>0 DEF Named, Called, Follows
<1>5. \A g \in DOMAIN group : group[g] # None
  BY <1>0, NoneAssumption DEF TypeOK
<1>6. ASSUME NEW g, g \notin crossed
      PROVE  /\ (g \in DOMAIN group /\ group[g] # None) <=> (g \in DOMAIN trail.group /\ trail.group[g] # None)
             /\ g \in DOMAIN group => trail.group[g] = group[g]
  BY <1>0, <1>5, <1>6 DEF Follows
<1> DEFINE Source(t) == type[t].group \in DOMAIN group /\ group[type[t].group] # None
           Told(t) == trail.type[t].group \in DOMAIN trail.group /\ trail.group[trail.type[t].group] # None
<1>7. ASSUME NEW x PROVE x \in Ipi(group, type, n) <=> \E t \in Named(n) : Source(t) /\ x = group[type[t].group]
  BY DEF Ipi, Named
<1>8. ASSUME NEW x
      PROVE  x \in Ipi(trail.group, trail.type, n)
               <=> \E t \in Called(trail.type, n) : Told(t) /\ x = trail.group[trail.type[t].group]
  BY DEF Ipi
<1>9. ASSUME NEW t \in Named(n)
      PROVE  /\ Source(t) <=> Told(t)
             /\ Source(t) => trail.group[trail.type[t].group] = group[type[t].group]
  BY <1>4, <1>6
<1>10. ASSUME NEW x PROVE x \in Ipi(group, type, n) <=> x \in Ipi(trail.group, trail.type, n)
  <2> HIDE DEF Source, Told
  <2> QED
    BY <1>3, <1>7, <1>8, <1>9
<1> QED
  BY <1>1, <1>10

\* TrailTellsTheIpi: whatever requests are open, the newest fiscal events explain
\* the rate that is billed, for every product of which no row that gives it was
\* changed by two requests at a time.
THEOREM TrailAlwaysTells == Spec => []TrailTellsTheIpi
<1>1. Init => FiscalInv /\ TrailFollows
  BY FiscalStart, TrailStarts
<1>2. FiscalInv /\ TrailFollows /\ [Next]_vars => (FiscalInv /\ TrailFollows)'
  BY FiscalStep, TrailStep
<1> QED
  BY <1>1, <1>2, TrailTells, PTL DEF Spec

-----------------------------------------------------------------------------
(* The version. *)

Raised(was, is) ==
  \/ is.type = was.type /\ is.active = was.active /\ (Brazil => is.price = was.price)
  \/ is.version > was.version

LEMMA RaisedOrSame ==
  ASSUME NEW row \in Row
  PROVE  Raised(row, row)
  BY DEF Raised

\* A commit writes the version after the one that was read.
LEMMA CommitRaises ==
  ASSUME FiscalInv, NEW r \in Request, CommitProduct(r), NEW p \in DOMAIN product
  PROVE  Raised(product[p], product'[p]) \/ p \in overtaken'
<1> DEFINE w == req[r]
<1>2. WorkOK(w) /\ TypeOK /\ product[p] \in Row
  BY DEF FiscalInv, TypeOK
<1>3. /\ w.on \in DOMAIN product <=> w.was # None
      /\ product' = With(product, w.on, IF w.was = None THEN w.is ELSE Written(product[w.on], w.was, w.is))
      /\ overtaken' = IF w.was # None /\ w.was.version # product[w.on].version
                        THEN overtaken \cup {w.on} ELSE overtaken \ {w.on}
  BY DEF CommitProduct
<1>4. CASE p # w.on
  <2>1. product'[p] = product[p]
    BY <1>3, <1>4 DEF With
  <2> QED
    BY <1>2, <2>1, RaisedOrSame
<1>5. CASE p = w.on
  <2>1. w.was # None /\ w.was \in Row /\ w.is \in Row /\ w.is.version = w.was.version + 1
    BY <1>2, <1>3, <1>5 DEF CommitProduct, WorkOK, ProductOps
  <2>2. CASE w.was.version = product[p].version
    <3>1. w.is.version # w.was.version /\ product[p].version \in Nat
      BY <1>2, <2>1 DEF Row
    <3>2. Written(product[p], w.was, w.is).version = w.is.version
      BY <1>2, <2>1, <3>1, WrittenProduct
    <3>3. product'[p] = Written(product[p], w.was, w.is)
      BY <1>3, <1>5, <2>1 DEF With
    <3>4. product'[p].version > product[p].version
      BY <2>1, <2>2, <3>1, <3>2, <3>3
    <3> QED
      BY <3>4 DEF Raised
  <2>3. CASE w.was.version # product[p].version
    BY <1>3, <1>5, <2>1, <2>3
  <2> QED
    BY <2>2, <2>3
<1> QED
  BY <1>4, <1>5

LEMMA VersionStep ==
  ASSUME FiscalInv, [Next]_vars, NEW p \in DOMAIN product
  PROVE  Raised(product[p], product'[p]) \/ p \in overtaken'
<1>0. TypeOK /\ product[p] \in Row
  BY DEF FiscalInv, TypeOK
<1>1. CASE UNCHANGED product
  BY <1>0, <1>1, RaisedOrSame
<1>2. CASE \E r \in Request : CommitProduct(r)
  BY <1>2, CommitRaises
<1>3. CASE \E q \in Product : Show(q)
  <2>1. PICK q \in Product : Show(q)
    BY <1>3
  <2>2. CASE p = q
    <3>1. product'[p] = [product[p] EXCEPT !.shown = ~@]
      BY <2>1, <2>2 DEF Show, With
    <3> QED
      BY <1>0, <3>1, ShownRow DEF Raised
  <2>3. CASE p # q
    <3>1. product'[p] = product[p]
      BY <2>1, <2>3 DEF Show, With
    <3> QED
      BY <1>0, <3>1, RaisedOrSame
  <2> QED
    BY <2>2, <2>3
<1>4. CASE \E q \in Product, v \in Price, offered \in BOOLEAN : ImportEurope(q, v, offered)
  <2>1. PICK q \in Product, v \in Price : ~Brazil /\ product' = With(product, q, [product[q] EXCEPT !.price = v])
    BY <1>4 DEF ImportEurope
  <2>2. CASE p = q
    <3>1. product'[p] = [product[p] EXCEPT !.price = v]
      BY <2>1, <2>2 DEF With
    <3> QED
      BY <1>0, <2>1, <3>1, PricedRow DEF Raised
  <2>3. CASE p # q
    <3>1. product'[p] = product[p]
      BY <2>1, <2>3 DEF With
    <3> QED
      BY <1>0, <3>1, RaisedOrSame
  <2> QED
    BY <2>2, <2>3
<1> QED
  BY <1>1, <1>2, <1>3, <1>4, BeginLeaves
     DEF Next, vars, tables, Commit, CommitGroup, CommitDropGroup, CommitType, CommitDropType

\* ChangesRaiseTheVersion: who compares source_version with the one it copied sees
\* every change of a product's type or state, and of its price in Brazil, but one
\* that another request's had overtaken.
THEOREM ChangesAlwaysRaise == Spec => ChangesRaiseTheVersion
<1>1. FiscalInv /\ [Next]_vars =>
        [\A p \in DOMAIN product :
           LET was == product[p]  is == product'[p] IN
           \/ is.type = was.type /\ is.active = was.active /\ (Brazil => is.price = was.price)
           \/ is.version > was.version
           \/ p \in overtaken']_vars
  BY VersionStep DEF Raised
<1> QED
  BY <1>1, FiscalStart, FiscalStep, PTL DEF Spec, ChangesRaiseTheVersion

-----------------------------------------------------------------------------
(* Optionals, categories and slots. *)

LEMMA FinishStart == Finish!Init => FinishInv /\ OptionalsFitTheirSlots
<1> SUFFICES ASSUME Finish!Init PROVE FinishInv /\ OptionalsFitTheirSlots
  OBVIOUS
<1>1. PICK C \in SUBSET Category, O \in SUBSET Optional, S \in SUBSET Slot :
        /\ code \in [C -> Code] /\ \A c, d \in C : code[c] = code[d] => c = d
        /\ kind \in [O -> Finish!Registered(code)]
        /\ slot \in [S -> [category : C, all : BOOLEAN, allowed : SUBSET O]]
  BY DEF Finish!Init
<1>2. /\ declared \in SUBSET Finish!Registered(code) /\ outrun = {} /\ edits = 0
      /\ Finish!Unfit(code, kind, slot, declared) = {}
      /\ work = [r \in Request |-> Finish!Idle]
  BY DEF Finish!Init
<1>3. Finish!Registered(code) \subseteq Code
  BY <1>1 DEF Finish!Registered
<1>4. Finish!TypeOK
  BY <1>1, <1>2, <1>3, EditsAssumption DEF Finish!TypeOK
<1> QED
  BY <1>2, <1>4 DEF FinishInv, SightOK, Finish!Idle, OptionalsFitTheirSlots, Finish!OptionalsFitTheirSlots

LEMMA SightIsKept ==
  ASSUME FinishInv, NEW r \in Request, NEW w, Finish!Starts(r, w), SightOK(w)
  PROVE  FinishInv' /\ UNCHANGED <<code, kind, slot, declared, outrun>>
<1>1. Finish!TypeOK' /\ UNCHANGED <<code, kind, slot, declared, outrun>>
  BY DEF FinishInv, Finish!Starts, Finish!tables, Finish!TypeOK, Finish!Registered
<1>2. DOMAIN work' = Request /\ \A q \in Request : work'[q] = IF q = r THEN w ELSE work[q]
  BY DEF FinishInv, Finish!Starts
<1>3. \A q \in Request : SightOK(work[q])
  BY DEF FinishInv
<1>4. \A q \in Request : SightOK(work'[q])
  BY <1>2, <1>3
<1> QED
  BY <1>1, <1>2, <1>4 DEF FinishInv, SightOK

LEMMA FinishBegins ==
  ASSUME FinishInv, NEW r \in Request, Finish!Begin(r)
  PROVE  FinishInv' /\ UNCHANGED <<code, kind, slot, declared, outrun>>
<1>0. Finish!TypeOK
  BY DEF FinishInv
<1>1. CASE \E o \in Optional, k \in Code : Finish!BeginCreateOptional(r, o, k) \/ Finish!BeginImportOptional(r, o, k)
  <2>1. PICK o \in Optional, k \in Code : Finish!BeginCreateOptional(r, o, k) \/ Finish!BeginImportOptional(r, o, k)
    BY <1>1
  <2>2. PICK w : /\ w \in {[op |-> x, on |-> o, to |-> k, saw |-> TRUE] : x \in {"create", "import"}}
                 /\ Finish!Starts(r, w)
    BY <2>1 DEF Finish!BeginCreateOptional, Finish!BeginImportOptional
  <2>3. PICK x \in {"create", "import"} : w = [op |-> x, on |-> o, to |-> k, saw |-> TRUE]
    BY <2>2
  <2>4. SightOK(w)
    BY <2>3 DEF SightOK
  <2> QED
    BY <2>2, <2>4, SightIsKept
<1>2. CASE \E o \in Optional, k \in Code : Finish!BeginMoveOptional(r, o, k)
  BY <1>2, SightIsKept DEF Finish!BeginMoveOptional, SightOK
<1>3. CASE \E o \in Optional : Finish!BeginDeleteOptional(r, o)
  BY <1>3, SightIsKept DEF Finish!BeginDeleteOptional, SightOK
<1>4. CASE \E c \in DOMAIN code : Finish!BeginDeleteCategory(r, c)
  BY <1>0, <1>4, SightIsKept DEF Finish!BeginDeleteCategory, SightOK, Finish!Reach, Finish!TypeOK
<1>5. CASE \E c \in DOMAIN code, k \in Code : Finish!BeginRename(r, c, k)
  BY <1>0, <1>5, SightIsKept DEF Finish!BeginRename, SightOK, Finish!Reach, Finish!TypeOK
<1>6. CASE \E a \in Slot, s \in [category : DOMAIN code, all : BOOLEAN, allowed : SUBSET DOMAIN kind] :
             Finish!BeginPutSlot(r, a, s)
  <2>1. PICK a \in Slot, s \in [category : DOMAIN code, all : BOOLEAN, allowed : SUBSET DOMAIN kind] :
          Finish!BeginPutSlot(r, a, s)
    BY <1>6
  <2>2. PICK sight : sight = Finish!Sight(a, s)
    OBVIOUS
  <2>3. s \in [category : Category, all : BOOLEAN, allowed : SUBSET Optional]
    BY <1>0, <2>1 DEF Finish!TypeOK
  <2>4. s.all \/ s.allowed # {}
    BY <2>1 DEF Finish!BeginPutSlot, Finish!Offers
  <2>5. \A o \in s.allowed : sight.kinds[o] = sight.sheds
    BY <2>1, <2>2 DEF Finish!BeginPutSlot, Finish!Offers, Finish!Fits, Finish!Sight
  <2>6. \A was \in sight.was : was.all \in BOOLEAN
    BY <1>0, <2>2 DEF Finish!TypeOK, Finish!Sight, Finish!Before
  <2>7. sight.names \subseteq Code
    BY <1>0, <2>2 DEF Finish!TypeOK, Finish!Sight
  <2>8. SightOK([op |-> "slot", on |-> a, is |-> s, saw |-> sight])
    BY <2>3, <2>4, <2>5, <2>6, <2>7 DEF SightOK
  <2> QED
    BY <2>1, <2>2, <2>8, SightIsKept DEF Finish!BeginPutSlot
<1>7. CASE \E names \in SUBSET Finish!Registered(code) : Finish!BeginDeclare(r, names)
  <2>1. PICK names \in SUBSET Finish!Registered(code) : Finish!BeginDeclare(r, names)
    BY <1>7
  <2>2. names \subseteq Code /\ names \cap Finish!Registered(code) = names
    BY <1>0, <2>1 DEF Finish!TypeOK
  <2>3. SightOK([op |-> "declare", names |-> names, saw |-> names])
    BY <2>2 DEF SightOK
  <2> QED
    BY <2>1, <2>2, <2>3, SightIsKept DEF Finish!BeginDeclare
<1> QED
  BY <1>1, <1>2, <1>3, <1>4, <1>5, <1>6, <1>7 DEF Finish!Begin

LEMMA TypedTables == Finish!TypeOK => TablesOK
  BY DEF Finish!TypeOK, TablesOK

\* What has a category, is declared or is on offer in the same way, fits as before.
LEMMA MisfitsKept ==
  ASSUME \A o \in DOMAIN kind' : kind'[o] \in Finish!Registered(code')
                                   \/ (o \in DOMAIN kind /\ kind[o] \notin Finish!Registered(code)),
         \A k \in declared' : k \in Finish!Registered(code')
                                \/ (k \in declared /\ k \notin Finish!Registered(code)),
         \A a \in DOMAIN slot' :
           \/ a \in DOMAIN slot /\ ~Finish!Filled(slot[a])
           \/ a \in DOMAIN slot /\ ~Finish!Fits(slot[a], code, kind)
           \/ Finish!Filled(slot'[a]) /\ Finish!Fits(slot'[a], code', kind')
  PROVE  Misfits' \subseteq Misfits
  BY DEF Misfits, Finish!Unfit

LEMMA WorkEnds ==
  ASSUME FinishInv, NEW r \in Request, work' = [work EXCEPT ![r] = Finish!Idle], Finish!TypeOK'
  PROVE  FinishInv'
<1>1. DOMAIN work' = Request /\ \A q \in Request : work'[q] = IF q = r THEN Finish!Idle ELSE work[q]
  BY DEF FinishInv
<1>2. SightOK(Finish!Idle)
  BY DEF SightOK, Finish!Idle
<1>3. \A q \in Request : SightOK(work[q])
  BY DEF FinishInv
<1>4. \A q \in Request : SightOK(work'[q])
  BY <1>1, <1>2, <1>3
<1> QED
  BY <1>1, <1>4 DEF FinishInv, SightOK

\* A commit that finds what was seen leaves no misfit; another is told of.
LEMMA CommitEnds ==
  ASSUME FinishInv, OptionalsFitTheirSlots, NEW r \in Request, NEW now, Finish!Ends(r, now),
         TablesOK', now = work[r].saw => Misfits' \subseteq Misfits
  PROVE  FinishInv' /\ OptionalsFitTheirSlots'
<1>1. /\ edits' = edits + 1 /\ edits < MaxEdits /\ work' = [work EXCEPT ![r] = Finish!Idle]
      /\ outrun' = IF now = work[r].saw THEN outrun ELSE outrun \cup Misfits'
  BY DEF Finish!Ends, Misfits
<1>2. Misfits \subseteq outrun /\ outrun \subseteq Optional \cup Code \cup Slot /\ edits \in 0 .. MaxEdits
  BY DEF FinishInv, Finish!TypeOK, OptionalsFitTheirSlots, Finish!OptionalsFitTheirSlots, Misfits
<1>3. Misfits' \subseteq outrun'
  BY <1>1, <1>2
<1>4. Misfits' \subseteq Optional \cup Code \cup Slot
  BY DEF Misfits, Finish!Unfit, TablesOK
<1>5. Finish!TypeOK'
  BY <1>1, <1>2, <1>4, EditsAssumption DEF TablesOK, Finish!TypeOK
<1>6. FinishInv'
  BY <1>1, <1>5, WorkEnds
<1> QED
  BY <1>3, <1>6 DEF OptionalsFitTheirSlots, Finish!OptionalsFitTheirSlots, Misfits

LEMMA Pairs ==
  ASSUME NEW b \in BOOLEAN, NEW S, <<b, S>> = <<TRUE, {}>>
  PROVE  b /\ S = {}
  OBVIOUS

LEMMA OptionalCommits ==
  ASSUME FinishInv, OptionalsFitTheirSlots, NEW r \in Request,
         Finish!CommitOptional(r) \/ Finish!CommitMoveOptional(r) \/ Finish!CommitDeleteOptional(r)
  PROVE  FinishInv' /\ OptionalsFitTheirSlots'
<1> DEFINE w == work[r]
<1>0. SightOK(w) /\ TablesOK
  BY TypedTables DEF FinishInv
<1>1. CASE Finish!CommitOptional(r)
  <2>1. w.to \in Code /\ w.on \in Optional \ DOMAIN kind /\ w.saw = TRUE
    BY <1>0, <1>1 DEF Finish!CommitOptional, SightOK
  <2>2. DOMAIN kind' = DOMAIN kind \cup {w.on} /\ \A o \in DOMAIN kind' : kind'[o] = IF o = w.on THEN w.to ELSE kind[o]
    BY <1>1 DEF Finish!CommitOptional, Finish!With
  <2>3. UNCHANGED <<code, slot, declared>> /\ Finish!Ends(r, w.to \in Finish!Registered(code))
    BY <1>1 DEF Finish!CommitOptional
  <2>4. TablesOK'
    BY <1>0, <2>1, <2>2, <2>3 DEF TablesOK, Finish!Registered
  <2>5. ASSUME w.to \in Finish!Registered(code) PROVE Misfits' \subseteq Misfits
    <3>1. \A a \in DOMAIN slot : Finish!Fits(slot[a], code, kind) => Finish!Fits(slot[a], code, kind')
      BY <1>0, <2>1, <2>2 DEF TablesOK, Finish!Fits
    <3> QED
      BY <2>2, <2>3, <2>5, <3>1, MisfitsKept
  <2> QED
    BY <2>1, <2>3, <2>4, <2>5, CommitEnds
<1>2. CASE Finish!CommitMoveOptional(r)
  <2>1. w.to \in Code /\ w.on \in DOMAIN kind /\ w.saw = <<TRUE, {}>>
    BY <1>0, <1>2 DEF Finish!CommitMoveOptional, SightOK
  <2>2. DOMAIN kind' = DOMAIN kind /\ \A o \in DOMAIN kind' : kind'[o] = IF o = w.on THEN w.to ELSE kind[o]
    BY <1>2, <2>1 DEF Finish!CommitMoveOptional, Finish!With
  <2>3. /\ UNCHANGED <<code, slot, declared>>
        /\ Finish!Ends(r, <<w.to \in Finish!Registered(code), Finish!Uses(w.on)>>)
    BY <1>2 DEF Finish!CommitMoveOptional
  <2>4. TablesOK'
    BY <1>0, <2>1, <2>2, <2>3 DEF TablesOK, Finish!Registered
  <2>5. ASSUME <<w.to \in Finish!Registered(code), Finish!Uses(w.on)>> = w.saw PROVE Misfits' \subseteq Misfits
    <3>a. <<w.to \in Finish!Registered(code), Finish!Uses(w.on)>> = <<TRUE, {}>>
      BY <2>1, <2>5, Zenon
    <3>b. (w.to \in Finish!Registered(code)) \in BOOLEAN
      OBVIOUS
    <3>1. w.to \in Finish!Registered(code) /\ Finish!Uses(w.on) = {}
      BY <3>a, <3>b, Pairs, Zenon
    <3>2. \A a \in DOMAIN slot : Finish!Fits(slot[a], code, kind) => Finish!Fits(slot[a], code, kind')
      BY <1>0, <2>2, <3>1 DEF TablesOK, Finish!Fits, Finish!Uses
    <3> QED
      BY <2>2, <2>3, <3>1, <3>2, MisfitsKept
  <2> QED
    BY <2>3, <2>4, <2>5, CommitEnds
<1>3. CASE Finish!CommitDeleteOptional(r)
  <2>1. w.on \in DOMAIN kind /\ w.saw = {}
    BY <1>0, <1>3 DEF Finish!CommitDeleteOptional, SightOK
  <2>2. DOMAIN kind' = DOMAIN kind \ {w.on} /\ \A o \in DOMAIN kind' : kind'[o] = kind[o]
    BY <1>3, <2>1 DEF Finish!CommitDeleteOptional, Finish!Without
  <2>3. /\ UNCHANGED <<code, declared>> /\ Finish!Ends(r, Finish!Uses(w.on))
        /\ slot' = Finish!Struck({w.on})
    BY <1>3 DEF Finish!CommitDeleteOptional
  <2>4. /\ DOMAIN slot' = DOMAIN slot
        /\ \A a \in DOMAIN slot : slot'[a] = [slot[a] EXCEPT !.allowed = @ \ {w.on}]
    BY <2>3 DEF Finish!Struck
  <2>5. \A a \in DOMAIN slot : slot'[a] \in [category : DOMAIN code, all : BOOLEAN, allowed : SUBSET DOMAIN kind']
    <3>1. SUFFICES ASSUME NEW a \in DOMAIN slot
                   PROVE  [slot[a] EXCEPT !.allowed = @ \ {w.on}]
                            \in [category : DOMAIN code, all : BOOLEAN, allowed : SUBSET DOMAIN kind']
      BY <2>4
    <3>2. slot[a] \in [category : DOMAIN code, all : BOOLEAN, allowed : SUBSET DOMAIN kind]
      BY <1>0 DEF TablesOK
    <3>3. slot[a].allowed \ {w.on} \in SUBSET DOMAIN kind'
      BY <2>2, <3>2
    <3> QED
      BY <3>2, <3>3
  <2>6. TablesOK'
    <3>1. DOMAIN kind' \subseteq Optional /\ \A o \in DOMAIN kind' : kind'[o] \in Code
      BY <1>0, <2>2 DEF TablesOK
    <3>2. UNCHANGED <<code, declared>> /\ UNCHANGED Finish!Registered(code)
      BY <2>3
    <3> QED
      BY <1>0, <2>4, <2>5, <3>1, <3>2 DEF TablesOK
  <2>7. ASSUME Finish!Uses(w.on) = w.saw PROVE Misfits' \subseteq Misfits
    <3>1. \A a \in DOMAIN slot : w.on \notin slot[a].allowed
      BY <2>1, <2>7 DEF Finish!Uses
    <3>2. \A a \in DOMAIN slot : slot'[a] = slot[a]
      <4>1. SUFFICES ASSUME NEW a \in DOMAIN slot PROVE [slot[a] EXCEPT !.allowed = @ \ {w.on}] = slot[a]
        BY <2>4
      <4>2. slot[a] \in [category : DOMAIN code, all : BOOLEAN, allowed : SUBSET DOMAIN kind]
        BY <1>0 DEF TablesOK
      <4>3. slot[a].allowed \ {w.on} = slot[a].allowed
        BY <3>1
      <4> QED
        BY <4>2, <4>3
    <3>3. \A a \in DOMAIN slot : Finish!Fits(slot[a], code, kind) => Finish!Fits(slot[a], code, kind')
      BY <1>0, <2>2, <3>1 DEF TablesOK, Finish!Fits
    <3> QED
      BY <2>2, <2>3, <2>4, <3>2, <3>3, MisfitsKept
  <2> QED
    BY <2>3, <2>6, <2>7, CommitEnds
<1> QED
  BY <1>1, <1>2, <1>3

LEMMA CategoryCommits ==
  ASSUME FinishInv, OptionalsFitTheirSlots, NEW r \in Request,
         Finish!CommitRename(r) \/ Finish!CommitDeleteCategory(r)
  PROVE  FinishInv' /\ OptionalsFitTheirSlots'
<1> DEFINE w == work[r]
           c == w.on
           S == w.saw.seen
<1>0. SightOK(w) /\ TablesOK
  BY TypedTables DEF FinishInv
<1>1. CASE Finish!CommitRename(r)
  <2>1. /\ w.to \in Code /\ c \in DOMAIN code /\ w.saw.names \subseteq Code
        /\ \A d \in DOMAIN code : code[d] = w.to => d = c
    BY <1>0, <1>1 DEF Finish!CommitRename, SightOK
  <2>2. DOMAIN code' = DOMAIN code /\ \A d \in DOMAIN code : code'[d] = IF d = c THEN w.to ELSE code[d]
    BY <1>1, <2>1 DEF Finish!CommitRename, Finish!With
  <2>3. DOMAIN kind' = DOMAIN kind /\ \A o \in DOMAIN kind : kind'[o] = IF o \in S THEN w.to ELSE kind[o]
    BY <1>1 DEF Finish!CommitRename, Finish!Recoded
  <2>4. /\ UNCHANGED slot /\ Finish!Ends(r, Finish!Reach(c))
        /\ declared' = IF w.saw.old \in w.saw.names THEN (w.saw.names \ {w.saw.old}) \cup {w.to} ELSE declared
    BY <1>1 DEF Finish!CommitRename, Finish!Declared
  <2>5. TablesOK'
    <3>1. Finish!Registered(code') \subseteq Code
      BY <1>0, <2>1, <2>2 DEF TablesOK, Finish!Registered
    <3>2. \A d, e \in DOMAIN code' : code'[d] = code'[e] => d = e
      BY <1>0, <2>1, <2>2 DEF TablesOK
    <3>3. declared' \subseteq Code /\ \A o \in DOMAIN kind' : kind'[o] \in Code
      BY <1>0, <2>1, <2>3, <2>4 DEF TablesOK
    <3> QED
      BY <1>0, <2>2, <2>3, <2>4, <3>1, <3>2, <3>3 DEF TablesOK
  <2>6. ASSUME Finish!Reach(c) = w.saw PROVE Misfits' \subseteq Misfits
    <3>1. w.saw.old = code[c] /\ S = Finish!Of(kind, code[c]) /\ w.saw.names = declared
      BY <2>6 DEF Finish!Reach
    <3>2. w.to \in Finish!Registered(code')
      BY <2>1, <2>2 DEF Finish!Registered
    <3>3. \A k \in Finish!Registered(code) : k = code[c] \/ k \in Finish!Registered(code')
      BY <2>2 DEF Finish!Registered
    <3>4. code[c] \in Finish!Registered(code)
      BY <2>1 DEF Finish!Registered
    <3>5. \A o \in DOMAIN kind : kind'[o] = IF kind[o] = code[c] THEN w.to ELSE kind[o]
      BY <2>3, <3>1 DEF Finish!Of
    <3>6. ASSUME NEW a \in DOMAIN slot, Finish!Fits(slot[a], code, kind)
          PROVE  Finish!Fits(slot[a], code', kind')
      <4>1. slot[a].category \in DOMAIN code /\ slot[a].allowed \subseteq DOMAIN kind
        BY <1>0 DEF TablesOK
      <4>2. slot[a].category # c => code[slot[a].category] # code[c]
        BY <1>0, <2>1, <4>1 DEF TablesOK
      <4> QED
        BY <2>2, <3>5, <3>6, <4>1, <4>2 DEF Finish!Fits
    <3>7. \A k \in declared' : k \in Finish!Registered(code')
                                 \/ (k \in declared /\ k \notin Finish!Registered(code))
      BY <2>4, <3>1, <3>2, <3>3
    <3>8. \A o \in DOMAIN kind' : kind'[o] \in Finish!Registered(code')
                                    \/ (o \in DOMAIN kind /\ kind[o] \notin Finish!Registered(code))
      BY <2>3, <3>2, <3>3, <3>5
    <3> QED
      BY <2>4, <3>6, <3>7, <3>8, MisfitsKept
  <2> QED
    BY <2>4, <2>5, <2>6, CommitEnds
<1>2. CASE Finish!CommitDeleteCategory(r)
  <2>1. /\ c \in DOMAIN code /\ w.saw.names \subseteq Code
        /\ \A a \in DOMAIN slot : slot[a].category # c
    BY <1>0, <1>2 DEF Finish!CommitDeleteCategory, SightOK
  <2>2. DOMAIN code' = DOMAIN code \ {c} /\ \A d \in DOMAIN code' : code'[d] = code[d]
    BY <1>2 DEF Finish!CommitDeleteCategory, Finish!Without
  <2>3. DOMAIN kind' = DOMAIN kind \ S /\ \A o \in DOMAIN kind' : kind'[o] = kind[o]
    BY <1>2 DEF Finish!CommitDeleteCategory, Finish!Without
  <2>4. /\ DOMAIN slot' = DOMAIN slot
        /\ \A a \in DOMAIN slot : slot'[a] = [slot[a] EXCEPT !.allowed = @ \ S]
    BY <1>2 DEF Finish!CommitDeleteCategory, Finish!Struck
  <2>5. /\ Finish!Ends(r, Finish!Reach(c))
        /\ declared' = IF w.saw.old \in w.saw.names THEN (w.saw.names \ {w.saw.old}) \cup {} ELSE declared
    BY <1>2 DEF Finish!CommitDeleteCategory, Finish!Declared
  <2>6. TablesOK'
    <3>1. Finish!Registered(code') \subseteq Code
      BY <1>0, <2>2 DEF TablesOK, Finish!Registered
    <3>2. \A d, e \in DOMAIN code' : code'[d] = code'[e] => d = e
      BY <1>0, <2>2 DEF TablesOK
    <3>3. declared' \subseteq Code /\ \A o \in DOMAIN kind' : kind'[o] \in Code
      BY <1>0, <2>1, <2>3, <2>5 DEF TablesOK
    <3>4. ASSUME NEW a \in DOMAIN slot
          PROVE  slot'[a] \in [category : DOMAIN code', all : BOOLEAN, allowed : SUBSET DOMAIN kind']
      <4>1. slot[a] \in [category : DOMAIN code, all : BOOLEAN, allowed : SUBSET DOMAIN kind]
        BY <1>0 DEF TablesOK
      <4>2. slot[a].category \in DOMAIN code'
        BY <2>1, <2>2, <4>1
      <4>3. slot[a].allowed \ S \in SUBSET DOMAIN kind'
        BY <2>3, <4>1
      <4> QED
        BY <2>4, <4>1, <4>2, <4>3
    <3> QED
      BY <1>0, <2>2, <2>3, <2>4, <3>1, <3>2, <3>3, <3>4 DEF TablesOK
  <2>7. ASSUME Finish!Reach(c) = w.saw PROVE Misfits' \subseteq Misfits
    <3>1. w.saw.old = code[c] /\ S = Finish!Of(kind, code[c]) /\ w.saw.names = declared
      BY <2>7 DEF Finish!Reach
    <3>2. \A k \in Finish!Registered(code) : k = code[c] \/ k \in Finish!Registered(code')
      BY <2>2 DEF Finish!Registered
    <3>3. code[c] \in Finish!Registered(code)
      BY <2>1 DEF Finish!Registered
    <3>4. ASSUME NEW a \in DOMAIN slot, Finish!Filled(slot[a]), Finish!Fits(slot[a], code, kind)
          PROVE  Finish!Filled(slot'[a]) /\ Finish!Fits(slot'[a], code', kind')
      <4>1. slot[a] \in [category : DOMAIN code, all : BOOLEAN, allowed : SUBSET DOMAIN kind]
        BY <1>0 DEF TablesOK
      <4>2. code[slot[a].category] # code[c]
        BY <1>0, <2>1, <4>1 DEF TablesOK
      <4>3. slot[a].allowed \cap S = {}
        BY <3>1, <3>4, <4>2 DEF Finish!Fits, Finish!Of
      <4>4. slot[a].allowed \ S = slot[a].allowed
        BY <4>3
      <4>a. [slot[a] EXCEPT !.allowed = @ \ S] = slot[a]
        <5> HIDE DEF S
        <5> QED
          BY <4>1, <4>4
      <4>5. slot'[a] = slot[a]
        BY <2>4, <4>a
      <4>6. slot[a].category \in DOMAIN code' /\ slot[a].allowed \subseteq DOMAIN kind'
        BY <2>1, <2>2, <2>3, <4>1, <4>3
      <4> QED
        BY <2>2, <2>3, <3>4, <4>5, <4>6 DEF Finish!Fits
    <3>5. \A k \in declared' : k \in Finish!Registered(code')
                                 \/ (k \in declared /\ k \notin Finish!Registered(code))
      BY <2>5, <3>1, <3>2
    <3>6. \A o \in DOMAIN kind' : kind'[o] \in Finish!Registered(code')
                                    \/ (o \in DOMAIN kind /\ kind[o] \notin Finish!Registered(code))
      BY <2>3, <3>1, <3>2 DEF Finish!Of
    <3> QED
      BY <2>4, <3>4, <3>5, <3>6, MisfitsKept
  <2> QED
    BY <2>5, <2>6, <2>7, CommitEnds
<1> QED
  BY <1>1, <1>2

LEMMA ProductCommits ==
  ASSUME FinishInv, OptionalsFitTheirSlots, NEW r \in Request,
         Finish!CommitPutSlot(r) \/ Finish!CommitDeclare(r)
  PROVE  FinishInv' /\ OptionalsFitTheirSlots'
<1> DEFINE w == work[r]
           a == w.on
<1>0. SightOK(w) /\ TablesOK
  BY TypedTables DEF FinishInv
<1>1. CASE Finish!CommitPutSlot(r)
  <2>1. /\ a \in Slot /\ w.is \in [category : Category, all : BOOLEAN, allowed : SUBSET Optional]
        /\ w.is.all \/ w.is.allowed # {}
        /\ \A o \in w.is.allowed : w.saw.kinds[o] = w.saw.sheds
        /\ \A was \in w.saw.was : was.all \in BOOLEAN
        /\ w.saw.names \subseteq Code
    BY <1>0, <1>1 DEF Finish!CommitPutSlot, SightOK
  <2>2. /\ w.is.category \in DOMAIN code /\ w.is.allowed \subseteq DOMAIN kind
        /\ a \in DOMAIN slot <=> w.saw.was # {}
    BY <1>1 DEF Finish!CommitPutSlot, Finish!Writable
  <2>3. PICK is : /\ is \in IF w.saw.was = {} THEN {w.is} ELSE {Finish!Merged(slot[a], was, w.is) : was \in w.saw.was}
                  /\ slot' = Finish!With(slot, a, is)
    BY <1>1 DEF Finish!CommitPutSlot
  <2>4. /\ declared' = IF w.saw.sheds \in w.saw.names THEN w.saw.names \ {w.saw.sheds} ELSE declared
        /\ UNCHANGED <<code, kind>> /\ Finish!Ends(r, Finish!Sight(a, w.is))
    BY <1>1 DEF Finish!CommitPutSlot
  <2>5. DOMAIN slot' = DOMAIN slot \cup {a} /\ \A b \in DOMAIN slot' : slot'[b] = IF b = a THEN is ELSE slot[b]
    BY <2>3 DEF Finish!With
  <2>6. is \in [category : DOMAIN code, all : BOOLEAN, allowed : SUBSET DOMAIN kind]
    <3>1. CASE w.saw.was = {}
      BY <2>1, <2>2, <2>3, <3>1
    <3>2. CASE w.saw.was # {}
      <4>1. PICK was \in w.saw.was : is = Finish!Merged(slot[a], was, w.is)
        BY <2>3, <3>2
      <4>2. slot[a] \in [category : DOMAIN code, all : BOOLEAN, allowed : SUBSET DOMAIN kind]
        BY <1>0, <2>2, <3>2 DEF TablesOK
      <4> QED
        BY <2>1, <2>2, <4>1, <4>2 DEF Finish!Merged
    <3> QED
      BY <3>1, <3>2
  <2>7. TablesOK'
    <3>1. declared' \subseteq Code
      BY <1>0, <2>1, <2>4 DEF TablesOK
    <3>2. \A b \in DOMAIN slot' : slot'[b] \in [category : DOMAIN code, all : BOOLEAN, allowed : SUBSET DOMAIN kind]
      BY <1>0, <2>5, <2>6 DEF TablesOK
    <3> QED
      BY <1>0, <2>1, <2>4, <2>5, <3>1, <3>2 DEF TablesOK, Finish!Registered
  <2>8. ASSUME Finish!Sight(a, w.is) = w.saw PROVE Misfits' \subseteq Misfits
    <3>1. /\ w.saw.was = Finish!Before(a) /\ w.saw.names = declared /\ w.saw.sheds = code[w.is.category]
          /\ w.saw.kinds = [o \in w.is.allowed |-> kind[o]]
      BY <2>8 DEF Finish!Sight
    <3>2. is = w.is
      <4>1. CASE w.saw.was = {}
        BY <2>3, <4>1
      <4>2. CASE w.saw.was # {}
        <5>1. w.saw.was = {slot[a]}
          BY <2>2, <3>1, <4>2 DEF Finish!Before
        <5>2. is = Finish!Merged(slot[a], slot[a], w.is)
          BY <2>3, <4>2, <5>1
        <5>3. is.category = w.is.category /\ is.all = w.is.all /\ is.allowed = w.is.allowed
          BY <5>2 DEF Finish!Merged
        <5> QED
          BY <2>1, <2>6, <5>3
      <4> QED
        BY <4>1, <4>2
    <3>3. Finish!Filled(is) /\ Finish!Fits(is, code, kind)
      BY <2>1, <3>1, <3>2 DEF Finish!Filled, Finish!Fits
    <3>4. declared' \subseteq declared
      BY <2>4, <3>1
    <3> QED
      BY <2>4, <2>5, <3>3, <3>4, MisfitsKept
  <2> QED
    BY <2>4, <2>7, <2>8, CommitEnds
<1>2. CASE Finish!CommitDeclare(r)
  <2>1. w.names \subseteq Code /\ w.saw = w.names
    BY <1>0, <1>2 DEF Finish!CommitDeclare, SightOK
  <2>2. /\ declared' = w.names /\ UNCHANGED <<code, kind, slot>>
        /\ Finish!Ends(r, w.names \cap Finish!Registered(code))
    BY <1>2 DEF Finish!CommitDeclare
  <2>3. TablesOK'
    BY <1>0, <2>1, <2>2 DEF TablesOK, Finish!Registered
  <2>4. w.names \cap Finish!Registered(code) = w.saw => Misfits' \subseteq Misfits
    BY <2>1, <2>2, MisfitsKept
  <2> QED
    BY <2>2, <2>3, <2>4, CommitEnds
<1> QED
  BY <1>1, <1>2

LEMMA FinishStep ==
  FinishInv /\ OptionalsFitTheirSlots /\ [Finish!Next]_Finish!vars => (FinishInv /\ OptionalsFitTheirSlots)'
<1> SUFFICES ASSUME FinishInv, OptionalsFitTheirSlots, [Finish!Next]_Finish!vars
             PROVE  (FinishInv /\ OptionalsFitTheirSlots)'
  OBVIOUS
<1>0. Finish!TypeOK /\ TablesOK /\ Misfits \subseteq outrun
  BY TypedTables DEF FinishInv, OptionalsFitTheirSlots, Finish!OptionalsFitTheirSlots, Misfits
<1>1. CASE \E r \in Request : Finish!Begin(r)
  BY <1>1, FinishBegins DEF OptionalsFitTheirSlots, Finish!OptionalsFitTheirSlots
<1>2. CASE \E r \in Request : Finish!Commit(r)
  BY <1>2, OptionalCommits, CategoryCommits, ProductCommits DEF Finish!Commit
<1>3. CASE \E r \in Request : Finish!Abort(r)
  <2>1. PICK r \in Request : work' = [work EXCEPT ![r] = Finish!Idle]
    BY <1>3 DEF Finish!Abort
  <2>2. UNCHANGED <<code, kind, slot, declared, outrun, edits>>
    BY <1>3 DEF Finish!Abort, Finish!tables
  <2>3. Finish!TypeOK'
    BY <1>0, <2>2 DEF Finish!TypeOK, Finish!Registered
  <2> QED
    BY <2>1, <2>2, <2>3, WorkEnds DEF OptionalsFitTheirSlots, Finish!OptionalsFitTheirSlots
<1>4. CASE \E c \in Category, k \in Code : Finish!CreateCategory(c, k)
  <2>1. PICK c \in Category, k \in Code : Finish!CreateCategory(c, k)
    BY <1>4
  <2>2. /\ c \notin DOMAIN code /\ k \notin Finish!Registered(code)
        /\ DOMAIN code' = DOMAIN code \cup {c}
        /\ \A d \in DOMAIN code' : code'[d] = IF d = c THEN k ELSE code[d]
        /\ UNCHANGED <<kind, slot, declared, work, outrun>> /\ edits' \in 0 .. MaxEdits
    BY <1>0, <2>1, EditsAssumption DEF Finish!CreateCategory, Finish!With, Finish!TypeOK
  <2>3. Finish!Registered(code') = Finish!Registered(code) \cup {k}
    BY <2>2 DEF Finish!Registered
  <2>4. \A d, e \in DOMAIN code' : code'[d] = code'[e] => d = e
    BY <1>0, <2>2 DEF TablesOK, Finish!Registered
  <2>5. Finish!TypeOK'
    BY <1>0, <2>2, <2>3, <2>4 DEF Finish!TypeOK
  <2>6. \A a \in DOMAIN slot : Finish!Fits(slot[a], code, kind) => Finish!Fits(slot[a], code', kind)
    BY <1>0, <2>2 DEF TablesOK, Finish!Fits
  <2>7. Misfits' \subseteq Misfits
    BY <2>2, <2>3, <2>6, MisfitsKept
  <2> QED
    BY <1>0, <2>2, <2>5, <2>7 DEF FinishInv, SightOK, OptionalsFitTheirSlots, Finish!OptionalsFitTheirSlots, Misfits
<1>5. CASE \E a \in Slot : Finish!RemoveSlot(a)
  <2>1. PICK a \in Slot : Finish!RemoveSlot(a)
    BY <1>5
  <2>2. /\ DOMAIN slot' = DOMAIN slot \ {a} /\ \A b \in DOMAIN slot' : slot'[b] = slot[b]
        /\ UNCHANGED <<code, kind, declared, work, outrun>> /\ edits' \in 0 .. MaxEdits
    BY <1>0, <2>1, EditsAssumption DEF Finish!RemoveSlot, Finish!Without, Finish!TypeOK
  <2>3. Finish!TypeOK'
    BY <1>0, <2>2 DEF Finish!TypeOK, Finish!Registered
  <2>4. Misfits' \subseteq Misfits
    BY <2>2, MisfitsKept
  <2> QED
    BY <1>0, <2>2, <2>3, <2>4 DEF FinishInv, SightOK, OptionalsFitTheirSlots, Finish!OptionalsFitTheirSlots, Misfits
<1>6. CASE UNCHANGED Finish!vars
  <2>1. UNCHANGED <<code, kind, slot, declared, work, outrun, edits>>
    BY <1>6 DEF Finish!vars, Finish!tables
  <2>2. Finish!TypeOK'
    BY <1>0, <2>1 DEF Finish!TypeOK, Finish!Registered
  <2> QED
    BY <2>1, <2>2 DEF FinishInv, SightOK, OptionalsFitTheirSlots, Finish!OptionalsFitTheirSlots
<1> QED
  BY <1>1, <1>2, <1>3, <1>4, <1>5, <1>6 DEF Finish!Next

\* The tables of optionals, categories and slots are well formed.
THEOREM FinishTypes == Finish!Spec => []Finish!TypeOK
<1>1. FinishInv => Finish!TypeOK
  BY DEF FinishInv
<1> QED
  BY <1>1, FinishStart, FinishStep, PTL DEF Finish!Spec

\* OptionalsFitTheirSlots: whatever is edited beside it, a code without category,
\* a slot that offers what is not of its category and a list that ran empty come
\* only from a commit that another had overtaken.
THEOREM OptionalsAlwaysFit == Finish!Spec => []OptionalsFitTheirSlots
  BY FinishStart, FinishStep, PTL DEF Finish!Spec

=============================================================================
