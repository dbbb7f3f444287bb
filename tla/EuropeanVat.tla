------------------------------ MODULE EuropeanVat ------------------------------
(***************************************************************************)
(* The VAT of European products: the rate of a row of product_markets, who *)
(* approved it, and what the items of an order are charged.  A decision on *)
(* one product loads the row, locks nothing, and writes the attributes     *)
(* whose value it changed; imports and decisions on a group write whole    *)
(* rows in one statement.                                                  *)
(***************************************************************************)
EXTENDS Naturals, FiniteSets

CONSTANTS
  Product,   \* products of the market EU
  Group,     \* its product groups; the type of a product belongs to one or to none
  Rate,      \* rates of VAT
  User,      \* users with can_approve_tax in the market EU
  Request,   \* requests that can be open at once
  None       \* no group, no rate, no approver

VARIABLES
  row,       \* the row of product_markets of each product created so far
  enabled,   \* markets.is_enabled of the market EU
  req,       \* what each open request has read, and the item it invoiced
  signature, \* who approved which rate of each product, as last decided
  overtaken  \* products whose row the last decision left other than it decided

vars == <<row, enabled, req, signature, overtaken>>
ghosts == <<signature, overtaken>>

-----------------------------------------------------------------------------

Row == [group : Group \cup {None}, active : BOOLEAN, available : BOOLEAN,
        rate : Rate \cup {None}, status : {"pending", "approved", "rejected"},
        by : User \cup {None}, dated : BOOLEAN]

\* A row as _create_product_for_market adds it, in the group of its type.
New(g) == [group |-> g, active |-> TRUE, available |-> TRUE,
           rate |-> None, status |-> "pending", by |-> None, dated |-> FALSE]

\* ck_product_markets_vat_approval
Allowed(x) ==
  IF x.status = "approved" THEN x.rate # None /\ x.by # None /\ x.dated
                           ELSE x.by = None /\ ~x.dated

Known == DOMAIN row
Sellable(p) == row[p].active /\ row[p].available
Approved(p) == row[p].status = "approved" /\ row[p].rate # None

Idle == [op |-> "idle"]
Starts(r, work) == req[r] = Idle /\ req' = [req EXCEPT ![r] = work]
Ends(r) == req' = [req EXCEPT ![r] = Idle]

Init ==
  /\ row = [p \in {} |-> New(None)] /\ enabled = FALSE
  /\ req = [r \in Request |-> Idle]
  /\ signature = [p \in Product |-> None] /\ overtaken = {}

-----------------------------------------------------------------------------
(* The catalogue. *)

Create(p, g) ==
  /\ p \notin Known
  /\ row' = [q \in Known \cup {p} |-> IF q = p THEN New(g) ELSE row[q]]
  /\ UNCHANGED <<enabled, req, ghosts>>

\* A product that changes its type may change its group; its VAT stays.
ChangeType(p, g) ==
  /\ p \in Known /\ Sellable(p)
  /\ row' = [row EXCEPT ![p].group = g]
  /\ UNCHANGED <<enabled, req, ghosts>>

Delete(p) ==
  /\ p \in Known /\ Sellable(p)
  /\ row' = [row EXCEPT ![p].active = FALSE, ![p].available = FALSE]
  /\ UNCHANGED <<enabled, req, ghosts>>

Imported(x, rate, available) ==
  [x EXCEPT !.rate = rate, !.status = "pending", !.by = None, !.dated = FALSE,
            !.available = available]

\* import_europe_catalog, of one line: it asks that the product exists, deleted or not.
Import(p, rate, available) ==
  /\ p \in Known
  /\ row' = [row EXCEPT ![p] = Imported(@, rate, available)]
  /\ signature' = [signature EXCEPT ![p] = None] /\ overtaken' = overtaken \ {p}
  /\ UNCHANGED <<enabled, req>>

-----------------------------------------------------------------------------
(* Decisions. *)

Vat(x) == [rate |-> x.rate, status |-> x.status, by |-> x.by, dated |-> x.dated]

\* What a decision makes of the VAT it loaded.
Decided(vat, status, rate, u) ==
  IF status = "approved"
    THEN [rate |-> rate, status |-> status, by |-> u, dated |-> TRUE]
    ELSE [rate |-> IF rate = None THEN vat.rate ELSE rate,
          status |-> status, by |-> None, dated |-> FALSE]

\* An UPDATE names the attributes that differ from what was loaded; approved_at is now.
Written(loaded, wanted) ==
  {f \in DOMAIN loaded : loaded[f] # wanted[f]} \cup {f \in {"dated"} : wanted.dated}
Merged(x, loaded, wanted) ==
  [f \in DOMAIN x |-> IF f \in Written(loaded, wanted) THEN wanted[f] ELSE x[f]]

BeginDecision(r, p, status, rate, u) ==
  /\ p \in Known
  /\ status = "approved" => rate # None
  /\ Starts(r, [op |-> "decide", product |-> p, loaded |-> Vat(row[p]),
                wanted |-> Decided(Vat(row[p]), status, rate, u)])
  /\ UNCHANGED <<row, enabled, ghosts>>

Signature(vat) == IF vat.status = "approved" THEN [rate |-> vat.rate, by |-> vat.by] ELSE None

\* _apply_vat_decision commits; the constraint refuses a row that is half approved.
CommitDecision(r) ==
  /\ req[r].op = "decide"
  /\ LET p == req[r].product
         wanted == req[r].wanted
         x == Merged(row[p], req[r].loaded, wanted)
     IN IF Allowed(x)
          THEN /\ row' = [row EXCEPT ![p] = x]
               /\ signature' = [signature EXCEPT ![p] = Signature(wanted)]
               /\ overtaken' = IF Vat(x) = wanted THEN overtaken \ {p}
                                                  ELSE overtaken \cup {p}
          ELSE UNCHANGED <<row, ghosts>>
  /\ Ends(r)
  /\ UNCHANGED enabled

GroupOf(g) == {p \in Known : row[p].group = g /\ Sellable(p)}

\* Faulty: the approval is written without its author and date.
ApproveGroupUnnamed(g, rate, u) ==
  /\ row' = [p \in Known |->
       IF p \in GroupOf(g) THEN [row[p] EXCEPT !.rate = rate, !.status = "approved"] ELSE row[p]]
  /\ signature' = [p \in Product |->
       IF p \in GroupOf(g) THEN [rate |-> rate, by |-> u] ELSE signature[p]]
  /\ overtaken' = overtaken \ GroupOf(g)
  /\ UNCHANGED <<enabled, req>>

\* approve_europe_group_vat: one UPDATE of the products of the group.
ApproveGroup(g, rate, u) ==
  /\ row' = [p \in Known |->
       IF p \in GroupOf(g)
         THEN [row[p] EXCEPT !.rate = rate, !.status = "approved", !.by = u, !.dated = TRUE]
         ELSE row[p]]
  /\ signature' = [p \in Product |->
       IF p \in GroupOf(g) THEN [rate |-> rate, by |-> u] ELSE signature[p]]
  /\ overtaken' = overtaken \ GroupOf(g)
  /\ UNCHANGED <<enabled, req>>

-----------------------------------------------------------------------------
(* The market and its orders. *)

Available == {p \in Known : row[p].available}

\* activate_europe counts the available products in one statement ...
BeginActivation(r) ==
  /\ Available # {}
  /\ Starts(r, [op |-> "activate"])
  /\ UNCHANGED <<row, enabled, ghosts>>

\* ... and those without an approved VAT in a later one; 409 changes nothing.
CommitActivation(r) ==
  /\ req[r].op = "activate"
  /\ enabled' = (enabled \/ \A p \in Available : Approved(p))
  /\ Ends(r)
  /\ UNCHANGED <<row, ghosts>>

Deactivate ==
  /\ enabled' = FALSE
  /\ UNCHANGED <<row, req, ghosts>>

\* A request on an order loads the products and their types, and which are available, ...
BeginOrder(r, p) ==
  /\ enabled /\ p \in Known /\ Sellable(p)
  /\ Starts(r, [op |-> "order", product |-> p, group |-> row[p].group])
  /\ UNCHANGED <<row, enabled, ghosts>>

\* What was signed for the rates of some products, those aside that a race has changed.
Signatures(ps) == {signature[p] : p \in ps \ overtaken}

\* ... then the VAT of each, ...
ReadVat(r) ==
  /\ req[r].op = "order"
  /\ LET p == req[r].product
     IN req' = [req EXCEPT ![r] =
          [op |-> "priced", product |-> p, group |-> req[r].group,
           rate |-> row[p].rate, status |-> row[p].status, signatures |-> Signatures({p})]]
  /\ UNCHANGED <<row, enabled, ghosts>>

\* The rates of the approved products of a group.
Approvers(g) == {p \in GroupOf(g) : g # None /\ Approved(p)}
GroupRates(g) == {row[p].rate : p \in Approvers(g)}

Invoiced(rate, signatures) == [op |-> "invoiced", rate |-> rate, signatures |-> signatures]

\* Faulty: any rate of the group will do.
ResolvedByAny(w) ==
  IF w.status = "approved" /\ w.rate # None
    THEN {Invoiced(w.rate, w.signatures)}
    ELSE {Invoiced(x, Signatures(Approvers(w.group))) : x \in GroupRates(w.group)}

\* _resolve_eu_vat: the product's own rate, or the one its group agrees on.
Resolved(w) ==
  IF w.status = "approved" /\ w.rate # None
    THEN {Invoiced(w.rate, w.signatures)}
    ELSE {Invoiced(x, Signatures(Approvers(w.group))) :
            x \in {y \in GroupRates(w.group) : GroupRates(w.group) = {y}}}

\* ... then the rates of its group, and writes the item or answers 422.
CommitOrder(r) ==
  /\ req[r].op = "priced"
  /\ IF Resolved(req[r]) = {} THEN Ends(r)
       ELSE \E work \in Resolved(req[r]) : req' = [req EXCEPT ![r] = work]
  /\ UNCHANGED <<row, enabled, ghosts>>

Answer(r) ==
  /\ req[r].op = "invoiced"
  /\ Ends(r)
  /\ UNCHANGED <<row, enabled, ghosts>>

-----------------------------------------------------------------------------

Next ==
  \/ \E p \in Product, g \in Group \cup {None} : Create(p, g) \/ ChangeType(p, g)
  \/ \E p \in Product : Delete(p)
  \/ \E p \in Product, rate \in Rate, available \in BOOLEAN : Import(p, rate, available)
  \/ \E g \in Group, rate \in Rate, u \in User : ApproveGroup(g, rate, u)
  \/ \E r \in Request, p \in Product, u \in User, rate \in Rate \cup {None} :
       \E status \in {"pending", "approved", "rejected"} :
         BeginDecision(r, p, status, rate, u)
  \/ \E r \in Request : CommitDecision(r)
  \/ \E r \in Request : BeginActivation(r) \/ CommitActivation(r)
  \/ Deactivate
  \/ \E r \in Request, p \in Product : BeginOrder(r, p)
  \/ \E r \in Request : ReadVat(r) \/ CommitOrder(r) \/ Answer(r)

Spec == Init /\ [][Next]_vars

-----------------------------------------------------------------------------

Approval == [rate : Rate, by : User]
VatRow == [rate : Rate \cup {None}, status : {"pending", "approved", "rejected"},
           by : User \cup {None}, dated : BOOLEAN]
Requests ==
  {Idle, [op |-> "activate"]}
    \cup [op : {"decide"}, product : Product, loaded : VatRow, wanted : VatRow]
    \cup [op : {"order"}, product : Product, group : Group \cup {None}]
    \cup [op : {"priced"}, product : Product, group : Group \cup {None},
          rate : Rate \cup {None}, status : {"pending", "approved", "rejected"},
          signatures : SUBSET (Approval \cup {None})]
    \cup [op : {"invoiced"}, rate : Rate, signatures : SUBSET (Approval \cup {None})]

\* The state has its shape, and every row is approved in whole or not at all.
TypeOK ==
  /\ Known \subseteq Product /\ \A p \in Known : row[p] \in Row /\ Allowed(row[p])
  /\ enabled \in BOOLEAN
  /\ \A r \in Request : req[r] \in Requests
  /\ signature \in [Product -> Approval \cup {None}] /\ overtaken \subseteq Known

(* The VAT of every item of an order is a rate that somebody had approved   *)
(* for the product, or for every product of its group that has an approval, *)
(* although the product, its own VAT and the rates of its group are read in *)
(* three statements between which all of them may change.  Rows a decision  *)
(* has left other than it decided (overtaken) are not asked about.          *)
InvoicedRatesWereSigned ==
  \A r \in Request : req[r].op = "invoiced" =>
    \A s \in req[r].signatures : s # None /\ s.rate = req[r].rate
=============================================================================
