----------------------------- MODULE OptionalSlots -----------------------------
(***************************************************************************)
(* The finishes a product can be ordered with.  Categories have a code;    *)
(* optionals (fabrics, woods) hold the code of theirs as text; a product   *)
(* declares codes, or has slots (applications) that refer to a category by *)
(* id and offer all its optionals or a list of them.  The links by text    *)
(* are kept by the handlers alone.  A request reads and checks, and then   *)
(* commits what it decided; nothing it read is locked.  One market and one *)
(* product, the slots of its components included.                          *)
(***************************************************************************)
EXTENDS Naturals, FiniteSets

CONSTANTS
  Category, Code, Optional, Slot,   \* optional_categories, their codes, optionals, applications
  Request,                          \* requests that can be open at once
  MaxCommits                        \* bound on the changes of a behaviour

VARIABLES
  code,       \* the code of each category there is
  kind,       \* optionals.category: a code, for each optional there is
  slot,       \* category, allow_all and allowed_optionals of each slot there is
  declared,   \* the product's all_optionals_categories
  req,        \* what each open request has read and is about to write
  overtaken,  \* ghost: what no longer fitted after a commit whose check had gone stale
  commits

tables == <<code, kind, slot, declared>>
vars == <<tables, req, overtaken, commits>>

-----------------------------------------------------------------------------

\* f with the entry x |-> v, and f without the entries of S.
With(f, x, v) == [y \in DOMAIN f \cup {x} |-> IF y = x THEN v ELSE f[y]]
Without(f, S) == [y \in DOMAIN f \ S |-> f[y]]

Registered(codes) == {codes[c] : c \in DOMAIN codes}
Of(kinds, k) == {o \in DOMAIN kinds : kinds[o] = k}
Uses(o) == {a \in DOMAIN slot : o \in slot[a].allowed}

Filled(s) == s.all \/ s.allowed # {}
Fits(s, codes, kinds) == \A o \in s.allowed : kinds[o] = codes[s.category]

\* What keeps a market from being activated: an optional or a declared code
\* without category, and a slot that offers what is not of its category. A slot
\* with a list that ran empty is added to them.
Unfit(codes, kinds, slots, names) ==
  {o \in DOMAIN kinds : kinds[o] \notin Registered(codes)}
    \cup (names \ Registered(codes))
    \cup {a \in DOMAIN slots : ~Filled(slots[a]) \/ ~Fits(slots[a], codes, kinds)}

Idle == [op |-> "idle"]
Starts(r, work) ==
  /\ commits < MaxCommits
  /\ req[r] = Idle /\ req' = [req EXCEPT ![r] = work]
  /\ UNCHANGED <<tables, overtaken, commits>>

\* The commit of r, when what it looked at is `now'. If that is what it saw it
\* may leave nothing unfit.
Ends(r, now) ==
  /\ commits < MaxCommits /\ commits' = commits + 1
  /\ req' = [req EXCEPT ![r] = Idle]
  /\ overtaken' = IF now = req[r].saw THEN overtaken
                  ELSE overtaken \cup Unfit(code', kind', slot', declared')

\* The catalogue as requests one at a time leave it.
Init ==
  /\ \E C \in SUBSET Category, O \in SUBSET Optional, S \in SUBSET Slot :
       /\ code \in [C -> Code] /\ \A c, d \in C : code[c] = code[d] => c = d
       /\ kind \in [O -> Registered(code)]
       /\ slot \in [S -> [category : C, all : BOOLEAN, allowed : SUBSET O]]
  /\ \A a \in DOMAIN slot : slot[a].all => slot[a].allowed = {}
  /\ declared \in SUBSET Registered(code)
  /\ Unfit(code, kind, slot, declared) = {}
  /\ req = [r \in Request |-> Idle]
  /\ overtaken = {} /\ commits = 0

TypeOK ==
  /\ DOMAIN code \subseteq Category /\ Registered(code) \subseteq Code
  /\ \A c, d \in DOMAIN code : code[c] = code[d] => c = d
  /\ DOMAIN kind \subseteq Optional /\ \A o \in DOMAIN kind : kind[o] \in Code
  /\ DOMAIN slot \subseteq Slot
  /\ \A a \in DOMAIN slot :
       slot[a] \in [category : DOMAIN code, all : BOOLEAN, allowed : SUBSET DOMAIN kind]
  /\ declared \subseteq Code
  /\ overtaken \subseteq Optional \cup Code \cup Slot
  /\ commits \in 0 .. MaxCommits

-----------------------------------------------------------------------------
(* Optionals *)

\* create_optional: the category is looked up by its code.
BeginCreateOptional(r, o, k) ==
  /\ o \notin DOMAIN kind /\ k \in Registered(code)
  /\ Starts(r, [op |-> "create", on |-> o, to |-> k, saw |-> k \in Registered(code)])

\* import_optionals: so it is for each new line, one import at a time.
BeginImportOptional(r, o, k) ==
  /\ \A q \in Request : req[q].op # "import"
  /\ o \notin DOMAIN kind /\ k \in Registered(code)
  /\ Starts(r, [op |-> "import", on |-> o, to |-> k, saw |-> k \in Registered(code)])

CommitOptional(r) ==
  /\ req[r].op \in {"create", "import"} /\ req[r].on \notin DOMAIN kind
  /\ kind' = With(kind, req[r].on, req[r].to)
  /\ UNCHANGED <<code, slot, declared>>
  /\ Ends(r, req[r].to \in Registered(code))

\* Faulty variant: an optional that slots offer changes its category.
BeginMoveOptionalInUse(r, o, k) ==
  /\ o \in DOMAIN kind /\ k \in Registered(code) \ {kind[o]}
  /\ Starts(r, [op |-> "move", on |-> o, to |-> k,
                saw |-> <<k \in Registered(code), Uses(o)>>])

\* update_optional, with another category.
BeginMoveOptional(r, o, k) ==
  /\ o \in DOMAIN kind /\ k \in Registered(code) \ {kind[o]} /\ Uses(o) = {}
  /\ Starts(r, [op |-> "move", on |-> o, to |-> k,
                saw |-> <<k \in Registered(code), Uses(o)>>])

\* An optional that is gone by now fails the request.
CommitMoveOptional(r) == LET o == req[r].on IN
  /\ req[r].op = "move" /\ o \in DOMAIN kind
  /\ kind' = With(kind, o, req[r].to)
  /\ UNCHANGED <<code, slot, declared>>
  /\ Ends(r, <<req[r].to \in Registered(code), Uses(o)>>)

BeginDeleteOptional(r, o) ==
  /\ o \in DOMAIN kind /\ Uses(o) = {}
  /\ Starts(r, [op |-> "drop", on |-> o, saw |-> Uses(o)])

\* optional_application_allowed goes with its optional (ON DELETE CASCADE).
Struck(O) == [a \in DOMAIN slot |-> [slot[a] EXCEPT !.allowed = @ \ O]]

CommitDeleteOptional(r) == LET o == req[r].on IN
  /\ req[r].op = "drop" /\ o \in DOMAIN kind
  /\ kind' = Without(kind, {o})
  /\ slot' = Struck({o})
  /\ UNCHANGED <<code, declared>>
  /\ Ends(r, Uses(o))

-----------------------------------------------------------------------------
(* Categories *)

\* uq_optional_categories_market_code
CreateCategory(c, k) ==
  /\ commits < MaxCommits /\ commits' = commits + 1
  /\ c \notin DOMAIN code /\ k \notin Registered(code)
  /\ code' = With(code, c, k)
  /\ UNCHANGED <<kind, slot, declared, req, overtaken>>

\* What the statements of update_optional_category and delete_optional_category
\* reach: the optionals and the product that have the code then. (Their rows stay
\* locked, so that others wait: an order there is here too.)
Reach(c) ==
  [old |-> code[c], seen |-> Of(kind, code[c]), names |-> declared,
   slots |-> UNION {Uses(o) : o \in Of(kind, code[c])}]

BeginRename(r, c, k) ==
  /\ c \in DOMAIN code /\ k # code[c]
  /\ Starts(r, [op |-> "rename", on |-> c, to |-> k, saw |-> Reach(c)])

BeginDeleteCategory(r, c) ==
  /\ c \in DOMAIN code /\ \A a \in DOMAIN slot : slot[a].category # c
  /\ Starts(r, [op |-> "remove", on |-> c, saw |-> Reach(c)])

\* declared is written if it had the code.
Declared(saw, names) ==
  IF saw.old \in saw.names THEN (saw.names \ {saw.old}) \cup names ELSE declared

Recoded(w) == [o \in DOMAIN kind |-> IF o \in w.saw.seen THEN w.to ELSE kind[o]]

CommitRename(r) == LET w == req[r] IN
  /\ w.op = "rename" /\ w.on \in DOMAIN code
  /\ \A c \in DOMAIN code : code[c] = w.to => c = w.on
  /\ code' = With(code, w.on, w.to)
  /\ kind' = Recoded(w)
  /\ declared' = Declared(w.saw, {w.to})
  /\ UNCHANGED slot
  /\ Ends(r, Reach(w.on))

\* A slot that came to refer to the category keeps it (ON DELETE RESTRICT).
CommitDeleteCategory(r) == LET w == req[r] IN
  /\ w.op = "remove" /\ w.on \in DOMAIN code
  /\ \A a \in DOMAIN slot : slot[a].category # w.on
  /\ code' = Without(code, {w.on})
  /\ kind' = Without(kind, w.saw.seen)
  /\ slot' = Struck(w.saw.seen)
  /\ declared' = Declared(w.saw, {})
  /\ Ends(r, Reach(w.on))

-----------------------------------------------------------------------------
(* The product *)

\* _replace_applications, for one slot; the others are sent as they are. None of
\* its optionals may be of another category, and some must be on offer.
Offers(s) ==
  IF s.all THEN Of(kind, code[s.category]) # {} /\ s.allowed = {}
  ELSE s.allowed # {} /\ Fits(s, code, kind)

Before(a) == IF a \in DOMAIN slot THEN {slot[a]} ELSE {}

\* What _apply_applications looks at.
Sight(a, s) ==
  [was |-> Before(a), names |-> declared, sheds |-> code[s.category],
   kinds |-> [o \in s.allowed |-> kind[o]]]

BeginPutSlot(r, a, s) ==
  /\ s.category \in DOMAIN code /\ s.allowed \subseteq DOMAIN kind
  /\ Offers(s) /\ s \notin Before(a)
  /\ Starts(r, [op |-> "slot", on |-> a, is |-> s, saw |-> Sight(a, s)])

\* The object mapper writes the columns and the links that differ from what it
\* read.
Merged(now, was, is) ==
  [category |-> IF is.category = was.category THEN now.category ELSE is.category,
   all |-> IF is.all = was.all THEN now.all ELSE is.all,
   allowed |-> (now.allowed \ (was.allowed \ is.allowed)) \cup (is.allowed \ was.allowed)]

\* A link to remove that is gone, or one to add that is there, fails it, as does
\* a row it refers to that is gone.
Writable(a, w) ==
  /\ w.is.category \in DOMAIN code /\ w.is.allowed \subseteq DOMAIN kind
  /\ a \in DOMAIN slot <=> w.saw.was # {}
  /\ \A was \in w.saw.was :
       /\ was.allowed \ w.is.allowed \subseteq slot[a].allowed
       /\ (w.is.allowed \ was.allowed) \cap slot[a].allowed = {}

\* _apply_applications: the codes of its slots leave the product's declared ones.
CommitPutSlot(r) == LET w == req[r] IN
  /\ w.op = "slot" /\ Writable(w.on, w)
  /\ \E is \in IF w.saw.was = {} THEN {w.is} ELSE {Merged(slot[w.on], was, w.is) : was \in w.saw.was} :
       slot' = With(slot, w.on, is)
  /\ declared' = IF w.saw.sheds \in w.saw.names THEN w.saw.names \ {w.saw.sheds} ELSE declared
  /\ UNCHANGED <<code, kind>>
  /\ Ends(r, Sight(w.on, w.is))

\* A slot that is not sent again, or that of a component that goes, is deleted.
RemoveSlot(a) ==
  /\ commits < MaxCommits /\ commits' = commits + 1
  /\ a \in DOMAIN slot
  /\ slot' = Without(slot, {a})
  /\ UNCHANGED <<code, kind, declared, req, overtaken>>

\* update_product, with all_optionals_categories.
BeginDeclare(r, names) ==
  /\ names \subseteq Registered(code) /\ names # declared
  /\ Starts(r, [op |-> "declare", names |-> names, saw |-> names \cap Registered(code)])

CommitDeclare(r) ==
  /\ req[r].op = "declare"
  /\ declared' = req[r].names
  /\ UNCHANGED <<code, kind, slot>>
  /\ Ends(r, req[r].names \cap Registered(code))

\* The request is refused at its commit, fails, or dies.
Abort(r) ==
  /\ req[r] # Idle /\ req' = [req EXCEPT ![r] = Idle]
  /\ UNCHANGED <<tables, overtaken, commits>>

-----------------------------------------------------------------------------

Begin(r) ==
  \/ \E o \in Optional, k \in Code :
       BeginCreateOptional(r, o, k) \/ BeginImportOptional(r, o, k) \/ BeginMoveOptional(r, o, k)
  \/ \E o \in Optional : BeginDeleteOptional(r, o)
  \/ \E c \in DOMAIN code : BeginDeleteCategory(r, c) \/ \E k \in Code : BeginRename(r, c, k)
  \/ \E a \in Slot, s \in [category : DOMAIN code, all : BOOLEAN, allowed : SUBSET DOMAIN kind] :
       BeginPutSlot(r, a, s)
  \/ \E names \in SUBSET Registered(code) : BeginDeclare(r, names)

Commit(r) ==
  \/ CommitOptional(r) \/ CommitMoveOptional(r) \/ CommitDeleteOptional(r)
  \/ CommitRename(r) \/ CommitDeleteCategory(r)
  \/ CommitPutSlot(r) \/ CommitDeclare(r)

Next ==
  \/ \E r \in Request : Begin(r) \/ Commit(r) \/ Abort(r)
  \/ \E c \in Category, k \in Code : CreateCategory(c, k)
  \/ \E a \in Slot : RemoveSlot(a)

Spec == Init /\ [][Next]_vars

-----------------------------------------------------------------------------
(* Properties *)

\* What activate_europe asks of the catalogue stays true while it is edited, and
\* a slot with a list keeps an option: a code without category, or an optional
\* in a slot of another one, comes only from a request whose check another had
\* overtaken.
OptionalsFitTheirSlots == Unfit(code, kind, slot, declared) \subseteq overtaken
=============================================================================
