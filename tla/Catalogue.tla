------------------------------- MODULE Catalogue -------------------------------
(***************************************************************************)
(* What products are made of: their types with the rates of their groups,  *)
(* or the finishes they can be ordered with.  FiscalCatalogue knows no     *)
(* optional and OptionalSlots no price: a behaviour edits one of them,     *)
(* `part', and the other stays as it is at first.                          *)
(***************************************************************************)
EXTENDS FiscalCatalogue

CONSTANTS Category, Code, Optional, Slot
CONSTANT MaxEdits   \* MaxCommits of OptionalSlots

ASSUME EditsAssumption == MaxEdits \in Nat

VARIABLES part, code, kind, slot, declared, work, outrun, edits

finishes == <<part, code, kind, slot, declared, work, outrun, edits>>
fiscal == <<part, vars>>

Finish == INSTANCE OptionalSlots WITH
  req <- work, overtaken <- outrun, commits <- edits, MaxCommits <- MaxEdits

\* The part that is not edited starts in one state.
InitEither ==
  \/ /\ part = "fiscal" /\ Init
     /\ code = <<>> /\ kind = <<>> /\ slot = <<>> /\ declared = {}
     /\ work = [r \in Request |-> Finish!Idle] /\ outrun = {} /\ edits = 0
  \/ /\ part = "finishes" /\ Finish!Init
     /\ market = "BR" /\ group = <<>> /\ type = <<>> /\ product = <<>>
     /\ available = {} /\ trail = [group |-> <<>>, type |-> <<>>, product |-> <<>>]
     /\ req = [r \in Request |-> Idle]
     /\ elders = [r \in Request |-> {}] /\ told = [r \in Request |-> {}]
     /\ crossed = {} /\ overtaken = {} /\ commits = 0

OnGroup(r) ==
  \/ \E g \in Group, x \in Rate \cup {0} : part = "fiscal" /\ BeginCreateGroup(r, g, x) /\ UNCHANGED finishes
  \/ \E g \in Group, x \in Rate : part = "fiscal" /\ BeginUpdateGroup(r, g, x) /\ UNCHANGED finishes
  \/ \E g \in Group, x \in Rate : part = "fiscal" /\ BeginImportGroup(r, g, x) /\ UNCHANGED finishes
  \/ \E g \in Group : part = "fiscal" /\ BeginDeleteGroup(r, g) /\ UNCHANGED finishes

OnType(r) ==
  \/ \E t \in Type, n \in Name, g \in DOMAIN group \cup {None} :
       part = "fiscal" /\ BeginCreateType(r, t, n, g) /\ UNCHANGED finishes
  \/ \E t \in Type, n \in Name, g \in DOMAIN group \cup {None} :
       part = "fiscal" /\ BeginUpdateType(r, t, n, g) /\ UNCHANGED finishes
  \/ \E t \in Type, n \in Name, g \in DOMAIN group \cup {None} :
       part = "fiscal" /\ BeginImportType(r, t, n, g) /\ UNCHANGED finishes
  \/ \E t \in Type : part = "fiscal" /\ BeginDeleteType(r, t) /\ UNCHANGED finishes

OnProduct(r) ==
  \/ \E p \in Product, v \in Price, n \in Name \cup {Outro} :
       part = "fiscal" /\ BeginCreateProduct(r, p, n, v) /\ UNCHANGED finishes
  \/ \E p \in Product, v \in Price, n \in Name :
       part = "fiscal" /\ BeginImportProduct(r, p, n, v) /\ UNCHANGED finishes
  \/ \E p \in Product, n \in Name \cup {Outro, None}, v \in Price \cup {None} :
       part = "fiscal" /\ BeginUpdateProduct(r, p, n, v) /\ UNCHANGED finishes
  \/ \E p \in Product : part = "fiscal" /\ BeginDeleteProduct(r, p) /\ UNCHANGED finishes

OnCommit(r) ==
  \/ part = "fiscal" /\ Open(r) /\ UNCHANGED finishes
  \/ part = "fiscal" /\ CommitGroup(r) /\ UNCHANGED finishes
  \/ part = "fiscal" /\ CommitDropGroup(r) /\ UNCHANGED finishes
  \/ part = "fiscal" /\ CommitType(r) /\ UNCHANGED finishes
  \/ part = "fiscal" /\ CommitDropType(r) /\ UNCHANGED finishes
  \/ part = "fiscal" /\ CommitProduct(r) /\ UNCHANGED finishes
  \/ part = "fiscal" /\ Abort(r) /\ UNCHANGED finishes

OffVersion(p) ==
  \/ part = "fiscal" /\ Show(p) /\ UNCHANGED finishes
  \/ \E v \in Price, offered \in BOOLEAN : part = "fiscal" /\ ImportEurope(p, v, offered) /\ UNCHANGED finishes

OnOptional(r) ==
  \/ \E o \in Optional, k \in Code : part = "finishes" /\ Finish!BeginCreateOptional(r, o, k) /\ UNCHANGED fiscal
  \/ \E o \in Optional, k \in Code : part = "finishes" /\ Finish!BeginImportOptional(r, o, k) /\ UNCHANGED fiscal
  \/ \E o \in Optional, k \in Code : part = "finishes" /\ Finish!BeginMoveOptional(r, o, k) /\ UNCHANGED fiscal
  \/ \E o \in Optional : part = "finishes" /\ Finish!BeginDeleteOptional(r, o) /\ UNCHANGED fiscal
  \/ part = "finishes" /\ Finish!CommitOptional(r) /\ UNCHANGED fiscal
  \/ part = "finishes" /\ Finish!CommitMoveOptional(r) /\ UNCHANGED fiscal
  \/ part = "finishes" /\ Finish!CommitDeleteOptional(r) /\ UNCHANGED fiscal

OnSlot(r) ==
  \/ \E c \in DOMAIN code, k \in Code : part = "finishes" /\ Finish!BeginRename(r, c, k) /\ UNCHANGED fiscal
  \/ \E c \in DOMAIN code : part = "finishes" /\ Finish!BeginDeleteCategory(r, c) /\ UNCHANGED fiscal
  \/ \E a \in Slot, s \in [category : DOMAIN code, all : BOOLEAN, allowed : SUBSET DOMAIN kind] :
       part = "finishes" /\ Finish!BeginPutSlot(r, a, s) /\ UNCHANGED fiscal
  \/ \E names \in SUBSET Finish!Registered(code) : part = "finishes" /\ Finish!BeginDeclare(r, names) /\ UNCHANGED fiscal
  \/ part = "finishes" /\ Finish!CommitRename(r) /\ UNCHANGED fiscal
  \/ part = "finishes" /\ Finish!CommitDeleteCategory(r) /\ UNCHANGED fiscal
  \/ part = "finishes" /\ Finish!CommitPutSlot(r) /\ UNCHANGED fiscal
  \/ part = "finishes" /\ Finish!CommitDeclare(r) /\ UNCHANGED fiscal
  \/ part = "finishes" /\ Finish!Abort(r) /\ UNCHANGED fiscal
  \/ \E c \in Category, k \in Code : part = "finishes" /\ Finish!CreateCategory(c, k) /\ UNCHANGED fiscal
  \/ \E a \in Slot : part = "finishes" /\ Finish!RemoveSlot(a) /\ UNCHANGED fiscal

NextEither ==
  \/ \E r \in Request : \/ OnGroup(r) \/ OnType(r) \/ OnProduct(r) \/ OnCommit(r)
                        \/ OnOptional(r) \/ OnSlot(r)
  \/ \E p \in Product : OffVersion(p)

SpecEither == InitEither /\ [][NextEither]_<<vars, finishes>>

\* Of OptionalSlots: a code without category, or an optional in a slot of
\* another one, comes only from a request whose check another had overtaken.
OptionalsFitTheirSlots == Finish!OptionalsFitTheirSlots

=============================================================================
