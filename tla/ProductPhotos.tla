----------------------------- MODULE ProductPhotos -----------------------------
(***************************************************************************)
(* The photos of products and optionals: the rows that cite them, the      *)
(* snapshots of orders that cite them for good, the two buckets that hold  *)
(* them, and what deletes them: a request that replaced one and found it   *)
(* cited nowhere else, and the quarantine of European orphans.  Rows and   *)
(* objects share no transaction.  A photo stands for its object together   *)
(* with the thumbnail and variants of the same UUID.                       *)
(***************************************************************************)
EXTENDS Naturals, FiniteSets

CONSTANTS
  Product,      \* rows of products and optional_colors
  Europe,       \* those of the market EU
  Photo,        \* UUIDs of photos
  EuPhoto,      \* those whose key starts with eu-
  Stored,       \* the photos that are there at the start
  Request,      \* requests that can be open at once
  NoPhoto

VARIABLES
  row,          \* photo_path of each row
  snapshot,     \* photos cited by committed snapshots of orders
  bucket,       \* photos at their place in the bucket of their market
  old,          \* those of them last modified more than GRACE_PERIOD ago
  trash,        \* photos in eu-trash/, for however long
  req,          \* what each open request is doing
  purge,        \* what the open collection of orphans is doing
  token,        \* the set of orphans that the last confirm stands for
  raced         \* photos an accepted race may have cost: see CommitSnapshot, LoseAnswer

vars == <<row, snapshot, bucket, old, trash, req, purge, token, raced>>
objects == <<bucket, old, trash>>
collector == <<purge, token>>

-----------------------------------------------------------------------------

Idle == [op |-> "idle"]
Rest == [at |-> "idle"]

\* upload_belongs_to_market, which is asked with the market of the row.
BelongsTo(x, p) == x \in EuPhoto <=> p \in Europe

Starts(r, work) == req[r] = Idle /\ req' = [req EXCEPT ![r] = work]
Goes(r, op) == req' = [req EXCEPT ![r].op = op]
Ends(r) == req' = [req EXCEPT ![r] = Idle]
Open == {r \in Request : req[r] # Idle}

\* A UUID is used once: a fresh one is none that is still known anywhere.
Collected ==
  CASE purge.at = "listed" -> purge.listed \cup purge.cited
    [] purge.at = "move" -> purge.todo
    [] OTHER -> {}
Used ==
  {row[p] : p \in Product} \cup snapshot \cup bucket \cup trash \cup Stored
    \cup raced \cup token \cup Collected \cup UNION {{req[r].new, req[r].was} : r \in Open}
Fresh(p) == {x \in Photo \ Used : BelongsTo(x, p)}

InUse == (snapshot \cup {row[p] : p \in Product}) \ {NoPhoto}

Init ==
  /\ row \in [Product -> Stored]
  /\ \A p \in Product \ Europe : row[p] \notin EuPhoto
  /\ snapshot = {} /\ bucket = Stored /\ old = Stored
  /\ trash = {} /\ raced = {}
  /\ req = [r \in Request |-> Idle]
  /\ purge = Rest /\ token = {}

Work == [op : {"replace", "rows", "snapshots", "delete", "copy", "finalize"},
         product : Product, was : Photo \cup {NoPhoto}, new : Photo \cup {NoPhoto}]
Purge == [at : {"listed"}, mode : {"inventory", "quarantine"},
          listed : SUBSET EuPhoto, cited : SUBSET Photo]
           \cup [at : {"move"}, todo : SUBSET EuPhoto]

TypeOK ==
  /\ row \in [Product -> Photo \cup {NoPhoto}]
  /\ snapshot \subseteq Photo /\ raced \subseteq Photo
  /\ bucket \subseteq Photo /\ old \subseteq bucket
  /\ trash \subseteq EuPhoto /\ token \subseteq EuPhoto
  /\ req \in [Request -> Work \cup {Idle}]
  /\ purge \in Purge \cup {Rest}

-----------------------------------------------------------------------------
(* upload_photo and delete_photo: read the row, store the new object, commit *)
(* the row, and delete the object of the photo that was read.               *)

Put(x) == bucket' = bucket \cup {x} /\ UNCHANGED <<old, trash>>

\* A deletion that fails is a warning, and leaves what the request would leave
\* that ends just before: see Abort, CheckRows and CheckSnapshots.
Delete(x) == bucket' = bucket \ {x} /\ old' = old \ {x} /\ UNCHANGED trash

BeginUpload(r, p) == req[r] = Idle /\ \E x \in Fresh(p) :
  /\ Put(x)
  /\ Starts(r, [op |-> "replace", product |-> p, was |-> row[p], new |-> x])
  /\ UNCHANGED <<row, snapshot, raced, collector>>

BeginDeletePhoto(r, p) ==
  /\ row[p] # NoPhoto
  /\ Starts(r, [op |-> "replace", product |-> p, was |-> row[p], new |-> NoPhoto])
  /\ UNCHANGED <<row, snapshot, objects, raced, collector>>

\* Faulty: without the market.
CommitReplaceOfAnyMarket(r) ==
  /\ req[r].op = "replace"
  /\ row' = [row EXCEPT ![req[r].product] = req[r].new]
  /\ IF req[r].was # NoPhoto THEN Goes(r, "rows") ELSE Ends(r)
  /\ UNCHANGED <<snapshot, objects, raced, collector>>

\* The commit.  The row is written whatever it holds by now.
CommitReplace(r) ==
  /\ req[r].op = "replace"
  /\ row' = [row EXCEPT ![req[r].product] = req[r].new]
  /\ IF req[r].was # NoPhoto /\ BelongsTo(req[r].was, req[r].product)
     THEN Goes(r, "rows") ELSE Ends(r)
  /\ UNCHANGED <<snapshot, objects, raced, collector>>

\* It failed: the new object goes again.
RefuseReplace(r) ==
  /\ req[r].op = "replace"
  /\ IF req[r].new = NoPhoto THEN UNCHANGED objects ELSE Delete(req[r].new)
  /\ Ends(r)
  /\ UNCHANGED <<row, snapshot, raced, collector>>

\* It took effect and its answer was lost: the row now cites what is deleted.
LoseAnswer(r) ==
  /\ req[r].op = "replace"
  /\ row' = [row EXCEPT ![req[r].product] = req[r].new]
  /\ IF req[r].new = NoPhoto THEN UNCHANGED <<objects, raced>>
     ELSE Delete(req[r].new) /\ raced' = raced \cup {req[r].new}
  /\ Ends(r)
  /\ UNCHANGED <<snapshot, collector>>

\* is_upload_referenced, column by column: products and optionals first.  A
\* citation that is found, and an error of any kind, keep the object.
CheckRows(r) ==
  /\ req[r].op = "rows"
  /\ \/ (\A p \in Product : row[p] # req[r].was) /\ Goes(r, "snapshots")
     \/ Ends(r)
  /\ UNCHANGED <<row, snapshot, objects, raced, collector>>

\* Faulty: stops at products and optionals.
CheckNoSnapshots(r) ==
  /\ req[r].op = "snapshots"
  /\ Goes(r, "delete")
  /\ UNCHANGED <<row, snapshot, objects, raced, collector>>

CheckSnapshots(r) ==
  /\ req[r].op = "snapshots"
  /\ \/ req[r].was \notin snapshot /\ Goes(r, "delete")
     \/ Ends(r)
  /\ UNCHANGED <<row, snapshot, objects, raced, collector>>

DeleteUnreferenced(r) ==
  /\ req[r].op = "delete"
  /\ Delete(req[r].was)
  /\ Ends(r)
  /\ UNCHANGED <<row, snapshot, raced, collector>>

-----------------------------------------------------------------------------
(* sync_europe_media: give a European row its own copy of the photo it       *)
(* borrows from Brazil.  Nothing is deleted, on no path.                    *)

BeginSync(r, p) ==
  /\ p \in Europe /\ row[p] \in Photo \ EuPhoto
  /\ row[p] \in bucket   \* else the copy fails, and the row is left alone
  /\ \E x \in Fresh(p) :
       /\ Put(x)
       /\ Starts(r, [op |-> "copy", product |-> p, was |-> row[p], new |-> x])
  /\ UNCHANGED <<row, snapshot, raced, collector>>

CommitSync(r) ==
  /\ req[r].op = "copy"
  /\ row' = [row EXCEPT ![req[r].product] = req[r].new]
  /\ Ends(r)
  /\ UNCHANGED <<snapshot, objects, raced, collector>>

-----------------------------------------------------------------------------
(* _snapshot_v2: the finalization of an order copies the path of a photo.   *)

BeginSnapshot(r, p) ==
  /\ row[p] # NoPhoto
  /\ Starts(r, [op |-> "finalize", product |-> p, was |-> row[p], new |-> NoPhoto])
  /\ UNCHANGED <<row, snapshot, objects, raced, collector>>

\* Nothing keeps the photo between the reading and the commit: one that was
\* replaced meanwhile, and that no row cites, may be gone or about to go.
CommitSnapshot(r) == LET x == req[r].was IN
  /\ req[r].op = "finalize"
  /\ snapshot' = snapshot \cup {x}
  /\ raced' = raced \cup ({x} \ (snapshot \cup {row[p] : p \in Product}))
  /\ Ends(r)
  /\ UNCHANGED <<row, objects, collector>>

\* A request may die before its commit, or fail to store its object and then to
\* clean up.  One that dies after it leaves what a check that failed leaves.
Abort(r) ==
  /\ req[r].op \in {"replace", "copy", "finalize"}
  /\ Ends(r)
  /\ UNCHANGED <<row, snapshot, objects, raced, collector>>

-----------------------------------------------------------------------------
(* media_orphans: list the bucket, then scan the database column by column; *)
(* what no column cites and is not recent is an orphan.  The quarantine     *)
(* goes through the same inventory again, and only for the set it named.    *)

Inventory(mode) ==
  /\ purge = Rest
  /\ purge' = [at |-> "listed", mode |-> mode, listed |-> old \cap EuPhoto, cited |-> snapshot]
  /\ UNCHANGED <<row, snapshot, objects, req, token, raced>>

\* The columns of products come last.
Orphans == purge.listed \ (purge.cited \cup {row[p] : p \in Product})

\* blocked_reason: a database that cites no European photo is not believed.
Blocked == EuPhoto \cap (purge.cited \cup {row[p] : p \in Product}) = {}

Report ==
  /\ purge.at = "listed" /\ purge.mode = "inventory"
  /\ token' = Orphans /\ purge' = Rest
  /\ UNCHANGED <<row, snapshot, objects, req, raced>>

Confirm ==
  /\ purge.at = "listed" /\ purge.mode = "quarantine"
  /\ ~Blocked /\ token = Orphans /\ Orphans # {}
  /\ purge' = [at |-> "move", todo |-> Orphans]
  /\ UNCHANGED <<row, snapshot, objects, req, token, raced>>

RefusePurge ==
  /\ purge.at = "listed" /\ purge.mode = "quarantine"
  /\ Blocked \/ token # Orphans
  /\ purge' = Rest
  /\ UNCHANGED <<row, snapshot, objects, req, token, raced>>

\* _move_object copies, then deletes; one that is gone, and one that fails,
\* are passed over, or left in both places.
Quarantine == \E x \in purge.todo :
  /\ \/ x \notin bucket /\ UNCHANGED objects
     \/ UNCHANGED objects
     \/ /\ x \in bucket
        /\ trash' = trash \cup {x}
        /\ \E gone \in {{}, {x}} : bucket' = bucket \ gone /\ old' = old \ gone
  /\ purge' = [purge EXCEPT !.todo = @ \ {x}]
  /\ UNCHANGED <<row, snapshot, req, token, raced>>

\* The answer carries the confirm of what is left.
Answer ==
  /\ purge.at = "move" /\ purge.todo = {}
  /\ token' = token \ (trash \ bucket) /\ purge' = Rest
  /\ UNCHANGED <<row, snapshot, objects, req, raced>>

Restore == \E x \in trash :
  /\ bucket' = bucket \cup {x}
  /\ old' = IF x \in bucket THEN old ELSE old \ {x}   \* LastModified is that of the copy
  /\ \E gone \in {{}, {x}} : trash' = trash \ gone
  /\ UNCHANGED <<row, snapshot, req, collector, raced>>

\* After QUARANTINE_MIN_AGE.
DeleteForGood == \E x \in trash :
  /\ trash' = trash \ {x}
  /\ UNCHANGED <<row, snapshot, bucket, old, req, collector, raced>>

\* A request does not last as long as GRACE_PERIOD.
GrowOld == \E x \in (bucket \ old) \cap EuPhoto :
  /\ x \notin {req[r].new : r \in Open}
  /\ old' = old \cup {x}
  /\ UNCHANGED <<row, snapshot, bucket, trash, req, collector, raced>>

-----------------------------------------------------------------------------

Serve(r) ==
  \/ \E p \in Product : BeginUpload(r, p) \/ BeginDeletePhoto(r, p)
                          \/ BeginSync(r, p) \/ BeginSnapshot(r, p)
  \/ CommitReplace(r) \/ RefuseReplace(r) \/ LoseAnswer(r)
  \/ CheckRows(r) \/ CheckSnapshots(r) \/ DeleteUnreferenced(r)
  \/ CommitSync(r) \/ CommitSnapshot(r) \/ Abort(r)

Collect ==
  \/ \E mode \in {"inventory", "quarantine"} : Inventory(mode)
  \/ Report \/ Confirm \/ RefusePurge
  \/ purge.at = "move" /\ (Quarantine \/ Answer)
  \/ Restore \/ DeleteForGood

Next == (\E r \in Request : Serve(r)) \/ Collect \/ GrowOld

Spec == Init /\ [][Next]_vars

-----------------------------------------------------------------------------

\* A photo that a row or the snapshot of an order cites is at its place in the
\* bucket: neither a replacement, nor a synchronization, nor a collection of
\* orphans that ran meanwhile took it.  Two races of the code are left out, by
\* name, in raced.
PhotosInUseAreThere == InUse \ raced \subseteq bucket

\* What Europe does with the photos it borrows, replacing them included, never
\* takes an object out of the Brazilian bucket.
BrazilKeepsItsPhotos ==
  [][\A x \in (bucket \ EuPhoto) \ bucket' :
       \E r \in Open : req[r].product \notin Europe]_vars

=============================================================================
