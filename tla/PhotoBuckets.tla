------------------------------ MODULE PhotoBuckets -----------------------------
(***************************************************************************)
(* ProductPhotos under names of its own, so that it can be read beside     *)
(* SideEffects: the other objects that are changed apart from their rows.  *)
(***************************************************************************)
EXTENDS Naturals

CONSTANTS
  Article, European, Picture, EuPicture, Present, Handler,
  NoPicture   \* NoPhoto of ProductPhotos

ASSUME PictureAssumption ==
  /\ European \subseteq Article /\ EuPicture \subseteq Picture /\ Present \subseteq Picture
  /\ NoPicture \notin Picture

VARIABLES photo, printed, bucket, aged, trash, handling, collection, confirmed, spoilt

media == <<photo, printed, bucket, aged, trash, handling, collection, confirmed, spoilt>>

Photos == INSTANCE ProductPhotos WITH
  Product <- Article, Europe <- European, Photo <- Picture, EuPhoto <- EuPicture,
  Stored <- Present, Request <- Handler, NoPhoto <- NoPicture,
  row <- photo, snapshot <- printed, old <- aged, req <- handling, purge <- collection,
  token <- confirmed, raced <- spoilt

InitPhotos == Photos!Init

\* The steps by what they leave alone: a request leaves the collection to itself,
OnPhoto(h) ==
  \/ \E p \in Article : Photos!BeginUpload(h, p) /\ UNCHANGED collection
  \/ \E p \in Article : Photos!BeginDeletePhoto(h, p) /\ UNCHANGED collection
  \/ \E p \in Article : Photos!BeginSync(h, p) /\ UNCHANGED collection
  \/ \E p \in Article : Photos!BeginSnapshot(h, p) /\ UNCHANGED collection
  \/ Photos!CommitReplace(h) /\ UNCHANGED collection
  \/ Photos!RefuseReplace(h) /\ UNCHANGED collection
  \/ Photos!LoseAnswer(h) /\ UNCHANGED collection
  \/ Photos!CheckRows(h) /\ UNCHANGED collection
  \/ Photos!CheckSnapshots(h) /\ UNCHANGED collection
  \/ Photos!DeleteUnreferenced(h) /\ UNCHANGED collection
  \/ Photos!CommitSync(h) /\ UNCHANGED collection
  \/ Photos!CommitSnapshot(h) /\ UNCHANGED collection
  \/ Photos!Abort(h) /\ UNCHANGED collection

\* and the collection, and time, leave the rows as they are.
OnOrphans ==
  \/ \E mode \in {"inventory", "quarantine"} : Photos!Inventory(mode) /\ UNCHANGED photo
  \/ Photos!Report /\ UNCHANGED photo
  \/ Photos!Confirm /\ UNCHANGED photo
  \/ Photos!RefusePurge /\ UNCHANGED photo
  \/ collection.at = "move" /\ Photos!Quarantine /\ UNCHANGED photo
  \/ collection.at = "move" /\ Photos!Answer /\ UNCHANGED photo
  \/ Photos!Restore /\ UNCHANGED photo
  \/ Photos!DeleteForGood /\ UNCHANGED photo
  \/ Photos!GrowOld /\ UNCHANGED photo

NextPhotos == (\E h \in Handler : OnPhoto(h)) \/ OnOrphans

SpecPhotos == InitPhotos /\ [][NextPhotos]_media

\* Of ProductPhotos: what a row or an order cites is in its bucket.
PhotosInUseAreThere == Photos!PhotosInUseAreThere

\* Of ProductPhotos: Europe takes no object out of the Brazilian bucket.
BrazilKeepsItsPhotos == Photos!BrazilKeepsItsPhotos

=============================================================================
