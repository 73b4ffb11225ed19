---------------------------- MODULE StadiumListing ----------------------------
(***************************************************************************)
(* The listing of a stadium: src/api/v1/stadiums/views.py without the      *)
(* slots.  Submission, approval and rejection, the owner's edit and        *)
(* deletion, and the gallery with its cover photo.                         *)
(***************************************************************************)
EXTENDS StadiumRow

CONSTANTS
    Photos,         \* photo ids; a finite supply bounds a run
    MaxPhotos       \* 20 in validate()

ASSUME GalleryAssumption ==
    IsFiniteSet(Photos) /\ IsFiniteSet(Uploaders) /\ MaxPhotos \in Nat \ {0}

VARIABLES
    photos,         \* the StadiumPhoto rows
    covers          \* those with is_cover

gallery == << photos, covers >>

\* A draft with any gallery that can be uploaded.
GalleryInit ==
    /\ photos \in SUBSET Photos
    /\ Cardinality(photos) <= MaxPhotos
    /\ covers \in SUBSET photos
    /\ Cardinality(covers) <= 1

-----------------------------------------------------------------------------
(* The owner: submit, update, destroy *)

\* get_object() and the check of the status; any other answers 400 or 404.
Begin(t, statuses, label) ==
    /\ At(t, "idle")
    /\ stadium.status \in statuses
    /\ Goto(t, [at |-> label])
    /\ UNCHANGED << row, gallery >>

BeginSubmit(o) == Begin(o, {"draft"}, "gallery")

\* The prefetched photos: at least one, and one that is the cover.
CheckGallery(o) ==
    /\ At(o, "gallery")
    /\ Goto(o, IF covers = {} THEN Idle ELSE [at |-> "submit"])
    /\ UNCHANGED << row, gallery >>

CommitSubmit(o) ==
    /\ At(o, "submit")
    /\ SaveStatus("pending_review")
    /\ Goto(o, Idle)
    /\ UNCHANGED << queue, gallery >>

BeginEdit(o) == Begin(o, {"draft", "pending_review"}, "reread")

\* super().update() calls get_object() again and trusts what it finds.
Reread(o) ==
    /\ At(o, "reread")
    /\ Goto(o, IF Exists THEN [at |-> "save", copy |-> stadium] ELSE Idle)
    /\ UNCHANGED << row, gallery >>

CommitEdit(o) ==
    /\ At(o, "save")
    /\ \E d \in Durations : SaveAll([thread[o].copy EXCEPT !.duration = d])
    /\ Goto(o, Idle)
    /\ UNCHANGED << queue, gallery >>

\* Not the code: a stadium in review can be deleted, too.
BeginDeleteInReview(o) == Begin(o, {"draft", "pending_review"}, "delete")

BeginDelete(o) == Begin(o, {"draft"}, "delete")

\* The row; Stadium adds what else the cascade takes with it.
DeleteRow(o) ==
    /\ At(o, "delete")
    /\ stadium' = [stadium EXCEPT !.status = "deleted"]
    /\ photos' = {}
    /\ covers' = {}
    /\ Goto(o, Idle)
    /\ UNCHANGED queue

-----------------------------------------------------------------------------
(* The administrator: approve, reject *)

\* Not the code: only a draft that is gone cannot be approved.
BeginApproveAny(a) ==
    queue < QueueBound /\ Begin(a, {"draft", "pending_review"}, "approve")

BeginApprove(a) == queue < QueueBound /\ Begin(a, {"pending_review"}, "approve")

CommitApprove(a) ==
    /\ At(a, "approve")
    /\ SaveStatus("active")
    /\ Goto(a, IF Exists THEN [at |-> "enqueue"] ELSE Idle)
    /\ UNCHANGED << queue, gallery >>

\* .delay(); the notification of the owner follows (module Delivery).
EnqueueGeneration(a) ==
    /\ At(a, "enqueue")
    /\ queue' = queue + 1
    /\ Goto(a, Idle)
    /\ UNCHANGED << stadium, gallery >>

BeginReject(a) == Begin(a, {"pending_review"}, "reject")

CommitReject(a) ==
    /\ At(a, "reject")
    /\ SaveStatus("draft")
    /\ Goto(a, Idle)
    /\ UNCHANGED << queue, gallery >>

-----------------------------------------------------------------------------
(* The gallery, at any status *)

\* Not the code: the count admits one photo too many.
HasRoomForOneMore == Cardinality(photos) <= MaxPhotos

\* The serializer counts the photos.
HasRoom == Cardinality(photos) < MaxPhotos

BeginUpload(u) ==
    /\ At(u, "idle") /\ Exists /\ HasRoom
    /\ Goto(u, [at |-> "first"])
    /\ UNCHANGED << row, gallery >>

\* is_first, a query of its own.
ReadFirst(u) ==
    /\ At(u, "first")
    /\ Goto(u, [at |-> "insert", cover |-> photos = {}])
    /\ UNCHANGED << row, gallery >>

\* The photo requests that have read a photo and will write it.
Rewriting(p) ==
    \E u \in Uploaders : thread[u].at \in {"drop", "match", "store", "cover"} /\ thread[u].photo = p

\* A new primary key, so none that a request has read before.
InsertPhoto(u) ==
    /\ At(u, "insert") /\ Exists
    /\ \E p \in Photos \ photos :
          /\ ~ Rewriting(p)
          /\ photos' = photos \cup {p}
          /\ covers' = IF thread[u].cover THEN covers \cup {p} ELSE covers
    /\ Goto(u, Idle)
    /\ UNCHANGED row

\* get_object_or_404(StadiumPhoto, ...): a deletion, or an update that sets
\* is_cover, clears it, or leaves it and so stores the value read.
BeginPhoto(u) ==
    /\ At(u, "idle")
    /\ \E p \in photos :
          \/ \E label \in {"drop", "match"} : Goto(u, [at |-> label, photo |-> p])
          \/ \E value \in BOOLEAN :
                /\ value => p \in covers
                /\ Goto(u, [at |-> "store", photo |-> p, cover |-> value])
    /\ UNCHANGED << row, gallery >>

\* No other photo takes the place of a cover.
DropPhoto(u) ==
    /\ At(u, "drop")
    /\ photos' = photos \ {thread[u].photo}
    /\ covers' = covers \ {thread[u].photo}
    /\ Goto(u, Idle)
    /\ UNCHANGED row

\* save() of the photo as it was read, also when it is gone meanwhile.
StorePhoto(u) ==
    /\ At(u, "store") /\ Exists
    /\ LET p == thread[u].photo
       IN /\ photos' = photos \cup {p}
          /\ covers' = IF thread[u].cover THEN covers \cup {p} ELSE covers \ {p}
    /\ Goto(u, Idle)
    /\ UNCHANGED row

\* UPDATE ... SET is_cover = false fixes the rows it has to change,
MatchCovers(u) ==
    /\ At(u, "match")
    /\ LET p == thread[u].photo
       IN Goto(u, [at |-> "cover", photo |-> p, others |-> covers \ {p}])
    /\ UNCHANGED << row, gallery >>

\* and changes them when their locks are free; save() and the commit follow.
CommitCover(u) ==
    /\ At(u, "cover") /\ Exists
    /\ photos' = photos \cup {thread[u].photo}
    /\ covers' = (covers \ thread[u].others) \cup {thread[u].photo}
    /\ Goto(u, Idle)
    /\ UNCHANGED row

\* The stadium is gone: the foreign key refuses the photo.
RefusePhoto(u) ==
    /\ thread[u].at \in {"insert", "store", "cover"} /\ ~ Exists
    /\ Goto(u, Idle)
    /\ UNCHANGED << row, gallery >>

-----------------------------------------------------------------------------
OwnerStep(o) ==
    \/ BeginSubmit(o) \/ CheckGallery(o) \/ CommitSubmit(o)
    \/ BeginEdit(o) \/ Reread(o) \/ CommitEdit(o)
    \/ BeginDelete(o)

AdminStep(a) ==
    \/ BeginApprove(a) \/ CommitApprove(a) \/ EnqueueGeneration(a)
    \/ BeginReject(a) \/ CommitReject(a)

PhotoStep(u) ==
    \/ BeginUpload(u) \/ ReadFirst(u) \/ InsertPhoto(u)
    \/ BeginPhoto(u) \/ DropPhoto(u) \/ StorePhoto(u)
    \/ MatchCovers(u) \/ CommitCover(u) \/ RefusePhoto(u)

ListingNext ==
    \/ \E o \in Owners : OwnerStep(o)
    \/ \E a \in Admins : AdminStep(a)
    \/ \E u \in Uploaders : PhotoStep(u)
===============================================================================
