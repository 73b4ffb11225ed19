------------------------------- MODULE Stadium -------------------------------
(***************************************************************************)
(* One stadium: its listing, its timetable and its ratings meet in its row.*)
(* An edit stores the status and the averages it has read, and the slot    *)
(* duration the generator uses; an approval starts the generator; a        *)
(* deletion takes everything with it.                                      *)
(***************************************************************************)
EXTENDS StadiumListing, SlotGeneration, StadiumRatings

vars == << row, thread, gallery, timetable, ratings >>

Init == RowInit /\ GalleryInit /\ TimetableInit /\ RatingsInit

\* The cascade takes photos, hours and slots.  With bookings it fails: they
\* protect their slots.
CommitDelete(o) ==
    /\ completed = {}
    /\ DeleteRow(o)
    /\ hours' = Closed
    /\ slots' = {}
    /\ UNCHANGED << grids, ratings >>

RefuseDelete(o) ==
    /\ At(o, "delete")
    /\ completed # {}
    /\ Goto(o, Idle)
    /\ UNCHANGED << row, gallery, timetable, ratings >>

Next ==
    \/ ListingNext /\ UNCHANGED << timetable, ratings >>
    \/ TimetableNext /\ UNCHANGED << gallery, ratings >>
    \/ RatingsNext /\ UNCHANGED << gallery, timetable >>
    \/ \E o \in Owners : CommitDelete(o) \/ RefuseDelete(o)
    \/ \E t \in Threads : Crash(t) /\ UNCHANGED << gallery, timetable, ratings >>

Spec == Init /\ [][Next]_vars

(***************************************************************************)
(* A request that has begun is carried on, and an idle Celery worker takes *)
(* a task from a queue it consumes.  Nobody has to send a request.         *)
(***************************************************************************)
ListingStep(t) ==
    \/ t \in Owners /\ OwnerStep(t)
    \/ t \in Admins /\ AdminStep(t)

Carry(t) ==
    \/ ~ At(t, "idle") /\ ListingStep(t) /\ UNCHANGED << timetable, ratings >>
    \/ t \in Owners /\ (CommitDelete(t) \/ RefuseDelete(t))
    \/ t \in Generators /\ GeneratorStep(t) /\ UNCHANGED << gallery, ratings >>

FairSpec == Spec /\ \A t \in Owners \cup Admins \cup Generators : WF_vars(Carry(t))

-----------------------------------------------------------------------------
(* Properties *)

ThreadStates ==
    {Idle}
    \cup [at : {"gallery", "submit", "reread", "delete", "approve", "enqueue", "reject",
                "first", "aggregate"}]
    \cup [at : {"save"}, copy : RowType]
    \cup [at : {"insert"}, cover : BOOLEAN]
    \cup [at : {"drop", "match"}, photo : Photos]
    \cup [at : {"store"}, photo : Photos, cover : BOOLEAN]
    \cup [at : {"cover"}, photo : Photos, others : SUBSET Photos]
    \cup [at : {"hours"}, duration : Durations]
    \cup [at : {"create"}, duration : Durations, hours : HourChoices, start : Nat]
    \cup [at : {"review"}, booking : Bookings]
    \cup [at : {"commit"}, booking : Bookings, seen : SUBSET Bookings]
    \cup [at : {"rate"}, seen : SUBSET Bookings]

TypeOK ==
    /\ stadium \in RowType
    /\ thread \in [Threads -> ThreadStates]
    /\ queue \in Nat
    /\ photos \subseteq Photos /\ covers \subseteq photos
    /\ hours \in HourChoices \cup {Closed}
    /\ completed \subseteq Bookings /\ reviews \subseteq Bookings
    /\ overlapped \in BOOLEAN

OneEach ==
    /\ \A o, p \in Owners : o = p
    /\ \A a, b \in Admins : a = b

\* What an administrator's request relies on when it writes, and the owner's.
AdminDecides(a) == thread[a].at \in {"approve", "reject"} => stadium.status = "pending_review"

OwnerDecides(o) ==
    /\ thread[o].at \in {"gallery", "submit", "delete"} => stadium.status = "draft"
    /\ At(o, "save") =>
          /\ Exists
          /\ thread[o].copy.status # "deleted"
          /\ thread[o].copy.status # "pending_review" => stadium.status = thread[o].copy.status

DecisionsHold == (\A a \in Admins : AdminDecides(a)) /\ (\A o \in Owners : OwnerDecides(o))

(* The types, and what makes the decisions about a listing sound: with one *)
(* thread of the owner and one of an administrator, no write of a status   *)
(* rests on a status that has changed in a way the decision excludes.      *)
IInv == TypeOK /\ (OneEach => DecisionsHold)

Listing ==
    CASE stadium.status = "draft" -> "hidden"
      [] stadium.status = "pending_review" -> "queued"
      [] stadium.status = "active" -> "public"
      [] OTHER -> "gone"

Abstract == INSTANCE Moderation WITH listing <- Listing

(* With one request of the owner and one of an administrator at a time,    *)
(* which may overlap each other and everything else, a stadium becomes     *)
(* active by an approval of a stadium in the review queue and no other way *)
(* (docs/implementation/03, 2.4).                                          *)
ImplementsModeration == Abstract!ModerationSpec

Overlapping == IF Uploaders = {} THEN 1 ELSE Cardinality(Uploaders)

(* The limit of 20 photos is checked by a count before the insert: uploads *)
(* that overlap exceed it, but by fewer than there are of them.            *)
PhotosBounded == Cardinality(photos) < MaxPhotos + Overlapping

(* docs/implementation/03:119, "slots auto-generated": an approval that has *)
(* sent its task to the broker brings slots, unless the stadium is closed  *)
(* or taken back into review before the task runs.                         *)
ApprovedGetsSlots ==
    (queue > 0 /\ stadium.status = "active" /\ hours # Closed)
        ~> (slots # {} \/ stadium.status # "active" \/ hours = Closed)
===============================================================================
