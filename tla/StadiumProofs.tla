---------------------------- MODULE StadiumProofs ----------------------------
(***************************************************************************)
(* Proofs about Stadium: the inductive invariant of the decisions about a  *)
(* listing, that they implement Moderation, its gallery and its averages.  *)
(*                                                                         *)
(* The gallery: by how much overlapping uploads exceed the limit of photos.*)
(* A photo that is gone and will be saved again by a request that has read *)
(* it counts as one that is there.                                         *)
(*                                                                         *)
(* A review request that overlaps no other stores averages of all reviews. *)
(***************************************************************************)
EXTENDS Stadium, FiniteSetTheorems, TLAPS

-----------------------------------------------------------------------------
(* What a thread's label says about its locals *)

\* What the locals of a thread are at each statement.
LEMMA Locals ==
    ASSUME NEW s \in ThreadStates
    PROVE  /\ s.at = "save" => s \in [at : {"save"}, copy : RowType]
           /\ s.at = "insert" => s \in [at : {"insert"}, cover : BOOLEAN]
           /\ s.at \in {"drop", "match"} => s \in [at : {"drop", "match"}, photo : Photos]
           /\ s.at = "store" => s \in [at : {"store"}, photo : Photos, cover : BOOLEAN]
           /\ s.at = "cover" =>
                 s \in [at : {"cover"}, photo : Photos, others : SUBSET Photos]
           /\ s.at = "hours" => s \in [at : {"hours"}, duration : Durations]
           /\ s.at = "create" =>
                 s \in [at : {"create"}, duration : Durations, hours : HourChoices,
                        start : Nat]
           /\ s.at = "review" => s \in [at : {"review"}, booking : Bookings]
           /\ s.at = "commit" =>
                 s \in [at : {"commit"}, booking : Bookings, seen : SUBSET Bookings]
           /\ s.at = "rate" => s \in [at : {"rate"}, seen : SUBSET Bookings]
<1>1. CASE s = Idle
  BY <1>1 DEF Idle
<1>2. CASE s \in [at : {"gallery", "submit", "reread", "delete", "approve", "enqueue",
                        "reject", "first", "aggregate"}]
  BY <1>2
<1>3. CASE s \in [at : {"save"}, copy : RowType]
  BY <1>3
<1>4. CASE s \in [at : {"insert"}, cover : BOOLEAN]
  BY <1>4
<1>5. CASE s \in [at : {"drop", "match"}, photo : Photos]
  BY <1>5
<1>6. CASE s \in [at : {"store"}, photo : Photos, cover : BOOLEAN]
  BY <1>6
<1>7. CASE s \in [at : {"cover"}, photo : Photos, others : SUBSET Photos]
  BY <1>7
<1>8. CASE s \in [at : {"hours"}, duration : Durations]
  BY <1>8
<1>9. CASE s \in [at : {"create"}, duration : Durations, hours : HourChoices, start : Nat]
  BY <1>9
<1>10. CASE s \in [at : {"review"}, booking : Bookings]
  BY <1>10
<1>11. CASE s \in [at : {"commit"}, booking : Bookings, seen : SUBSET Bookings]
  BY <1>11
<1>12. CASE s \in [at : {"rate"}, seen : SUBSET Bookings]
  BY <1>12
<1> QED
  BY <1>1, <1>2, <1>3, <1>4, <1>5, <1>6, <1>7, <1>8, <1>9, <1>10, <1>11, <1>12
     DEF ThreadStates

\* A thread that goes on leaves the others alone.
LEMMA GotoTyped ==
    ASSUME thread \in [Threads -> ThreadStates], NEW t \in Threads,
           NEW next \in ThreadStates, Goto(t, next)
    PROVE  /\ thread' \in [Threads -> ThreadStates]
           /\ thread'[t] = next
           /\ \A u \in Threads : u # t => thread'[u] = thread[u]
BY DEF Goto

\* save(update_fields=...) keeps a row a row.
LEMMA SaveStatusTyped ==
    ASSUME stadium \in RowType, NEW new \in Status, SaveStatus(new)
    PROVE  /\ stadium' \in RowType
           /\ Exists => stadium'.status = new
           /\ ~ Exists => stadium' = stadium
BY DEF SaveStatus, RowType

-----------------------------------------------------------------------------
(* Type correctness *)

\* The types hold at the start,
LEMMA TypeInit == Init => TypeOK
<1> SUFFICES ASSUME Init PROVE TypeOK
  OBVIOUS
<1>1. Idle \in ThreadStates
  BY DEF ThreadStates
<1>2. stadium \in RowType /\ thread \in [Threads -> ThreadStates] /\ queue \in Nat
  BY <1>1 DEF Init, RowInit, RowType, Status
<1> QED
  BY <1>2 DEF Init, GalleryInit, TimetableInit, RatingsInit, TypeOK

\* after a statement of the owner,
LEMMA OwnerTyped ==
    ASSUME TypeOK, NEW o \in Owners, OwnerStep(o), UNCHANGED << timetable, ratings >>
    PROVE  TypeOK'
<1> USE DEF TypeOK, row, gallery, timetable, ratings
<1> o \in Threads
  BY DEF Threads
<1>1. CASE BeginSubmit(o) \/ BeginEdit(o) \/ BeginDelete(o)
  <2>1. PICK label \in {"gallery", "reread", "delete"} : Goto(o, [at |-> label])
    BY <1>1 DEF BeginSubmit, BeginEdit, BeginDelete, Begin
  <2>2. [at |-> label] \in ThreadStates
    BY DEF ThreadStates
  <2>3. thread' \in [Threads -> ThreadStates]
    BY <2>1, <2>2, GotoTyped
  <2> QED
    BY <1>1, <2>3 DEF BeginSubmit, BeginEdit, BeginDelete, Begin
<1>2. CASE CheckGallery(o)
  <2>1. Idle \in ThreadStates /\ [at |-> "submit"] \in ThreadStates
    BY DEF ThreadStates
  <2>2. thread' \in [Threads -> ThreadStates]
    BY <1>2, <2>1, GotoTyped DEF CheckGallery
  <2> QED
    BY <1>2, <2>2 DEF CheckGallery
<1>3. CASE CommitSubmit(o)
  <2>1. thread' \in [Threads -> ThreadStates]
    BY <1>3, GotoTyped DEF CommitSubmit, ThreadStates
  <2>2. stadium' \in RowType
    BY <1>3, SaveStatusTyped DEF CommitSubmit, Status
  <2> QED
    BY <1>3, <2>1, <2>2 DEF CommitSubmit
<1>4. CASE Reread(o)
  <2>1. Idle \in ThreadStates /\ [at |-> "save", copy |-> stadium] \in ThreadStates
    BY DEF ThreadStates
  <2>2. thread' \in [Threads -> ThreadStates]
    BY <1>4, <2>1, GotoTyped DEF Reread
  <2> QED
    BY <1>4, <2>2 DEF Reread
<1>5. CASE CommitEdit(o)
  <2>1. thread' \in [Threads -> ThreadStates]
    BY <1>5, GotoTyped DEF CommitEdit, ThreadStates
  <2>2. thread[o].copy \in RowType
    BY <1>5, Locals DEF CommitEdit, At
  <2>3. stadium' \in RowType
    BY <1>5, <2>2 DEF CommitEdit, SaveAll, RowType
  <2> QED
    BY <1>5, <2>1, <2>3 DEF CommitEdit
<1> QED
  BY <1>1, <1>2, <1>3, <1>4, <1>5 DEF OwnerStep

\* of an administrator,
LEMMA AdminTyped ==
    ASSUME TypeOK, NEW a \in Admins, AdminStep(a), UNCHANGED << timetable, ratings >>
    PROVE  TypeOK'
<1> USE DEF TypeOK, row, gallery, timetable, ratings
<1> a \in Threads
  BY DEF Threads
<1>1. CASE BeginApprove(a) \/ BeginReject(a)
  <2>1. PICK label \in {"approve", "reject"} : Goto(a, [at |-> label])
    BY <1>1 DEF BeginApprove, BeginReject, Begin
  <2>2. [at |-> label] \in ThreadStates
    BY DEF ThreadStates
  <2>3. thread' \in [Threads -> ThreadStates]
    BY <2>1, <2>2, GotoTyped
  <2> QED
    BY <1>1, <2>3 DEF BeginApprove, BeginReject, Begin
<1>2. CASE CommitApprove(a)
  <2>1. Idle \in ThreadStates /\ [at |-> "enqueue"] \in ThreadStates
    BY DEF ThreadStates
  <2>2. thread' \in [Threads -> ThreadStates]
    BY <1>2, <2>1, GotoTyped DEF CommitApprove
  <2>3. stadium' \in RowType
    BY <1>2, SaveStatusTyped DEF CommitApprove, Status
  <2> QED
    BY <1>2, <2>2, <2>3 DEF CommitApprove
<1>3. CASE EnqueueGeneration(a)
  <2>1. thread' \in [Threads -> ThreadStates]
    BY <1>3, GotoTyped DEF EnqueueGeneration, ThreadStates
  <2> QED
    BY <1>3, <2>1 DEF EnqueueGeneration
<1>4. CASE CommitReject(a)
  <2>1. thread' \in [Threads -> ThreadStates]
    BY <1>4, GotoTyped DEF CommitReject, ThreadStates
  <2>2. stadium' \in RowType
    BY <1>4, SaveStatusTyped DEF CommitReject, Status
  <2> QED
    BY <1>4, <2>1, <2>2 DEF CommitReject
<1> QED
  BY <1>1, <1>2, <1>3, <1>4 DEF AdminStep

\* of a photo request,
LEMMA PhotoTyped ==
    ASSUME TypeOK, NEW u \in Uploaders, PhotoStep(u), UNCHANGED << timetable, ratings >>
    PROVE  TypeOK'
<1> USE DEF TypeOK, row, gallery, timetable, ratings
<1> u \in Threads
  BY DEF Threads
<1>i. Idle \in ThreadStates
  BY DEF ThreadStates
<1>1. CASE BeginUpload(u)
  <2>1. thread' \in [Threads -> ThreadStates]
    BY <1>1, GotoTyped DEF BeginUpload, ThreadStates
  <2> QED
    BY <1>1, <2>1 DEF BeginUpload
<1>2. CASE ReadFirst(u)
  <2>1. [at |-> "insert", cover |-> photos = {}] \in ThreadStates
    BY DEF ThreadStates
  <2>2. thread' \in [Threads -> ThreadStates]
    BY <1>2, <2>1, GotoTyped DEF ReadFirst
  <2> QED
    BY <1>2, <2>2 DEF ReadFirst
<1>3. CASE InsertPhoto(u)
  <2>1. thread' \in [Threads -> ThreadStates]
    BY <1>i, <1>3, GotoTyped DEF InsertPhoto
  <2> QED
    BY <1>3, <2>1 DEF InsertPhoto
<1>4. CASE BeginPhoto(u)
  <2>1. PICK p \in photos :
          \/ \E label \in {"drop", "match"} : Goto(u, [at |-> label, photo |-> p])
          \/ \E value \in BOOLEAN : Goto(u, [at |-> "store", photo |-> p, cover |-> value])
    BY <1>4 DEF BeginPhoto
  <2>2. thread' \in [Threads -> ThreadStates]
    <3>1. ASSUME NEW label \in {"drop", "match"}
          PROVE  [at |-> label, photo |-> p] \in ThreadStates
      BY DEF ThreadStates
    <3>2. ASSUME NEW value \in BOOLEAN
          PROVE  [at |-> "store", photo |-> p, cover |-> value] \in ThreadStates
      BY DEF ThreadStates
    <3> QED
      BY <2>1, <3>1, <3>2, GotoTyped
  <2> QED
    BY <1>4, <2>2 DEF BeginPhoto
<1>5. CASE DropPhoto(u)
  <2>1. thread' \in [Threads -> ThreadStates]
    BY <1>i, <1>5, GotoTyped DEF DropPhoto
  <2> QED
    BY <1>5, <2>1 DEF DropPhoto
<1>6. CASE StorePhoto(u)
  <2>1. thread' \in [Threads -> ThreadStates]
    BY <1>i, <1>6, GotoTyped DEF StorePhoto
  <2>2. thread[u].photo \in Photos
    BY <1>6, Locals DEF StorePhoto, At
  <2> QED
    BY <1>6, <2>1, <2>2 DEF StorePhoto
<1>7. CASE MatchCovers(u)
  <2>1. thread[u].photo \in Photos
    BY <1>7, Locals DEF MatchCovers, At
  <2>2. [at |-> "cover", photo |-> thread[u].photo, others |-> covers \ {thread[u].photo}]
          \in ThreadStates
    BY <2>1 DEF ThreadStates
  <2>3. thread' \in [Threads -> ThreadStates]
    BY <1>7, <2>2, GotoTyped DEF MatchCovers
  <2> QED
    BY <1>7, <2>3 DEF MatchCovers
<1>8. CASE CommitCover(u)
  <2>1. thread' \in [Threads -> ThreadStates]
    BY <1>i, <1>8, GotoTyped DEF CommitCover
  <2>2. thread[u].photo \in Photos
    BY <1>8, Locals DEF CommitCover, At
  <2> QED
    BY <1>8, <2>1, <2>2 DEF CommitCover
<1>9. CASE RefusePhoto(u)
  <2>1. thread' \in [Threads -> ThreadStates]
    BY <1>i, <1>9, GotoTyped DEF RefusePhoto
  <2> QED
    BY <1>9, <2>1 DEF RefusePhoto
<1> QED
  BY <1>1, <1>2, <1>3, <1>4, <1>5, <1>6, <1>7, <1>8, <1>9 DEF PhotoStep

\* of a generator run,
LEMMA GeneratorTyped ==
    ASSUME TypeOK, NEW g \in Generators, GeneratorStep(g) \/ FailRun(g),
           UNCHANGED << gallery, ratings >>
    PROVE  TypeOK'
<1> USE DEF TypeOK, row, gallery, timetable, ratings
<1> g \in Threads
  BY DEF Threads
<1>i. Idle \in ThreadStates
  BY DEF ThreadStates
<1>1. CASE BeginRun(g)
  <2>1. stadium.duration \in Durations
    BY DEF RowType
  <2>2. [at |-> "hours", duration |-> stadium.duration] \in ThreadStates
    BY <2>1 DEF ThreadStates
  <2>3. thread' \in [Threads -> ThreadStates]
    BY <1>i, <1>1, <2>2, GotoTyped DEF BeginRun
  <2> QED
    BY <1>1, <2>3 DEF BeginRun
<1>2. CASE ReadHours(g)
  <2>1. CASE hours = Closed
    <3>1. thread' \in [Threads -> ThreadStates]
      BY <1>i, <1>2, <2>1, GotoTyped DEF ReadHours
    <3> QED
      BY <1>2, <2>1, <3>1 DEF ReadHours
  <2>2. CASE hours # Closed
    <3>1. hours \in HourChoices /\ hours[1] \in Nat
      BY <2>2, HoursAssumption DEF ValidHours
    <3>2. thread[g].duration \in Durations
      BY <1>2, Locals DEF ReadHours, At
    <3>3. [at |-> "create", duration |-> thread[g].duration, hours |-> hours,
           start |-> hours[1]] \in ThreadStates
      BY <3>1, <3>2 DEF ThreadStates
    <3>4. thread' \in [Threads -> ThreadStates]
      BY <1>2, <2>2, <3>3, GotoTyped DEF ReadHours
    <3> QED
      BY <1>2, <2>2, <3>4 DEF ReadHours
  <2> QED
    BY <2>1, <2>2
<1>3. CASE CreateSlot(g)
  <2>1. thread[g] \in [at : {"create"}, duration : Durations, hours : HourChoices,
                       start : Nat]
    BY <1>3, Locals DEF CreateSlot, At
  <2>2. NextStart(g) \in Nat
    <3>1. thread[g].start \in Nat /\ thread[g].duration \in Durations
      BY <2>1
    <3>2. thread[g].duration \in Nat
      BY <3>1, DurationsAssumption
    <3> QED
      BY <3>1, <3>2 DEF NextStart
  <2>3. [thread[g] EXCEPT !.start = NextStart(g)]
          \in [at : {"create"}, duration : Durations, hours : HourChoices, start : Nat]
    BY <2>1, <2>2
  <2>4. thread' = [thread EXCEPT ![g] = [thread[g] EXCEPT !.start = NextStart(g)]]
    BY <1>3 DEF CreateSlot
  <2>5. thread' \in [Threads -> ThreadStates]
    BY <2>3, <2>4 DEF ThreadStates
  <2> QED
    BY <1>3, <2>5 DEF CreateSlot
<1>4. CASE EndRun(g)
  <2>1. thread' \in [Threads -> ThreadStates]
    BY <1>i, <1>4, GotoTyped DEF EndRun
  <2> QED
    BY <1>4, <2>1 DEF EndRun
<1>5. CASE FailRun(g)
  <2>1. thread' \in [Threads -> ThreadStates]
    BY <1>i, <1>5, GotoTyped DEF FailRun
  <2> QED
    BY <1>5, <2>1 DEF FailRun
<1> QED
  BY <1>1, <1>2, <1>3, <1>4, <1>5 DEF GeneratorStep

\* of a review request,
LEMMA ReviewerTyped ==
    ASSUME TypeOK, NEW r \in Reviewers, ReviewerStep(r), UNCHANGED << gallery, timetable >>
    PROVE  TypeOK'
<1> USE DEF TypeOK, row, gallery, timetable, ratings
<1> r \in Threads
  BY DEF Threads
<1>i. Idle \in ThreadStates
  BY DEF ThreadStates
<1>1. ASSUME NEW next \in ThreadStates, Arrive(r, next)
      PROVE  TypeOK'
  <2>1. thread' \in [Threads -> ThreadStates]
    BY <1>1, GotoTyped DEF Arrive
  <2> QED
    BY <1>1, <2>1 DEF Arrive
<1>2. CASE BeginReview(r)
  <2>1. PICK b \in completed : Arrive(r, [at |-> "review", booking |-> b])
    BY <1>2 DEF BeginReview
  <2>2. [at |-> "review", booking |-> b] \in ThreadStates
    BY DEF ThreadStates
  <2> QED
    BY <1>1, <2>1, <2>2
<1>3. CASE BeginRespond(r)
  <2>1. [at |-> "aggregate"] \in ThreadStates
    BY DEF ThreadStates
  <2> QED
    BY <1>1, <1>3, <2>1 DEF BeginRespond
<1>4. CASE InsertReview(r)
  <2>1. thread[r].booking \in Bookings
    BY <1>4, Locals DEF InsertReview, At
  <2>2. [at |-> "commit", booking |-> thread[r].booking,
         seen |-> Aggregate(thread[r].booking)] \in ThreadStates
    BY <2>1 DEF ThreadStates, Aggregate
  <2>3. thread' \in [Threads -> ThreadStates]
    BY <1>4, <2>2, GotoTyped DEF InsertReview
  <2> QED
    BY <1>4, <2>3 DEF InsertReview
<1>5. CASE RefuseReview(r)
  <2>1. thread' \in [Threads -> ThreadStates]
    BY <1>i, <1>5, GotoTyped DEF RefuseReview
  <2> QED
    BY <1>5, <2>1 DEF RefuseReview
<1>6. CASE CommitReview(r)
  <2>1. thread[r].booking \in Bookings /\ thread[r].seen \in SUBSET Bookings
    BY <1>6, Locals DEF CommitReview, At
  <2>2. thread' \in [Threads -> ThreadStates]
    BY <1>i, <1>6, GotoTyped DEF CommitReview
  <2>3. stadium' \in RowType /\ reviews' \subseteq Bookings
    BY <1>6, <2>1 DEF CommitReview, RowType
  <2> QED
    BY <1>6, <2>2, <2>3 DEF CommitReview
<1>7. CASE AggregateAll(r)
  <2>1. [at |-> "rate", seen |-> reviews] \in ThreadStates
    BY DEF ThreadStates
  <2>2. thread' \in [Threads -> ThreadStates]
    BY <1>7, <2>1, GotoTyped DEF AggregateAll
  <2> QED
    BY <1>7, <2>2 DEF AggregateAll
<1>8. CASE WriteRating(r)
  <2>1. thread[r].seen \in SUBSET Bookings
    BY <1>8, Locals DEF WriteRating, At
  <2>2. thread' \in [Threads -> ThreadStates]
    BY <1>i, <1>8, GotoTyped DEF WriteRating
  <2>3. stadium' \in RowType
    BY <1>8, <2>1 DEF WriteRating, RowType
  <2> QED
    BY <1>8, <2>2, <2>3 DEF WriteRating
<1> QED
  BY <1>2, <1>3, <1>4, <1>5, <1>6, <1>7, <1>8 DEF ReviewerStep

\* and after each step.
LEMMA TypeStep == TypeOK /\ [Next]_vars => TypeOK'
<1> SUFFICES ASSUME TypeOK, [Next]_vars PROVE TypeOK'
  OBVIOUS
<1>i. Idle \in ThreadStates
  BY DEF ThreadStates
<1>1. CASE ListingNext /\ UNCHANGED << timetable, ratings >>
  BY <1>1, OwnerTyped, AdminTyped, PhotoTyped DEF ListingNext
<1>2. CASE TimetableNext /\ UNCHANGED << gallery, ratings >>
  <2>1. CASE ReplaceHours
    BY <1>2, <2>1 DEF ReplaceHours, TypeOK, row, gallery, ratings
  <2>2. CASE SendDailyRun
    BY <1>2, <2>2 DEF SendDailyRun, TypeOK, row, gallery, timetable, ratings
  <2> QED
    BY <1>2, <2>1, <2>2, GeneratorTyped DEF TimetableNext
<1>3. CASE RatingsNext /\ UNCHANGED << gallery, timetable >>
  <2>1. CASE CompleteBooking
    BY <1>3, <2>1 DEF CompleteBooking, TypeOK, row, gallery, timetable
  <2> QED
    BY <1>3, <2>1, ReviewerTyped DEF RatingsNext
<1>4. ASSUME NEW o \in Owners, CommitDelete(o)
      PROVE  TypeOK'
  <2>1. thread' \in [Threads -> ThreadStates]
    BY <1>i, <1>4, GotoTyped DEF CommitDelete, DeleteRow, TypeOK, Threads
  <2>2. stadium' \in RowType
    BY <1>4 DEF CommitDelete, DeleteRow, TypeOK, RowType, Status
  <2> QED
    BY <1>4, <2>1, <2>2 DEF CommitDelete, DeleteRow, TypeOK, ratings
<1>5. ASSUME NEW o \in Owners, RefuseDelete(o)
      PROVE  TypeOK'
  <2>1. thread' \in [Threads -> ThreadStates]
    BY <1>i, <1>5, GotoTyped DEF RefuseDelete, TypeOK, Threads
  <2> QED
    BY <1>5, <2>1 DEF RefuseDelete, TypeOK, row, gallery, timetable, ratings
<1>6. ASSUME NEW t \in Threads, Crash(t), UNCHANGED << gallery, timetable, ratings >>
      PROVE  TypeOK'
  <2>1. thread' \in [Threads -> ThreadStates]
    BY <1>i, <1>6, GotoTyped DEF Crash, TypeOK
  <2> QED
    BY <1>6, <2>1 DEF Crash, TypeOK, row, gallery, timetable, ratings
<1>7. CASE UNCHANGED vars
  BY <1>7 DEF TypeOK, ThreadStates, RowType, vars, row, gallery, timetable, ratings
<1> QED
  BY <1>1, <1>2, <1>3, <1>4, <1>5, <1>6, <1>7 DEF Next

-----------------------------------------------------------------------------
(* The decisions about the listing *)

\* Nothing is decided at the start.
LEMMA DecisionsInit == Init => DecisionsHold
BY DEF Init, RowInit, Idle, DecisionsHold, AdminDecides, OwnerDecides, At, Threads

\* A step that leaves the status alone, and of the owner and administrators at
\* most ends a request.
LEMMA DecisionsKept ==
    ASSUME DecisionsHold, stadium'.status = stadium.status,
           \A t \in Owners \cup Admins : thread'[t] \in {thread[t], Idle}
    PROVE  DecisionsHold'
<1>1. ASSUME NEW a \in Admins PROVE AdminDecides(a)'
  BY <1>1 DEF DecisionsHold, AdminDecides, Idle
<1>2. ASSUME NEW o \in Owners PROVE OwnerDecides(o)'
  <2>1. CASE thread'[o] = thread[o]
    BY <1>2, <2>1 DEF DecisionsHold, OwnerDecides, At, Exists
  <2>2. CASE thread'[o] = Idle
    BY <1>2, <2>2 DEF OwnerDecides, Idle, At
  <2> QED
    BY <1>2, <2>1, <2>2
<1> QED
  BY <1>1, <1>2 DEF DecisionsHold

\* A step of a thread that decides nothing.
LEMMA OthersKeepDecisions ==
    ASSUME TypeOK, DecisionsHold, NEW t \in Uploaders \cup Generators \cup Reviewers,
           NEW next, Goto(t, next), stadium'.status = stadium.status
    PROVE  DecisionsHold'
<1>1. \A u \in Owners \cup Admins : u # t /\ u \in Threads
  BY StadiumThreads DEF Threads
<1>2. \A u \in Owners \cup Admins : thread'[u] = thread[u]
  BY <1>1 DEF Goto, TypeOK
<1> QED
  BY <1>2, DecisionsKept

\* A step of the owner: what remains is what it leaves behind.
LEMMA OwnerKeepsDecisions ==
    ASSUME TypeOK, OneEach, DecisionsHold, NEW o \in Owners, NEW next, Goto(o, next),
           \A a \in Admins : AdminDecides(a) =>
              (thread[a].at \in {"approve", "reject"} => stadium'.status = "pending_review"),
           next.at \in {"gallery", "submit", "delete"} => stadium'.status = "draft",
           next.at = "save" => next = [at |-> "save", copy |-> stadium'] /\ Exists'
    PROVE  DecisionsHold'
<1>1. thread'[o] = next /\ \A a \in Admins : thread'[a] = thread[a]
  <2>1. o \in Threads /\ \A a \in Admins : a # o /\ a \in Threads
    BY StadiumThreads DEF Threads
  <2> QED
    BY <2>1 DEF Goto, TypeOK
<1>2. ASSUME NEW a \in Admins PROVE AdminDecides(a)'
  BY <1>1, <1>2 DEF AdminDecides, DecisionsHold
<1>3. ASSUME NEW p \in Owners PROVE OwnerDecides(p)'
  <2>1. p = o
    BY <1>3 DEF OneEach
  <2>2. CASE next.at = "save"
    BY <1>1, <2>1, <2>2 DEF OwnerDecides, At, Exists
  <2>3. CASE next.at # "save"
    BY <1>1, <2>1, <2>3 DEF OwnerDecides, At
  <2> QED
    BY <2>2, <2>3
<1> QED
  BY <1>2, <1>3 DEF DecisionsHold

\* The owner's statements leave an administrator's decision valid.
LEMMA OwnerDecisions ==
    ASSUME TypeOK, OneEach, DecisionsHold, NEW o \in Owners, OwnerStep(o)
    PROVE  DecisionsHold'
<1> DEFINE AdminsHold == \A a \in Admins : AdminDecides(a) =>
              (thread[a].at \in {"approve", "reject"} => stadium'.status = "pending_review")
<1>a. stadium' = stadium => AdminsHold
  BY DEF AdminDecides
<1>b. OwnerDecides(o)
  BY DEF DecisionsHold
<1>1. CASE BeginSubmit(o) \/ BeginEdit(o) \/ BeginDelete(o)
  <2>1. PICK label \in {"gallery", "reread", "delete"} :
           /\ Goto(o, [at |-> label])
           /\ stadium' = stadium
           /\ label # "reread" => stadium.status = "draft"
    BY <1>1 DEF BeginSubmit, BeginEdit, BeginDelete, Begin, row
  <2> HIDE DEF AdminsHold
  <2> QED
    BY <1>a, <2>1, OwnerKeepsDecisions DEF AdminsHold
<1>2. CASE CheckGallery(o)
  <2>1. stadium' = stadium /\ stadium.status = "draft"
    BY <1>2, <1>b DEF CheckGallery, OwnerDecides, At, row
  <2>2. PICK next \in {Idle, [at |-> "submit"]} : Goto(o, next)
    BY <1>2 DEF CheckGallery
  <2>3. next.at # "save"
    BY DEF Idle
  <2> QED
    BY <1>a, <2>1, <2>2, <2>3, OwnerKeepsDecisions
<1>3. CASE CommitSubmit(o)
  <2>1. stadium.status = "draft"
    BY <1>3, <1>b DEF CommitSubmit, OwnerDecides, At
  <2>2. AdminsHold
    BY <2>1 DEF AdminDecides
  <2> QED
    BY <1>3, <2>2, OwnerKeepsDecisions DEF CommitSubmit, Idle
<1>4. CASE Reread(o)
  <2>1. CASE Exists
    <3>1. Goto(o, [at |-> "save", copy |-> stadium']) /\ stadium' = stadium /\ Exists'
      BY <1>4, <2>1 DEF Reread, row, Exists
    <3> QED
      BY <1>a, <3>1, OwnerKeepsDecisions
  <2>2. CASE ~ Exists
    <3>1. Goto(o, Idle) /\ stadium' = stadium
      BY <1>4, <2>2 DEF Reread, row
    <3> QED
      BY <1>a, <3>1, OwnerKeepsDecisions DEF Idle
  <2> QED
    BY <2>1, <2>2
<1>5. CASE CommitEdit(o)
  <2>1. thread[o].copy \in RowType
    BY <1>5, Locals DEF CommitEdit, At, TypeOK, Threads
  <2>2. stadium'.status = thread[o].copy.status
    BY <1>5, <2>1 DEF CommitEdit, SaveAll, RowType
  <2>3. stadium'.status # "pending_review" => stadium'.status = stadium.status
    BY <1>5, <1>b, <2>2 DEF CommitEdit, OwnerDecides, At
  <2>4. AdminsHold
    BY <2>3 DEF AdminDecides
  <2> QED
    BY <1>5, <2>4, OwnerKeepsDecisions DEF CommitEdit, Idle
<1> QED
  BY <1>1, <1>2, <1>3, <1>4, <1>5 DEF OwnerStep

\* An administrator's statements leave the owner's copy valid, or meet it in review.
LEMMA AdminDecisions ==
    ASSUME TypeOK, OneEach, DecisionsHold, NEW a \in Admins, AdminStep(a)
    PROVE  DecisionsHold'
<1>a. AdminDecides(a) /\ stadium.status \in Status
  BY DEF DecisionsHold, TypeOK, RowType
<1>b. a \in Threads /\ \A o \in Owners : o # a /\ o \in Threads
  BY StadiumThreads DEF Threads
<1>c. ASSUME NEW next, Goto(a, next)
      PROVE  thread'[a] = next /\ \A o \in Owners : thread'[o] = thread[o]
  BY <1>b, <1>c DEF Goto, TypeOK
<1>1. ASSUME NEW next, Goto(a, next), next.at \in {"approve", "reject"} =>
                                                  stadium'.status = "pending_review",
             \A o \in Owners : OwnerDecides(o)'
      PROVE  DecisionsHold'
  <2>1. thread'[a] = next
    BY <1>1, <1>c
  <2>2. ASSUME NEW b \in Admins PROVE AdminDecides(b)'
    BY <1>1, <2>1 DEF OneEach, AdminDecides
  <2> QED
    BY <1>1, <2>2 DEF DecisionsHold
<1>2. CASE BeginApprove(a) \/ BeginReject(a)
  <2>1. PICK label \in {"approve", "reject"} :
           Goto(a, [at |-> label]) /\ stadium' = stadium /\ stadium.status = "pending_review"
    BY <1>2 DEF BeginApprove, BeginReject, Begin, row
  <2>2. \A o \in Owners : OwnerDecides(o)'
    BY <1>c, <2>1 DEF DecisionsHold, OwnerDecides, At, Exists
  <2> QED
    BY <1>1, <2>1, <2>2
<1>3. CASE EnqueueGeneration(a)
  <2>1. Goto(a, Idle) /\ stadium' = stadium
    BY <1>3 DEF EnqueueGeneration
  <2>2. \A o \in Owners : OwnerDecides(o)'
    BY <1>c, <2>1 DEF DecisionsHold, OwnerDecides, At, Exists
  <2> QED
    BY <1>1, <2>1, <2>2 DEF Idle
<1>4. CASE CommitApprove(a) \/ CommitReject(a)
  <2>1. PICK next \in {Idle, [at |-> "enqueue"]} : Goto(a, next)
    BY <1>4 DEF CommitApprove, CommitReject
  <2>2. stadium.status = "pending_review"
    BY <1>4, <1>a DEF CommitApprove, CommitReject, At, AdminDecides
  <2>3. stadium'.status \in {"active", "draft"}
    BY <1>4, <2>2, SaveStatusTyped DEF CommitApprove, CommitReject, Exists, Status, TypeOK
  <2>4. ASSUME NEW o \in Owners PROVE OwnerDecides(o)'
    <3>1. thread'[o] = thread[o]
      BY <1>c, <2>1
    <3>2. OwnerDecides(o)
      BY DEF DecisionsHold
    <3>3. thread[o].at \notin {"gallery", "submit", "delete"}
      BY <2>2, <3>2 DEF OwnerDecides
    <3>4. At(o, "save") => thread[o].copy.status = "pending_review"
      BY <2>2, <3>2 DEF OwnerDecides
    <3> QED
      BY <2>3, <3>1, <3>3, <3>4 DEF OwnerDecides, At, Exists
  <2> QED
    BY <1>1, <2>1, <2>4 DEF Idle
<1> QED
  BY <1>2, <1>3, <1>4 DEF AdminStep

\* Every step keeps the decisions valid.
LEMMA DecisionsStep ==
    ASSUME TypeOK, OneEach, DecisionsHold, [Next]_vars
    PROVE  DecisionsHold'
<1>1. ASSUME NEW o \in Owners, OwnerStep(o)
      PROVE  DecisionsHold'
  BY <1>1, OwnerDecisions
<1>2. ASSUME NEW a \in Admins, AdminStep(a)
      PROVE  DecisionsHold'
  BY <1>2, AdminDecisions
<1>3. ASSUME NEW u \in Uploaders, PhotoStep(u)
      PROVE  DecisionsHold'
  <2>1. stadium' = stadium /\ \E next : Goto(u, next)
    BY <1>3 DEF PhotoStep, BeginUpload, ReadFirst, InsertPhoto, BeginPhoto, DropPhoto,
                StorePhoto, MatchCovers, CommitCover, RefusePhoto, row
  <2> QED
    BY <2>1, OthersKeepDecisions
<1>4. ASSUME NEW g \in Generators, GeneratorStep(g) \/ FailRun(g)
      PROVE  DecisionsHold'
  <2>1. stadium' = stadium
    BY <1>4 DEF GeneratorStep, BeginRun, ReadHours, CreateSlot, EndRun, FailRun, row
  <2>2. PICK next : Goto(g, next)
    <3>1. CASE CreateSlot(g)
      <4>1. Goto(g, [thread[g] EXCEPT !.start = NextStart(g)])
        BY <3>1 DEF CreateSlot, Goto
      <4> QED
        BY <4>1
    <3> QED
      BY <1>4, <3>1 DEF GeneratorStep, BeginRun, ReadHours, EndRun, FailRun
  <2> QED
    BY <2>1, <2>2, OthersKeepDecisions
<1>5. ASSUME NEW r \in Reviewers, ReviewerStep(r)
      PROVE  DecisionsHold'
  <2>1. PICK next : Goto(r, next)
    BY <1>5 DEF ReviewerStep, BeginReview, InsertReview, RefuseReview, CommitReview,
                BeginRespond, AggregateAll, WriteRating, Arrive
  <2>2. stadium'.status = stadium.status
    BY <1>5 DEF ReviewerStep, BeginReview, InsertReview, RefuseReview, CommitReview,
                BeginRespond, AggregateAll, WriteRating, Arrive, row, TypeOK, RowType
  <2> QED
    BY <2>1, <2>2, OthersKeepDecisions
<1>6. ASSUME NEW o \in Owners, CommitDelete(o) \/ RefuseDelete(o)
      PROVE  DecisionsHold'
  <2>1. stadium.status = "draft"
    BY <1>6 DEF CommitDelete, RefuseDelete, DeleteRow, DecisionsHold, OwnerDecides, At
  <2>2. \A a \in Admins : AdminDecides(a) => thread[a].at \notin {"approve", "reject"}
    BY <2>1 DEF AdminDecides
  <2>3. Goto(o, Idle)
    BY <1>6 DEF CommitDelete, RefuseDelete, DeleteRow
  <2> QED
    BY <2>2, <2>3, OwnerKeepsDecisions DEF Idle
<1>7. ASSUME NEW t \in Threads, Crash(t)
      PROVE  DecisionsHold'
  <2>1. \A u \in Owners \cup Admins : thread'[u] \in {thread[u], Idle}
    BY <1>7 DEF Crash, Goto, TypeOK, Threads
  <2> QED
    BY <1>7, <2>1, DecisionsKept DEF Crash, row
<1>8. CASE ReplaceHours \/ SendDailyRun \/ CompleteBooking \/ UNCHANGED vars
  <2>1. stadium' = stadium /\ thread' = thread
    BY <1>8 DEF ReplaceHours, SendDailyRun, CompleteBooking, vars, row
  <2> QED
    BY <2>1, DecisionsKept
<1> QED
  BY <1>1, <1>2, <1>3, <1>4, <1>5, <1>6, <1>7, <1>8
     DEF Next, ListingNext, TimetableNext, RatingsNext

(* The invariant of the run, for any number of threads: types always, and  *)
(* the decisions with one thread of the owner and one of an administrator. *)
THEOREM Inductive == Spec => []IInv
<1>1. Init => IInv
  BY TypeInit, DecisionsInit DEF IInv
<1>2. IInv /\ [Next]_vars => IInv'
  <2> SUFFICES ASSUME IInv, [Next]_vars PROVE IInv'
    OBVIOUS
  <2>1. TypeOK'
    BY TypeStep DEF IInv
  <2>2. OneEach => DecisionsHold'
    BY DecisionsStep DEF IInv
  <2> QED
    BY <2>1, <2>2 DEF IInv, OneEach
<1> QED
  BY <1>1, <1>2, PTL DEF Spec

-----------------------------------------------------------------------------
(* Stadium implements Moderation *)

\* The steps that do not write the status.
LEMMA StatusWritten ==
    ASSUME TypeOK, [Next]_vars, stadium'.status # stadium.status
    PROVE  \/ \E o \in Owners : CommitSubmit(o) \/ CommitEdit(o) \/ CommitDelete(o)
           \/ \E a \in Admins : CommitApprove(a) \/ CommitReject(a)
<1>1. \A o \in Owners : OwnerStep(o) => CommitSubmit(o) \/ CommitEdit(o)
  BY DEF OwnerStep, BeginSubmit, BeginEdit, BeginDelete, Begin, CheckGallery, Reread, row
<1>2. \A a \in Admins : AdminStep(a) => CommitApprove(a) \/ CommitReject(a)
  BY DEF AdminStep, BeginApprove, BeginReject, Begin, EnqueueGeneration, row
<1>3. \A u \in Uploaders : ~ PhotoStep(u)
  BY DEF PhotoStep, BeginUpload, ReadFirst, InsertPhoto, BeginPhoto, DropPhoto, StorePhoto,
         MatchCovers, CommitCover, RefusePhoto, row
<1>4. ~ TimetableNext
  BY DEF TimetableNext, ReplaceHours, SendDailyRun, GeneratorStep, BeginRun, ReadHours,
         CreateSlot, EndRun, FailRun, row
<1>5. \A r \in Reviewers : ~ ReviewerStep(r)
  BY DEF ReviewerStep, BeginReview, InsertReview, RefuseReview, CommitReview, BeginRespond,
         AggregateAll, WriteRating, Arrive, row, TypeOK, RowType
<1>6. ~ CompleteBooking
  BY DEF CompleteBooking, row
<1>7. \A t \in Threads : ~ Crash(t)
  BY DEF Crash, row
<1>8. \A o \in Owners : ~ RefuseDelete(o)
  BY DEF RefuseDelete, row
<1>9. ~ UNCHANGED vars
  BY DEF vars, row
<1> QED
  BY <1>1, <1>2, <1>3, <1>4, <1>5, <1>6, <1>7, <1>8, <1>9 DEF Next, ListingNext, RatingsNext

\* Every step is one of the approval workflow or a stutter.
LEMMA ModerationStep ==
    ASSUME TypeOK, OneEach, DecisionsHold, [Next]_vars, TypeOK'
    PROVE  [Abstract!ModerationNext]_Listing
<1> DEFINE from == stadium.status
           to == stadium'.status
<1>a. from \in Status /\ to \in Status
  BY DEF TypeOK, RowType
<1>b. /\ from = "draft" => Listing = "hidden"
      /\ from = "pending_review" => Listing = "queued"
      /\ from = "active" => Listing = "public"
      /\ to = "draft" => Listing' = "hidden"
      /\ to = "pending_review" => Listing' = "queued"
      /\ to = "active" => Listing' = "public"
      /\ to = "deleted" => Listing' = "gone"
  BY <1>a DEF Listing, Status
<1>1. CASE to = from
  BY <1>1 DEF Listing
<1>2. ASSUME NEW o \in Owners, CommitSubmit(o)
      PROVE  [Abstract!ModerationNext]_Listing
  <2>1. from = "draft" /\ to = "pending_review"
    BY <1>2, SaveStatusTyped
       DEF CommitSubmit, DecisionsHold, OwnerDecides, At, Exists, Status, TypeOK
  <2> QED
    BY <1>b, <2>1 DEF Abstract!ModerationNext, Abstract!Enqueue
<1>3. ASSUME NEW o \in Owners, CommitEdit(o), to # from
      PROVE  [Abstract!ModerationNext]_Listing
  <2>1. thread[o].copy \in RowType
    BY <1>3, Locals DEF CommitEdit, At, TypeOK, Threads
  <2>2. to = thread[o].copy.status
    BY <1>3, <2>1 DEF CommitEdit, SaveAll, RowType
  <2>3. to = "pending_review" /\ from # "deleted"
    BY <1>3, <2>2 DEF CommitEdit, DecisionsHold, OwnerDecides, At, Exists
  <2> QED
    BY <1>3, <1>a, <1>b, <2>3
       DEF Status, Abstract!ModerationNext, Abstract!Enqueue, Abstract!Withdraw
<1>4. ASSUME NEW o \in Owners, CommitDelete(o)
      PROVE  [Abstract!ModerationNext]_Listing
  <2>1. from = "draft" /\ to = "deleted"
    BY <1>4 DEF CommitDelete, DeleteRow, DecisionsHold, OwnerDecides, At, TypeOK, RowType
  <2> QED
    BY <1>b, <2>1 DEF Abstract!ModerationNext, Abstract!Discard
<1>5. ASSUME NEW a \in Admins, CommitApprove(a) \/ CommitReject(a)
      PROVE  [Abstract!ModerationNext]_Listing
  <2>1. from = "pending_review"
    BY <1>5 DEF CommitApprove, CommitReject, DecisionsHold, AdminDecides, At
  <2>2. to \in {"active", "draft"}
    BY <1>5, <2>1, SaveStatusTyped
       DEF CommitApprove, CommitReject, Exists, Status, TypeOK
  <2> QED
    BY <1>b, <2>1, <2>2
       DEF Abstract!ModerationNext, Abstract!Publish, Abstract!TurnDown
<1> QED
  BY <1>1, <1>2, <1>3, <1>4, <1>5, StatusWritten

(* With one thread of the owner and one of an administrator, every         *)
(* behaviour of a stadium is one of the abstract workflow.                 *)
THEOREM Moderated == OneEach => (Spec => ImplementsModeration)
<1> SUFFICES ASSUME OneEach PROVE Spec => ImplementsModeration
  OBVIOUS
<1>1. Init => Abstract!ModerationInit
  BY DEF Init, RowInit, Listing, Abstract!ModerationInit
<1>2. IInv /\ IInv' /\ [Next]_vars => [Abstract!ModerationNext]_Listing
  BY ModerationStep DEF IInv
<1> QED
  BY <1>1, <1>2, Inductive, PTL DEF Spec, ImplementsModeration, Abstract!ModerationSpec

-----------------------------------------------------------------------------
(* The gallery *)

Savers == {u \in Uploaders : thread[u].at \in {"match", "store", "cover"}}

Present == photos \cup {thread[u].photo : u \in Savers}

\* The uploads that have found room.
Admitted == {u \in Uploaders : thread[u].at \in {"first", "insert"}}

GalleryInv == Cardinality(Present) + Cardinality(Admitted) < MaxPhotos + Overlapping

\* Photos, uploads and savers are finitely many.
LEMMA Finite ==
    ASSUME TypeOK
    PROVE  /\ IsFiniteSet(Present) /\ IsFiniteSet(photos) /\ IsFiniteSet(Admitted)
           /\ IsFiniteSet(Savers) /\ Present \subseteq Photos
           /\ {Cardinality(Present), Cardinality(photos), Cardinality(Admitted),
               Cardinality(Savers), Cardinality(Uploaders), Overlapping, MaxPhotos}
                 \subseteq Nat
           /\ Cardinality(photos) <= Cardinality(Present)
<1>1. \A u \in Savers : thread[u].photo \in Photos
  BY Locals DEF Savers, TypeOK, Threads
<1>2. Present \subseteq Photos /\ photos \subseteq Present
  BY <1>1 DEF Present, TypeOK
<1>3. IsFiniteSet(Present) /\ IsFiniteSet(photos) /\ Cardinality(photos) <= Cardinality(Present)
  BY <1>2, GalleryAssumption, FS_Subset DEF TypeOK
<1>4. IsFiniteSet(Admitted) /\ IsFiniteSet(Savers) /\ IsFiniteSet(Uploaders)
  BY GalleryAssumption, FS_Subset DEF Admitted, Savers
<1>5. {Cardinality(Present), Cardinality(photos), Cardinality(Admitted), Cardinality(Savers),
       Cardinality(Uploaders)} \subseteq Nat
  BY <1>3, <1>4, FS_CardinalityType
<1> QED
  BY <1>2, <1>3, <1>4, <1>5, GalleryAssumption DEF Overlapping

\* The stadium starts without photos.
LEMMA GalleryInvInit == Init => GalleryInv
<1> SUFFICES ASSUME Init PROVE GalleryInv
  OBVIOUS
<1>1. Savers = {} /\ Admitted = {}
  BY DEF Init, RowInit, Savers, Admitted, Idle, Threads
<1>2. Present = photos
  BY <1>1 DEF Present
<1>3. Cardinality(Admitted) = 0 /\ Cardinality(photos) <= MaxPhotos
  BY <1>1, FS_EmptySet DEF Init, GalleryInit
<1>4. TypeOK
  BY TypeInit
<1>5. Overlapping > 0
  <2>1. CASE Uploaders = {}
    BY <2>1 DEF Overlapping
  <2>2. CASE Uploaders # {}
    BY <1>4, <2>2, Finite, GalleryAssumption, FS_EmptySet DEF Overlapping
  <2> QED
    BY <2>1, <2>2
<1> QED
  BY <1>2, <1>3, <1>4, <1>5, Finite DEF GalleryInv

\* A step that adds nobody.
LEMMA GalleryShrinks ==
    ASSUME TypeOK, TypeOK', GalleryInv, Present' \subseteq Present, Admitted' \subseteq Admitted
    PROVE  GalleryInv'
<1>1. Cardinality(Present') <= Cardinality(Present)
  BY Finite, FS_Subset
<1>2. Cardinality(Admitted') <= Cardinality(Admitted)
  BY Finite, FS_Subset
<1>3. Overlapping' = Overlapping
  BY DEF Overlapping
<1>4. Cardinality(Present') \in Nat /\ Cardinality(Admitted') \in Nat
  <2>1. IsFiniteSet(Present') /\ IsFiniteSet(Admitted')
    BY Finite, FS_Subset
  <2> QED
    BY <2>1, FS_CardinalityType
<1> QED
  BY <1>1, <1>2, <1>3, <1>4, Finite DEF GalleryInv

\* A request that ends or one of another kind, with the photos it leaves.
LEMMA OthersShrink ==
    ASSUME TypeOK, TypeOK', GalleryInv, photos' \subseteq Present,
           NEW t \in Threads, NEW next, Goto(t, next),
           t \in Uploaders =>
              /\ next.at \in {"match", "store", "cover"} => next.photo \in Present
              /\ next.at \in {"first", "insert"} => t \in Admitted
    PROVE  GalleryInv'
<1>1. thread'[t] = next /\ \A u \in Uploaders : u # t => thread'[u] = thread[u]
  BY DEF Goto, TypeOK, Threads
<1>2. ASSUME NEW u \in Uploaders, thread'[u].at \in {"match", "store", "cover"}
      PROVE  thread'[u].photo \in Present
  <2>1. CASE u = t
    BY <1>1, <1>2, <2>1
  <2>2. CASE u # t
    BY <1>1, <1>2, <2>2 DEF Present, Savers
  <2> QED
    BY <2>1, <2>2
<1>3. Present' \subseteq Present
  BY <1>2 DEF Present, Savers
<1>4. Admitted' \subseteq Admitted
  BY <1>1 DEF Admitted
<1> QED
  BY <1>3, <1>4, GalleryShrinks

\* Room was found: others have at most one claim each.
LEMMA UploadAdmitted ==
    ASSUME TypeOK, TypeOK', NEW u \in Uploaders, BeginUpload(u)
    PROVE  GalleryInv'
<1>1. thread'[u] = [at |-> "first"] /\ \A v \in Uploaders : v # u => thread'[v] = thread[v]
  BY DEF BeginUpload, Goto, TypeOK, Threads
<1>2. Savers' = Savers /\ photos' = photos
  BY <1>1 DEF Savers, BeginUpload, At, gallery
<1>3. Present' = photos \cup {thread[v].photo : v \in Savers}
  <2>1. \A v \in Savers : thread'[v] = thread[v]
    BY <1>1 DEF Savers, BeginUpload, At
  <2> QED
    BY <1>2, <2>1 DEF Present
<1> DEFINE Held == {thread[v].photo : v \in Savers}
<1>4. IsFiniteSet(Held) /\ Cardinality(Held) <= Cardinality(Savers)
  <2> DEFINE photoOf == [v \in Savers |-> thread[v].photo]
  <2>1. photoOf \in Surjection(Savers, Held)
    BY DEF Surjection
  <2> HIDE DEF photoOf, Held
  <2> QED
    BY <2>1, FS_Surjection, Finite
<1>5. Cardinality(photos \cup Held) <= Cardinality(photos) + Cardinality(Held)
  <2>1. /\ Cardinality(photos \cup Held) =
              Cardinality(photos) + Cardinality(Held) - Cardinality(photos \cap Held)
        /\ Cardinality(photos \cap Held) \in Nat
    <3> HIDE DEF Held
    <3>1. IsFiniteSet(photos \cap Held)
      BY <1>4, FS_Subset
    <3> QED
      BY <1>4, <3>1, FS_Union, FS_CardinalityType, Finite
  <2>2. Cardinality(photos) \in Nat /\ Cardinality(Held) \in Nat
    BY <1>4, FS_CardinalityType, Finite
  <2> QED
    BY <2>1, <2>2
<1>6. Cardinality(Savers) + Cardinality(Admitted') <= Cardinality(Uploaders)
  <2>1. Savers \cap Admitted' = {} /\ Savers \cup Admitted' \subseteq Uploaders
    BY <1>2 DEF Savers, Admitted
  <2>2. IsFiniteSet(Admitted')
    BY GalleryAssumption, FS_Subset, <2>1
  <2>3. Cardinality(Savers \cup Admitted') <= Cardinality(Uploaders)
    BY <2>1, GalleryAssumption, FS_Subset
  <2>4. Cardinality(Savers \cup Admitted') =
           Cardinality(Savers) + Cardinality(Admitted') - Cardinality(Savers \cap Admitted')
    BY <2>2, Finite, FS_Union
  <2>5. Cardinality(Savers \cap Admitted') = 0
    BY <2>1, FS_EmptySet
  <2>6. Cardinality(Savers) \in Nat /\ Cardinality(Admitted') \in Nat
    BY <2>2, Finite, FS_CardinalityType
  <2> QED
    BY <2>3, <2>4, <2>5, <2>6
<1>7. Cardinality(photos) < MaxPhotos /\ Overlapping = Cardinality(Uploaders)
  BY DEF BeginUpload, HasRoom, Overlapping
<1>8. /\ Cardinality(photos \cup Held) \in Nat
      /\ Cardinality(Held) \in Nat
      /\ Cardinality(Admitted') \in Nat
  <2>1. IsFiniteSet(photos \cup Held)
    BY <1>4, Finite, FS_Union
  <2>2. Admitted' \subseteq Uploaders
    BY DEF Admitted
  <2>3. IsFiniteSet(Admitted')
    BY <2>2, GalleryAssumption, FS_Subset
  <2> QED
    BY <1>4, <2>1, <2>3, FS_CardinalityType
<1>9. Cardinality(photos \cup Held) + Cardinality(Admitted') < MaxPhotos + Overlapping
  <2> HIDE DEF Held
  <2> QED
    BY <1>4, <1>5, <1>6, <1>7, <1>8, Finite
<1>10. Overlapping' = Overlapping
  BY DEF Overlapping
<1> QED
  BY <1>3, <1>9, <1>10 DEF GalleryInv

\* The claim of an upload becomes a photo.
LEMMA UploadInserted ==
    ASSUME TypeOK, TypeOK', GalleryInv, NEW u \in Uploaders, InsertPhoto(u)
    PROVE  GalleryInv'
<1>1. thread'[u] = Idle /\ \A v \in Uploaders : v # u => thread'[v] = thread[v]
  BY DEF InsertPhoto, Goto, TypeOK, Threads
<1>2. PICK p : photos' = photos \cup {p}
  BY DEF InsertPhoto
<1>3. Savers' = Savers /\ Admitted' = Admitted \ {u} /\ u \in Admitted
  BY <1>1 DEF Savers, Admitted, InsertPhoto, At, Idle
<1>4. Present' = Present \cup {p}
  <2>1. \A v \in Savers : thread'[v] = thread[v]
    BY <1>1 DEF Savers, InsertPhoto, At
  <2>2. Present' = photos' \cup {thread[v].photo : v \in Savers}
    BY <1>3, <2>1 DEF Present
  <2> QED
    BY <1>2, <2>2 DEF Present
<1>5. Cardinality(Present') <= Cardinality(Present) + 1 /\ Cardinality(Present') \in Nat
  <2>1. /\ IsFiniteSet(Present \cup {p})
        /\ Cardinality(Present \cup {p}) =
              IF p \in Present THEN Cardinality(Present) ELSE Cardinality(Present) + 1
    BY Finite, FS_AddElement
  <2>2. Cardinality(Present) \in Nat
    BY Finite, FS_CardinalityType
  <2>3. Cardinality(Present \cup {p}) <= Cardinality(Present) + 1
    BY <2>1, <2>2
  <2> QED
    BY <1>4, <2>1, <2>3, FS_CardinalityType
<1>6. Cardinality(Admitted') = Cardinality(Admitted) - 1
  BY <1>3, Finite, FS_RemoveElement
<1>7. Overlapping' = Overlapping
  BY DEF Overlapping
<1> QED
  BY <1>5, <1>6, <1>7, Finite DEF GalleryInv

\* Each statement of a photo request keeps the sum below its bound.
LEMMA PhotoKeepsGallery ==
    ASSUME TypeOK, TypeOK', GalleryInv, NEW u \in Uploaders, PhotoStep(u)
    PROVE  GalleryInv'
<1>a. u \in Threads /\ photos \subseteq Present
  BY DEF Threads, Present
<1>b. thread[u].at \in {"match", "store", "cover"} => thread[u].photo \in Present
  BY DEF Present, Savers
<1>1. CASE ReadFirst(u)
  <2>1. u \in Admitted
    BY <1>1 DEF ReadFirst, Admitted, At
  <2> QED
    BY <1>a, <1>1, <2>1, OthersShrink DEF ReadFirst, gallery
<1>2. CASE BeginPhoto(u)
  <2>1. PICK p \in photos :
           \/ \E label \in {"drop", "match"} : Goto(u, [at |-> label, photo |-> p])
           \/ \E value \in BOOLEAN :
                 Goto(u, [at |-> "store", photo |-> p, cover |-> value])
    BY <1>2 DEF BeginPhoto
  <2>2. p \in Present /\ photos' \subseteq Present
    BY <1>a, <1>2 DEF BeginPhoto, gallery
  <2>3. ASSUME NEW label \in {"drop", "match"}, Goto(u, [at |-> label, photo |-> p])
        PROVE  GalleryInv'
    BY <1>a, <2>2, <2>3, OthersShrink
  <2>4. ASSUME NEW value \in BOOLEAN,
               Goto(u, [at |-> "store", photo |-> p, cover |-> value])
        PROVE  GalleryInv'
    BY <1>a, <2>2, <2>4, OthersShrink
  <2> QED
    BY <2>1, <2>3, <2>4
<1>3. CASE DropPhoto(u) \/ RefusePhoto(u)
  BY <1>a, <1>3, OthersShrink DEF DropPhoto, RefusePhoto, Idle, gallery
<1>4. CASE StorePhoto(u) \/ CommitCover(u)
  <2>1. photos' \subseteq Present
    BY <1>a, <1>b, <1>4 DEF StorePhoto, CommitCover, At
  <2> QED
    BY <1>a, <1>4, <2>1, OthersShrink DEF StorePhoto, CommitCover, Idle
<1>5. CASE MatchCovers(u)
  <2>1. PICK next : Goto(u, next) /\ next.at = "cover" /\ next.photo = thread[u].photo
    BY <1>5 DEF MatchCovers
  <2>2. photos' \subseteq Present
    BY <1>a, <1>5 DEF MatchCovers, gallery
  <2>3. thread[u].photo \in Present
    BY <1>b, <1>5 DEF MatchCovers, At
  <2> QED
    BY <1>a, <2>1, <2>2, <2>3, OthersShrink
<1> QED
  BY <1>1, <1>2, <1>3, <1>4, <1>5, UploadAdmitted, UploadInserted DEF PhotoStep

\* Every step does.
LEMMA GalleryStep ==
    ASSUME TypeOK, TypeOK', GalleryInv, [Next]_vars
    PROVE  GalleryInv'
<1>a. photos \subseteq Present
  BY DEF Present
<1>b. \A t \in Owners \cup Admins \cup Generators \cup Reviewers :
         t \in Threads /\ t \notin Uploaders
  BY StadiumThreads DEF Threads
<1>1. ASSUME NEW t \in Owners \cup Admins, OwnerStep(t) \/ AdminStep(t)
      PROVE  GalleryInv'
  <2>1. PICK next : Goto(t, next) /\ photos' = photos
    BY <1>1 DEF OwnerStep, BeginSubmit, BeginEdit, BeginDelete, Begin, CheckGallery,
                CommitSubmit, Reread, CommitEdit, AdminStep, BeginApprove, BeginReject,
                CommitApprove, EnqueueGeneration, CommitReject, gallery
  <2> QED
    BY <1>a, <1>b, <2>1, OthersShrink
<1>2. ASSUME NEW g \in Generators, GeneratorStep(g) \/ FailRun(g), photos' = photos
      PROVE  GalleryInv'
  <2>1. CASE CreateSlot(g)
    <3>1. Goto(g, [thread[g] EXCEPT !.start = NextStart(g)])
      BY <2>1 DEF CreateSlot, Goto
    <3> QED
      BY <1>a, <1>b, <1>2, <3>1, OthersShrink
  <2>2. CASE ~ CreateSlot(g)
    <3>1. PICK next : Goto(g, next)
      BY <1>2, <2>2 DEF GeneratorStep, BeginRun, ReadHours, EndRun, FailRun
    <3> QED
      BY <1>a, <1>b, <1>2, <3>1, OthersShrink
  <2> QED
    BY <2>1, <2>2
<1>3. ASSUME NEW r \in Reviewers, ReviewerStep(r), photos' = photos
      PROVE  GalleryInv'
  <2>1. PICK next : Goto(r, next)
    BY <1>3 DEF ReviewerStep, BeginReview, InsertReview, RefuseReview, CommitReview,
                BeginRespond, AggregateAll, WriteRating, Arrive
  <2> QED
    BY <1>a, <1>b, <1>3, <2>1, OthersShrink
<1>4. ASSUME NEW o \in Owners, CommitDelete(o) \/ RefuseDelete(o)
      PROVE  GalleryInv'
  <2>1. Goto(o, Idle) /\ photos' \subseteq photos
    BY <1>4 DEF CommitDelete, DeleteRow, RefuseDelete, gallery
  <2> QED
    BY <1>a, <1>b, <2>1, OthersShrink
<1>5. ASSUME NEW t \in Threads, Crash(t), photos' = photos
      PROVE  GalleryInv'
  BY <1>a, <1>5, OthersShrink DEF Crash, Idle
<1>6. ASSUME thread' = thread, photos' = photos
      PROVE  GalleryInv'
  <2>1. Present' = Present /\ Admitted' = Admitted
    BY <1>6 DEF Present, Savers, Admitted
  <2> QED
    BY <2>1, GalleryShrinks
<1>7. ASSUME ReplaceHours \/ SendDailyRun \/ CompleteBooking, photos' = photos
      PROVE  GalleryInv'
  <2>1. thread' = thread
    BY <1>7 DEF ReplaceHours, SendDailyRun, CompleteBooking
  <2> QED
    BY <1>6, <1>7, <2>1
<1> QED
  BY <1>1, <1>2, <1>3, <1>4, <1>5, <1>6, <1>7, PhotoKeepsGallery
     DEF Next, ListingNext, TimetableNext, RatingsNext, vars, gallery

\* The photos are among the present ones, and an upload that is past its
\* count takes a place below the bound.
LEMMA GalleryBounded ==
    ASSUME TypeOK, GalleryInv
    PROVE  PhotosBounded
<1>1. photos \subseteq Present
  BY DEF Present
<1>2. /\ Cardinality(photos) <= Cardinality(Present)
      /\ Cardinality(photos) \in Nat
  BY <1>1, Finite, FS_Subset, FS_CardinalityType
<1>3. Cardinality(Present) \in Nat /\ Cardinality(Admitted) \in Nat
  BY Finite, FS_CardinalityType
<1> QED
  BY <1>2, <1>3, Finite DEF PhotosBounded, GalleryInv

(* The limit of 20 photos, counted by validate() before the insert, is     *)
(* never exceeded by as many photos as there are overlapping requests, for *)
(* any limit and any number of requests that upload, update and delete.    *)
THEOREM NeverManyTooMany == Spec => []PhotosBounded
<1>1. Init => TypeOK /\ GalleryInv
  BY TypeInit, GalleryInvInit
<1>2. TypeOK /\ GalleryInv /\ [Next]_vars => (TypeOK /\ GalleryInv)'
  BY TypeStep, GalleryStep
<1>3. TypeOK /\ GalleryInv => PhotosBounded
  BY GalleryBounded
<1> QED
  BY <1>1, <1>2, <1>3, PTL DEF Spec

-----------------------------------------------------------------------------
(* The averages *)

\* At most one request is under way, and it has seen all reviews.
Alone(r) ==
    /\ \A q \in Reviewers : q # r => At(r, "idle") \/ At(q, "idle")
    /\ At(r, "commit") => thread[r].seen = reviews \cup {thread[r].booking}
    /\ At(r, "rate") => thread[r].seen = reviews

RatingInv == ~ overlapped => \A r \in Reviewers : Alone(r)

\* No review request has arrived.
LEMMA RatingInit == Init => RatingInv
BY DEF Init, RowInit, RatingInv, Alone, At, Idle, Threads

\* What is no step of a review request.
LEMMA OthersRate ==
    ASSUME TypeOK, RatingInv, reviews' = reviews, overlapped' = overlapped,
           \A r \in Reviewers : thread'[r] = thread[r]
    PROVE  RatingInv'
BY DEF RatingInv, Alone, At

\* Other threads do not touch the ratings.
LEMMA OtherThread ==
    ASSUME TypeOK, RatingInv, NEW t \in Threads, t \notin Reviewers, NEW next, Goto(t, next),
           ratings' = ratings
    PROVE  RatingInv'
<1>1. \A r \in Reviewers : thread'[r] = thread[r]
  BY DEF Goto, TypeOK, Threads
<1> QED
  BY <1>1, OthersRate DEF ratings

\* Each statement of a review request keeps what one that is alone has seen.
LEMMA ReviewerRates ==
    ASSUME TypeOK, RatingInv, NEW r \in Reviewers, ReviewerStep(r)
    PROVE  RatingInv'
<1>a. /\ r \in Threads
      /\ \A next : Goto(r, next) =>
            thread'[r] = next /\ \A q \in Reviewers : q # r => thread'[q] = thread[q]
  BY DEF Goto, TypeOK, Threads
<1> SUFFICES ASSUME ~ overlapped', NEW q \in Reviewers
             PROVE  Alone(q)'
  BY DEF RatingInv
<1>1. ASSUME NEW next, Arrive(r, next), next.at \in {"review", "aggregate"}
      PROVE  Alone(q)'
  <2>1. \A s \in Reviewers : At(s, "idle")
    BY <1>1 DEF Arrive
  <2>2. thread'[r] = next /\ \A s \in Reviewers : s # r => thread'[s] = thread[s]
    BY <1>a, <1>1 DEF Arrive
  <2> QED
    BY <1>1, <2>1, <2>2 DEF Alone, At
<1>2. CASE BeginReview(r) \/ BeginRespond(r)
  BY <1>1, <1>2 DEF BeginReview, BeginRespond
<1>3. ASSUME ~ At(r, "idle"), overlapped' = overlapped
      PROVE  /\ \A s \in Reviewers : s # r => At(s, "idle")
             /\ Alone(r)
  BY <1>3 DEF RatingInv, Alone
<1>4. ASSUME ~ At(r, "idle"), overlapped' = overlapped, NEW next, Goto(r, next),
             next.at = "commit" => next.seen = reviews' \cup {next.booking},
             next.at = "rate" => next.seen = reviews'
      PROVE  Alone(q)'
  <2>1. thread'[r] = next /\ \A s \in Reviewers : s # r => thread'[s] = thread[s]
    BY <1>a, <1>4
  <2>2. \A s \in Reviewers : s # r => thread'[s].at = "idle"
    BY <1>3, <1>4, <2>1 DEF At
  <2> QED
    BY <1>4, <2>1, <2>2 DEF Alone, At
<1>5. CASE InsertReview(r)
  <2>1. /\ Goto(r, [at |-> "commit", booking |-> thread[r].booking,
                    seen |-> reviews \cup {thread[r].booking}])
        /\ ~ At(r, "idle") /\ overlapped' = overlapped /\ reviews' = reviews
    BY <1>5 DEF InsertReview, Aggregate, ratings, At
  <2> QED
    BY <1>4, <2>1
<1>6. CASE RefuseReview(r) \/ CommitReview(r) \/ WriteRating(r)
  <2>1. Goto(r, Idle) /\ ~ At(r, "idle") /\ overlapped' = overlapped
    BY <1>6 DEF RefuseReview, CommitReview, WriteRating, ratings, At
  <2> QED
    BY <1>4, <2>1 DEF Idle
<1>7. CASE AggregateAll(r)
  <2>1. /\ Goto(r, [at |-> "rate", seen |-> reviews])
        /\ ~ At(r, "idle") /\ overlapped' = overlapped /\ reviews' = reviews
    BY <1>7 DEF AggregateAll, ratings, At
  <2> QED
    BY <1>4, <2>1
<1> QED
  BY <1>2, <1>5, <1>6, <1>7 DEF ReviewerStep

\* Every step does.
LEMMA RatingStep == TypeOK /\ RatingInv /\ [Next]_vars => RatingInv'
<1> SUFFICES ASSUME TypeOK, RatingInv, [Next]_vars PROVE RatingInv'
  OBVIOUS
<1>b. \A t \in Owners \cup Admins \cup Uploaders \cup Generators :
         t \in Threads /\ t \notin Reviewers
  BY StadiumThreads DEF Threads
<1>1. ASSUME NEW t \in Owners \cup Admins, OwnerStep(t) \/ AdminStep(t), ratings' = ratings
      PROVE  RatingInv'
  <2>1. PICK next : Goto(t, next)
    BY <1>1 DEF OwnerStep, BeginSubmit, BeginEdit, BeginDelete, Begin, CheckGallery,
                CommitSubmit, Reread, CommitEdit, AdminStep, BeginApprove, BeginReject,
                CommitApprove, EnqueueGeneration, CommitReject
  <2> QED
    BY <1>b, <1>1, <2>1, OtherThread
<1>2. ASSUME NEW u \in Uploaders, PhotoStep(u), ratings' = ratings
      PROVE  RatingInv'
  <2>1. PICK next : Goto(u, next)
    BY <1>2 DEF PhotoStep, BeginUpload, ReadFirst, InsertPhoto, BeginPhoto, DropPhoto,
                StorePhoto, MatchCovers, CommitCover, RefusePhoto
  <2> QED
    BY <1>b, <1>2, <2>1, OtherThread
<1>3. ASSUME NEW g \in Generators, GeneratorStep(g) \/ FailRun(g), ratings' = ratings
      PROVE  RatingInv'
  <2>1. CASE CreateSlot(g)
    <3>1. Goto(g, [thread[g] EXCEPT !.start = NextStart(g)])
      BY <2>1 DEF CreateSlot, Goto
    <3> QED
      BY <1>b, <1>3, <3>1, OtherThread
  <2>2. CASE ~ CreateSlot(g)
    <3>1. PICK next : Goto(g, next)
      BY <1>3, <2>2 DEF GeneratorStep, BeginRun, ReadHours, EndRun, FailRun
    <3> QED
      BY <1>b, <1>3, <3>1, OtherThread
  <2> QED
    BY <2>1, <2>2
<1>4. ASSUME NEW o \in Owners, CommitDelete(o) \/ RefuseDelete(o)
      PROVE  RatingInv'
  <2>1. Goto(o, Idle) /\ ratings' = ratings
    BY <1>4 DEF CommitDelete, DeleteRow, RefuseDelete
  <2> QED
    BY <1>b, <2>1, OtherThread
<1>5. ASSUME NEW t \in Threads, Crash(t), ratings' = ratings
      PROVE  RatingInv'
  <2>1. thread'[t] = Idle /\ \A r \in Reviewers : r # t => thread'[r] = thread[r]
    BY <1>5 DEF Crash, Goto, TypeOK, Threads
  <2> QED
    BY <1>5, <2>1 DEF RatingInv, Alone, At, Idle, ratings
<1>6. ASSUME ReplaceHours \/ SendDailyRun, ratings' = ratings
      PROVE  RatingInv'
  <2>1. thread' = thread
    BY <1>6 DEF ReplaceHours, SendDailyRun
  <2> QED
    BY <1>6, <2>1, OthersRate DEF ratings
<1>7. CASE CompleteBooking \/ UNCHANGED vars
  <2>1. thread' = thread /\ reviews' = reviews /\ overlapped' = overlapped
    BY <1>7 DEF CompleteBooking, vars, ratings
  <2> QED
    BY <2>1, OthersRate
<1> QED
  BY <1>1, <1>2, <1>3, <1>4, <1>5, <1>6, <1>7, ReviewerRates
     DEF Next, ListingNext, TimetableNext, RatingsNext

(* A review or a response that is handled alone leaves averages of all     *)
(* reviews, for any number of bookings and requests, whatever else happens *)
(* to the stadium.                                                         *)
THEOREM RatesAllReviews == Spec => AloneMeansExact
<1>1. TypeOK /\ RatingInv =>
         [\A r \in Reviewers :
             (CommitReview(r) \/ WriteRating(r)) /\ ~ overlapped /\ Exists
                => stadium'.rated = reviews']_<< row, thread, ratings >>
  <2> SUFFICES ASSUME TypeOK, RatingInv, NEW r \in Reviewers,
                      CommitReview(r) \/ WriteRating(r), ~ overlapped, Exists
               PROVE  stadium'.rated = reviews'
    OBVIOUS
  <2>1. Alone(r)
    BY DEF RatingInv
  <2>2. CASE CommitReview(r)
    BY <2>1, <2>2 DEF CommitReview, Alone, TypeOK, RowType
  <2>3. CASE WriteRating(r)
    BY <2>1, <2>3 DEF WriteRating, Alone, TypeOK, RowType, ratings
  <2> QED
    BY <2>2, <2>3
<1>2. Init => TypeOK /\ RatingInv
  BY TypeInit, RatingInit
<1>3. TypeOK /\ RatingInv /\ [Next]_vars => (TypeOK /\ RatingInv)'
  BY TypeStep, RatingStep
<1> QED
  BY <1>1, <1>2, <1>3, PTL DEF Spec, AloneMeansExact
===============================================================================
