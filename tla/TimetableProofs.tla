--------------------------- MODULE TimetableProofs ---------------------------
(***************************************************************************)
(* Proofs about Stadium: the slots of one date lie on one grid as long as  *)
(* all runs use one opening time and one duration.                         *)
(***************************************************************************)
EXTENDS StadiumProofs

\* The slot number k of the grid that starts at o with duration d.
OnGrid(o, d, start) == \E k \in Nat : start = o + k * d

RunsOn(o, d) ==
    \A g \in Generators : At(g, "create") =>
       /\ thread[g].hours[1] = o
       /\ thread[g].duration = d
       /\ OnGrid(o, d, thread[g].start)

SlotsOn(o, d) == \A s \in slots : s = << s[1], s[1] + d >> /\ OnGrid(o, d, s[1])

GridInv ==
    /\ IsFiniteSet(grids)
    /\ grids \subseteq Nat \X Durations
    /\ grids = {} => slots = {} /\ \A g \in Generators : ~ At(g, "create")
    /\ \A o \in Nat, d \in Durations : grids = {<< o, d >>} => RunsOn(o, d) /\ SlotsOn(o, d)

\* The start after one on the grid is on the grid.
LEMMA NextOnGrid ==
    ASSUME NEW o \in Nat, NEW d \in Nat, NEW start, OnGrid(o, d, start)
    PROVE  OnGrid(o, d, start + d)
<1>1. PICK k \in Nat : start = o + k * d
  BY DEF OnGrid
<1>2. (k + 1) * d = k * d + d
  OBVIOUS
<1>3. k * d \in Nat
  OBVIOUS
<1>4. start + d = o + (k + 1) * d /\ k + 1 \in Nat
  BY <1>1, <1>2, <1>3
<1> QED
  BY <1>4 DEF OnGrid

\* Two starts of a grid are a duration apart.
LEMMA GridsApart ==
    ASSUME NEW o \in Nat, NEW d \in Nat, NEW a, NEW b, OnGrid(o, d, a), OnGrid(o, d, b), a < b
    PROVE  a + d <= b
<1>1. PICK k \in Nat, j \in Nat : a = o + k * d /\ b = o + j * d
  BY DEF OnGrid
<1>2. k < j
  <2>1. CASE j <= k
    <3>1. PICK m \in Nat : k = j + m
      <4>1. k - j \in Nat /\ k = j + (k - j)
        BY <2>1
      <4> QED
        BY <4>1
    <3>2. k * d = j * d + m * d
      BY <3>1
    <3>3. m * d \in Nat /\ j * d \in Nat
      OBVIOUS
    <3> QED
      BY <1>1, <3>2, <3>3
  <2> QED
    BY <2>1
<1>3. PICK m \in Nat : j = k + 1 + m
  <2>1. j - (k + 1) \in Nat /\ j = k + 1 + (j - (k + 1))
    BY <1>2
  <2> QED
    BY <2>1
<1>4. j * d = k * d + d + m * d
  BY <1>3
<1>5. m * d \in Nat /\ k * d \in Nat
  OBVIOUS
<1> QED
  BY <1>1, <1>4, <1>5

\* There are no slots at the start.
LEMMA GridInit == Init => GridInv
<1> SUFFICES ASSUME Init PROVE GridInv
  OBVIOUS
<1>1. grids = {} /\ slots = {} /\ \A g \in Generators : ~ At(g, "create")
  BY DEF Init, TimetableInit, RowInit, Idle, At, Threads
<1>2. IsFiniteSet(grids)
  BY <1>1, FS_EmptySet
<1> QED
  BY <1>1, <1>2 DEF GridInv

\* A step after which no run creates slots that did not before, and that leaves
\* the slots or removes them.
LEMMA GridKept ==
    ASSUME GridInv, grids' = grids, slots' \subseteq slots,
           \A g \in Generators : At(g, "create")' => thread'[g] = thread[g]
    PROVE  GridInv'
<1>1. \A g \in Generators : At(g, "create")' => At(g, "create")
  BY DEF At
<1>2. grids' = {} => slots' = {} /\ \A g \in Generators : ~ At(g, "create")'
  BY <1>1 DEF GridInv
<1>3. ASSUME NEW o \in Nat, NEW d \in Durations, grids' = {<< o, d >>}
      PROVE  RunsOn(o, d)' /\ SlotsOn(o, d)'
  <2>1. RunsOn(o, d) /\ SlotsOn(o, d)
    BY <1>3 DEF GridInv
  <2> QED
    BY <1>1, <2>1 DEF RunsOn, SlotsOn
<1> QED
  BY <1>2, <1>3 DEF GridInv

\* A thread that creates no slot leaves the grid alone.
LEMMA GotoKeepsGrid ==
    ASSUME TypeOK, GridInv, grids' = grids, slots' \subseteq slots,
           NEW t \in Threads, NEW next, Goto(t, next), t \in Generators => next.at # "create"
    PROVE  GridInv'
<1>1. \A g \in Generators : At(g, "create")' => thread'[g] = thread[g]
  BY DEF Goto, TypeOK, At, Threads
<1> QED
  BY <1>1, GridKept

\* A run starts at the opening time, on the grid.
LEMMA ReadHoursKeepsGrid ==
    ASSUME TypeOK, GridInv, NEW g \in Generators, ReadHours(g), hours # Closed
    PROVE  GridInv'
<1> DEFINE o == hours[1]
           d == thread[g].duration
<1>1. o \in Nat /\ d \in Durations /\ hours \in HourChoices
  <2>1. hours \in HourChoices /\ hours[1] \in Nat
    BY HoursAssumption DEF TypeOK, ValidHours
  <2>2. thread[g].duration \in Durations
    BY Locals DEF ReadHours, At, TypeOK, Threads
  <2> QED
    BY <2>1, <2>2
<1>2. /\ slots' = slots
      /\ grids' = IF Cardinality(grids) > 1 THEN grids ELSE grids \cup {<< o, d >>}
  BY DEF ReadHours, timetable
<1>3. /\ thread'[g] = [at |-> "create", duration |-> d, hours |-> hours, start |-> o]
      /\ \A f \in Generators : f # g => thread'[f] = thread[f]
  BY DEF ReadHours, Goto, TypeOK, Threads
<1> HIDE DEF o, d
<1>4. IsFiniteSet(grids') /\ grids' \subseteq Nat \X Durations
  <2>1. IsFiniteSet(grids) /\ grids \subseteq Nat \X Durations
    BY DEF GridInv
  <2>2. IsFiniteSet(grids \cup {<< o, d >>})
    BY <2>1, FS_AddElement
  <2>3. << o, d >> \in Nat \X Durations
    BY <1>1
  <2> QED
    BY <1>2, <2>1, <2>2, <2>3
<1>5. grids' # {}
  <2>1. CASE Cardinality(grids) > 1
    <3>1. grids # {}
      BY <2>1, FS_EmptySet
    <3> QED
      BY <1>2, <2>1, <3>1
  <2> QED
    BY <1>2, <2>1
<1>6. ASSUME NEW p \in Nat, NEW e \in Durations, grids' = {<< p, e >>}
      PROVE  RunsOn(p, e)' /\ SlotsOn(p, e)'
  <2>1. ~ (Cardinality(grids) > 1)
    <3> SUFFICES ASSUME Cardinality(grids) > 1 PROVE FALSE
      OBVIOUS
    <3>1. grids = {<< p, e >>}
      BY <1>2, <1>6
    <3>2. Cardinality(grids) = 1
      BY <3>1, FS_Singleton
    <3> QED
      BY <3>2
  <2>2. << o, d >> = << p, e >> /\ (grids = {} \/ grids = {<< p, e >>})
    BY <1>2, <1>6, <2>1
  <2>3. o = p /\ d = e
    BY <2>2
  <2>4. OnGrid(p, e, p)
    <3>1. p = p + 0 * e /\ e \in Nat
      BY <1>6, DurationsAssumption
    <3> QED
      BY <3>1 DEF OnGrid
  <2>5. CASE grids = {}
    <3>1. slots = {} /\ \A f \in Generators : ~ At(f, "create")
      BY <2>5 DEF GridInv
    <3>2. RunsOn(p, e)'
      <4> SUFFICES ASSUME NEW f \in Generators, thread'[f].at = "create"
                   PROVE  /\ thread'[f].hours[1] = p /\ thread'[f].duration = e
                          /\ OnGrid(p, e, thread'[f].start)
        BY DEF RunsOn, OnGrid, At
      <4>1. f = g
        BY <1>3, <3>1 DEF At
      <4> QED
        BY <1>3, <2>3, <2>4, <4>1 DEF o
    <3>3. SlotsOn(p, e)'
      BY <1>2, <3>1 DEF SlotsOn
    <3> QED
      BY <3>2, <3>3
  <2>6. CASE grids = {<< p, e >>}
    <3>1. RunsOn(p, e) /\ SlotsOn(p, e)
      BY <2>6 DEF GridInv
    <3>2. RunsOn(p, e)'
      <4> SUFFICES ASSUME NEW f \in Generators, thread'[f].at = "create"
                   PROVE  /\ thread'[f].hours[1] = p /\ thread'[f].duration = e
                          /\ OnGrid(p, e, thread'[f].start)
        BY DEF RunsOn, OnGrid, At
      <4>1. CASE f = g
        BY <1>3, <2>3, <2>4, <4>1 DEF o
      <4>2. CASE f # g
        BY <1>3, <3>1, <4>2 DEF RunsOn, At
      <4> QED
        BY <4>1, <4>2
    <3>3. SlotsOn(p, e)'
      BY <1>2, <3>1 DEF SlotsOn, OnGrid
    <3> QED
      BY <3>2, <3>3
  <2> QED
    BY <2>2, <2>5, <2>6
<1> QED
  BY <1>4, <1>5, <1>6 DEF GridInv

\* A created slot is on the grid, and so is the run's next start.
LEMMA CreateKeepsGrid ==
    ASSUME TypeOK, GridInv, NEW g \in Generators, CreateSlot(g)
    PROVE  GridInv'
<1> DEFINE start == thread[g].start
           d == thread[g].duration
<1>1. thread[g] \in [at : {"create"}, duration : Durations, hours : HourChoices, start : Nat]
  BY Locals DEF CreateSlot, At, TypeOK, Threads
<1>2. start \in Nat /\ d \in Durations /\ d \in Nat
  BY <1>1, DurationsAssumption
<1>3. grids' = grids /\ slots' \subseteq slots \cup {<< start, start + d >>}
  BY DEF CreateSlot
<1>4. /\ thread'[g] = [thread[g] EXCEPT !.start = start + d]
      /\ \A f \in Generators : f # g => thread'[f] = thread[f]
  BY DEF CreateSlot, NextStart, TypeOK, Threads
<1>5. At(g, "create") /\ grids # {}
  BY DEF CreateSlot, GridInv
<1>6. ASSUME NEW p \in Nat, NEW e \in Durations, grids' = {<< p, e >>}
      PROVE  RunsOn(p, e)' /\ SlotsOn(p, e)'
  <2>1. RunsOn(p, e) /\ SlotsOn(p, e)
    BY <1>3, <1>6 DEF GridInv
  <2>2. d = e /\ thread[g].hours[1] = p /\ OnGrid(p, e, start)
    BY <1>5, <2>1 DEF RunsOn
  <2>3. OnGrid(p, e, start + d)
    BY <1>2, <2>2, NextOnGrid
  <2>4. /\ thread'[g].hours[1] = p
        /\ thread'[g].duration = e
        /\ thread'[g].start = start + d
    BY <1>1, <1>4, <2>2
  <2> HIDE DEF start, d
  <2>5. RunsOn(p, e)'
    <3> SUFFICES ASSUME NEW f \in Generators, thread'[f].at = "create"
                 PROVE  /\ thread'[f].hours[1] = p /\ thread'[f].duration = e
                        /\ OnGrid(p, e, thread'[f].start)
      BY DEF RunsOn, OnGrid, At
    <3>1. CASE f = g
      BY <2>3, <2>4, <3>1
    <3>2. CASE f # g
      BY <1>4, <2>1, <3>2 DEF RunsOn, At
    <3> QED
      BY <3>1, <3>2
  <2>6. SlotsOn(p, e)'
    <3> SUFFICES ASSUME NEW s \in slots'
                 PROVE  s = << s[1], s[1] + e >> /\ OnGrid(p, e, s[1])
      BY DEF SlotsOn, OnGrid
    <3>1. CASE s \in slots
      BY <2>1, <3>1 DEF SlotsOn
    <3>2. CASE s = << start, start + d >>
      BY <2>2, <3>2
    <3> QED
      BY <1>3, <3>1, <3>2
  <2> QED
    BY <2>5, <2>6
<1> QED
  BY <1>3, <1>5, <1>6 DEF GridInv

\* Every step keeps slots and runs on the grid.
LEMMA GridStep ==
    ASSUME TypeOK, GridInv, [Next]_vars
    PROVE  GridInv'
<1>a. Idle.at = "idle" /\ \A t \in Owners \cup Admins \cup Uploaders \cup Reviewers :
         t \in Threads /\ t \notin Generators
  BY StadiumThreads DEF Idle, Threads
<1>1. ASSUME ListingNext, UNCHANGED << timetable, ratings >>
      PROVE  GridInv'
  <2>1. PICK t \in Owners \cup Admins \cup Uploaders : OwnerStep(t) \/ AdminStep(t) \/ PhotoStep(t)
    BY <1>1 DEF ListingNext
  <2>2. PICK next : Goto(t, next)
    BY <2>1 DEF OwnerStep, BeginSubmit, BeginEdit, BeginDelete, Begin, CheckGallery,
                CommitSubmit, Reread, CommitEdit, AdminStep, BeginApprove, BeginReject,
                CommitApprove, EnqueueGeneration, CommitReject, PhotoStep, BeginUpload,
                ReadFirst, InsertPhoto, BeginPhoto, DropPhoto, StorePhoto, MatchCovers,
                CommitCover, RefusePhoto
  <2> QED
    BY <1>a, <1>1, <2>2, GotoKeepsGrid DEF timetable
<1>2. ASSUME NEW g \in Generators, GeneratorStep(g) \/ FailRun(g)
      PROVE  GridInv'
  <2>1. CASE BeginRun(g)
    <3>1. PICK next : Goto(g, next) /\ next.at # "create"
      BY <2>1 DEF BeginRun, Idle
    <3> QED
      BY <2>1, <3>1, GotoKeepsGrid DEF BeginRun, timetable, Threads
  <2>2. CASE ReadHours(g) /\ hours = Closed
    BY <1>a, <2>2, GotoKeepsGrid DEF ReadHours, Threads
  <2>3. CASE EndRun(g) \/ FailRun(g)
    BY <1>a, <2>3, GotoKeepsGrid DEF EndRun, FailRun, timetable, Threads
  <2> QED
    BY <1>2, <2>1, <2>2, <2>3, ReadHoursKeepsGrid, CreateKeepsGrid DEF GeneratorStep
<1>3. ASSUME RatingsNext, UNCHANGED << gallery, timetable >>
      PROVE  GridInv'
  <2>1. CASE CompleteBooking
    BY <1>3, <2>1, GridKept DEF CompleteBooking, timetable, At
  <2>2. CASE \E r \in Reviewers : ReviewerStep(r)
    <3>1. PICK r \in Reviewers : ReviewerStep(r)
      BY <2>2
    <3>2. PICK next : Goto(r, next)
      BY <3>1 DEF ReviewerStep, BeginReview, InsertReview, RefuseReview, CommitReview,
                  BeginRespond, AggregateAll, WriteRating, Arrive
    <3> QED
      BY <1>a, <1>3, <3>2, GotoKeepsGrid DEF timetable
  <2> QED
    BY <1>3, <2>1, <2>2 DEF RatingsNext
<1>4. ASSUME NEW o \in Owners, CommitDelete(o) \/ RefuseDelete(o)
      PROVE  GridInv'
  <2>1. Goto(o, Idle) /\ grids' = grids /\ slots' \subseteq slots
    BY <1>4 DEF CommitDelete, DeleteRow, RefuseDelete, timetable
  <2> QED
    BY <1>a, <2>1, GotoKeepsGrid
<1>5. ASSUME NEW t \in Threads, Crash(t), UNCHANGED timetable
      PROVE  GridInv'
  BY <1>a, <1>5, GotoKeepsGrid DEF Crash, timetable
<1>6. CASE ReplaceHours \/ SendDailyRun \/ UNCHANGED vars
  <2>1. grids' = grids /\ slots' = slots /\ thread' = thread
    BY <1>6 DEF ReplaceHours, SendDailyRun, vars, timetable, row
  <2> QED
    BY <2>1, GridKept DEF At
<1> QED
  BY <1>1, <1>2, <1>3, <1>4, <1>5, <1>6 DEF Next, TimetableNext

(* However many runs overlap, are cut short and repeated: as long as they  *)
(* use one opening time and one duration, no two slots of a date overlap.  *)
THEOREM NoOverlappingSlots == Spec => []SlotsDisjoint
<1>1. Init => TypeOK /\ GridInv
  BY TypeInit, GridInit
<1>2. TypeOK /\ GridInv /\ [Next]_vars => TypeOK' /\ GridInv'
  BY TypeStep, GridStep
<1>3. GridInv => SlotsDisjoint
  <2> SUFFICES ASSUME GridInv, Cardinality(grids) <= 1,
                      NEW s \in slots, NEW t \in slots, s # t, Overlap(s, t)
               PROVE  FALSE
    BY DEF SlotsDisjoint
  <2>1. PICK p : grids = {p}
    <3>1. Cardinality(grids) \in Nat
      BY FS_CardinalityType DEF GridInv
    <3>2. grids # {}
      BY DEF GridInv
    <3>3. Cardinality(grids) # 0
      BY <3>2, FS_EmptySet DEF GridInv
    <3>4. Cardinality(grids) = 1
      BY <3>1, <3>3
    <3> QED
      BY <3>4, FS_Singleton DEF GridInv
  <2>2. PICK o \in Nat, d \in Durations : grids = {<< o, d >>}
    BY <2>1 DEF GridInv
  <2>3. SlotsOn(o, d) /\ d \in Nat \ {0}
    BY <2>2, DurationsAssumption DEF GridInv
  <2>4. /\ s = << s[1], s[1] + d >> /\ OnGrid(o, d, s[1])
        /\ t = << t[1], t[1] + d >> /\ OnGrid(o, d, t[1])
    BY <2>3 DEF SlotsOn
  <2>5. s[1] \in Nat /\ t[1] \in Nat
    <3>1. \A k \in Nat : o + k * d \in Nat
      BY <2>3
    <3> QED
      BY <2>4, <3>1 DEF OnGrid
  <2>6. s[1] # t[1]
    BY <2>4
  <2>7. s[1] + d <= t[1] \/ t[1] + d <= s[1]
    BY <2>3, <2>4, <2>5, <2>6, GridsApart
  <2>8. s[2] = s[1] + d /\ t[2] = t[1] + d
    BY <2>4
  <2> QED
    BY <2>3, <2>5, <2>7, <2>8 DEF Overlap
<1> QED
  BY <1>1, <1>2, <1>3, PTL DEF Spec

-----------------------------------------------------------------------------
(* A run leaves no gap *)

\* A worker has a slot, its own or another's, for all of its grid so far.
Covered(g) ==
    At(g, "create") =>
       /\ OnGrid(thread[g].hours[1], thread[g].duration, thread[g].start)
       /\ Exists => \A x \in Nat :
             OnGrid(thread[g].hours[1], thread[g].duration, x) /\ x < thread[g].start
                => \E s \in slots : s[1] = x

CoverInv == \A g \in Generators : Covered(g)

\* No run has passed a start yet.
LEMMA CoverInit == Init => CoverInv
BY DEF Init, RowInit, CoverInv, Covered, At, Idle, Threads

\* With one thread of the owner a deletion is for good, and nothing else takes
\* slots away.
LEMMA Remains ==
    ASSUME OneEach, IInv, [Next]_vars, Exists'
    PROVE  Exists /\ slots \subseteq slots'
<1>a. TypeOK /\ stadium \in RowType
  BY DEF IInv, TypeOK
<1>1. ASSUME ListingNext, UNCHANGED << timetable, ratings >>
      PROVE  Exists /\ slots \subseteq slots'
  <2>1. ASSUME NEW o \in Owners, OwnerStep(o)
        PROVE  Exists
    <3>1. CASE CommitEdit(o)
      BY <3>1 DEF CommitEdit, IInv, DecisionsHold, OwnerDecides
    <3>2. CASE CommitSubmit(o)
      BY <1>a, <3>2 DEF CommitSubmit, SaveStatus, Exists
    <3>3. CASE ~ CommitEdit(o) /\ ~ CommitSubmit(o)
      <4>1. stadium' = stadium
        BY <2>1, <3>3 DEF OwnerStep, BeginSubmit, BeginEdit, BeginDelete, Begin,
                          CheckGallery, Reread, row
      <4> QED
        BY <4>1 DEF Exists
    <3> QED
      BY <3>1, <3>2, <3>3
  <2>2. ASSUME NEW a \in Admins, AdminStep(a)
        PROVE  Exists
    <3>1. CASE CommitApprove(a) \/ CommitReject(a)
      BY <1>a, <3>1 DEF CommitApprove, CommitReject, SaveStatus, Exists
    <3>2. CASE BeginApprove(a) \/ BeginReject(a) \/ EnqueueGeneration(a)
      <4>1. stadium' = stadium
        BY <3>2 DEF BeginApprove, BeginReject, Begin, EnqueueGeneration, row
      <4> QED
        BY <4>1 DEF Exists
    <3> QED
      BY <2>2, <3>1, <3>2 DEF AdminStep
  <2>3. ASSUME NEW u \in Uploaders, PhotoStep(u)
        PROVE  Exists
    <3>1. stadium' = stadium
      BY <2>3 DEF PhotoStep, BeginUpload, ReadFirst, InsertPhoto, BeginPhoto, DropPhoto,
                  StorePhoto, MatchCovers, CommitCover, RefusePhoto, row
    <3> QED
      BY <3>1 DEF Exists
  <2> QED
    BY <1>1, <2>1, <2>2, <2>3 DEF ListingNext, timetable
<1>2. ASSUME TimetableNext
      PROVE  Exists /\ slots \subseteq slots'
  <2>1. stadium' = stadium /\ slots \subseteq slots'
    BY <1>2 DEF TimetableNext, ReplaceHours, SendDailyRun, GeneratorStep, BeginRun, ReadHours,
                CreateSlot, EndRun, FailRun, row, timetable
  <2> QED
    BY <2>1 DEF Exists
<1>3. ASSUME RatingsNext, UNCHANGED << gallery, timetable >>
      PROVE  Exists /\ slots \subseteq slots'
  <2>1. stadium' = stadium \/ Exists
    BY <1>3 DEF RatingsNext, CompleteBooking, ReviewerStep, BeginReview, InsertReview,
                RefuseReview, CommitReview, BeginRespond, AggregateAll, WriteRating, Arrive, row
  <2> QED
    BY <1>3, <2>1 DEF Exists, timetable
<1>4. ASSUME NEW o \in Owners, CommitDelete(o) \/ RefuseDelete(o)
      PROVE  Exists /\ slots \subseteq slots'
  <2>1. ~ CommitDelete(o)
    BY <1>a DEF CommitDelete, DeleteRow, Exists, RowType
  <2> QED
    BY <1>4, <2>1 DEF RefuseDelete, Exists, row, timetable
<1>5. ASSUME NEW t \in Threads, Crash(t), UNCHANGED timetable
      PROVE  Exists /\ slots \subseteq slots'
  BY <1>5 DEF Crash, Exists, row, timetable
<1>6. CASE UNCHANGED vars
  BY <1>6 DEF vars, Exists, row, timetable
<1> QED
  BY <1>1, <1>2, <1>3, <1>4, <1>5, <1>6 DEF Next

\* What a run has passed stays covered while others step.
LEMMA CoverKept ==
    ASSUME OneEach, IInv, CoverInv, [Next]_vars, NEW g \in Generators,
           At(g, "create")' => thread'[g] = thread[g]
    PROVE  Covered(g)'
<1> SUFFICES ASSUME At(g, "create")' PROVE Covered(g)'
  BY DEF Covered
<1>1. thread'[g] = thread[g] /\ Covered(g) /\ At(g, "create")
  BY DEF CoverInv, At
<1>2. Exists' => Exists /\ slots \subseteq slots'
  BY Remains
<1> QED
  BY <1>1, <1>2 DEF Covered, OnGrid

\* get_or_create covers the start it passes.
LEMMA CreateCovers ==
    ASSUME TypeOK, CoverInv, NEW g \in Generators, CreateSlot(g)
    PROVE  Covered(g)'
<1> DEFINE o == thread[g].hours[1]
           d == thread[g].duration
           start == thread[g].start
<1>1. thread[g] \in [at : {"create"}, duration : Durations, hours : HourChoices, start : Nat]
  BY Locals DEF CreateSlot, At, TypeOK, Threads
<1>2. start \in Nat /\ d \in Nat /\ o \in Nat
  BY <1>1, DurationsAssumption, HoursAssumption DEF ValidHours
<1>3. thread'[g] = [thread[g] EXCEPT !.start = start + d]
  BY DEF CreateSlot, NextStart, TypeOK, Threads
<1>4. thread'[g].hours[1] = o /\ thread'[g].duration = d /\ thread'[g].start = start + d
  BY <1>1, <1>3
<1>5. /\ OnGrid(o, d, start)
      /\ Exists => \A x \in Nat : OnGrid(o, d, x) /\ x < start => \E s \in slots : s[1] = x
  BY DEF CoverInv, Covered, CreateSlot
<1>6. Exists /\ slots \subseteq slots' /\ \E s \in slots' : s[1] = start
  <2>1. Exists
    BY DEF CreateSlot
  <2>2. CASE Known(start, start + d)
    <3>1. slots' = slots
      BY <2>2 DEF CreateSlot
    <3> QED
      BY <2>1, <2>2, <3>1 DEF Known
  <2>3. CASE ~Known(start, start + d)
    <3>1. slots' = slots \cup {<<start, start + d>>}
      BY <2>3 DEF CreateSlot
    <3>2. <<start, start + d>> \in slots' /\ <<start, start + d>>[1] = start
      BY <3>1
    <3> QED
      BY <2>1, <3>1, <3>2
  <2> QED
    BY <2>2, <2>3
<1> HIDE DEF o, d, start
<1>7. OnGrid(o, d, start + d)
  BY <1>2, <1>5, NextOnGrid
<1>8. ASSUME NEW x \in Nat, OnGrid(o, d, x), x < start + d
      PROVE  \E s \in slots' : s[1] = x
  <2>1. CASE x < start
    BY <1>5, <1>6, <1>8, <2>1
  <2>2. CASE start < x
    <3>1. start + d <= x
      BY <1>2, <1>5, <1>8, <2>2, GridsApart
    <3> QED
      BY <1>2, <1>8, <3>1
  <2>3. CASE x = start
    BY <1>6, <2>3
  <2> QED
    BY <1>2, <1>8, <2>1, <2>2, <2>3
<1> QED
  BY <1>4, <1>7, <1>8 DEF Covered, OnGrid

\* A run that starts has passed nothing.
LEMMA ReadCovers ==
    ASSUME TypeOK, NEW g \in Generators, ReadHours(g), hours # Closed
    PROVE  Covered(g)'
<1>1. hours \in HourChoices /\ hours[1] \in Nat /\ thread[g].duration \in Nat
  <2>1. hours \in HourChoices /\ hours[1] \in Nat
    BY HoursAssumption DEF TypeOK, ValidHours
  <2>2. thread[g].duration \in Durations
    BY Locals DEF ReadHours, At, TypeOK, Threads
  <2> QED
    BY <2>1, <2>2, DurationsAssumption
<1> DEFINE o == hours[1]
           d == thread[g].duration
<1>2. /\ thread'[g].hours[1] = o /\ thread'[g].duration = d /\ thread'[g].start = o
  BY DEF ReadHours, Goto, TypeOK, Threads
<1> HIDE DEF o, d
<1>3. OnGrid(o, d, o)
  <2>1. o = o + 0 * d
    BY <1>1 DEF o, d
  <2> QED
    BY <2>1 DEF OnGrid
<1>4. ASSUME NEW x \in Nat, OnGrid(o, d, x), x < o
      PROVE  FALSE
  <2>1. PICK k \in Nat : x = o + k * d
    BY <1>4 DEF OnGrid
  <2>2. k * d \in Nat /\ o \in Nat
    BY <1>1 DEF o, d
  <2> QED
    BY <1>4, <2>1, <2>2
<1> QED
  BY <1>2, <1>3, <1>4 DEF Covered, OnGrid

\* Every step keeps what each run has passed covered.
LEMMA CoverStep == OneEach => (IInv /\ CoverInv /\ [Next]_vars => CoverInv')
<1> SUFFICES ASSUME OneEach, IInv, CoverInv, [Next]_vars, NEW g \in Generators
             PROVE  Covered(g)'
  BY DEF CoverInv
<1>a. TypeOK /\ Idle.at = "idle" /\ g \in Threads
  BY DEF IInv, Idle, Threads
<1>b. \A t \in Owners \cup Admins \cup Uploaders \cup Reviewers : t # g
  BY StadiumThreads DEF Threads
<1>c. ASSUME NEW t \in Threads, NEW next, Goto(t, next), t = g => next.at # "create"
      PROVE  Covered(g)'
  <2>1. At(g, "create")' => thread'[g] = thread[g]
    BY <1>a, <1>c DEF Goto, TypeOK, At
  <2> QED
    BY <2>1, CoverKept
<1>1. ASSUME NEW t \in Owners \cup Admins \cup Uploaders \cup Reviewers,
             \/ OwnerStep(t) \/ AdminStep(t) \/ PhotoStep(t) \/ ReviewerStep(t)
             \/ CommitDelete(t) \/ RefuseDelete(t)
      PROVE  Covered(g)'
  <2>1. PICK next : Goto(t, next)
    BY <1>1 DEF OwnerStep, BeginSubmit, BeginEdit, BeginDelete, Begin, CheckGallery,
                CommitSubmit, Reread, CommitEdit, AdminStep, BeginApprove, BeginReject,
                CommitApprove, EnqueueGeneration, CommitReject, PhotoStep, BeginUpload,
                ReadFirst, InsertPhoto, BeginPhoto, DropPhoto, StorePhoto, MatchCovers,
                CommitCover, RefusePhoto, ReviewerStep, BeginReview, InsertReview,
                RefuseReview, CommitReview, BeginRespond, AggregateAll, WriteRating, Arrive,
                CommitDelete, DeleteRow, RefuseDelete
  <2> QED
    BY <1>b, <1>c, <2>1 DEF Threads
<1>2. ASSUME NEW f \in Generators, BeginRun(f) \/ EndRun(f) \/ FailRun(f)
      PROVE  Covered(g)'
  <2>1. PICK next : Goto(f, next) /\ next.at # "create"
    BY <1>2 DEF BeginRun, EndRun, FailRun, Idle
  <2> QED
    BY <1>c, <2>1 DEF Threads
<1>3. ASSUME NEW f \in Generators, ReadHours(f)
      PROVE  Covered(g)'
  <2>1. CASE hours = Closed
    BY <1>a, <1>c, <1>3, <2>1 DEF ReadHours, Threads
  <2>2. CASE f = g /\ hours # Closed
    BY <1>a, <1>3, <2>2, ReadCovers
  <2>3. CASE f # g /\ hours # Closed
    <3>1. PICK next : Goto(f, next)
      BY <1>3, <2>3 DEF ReadHours
    <3> QED
      BY <1>c, <2>3, <3>1 DEF Threads
  <2> QED
    BY <2>1, <2>2, <2>3
<1>4. ASSUME NEW f \in Generators, CreateSlot(f)
      PROVE  Covered(g)'
  <2>1. CASE f = g
    BY <1>a, <1>4, <2>1, CreateCovers
  <2>2. CASE f # g
    <3>1. thread'[g] = thread[g]
      BY <1>a, <1>4, <2>2 DEF CreateSlot, TypeOK
    <3> QED
      BY <3>1, CoverKept
  <2> QED
    BY <2>1, <2>2
<1>5. ASSUME NEW t \in Threads, Crash(t)
      PROVE  Covered(g)'
  BY <1>a, <1>c, <1>5 DEF Crash
<1>6. CASE ReplaceHours \/ SendDailyRun \/ CompleteBooking \/ UNCHANGED vars
  <2>1. thread' = thread
    BY <1>6 DEF ReplaceHours, SendDailyRun, CompleteBooking, vars
  <2> QED
    BY <2>1, CoverKept
<1> QED
  BY <1>1, <1>2, <1>3, <1>4, <1>5, <1>6
     DEF Next, ListingNext, TimetableNext, GeneratorStep, RatingsNext

(* With one thread of the owner and one of an administrator, a run of the  *)
(* generator that ends leaves no gap in the opening hours, for any number  *)
(* of workers and runs that overlap, fail and are sent again.              *)
THEOREM NoGaps == OneEach => (Spec => RunLeavesNoGap)
<1> SUFFICES ASSUME OneEach PROVE Spec => RunLeavesNoGap
  OBVIOUS
<1>1. Init => IInv /\ CoverInv
  BY TypeInit, DecisionsInit, CoverInit DEF IInv
<1>2. IInv /\ CoverInv /\ [Next]_vars => CoverInv'
  BY CoverStep
<1>3. IInv /\ CoverInv =>
         [\A g \in Generators : At(g, "create") /\ EndRun(g) /\ Exists =>
             \A k \in 0 .. thread[g].hours[2] :
                LET start == thread[g].hours[1] + k * thread[g].duration
                IN start + thread[g].duration <= thread[g].hours[2]
                      => \E s \in slots : s[1] = start]_<< row, thread, timetable >>
  <2> SUFFICES ASSUME IInv, CoverInv, NEW g \in Generators, At(g, "create"), EndRun(g), Exists,
                      NEW k \in 0 .. thread[g].hours[2],
                      thread[g].hours[1] + k * thread[g].duration + thread[g].duration
                         <= thread[g].hours[2]
               PROVE  \E s \in slots : s[1] = thread[g].hours[1] + k * thread[g].duration
    OBVIOUS
  <2> DEFINE o == thread[g].hours[1]
             d == thread[g].duration
             close == thread[g].hours[2]
             start == thread[g].start
             x == o + k * d
  <2>1. thread[g] \in [at : {"create"}, duration : Durations, hours : HourChoices, start : Nat]
    BY Locals DEF At, TypeOK, IInv, Threads
  <2>2. start \in Nat /\ d \in Nat /\ o \in Nat /\ close \in Nat
    BY <2>1, DurationsAssumption, HoursAssumption DEF ValidHours
  <2>3. k \in Nat
    BY <2>2
  <2>4. k * d \in Nat
    BY <2>2, <2>3
  <2>5. ~ (start + d <= close) /\ x + d <= close
    BY DEF EndRun, Fits
  <2>6. \A y \in Nat : OnGrid(o, d, y) /\ y < start => \E s \in slots : s[1] = y
    BY DEF CoverInv, Covered
  <2> HIDE DEF o, d, close, start
  <2>7. x \in Nat /\ x < start
    BY <2>2, <2>4, <2>5
  <2>8. OnGrid(o, d, x)
    BY <2>3 DEF OnGrid
  <2> HIDE DEF x
  <2>9. \E s \in slots : s[1] = x
    BY <2>6, <2>7, <2>8
  <2> QED
    BY <2>9 DEF x, o, d
<1> QED
  BY <1>1, <1>2, <1>3, Inductive, PTL DEF Spec, RunLeavesNoGap
===============================================================================
