---------------------------- MODULE BookingProofs ----------------------------
(* What module Booking promises, for any number of slots, stadiums,        *)
(* bookings and threads, and under every fault.                            *)
EXTENDS Booking, TLAPS

USE DEF vars, database, locals

\* The types hold at the start.
LEMMA InitTypeOK == Init => TypeOK
BY NullAssumption, RowsAssumption
   DEF Init, TypeOK, SlotStatus, BookingStatus, Cancellations, Steps, Operations, Rows

(* The type invariant leans on LocalsInv: the booking a task is enqueued   *)
(* for is one.                                                             *)
LEMMA NextTypeOK == TypeOK /\ LocalsInv /\ [Next]_vars => TypeOK'
<1> SUFFICES ASSUME TypeOK, LocalsInv, [Next]_vars
             PROVE  TypeOK'
    OBVIOUS
<1> USE RowsAssumption
    DEF TypeOK, SlotStatus, BookingStatus, Cancellations, Steps, Operations, TaskKinds
<1>1. ASSUME NEW w \in Workers, WorkerStep(w)
      PROVE  TypeOK'
  <2>1. CASE \E r \in Rows : LockRow(w, r)
    BY <2>1 DEF LockRow, Rows
  <2>2. CASE CreateStep(w)
    <3>1. CASE AcquireSlotLock(w)
      BY <3>1 DEF AcquireSlotLock
    <3>2. CASE AcquireFails(w)
      BY <3>2 DEF AcquireFails, Finish
    <3>3. CASE Recheck(w)
      BY <3>3 DEF Recheck
    <3>4. ASSUME NEW b \in Bookings, CommitBooking(w, b)
          PROVE  TypeOK'
      <4>1. CASE ConstraintTrips(want[w])
        BY <3>4, <4>1 DEF CommitBooking
      <4>2. CASE ~ConstraintTrips(want[w])
        BY <3>4, <4>2 DEF CommitBooking
      <4> QED
        BY <4>1, <4>2
    <3>5. CASE NotifyPlayer(w)
      BY <3>5 DEF NotifyPlayer, Enqueue, LocalsInv
    <3>6. CASE NotifyOwner(w)
      BY <3>6 DEF NotifyOwner, Enqueue, LocalsInv
    <3>7. CASE NotifyBookingFails(w)
      BY <3>7 DEF NotifyBookingFails
    <3>8. CASE ReleaseSlotLock(w)
      BY <3>8 DEF ReleaseSlotLock, Released, Finish
    <3>9. CASE ReleaseFails(w)
      BY <3>9 DEF ReleaseFails, Finish
    <3> QED
      BY <2>2, <3>1, <3>2, <3>3, <3>4, <3>5, <3>6, <3>7, <3>8, <3>9 DEF CreateStep
  <2>3. CASE CancelStep(w)
    <3>1. CASE CheckConfirmed(w)
      BY <3>1 DEF CheckConfirmed
    <3>2. CASE NotCancellable(w)
      BY <3>2 DEF NotCancellable, Finish
    <3>3. CASE CommitCancel(w)
      BY <3>3 DEF CommitCancel
    <3>4. CASE NotifyCancelled(w)
      BY <3>4 DEF NotifyCancelled, Finish, LocalsInv
    <3>5. CASE NotifyCancelledFails(w)
      BY <3>5 DEF NotifyCancelledFails, Finish
    <3> QED
      BY <2>3, <3>1, <3>2, <3>3, <3>4, <3>5 DEF CancelStep
  <2>4. CASE DeadlockAborts(w)
    <3>1. CASE op[w] = "create"
      BY <2>4, <3>1 DEF DeadlockAborts
    <3>2. CASE op[w] # "create"
      <4>1. /\ Finish(w) /\ held' = [held EXCEPT ![w] = {}]
            /\ UNCHANGED <<slot, status, slotOf, active, lock, enqueued, ended, matched>>
        BY <2>4, <3>2 DEF DeadlockAborts
      <4> QED
        BY <4>1 DEF Finish
    <3> QED
      BY <3>1, <3>2
  <2> QED
    BY <1>1, <2>1, <2>2, <2>3, <2>4 DEF WorkerStep
<1>2. ASSUME NEW w \in Workers, Requests(w)
      PROVE  TypeOK'
  BY <1>2 DEF Requests, Preview, RequestCancel
<1>3. ASSUME NEW w \in Workers, Crash(w)
      PROVE  TypeOK'
  BY <1>3 DEF Crash, Finish
<1>4. CASE CompletionTask
  BY <1>4 DEF CompletionTask, MarkCompletedMatch, MatchEnded, MarkCompletedWrite, MarkCompletedFails
<1>5. ASSUME NEW s \in Slots, SlotStep(s)
      PROVE  TypeOK'
  BY <1>5 DEF SlotStep, BlockSlot, UnblockSlot, SlotEnds, ExpireSlotLock
<1>6. ASSUME NEW st \in Stadiums, ChangeStadium(st)
      PROVE  TypeOK'
  BY <1>6 DEF ChangeStadium
<1>7. CASE UNCHANGED vars
  BY <1>7
<1> QED
  BY <1>1, <1>2, <1>3, <1>4, <1>5, <1>6, <1>7 DEF Next

-----------------------------------------------------------------------------
(* Frames: what a step leaves alone. *)

\* Only a thread that waits for a row is aborted, and it loses its rows.
LEMMA AbortLocking ==
    ASSUME TypeOK, NEW w \in Workers, DeadlockAborts(w)
    PROVE  pc[w] = "locking" /\ held'[w] = {}
BY DEF TypeOK, DeadlockAborts, Deadlocked, WaitsFor

(* A step of thread w does not touch another thread. *)
OnlyMoves(w) ==
    \A v \in Workers \ {w} :
        /\ pc'[v] = pc[v]
        /\ op'[v] = op[v]
        /\ want'[v] = want[v]
        /\ booking'[v] = booking[v]
        /\ held'[v] = held[v]

\* A request moves only its own thread.
LEMMA WorkerFrame ==
    ASSUME TypeOK, NEW w \in Workers,
           WorkerStep(w) \/ Requests(w) \/ Crash(w)
    PROVE  OnlyMoves(w)
<1> USE DEF TypeOK, OnlyMoves
<1>1. CASE \E r \in Rows : LockRow(w, r)
  BY <1>1 DEF LockRow
<1>2. CASE CreateStep(w)
  BY <1>2 DEF CreateStep, AcquireSlotLock, AcquireFails, Recheck, CommitBooking,
              NotifyPlayer, NotifyOwner, Enqueue, NotifyBookingFails,
              ReleaseSlotLock, ReleaseFails, Finish
<1>3. CASE CancelStep(w)
  BY <1>3 DEF CancelStep, CheckConfirmed, NotCancellable, CommitCancel,
              NotifyCancelled, NotifyCancelledFails, Finish
<1>4. CASE Requests(w)
  BY <1>4 DEF Requests, Preview, RequestCancel
<1>5. CASE Crash(w) \/ DeadlockAborts(w)
  BY <1>5 DEF Crash, DeadlockAborts, Finish
<1> QED
  BY <1>1, <1>2, <1>3, <1>4, <1>5 DEF WorkerStep

\* Tasks, slots, stadiums and the clock move no thread.
LEMMA EnvironmentFrame ==
    ASSUME \/ CompletionTask
           \/ \E s \in Slots : SlotStep(s)
           \/ \E st \in Stadiums : ChangeStadium(st)
           \/ UNCHANGED vars
    PROVE  UNCHANGED <<pc, op, want, booking, held>>
BY DEF CompletionTask, MarkCompletedMatch, MarkCompletedWrite, MarkCompletedFails,
       SlotStep, BlockSlot, UnblockSlot, SlotEnds, ExpireSlotLock, ChangeStadium

(* Only two statements of a thread write the tables. *)
LEMMA TablesFrame ==
    ASSUME NEW w \in Workers,
           WorkerStep(w) \/ Requests(w) \/ Crash(w)
    PROVE  \/ \E b \in Bookings : CommitBooking(w, b)
           \/ CommitCancel(w)
           \/ UNCHANGED <<slot, status, slotOf, active, matched>>
BY DEF WorkerStep, LockRow, DeadlockAborts, CreateStep, AcquireSlotLock, AcquireFails,
       Recheck, NotifyPlayer, NotifyOwner, Enqueue, NotifyBookingFails, ReleaseSlotLock,
       ReleaseFails, Finish, CancelStep, CheckConfirmed, NotCancellable,
       NotifyCancelled, NotifyCancelledFails, Requests, Preview, RequestCancel, Crash

(* The same for the rest of the system. *)
LEMMA EnvironmentTablesFrame ==
    ASSUME \/ CompletionTask
           \/ \E s \in Slots : SlotStep(s)
           \/ \E st \in Stadiums : ChangeStadium(st)
           \/ UNCHANGED vars
    PROVE  \/ MarkCompletedMatch
           \/ MarkCompletedWrite
           \/ \E s \in Slots : BlockSlot(s) \/ UnblockSlot(s)
           \/ \E st \in Stadiums : ChangeStadium(st)
           \/ UNCHANGED <<slot, status, slotOf, active>> /\ matched' \subseteq matched
BY DEF CompletionTask, MarkCompletedFails, SlotStep, SlotEnds, ExpireSlotLock

(* A booking that exists keeps its slot, and none is confirmed again. *)
LEMMA BookingMoves ==
    ASSUME IInv, [Next]_vars, NEW b \in Bookings, status[b] # "none"
    PROVE  /\ slotOf'[b] = slotOf[b]
           /\ status'[b] # "none"
           /\ status'[b] = "confirmed" => status[b] = "confirmed"
<1> USE DEF IInv, TypeOK
<1>1. ASSUME NEW w \in Workers, NEW c \in Bookings, CommitBooking(w, c)
      PROVE  /\ slotOf'[b] = slotOf[b]
             /\ status'[b] # "none"
             /\ status'[b] = "confirmed" => status[b] = "confirmed"
  <2>1. b # c
    BY <1>1 DEF CommitBooking
  <2>2. CASE ConstraintTrips(want[w])
    BY <1>1, <2>2 DEF CommitBooking
  <2>3. CASE ~ConstraintTrips(want[w])
    BY <1>1, <2>1, <2>3 DEF CommitBooking
  <2> QED
    BY <2>2, <2>3
<1>2. ASSUME NEW w \in Workers, CommitCancel(w)
      PROVE  /\ slotOf'[b] = slotOf[b]
             /\ status'[b] # "none"
             /\ status'[b] = "confirmed" => status[b] = "confirmed"
  BY <1>2 DEF CommitCancel, Cancellations
<1>3. CASE MarkCompletedWrite
  BY <1>3 DEF MarkCompletedWrite
<1>4. CASE MarkCompletedMatch
  BY <1>4 DEF MarkCompletedMatch
<1>5. ASSUME NEW s \in Slots, BlockSlot(s) \/ UnblockSlot(s)
      PROVE  UNCHANGED <<status, slotOf>>
  BY <1>5 DEF BlockSlot, UnblockSlot
<1>6. ASSUME NEW st \in Stadiums, ChangeStadium(st)
      PROVE  UNCHANGED <<status, slotOf>>
  BY <1>6 DEF ChangeStadium
<1>7. CASE \E w \in Workers : WorkerStep(w) \/ Requests(w) \/ Crash(w)
  BY <1>7, <1>1, <1>2, TablesFrame
<1>8. CASE \/ CompletionTask
           \/ \E s \in Slots : SlotStep(s)
           \/ \E st \in Stadiums : ChangeStadium(st)
           \/ UNCHANGED vars
  BY <1>8, <1>3, <1>4, <1>5, <1>6, EnvironmentTablesFrame
<1> QED
  BY <1>7, <1>8 DEF Next

-----------------------------------------------------------------------------
(* The parts of the inductive invariant, one lemma each. *)

\* A booking keeps the slot of its INSERT.
LEMMA NextReferencesInv ==
    ASSUME IInv, [Next]_vars
    PROVE  ReferencesInv'
<1> USE DEF IInv, TypeOK, ReferencesInv
<1>1. ASSUME NEW w \in Workers, NEW b \in Bookings, CommitBooking(w, b)
      PROVE  ReferencesInv'
  <2>1. want[w] \in Slots /\ want[w] # NoOne
    BY <1>1, NullAssumption DEF CommitBooking, LocalsInv, Rows
  <2>2. CASE ConstraintTrips(want[w])
    BY <1>1, <2>2 DEF CommitBooking
  <2>3. CASE ~ConstraintTrips(want[w])
    BY <1>1, <2>1, <2>3 DEF CommitBooking
  <2> QED
    BY <2>2, <2>3
<1>2. ASSUME NEW w \in Workers, CommitCancel(w)
      PROVE  ReferencesInv'
  BY <1>2 DEF CommitCancel, Cancellations, LocalsInv
<1>3. CASE MarkCompletedWrite
  BY <1>3 DEF MarkCompletedWrite
<1>4. CASE MarkCompletedMatch
  BY <1>4 DEF MarkCompletedMatch, MatchEnded
<1>5. ASSUME NEW s \in Slots, BlockSlot(s) \/ UnblockSlot(s)
      PROVE  UNCHANGED <<status, slotOf, matched>>
  BY <1>5 DEF BlockSlot, UnblockSlot
<1>6. ASSUME NEW st \in Stadiums, ChangeStadium(st)
      PROVE  UNCHANGED <<status, slotOf, matched>>
  BY <1>6 DEF ChangeStadium
<1>7. CASE \E w \in Workers : WorkerStep(w) \/ Requests(w) \/ Crash(w)
  BY <1>7, <1>1, <1>2, TablesFrame
<1>8. CASE \/ CompletionTask
           \/ \E s \in Slots : SlotStep(s)
           \/ \E st \in Stadiums : ChangeStadium(st)
           \/ UNCHANGED vars
  BY <1>8, <1>3, <1>4, <1>5, <1>6, EnvironmentTablesFrame
<1> QED
  BY <1>7, <1>8 DEF Next

(* LocalsInv for one thread, to treat the thread that moves apart. *)
LocalsOf(w) ==
    /\ pc[w] = "idle" => op[w] = "none"
    /\ pc[w] \in {"locking", "writing"} => op[w] \in Operations
    /\ pc[w] \in {"previewed", "notify_player", "notify_owner", "releasing"}
         => op[w] = "create"
    /\ pc[w] = "notify_cancelled" => op[w] \in Cancellations
    /\ op[w] = "create" => want[w] \in Slots
    /\ op[w] \in Cancellations \/ pc[w] \in {"notify_player", "notify_owner"}
         => booking[w] \in Bookings /\ status[booking[w]] # "none"
    /\ pc[w] = "notify_cancelled" => status[booking[w]] # "confirmed"

\* The conjunct of one worker.
LEMMA LocalsInvDef == LocalsInv <=> \A w \in Workers : LocalsOf(w)
BY DEF LocalsInv, LocalsOf

\* Every step keeps the meaning of the locals.
LEMMA NextLocalsInv ==
    ASSUME IInv, [Next]_vars
    PROVE  LocalsInv'
<1> USE DEF IInv, TypeOK
<1>a. \A w \in Workers : LocalsOf(w)
  BY LocalsInvDef
<1>b. \A b \in Bookings : status[b] # "none" =>
        status'[b] # "none" /\ (status'[b] = "confirmed" => status[b] = "confirmed")
  BY BookingMoves
<1>c. ASSUME NEW v \in Workers,
             pc'[v] = pc[v], op'[v] = op[v], want'[v] = want[v], booking'[v] = booking[v]
      PROVE  LocalsOf(v)'
  <2>1. op[v] \in Cancellations \/ pc[v] \in {"notify_player", "notify_owner", "notify_cancelled"}
          => booking[v] \in Bookings /\ status[booking[v]] # "none"
    BY <1>a DEF LocalsOf
  <2> QED
    BY <1>a, <1>b, <1>c, <2>1 DEF LocalsOf
<1>1. ASSUME NEW w \in Workers, WorkerStep(w) \/ Requests(w) \/ Crash(w)
      PROVE  LocalsInv'
  <2>1. OnlyMoves(w)
    BY <1>1, WorkerFrame
  <2>2. \A v \in Workers \ {w} : LocalsOf(v)'
    BY <2>1, <1>c DEF OnlyMoves
  <2>3. LocalsOf(w)'
    <3> USE <1>a DEF LocalsOf, Operations, Cancellations
    <3>1. CASE \E r \in Rows : LockRow(w, r)
      <4>1. pc'[w] = pc[w] /\ op'[w] = op[w] /\ want'[w] = want[w] /\ booking'[w] = booking[w]
        BY <3>1 DEF LockRow
      <4> QED
        BY <4>1, <1>c
    <3>2. CASE AcquireSlotLock(w) \/ Recheck(w)
      BY <3>2 DEF AcquireSlotLock, Recheck
    <3>3. CASE AcquireFails(w) \/ ReleaseSlotLock(w) \/ ReleaseFails(w) \/ NotCancellable(w)
               \/ NotifyCancelled(w) \/ NotifyCancelledFails(w) \/ Crash(w)
      BY <3>3 DEF AcquireFails, ReleaseSlotLock, ReleaseFails, NotCancellable,
                  NotifyCancelled, NotifyCancelledFails, Crash, Finish
    <3>4. ASSUME NEW b \in Bookings, CommitBooking(w, b)
          PROVE  LocalsOf(w)'
      <4>1. CASE ConstraintTrips(want[w])
        BY <3>4, <4>1 DEF CommitBooking
      <4>2. CASE ~ConstraintTrips(want[w])
        BY <3>4, <4>2 DEF CommitBooking
      <4> QED
        BY <4>1, <4>2
    <3>5. CASE NotifyPlayer(w) \/ NotifyOwner(w) \/ NotifyBookingFails(w)
      BY <3>5 DEF NotifyPlayer, NotifyOwner, Enqueue, NotifyBookingFails
    <3>6. CASE CheckConfirmed(w)
      BY <3>6 DEF CheckConfirmed
    <3>7. CASE CommitCancel(w)
      BY <3>7 DEF CommitCancel
    <3>8. CASE Requests(w)
      BY <3>8 DEF Requests, Preview, RequestCancel
    <3>9. CASE DeadlockAborts(w)
      BY <3>9 DEF DeadlockAborts, Finish
    <3> QED
      BY <1>1, <3>1, <3>2, <3>3, <3>4, <3>5, <3>6, <3>7, <3>8, <3>9
         DEF WorkerStep, CreateStep, CancelStep
  <2> QED
    BY <2>2, <2>3, LocalsInvDef DEF LocalsInv, LocalsOf
<1>2. CASE \/ CompletionTask
           \/ \E s \in Slots : SlotStep(s)
           \/ \E st \in Stadiums : ChangeStadium(st)
           \/ UNCHANGED vars
  <2>1. \A v \in Workers : LocalsOf(v)'
    BY <1>2, <1>c, EnvironmentFrame
  <2> QED
    BY <2>1 DEF LocalsInv, LocalsOf
<1> QED
  BY <1>1, <1>2 DEF Next

(* A statement joins one row of each table: their ranks tell them apart,  *)
(* in the order of either statement.                                      *)
LEMMA WantedRows ==
    ASSUME TypeOK, LocalsInv, ReferencesInv, NEW w \in Workers, op[w] \in Operations
    PROVE  /\ Wanted(w) \subseteq Rows
           /\ \A q, r \in Wanted(w) : Rank(w, q) = Rank(w, r) => q = r
           /\ \A r \in Rows : Rank(w, r) \in 1..3
           /\ op[w] = "create" =>
                 /\ want[w] \in Slots
                 /\ want[w] \in Wanted(w)
                 /\ StadiumOf[want[w]] \in Wanted(w)
           /\ op[w] \in Cancellations =>
                 /\ booking[w] \in Bookings
                 /\ status[booking[w]] # "none"
                 /\ slotOf[booking[w]] \in Slots
                 /\ booking[w] \in Wanted(w)
                 /\ slotOf[booking[w]] \in Wanted(w)
<1> USE RowsAssumption DEF Operations, Rows
<1>1. CASE op[w] = "create"
  <2>1. want[w] \in Slots
    BY <1>1 DEF LocalsInv
  <2> QED
    BY <1>1, <2>1 DEF Wanted, Rank, SecondTable, Cancellations
<1>2. CASE op[w] \in Cancellations
  <2>1. booking[w] \in Bookings /\ status[booking[w]] # "none"
    BY <1>2 DEF LocalsInv
  <2>2. slotOf[booking[w]] \in Slots
    BY <2>1 DEF ReferencesInv, TypeOK
  <2> QED
    BY <1>2, <2>1, <2>2 DEF Wanted, Rank, SecondTable, Cancellations
<1> QED
  BY <1>1, <1>2

(* RowLocksInv for one thread. *)
RowsOf(w) ==
    /\ pc[w] \notin {"locking", "writing"} => held[w] = {}
    /\ pc[w] = "writing" => Wanted(w) \subseteq held[w]
    /\ held[w] # {} =>
          /\ held[w] \subseteq Wanted(w)
          /\ \A q \in held[w] : \A r \in Wanted(w) \ held[w] : Rank(w, q) < Rank(w, r)

Disjoint == \A v, w \in Workers : v # w => held[v] \cap held[w] = {}

\* The conjunct of one worker.
LEMMA RowLocksInvDef == RowLocksInv <=> Disjoint /\ \A w \in Workers : RowsOf(w)
BY DEF RowLocksInv, RowsOf, Disjoint

(* A thread that does not move wants the rows it wanted. *)
LEMMA WantedFrame ==
    ASSUME IInv, [Next]_vars, NEW v \in Workers, op[v] \in Operations,
           op'[v] = op[v], want'[v] = want[v], booking'[v] = booking[v]
    PROVE  Wanted(v)' = Wanted(v) /\ \A r \in Rows : Rank(v, r)' = Rank(v, r)
<1>a. \A r \in Rows : Rank(v, r)' = Rank(v, r)
  BY DEF Rank, SecondTable
<1>1. CASE op[v] = "create"
  BY <1>1, <1>a DEF Wanted
<1>2. CASE op[v] \in Cancellations
  <2>1. booking[v] \in Bookings /\ status[booking[v]] # "none"
    BY <1>2 DEF IInv, LocalsInv
  <2>2. slotOf'[booking[v]] = slotOf[booking[v]]
    BY <2>1, BookingMoves
  <2> QED
    BY <1>2, <1>a, <2>2 DEF Wanted, Cancellations
<1> QED
  BY <1>1, <1>2 DEF Operations

\* Every step keeps row locks exclusive and where the statements need them.
LEMMA NextRowLocksInv ==
    ASSUME IInv, [Next]_vars
    PROVE  RowLocksInv'
<1> USE DEF IInv, TypeOK
<1>a. Disjoint /\ \A w \in Workers : RowsOf(w)
  BY RowLocksInvDef
<1>b. ASSUME NEW v \in Workers, pc'[v] = pc[v], held'[v] = held[v],
             op'[v] = op[v], want'[v] = want[v], booking'[v] = booking[v]
      PROVE  RowsOf(v)'
  <2>1. CASE pc[v] \in {"locking", "writing"}
    <3>1. op[v] \in Operations
      BY <2>1 DEF LocalsInv
    <3>2. Wanted(v)' = Wanted(v) /\ \A r \in Rows : Rank(v, r)' = Rank(v, r)
      BY <1>b, <3>1, WantedFrame
    <3>3. Wanted(v) \subseteq Rows
      BY <3>1, WantedRows
    <3>4. RowsOf(v) /\ held[v] \subseteq Rows
      BY <1>a
    <3> HIDE DEF IInv, TypeOK
    <3> QED
      BY <1>b, <3>2, <3>3, <3>4 DEF RowsOf
  <2>2. CASE pc[v] \notin {"locking", "writing"}
    BY <1>a, <1>b, <2>2 DEF RowsOf
  <2> QED
    BY <2>1, <2>2
<1>1. ASSUME NEW w \in Workers, WorkerStep(w) \/ Requests(w) \/ Crash(w)
      PROVE  RowLocksInv'
  <2>1. OnlyMoves(w)
    BY <1>1, WorkerFrame
  <2>2. \A v \in Workers \ {w} : RowsOf(v)'
    BY <2>1, <1>b DEF OnlyMoves
  <2>3. (held'[w] \subseteq held[w] \/ \E r \in Rows : LockRow(w, r)) /\ RowsOf(w)'
    <3> USE <1>a DEF RowsOf
    <3>1. ASSUME NEW r \in Rows, LockRow(w, r)
          PROVE  RowsOf(w)'
      <4>1. /\ pc[w] = "locking" /\ pc'[w] = "locking"
            /\ held'[w] = held[w] \cup {r}
            /\ r \in Wanted(w)
            /\ \A q \in Wanted(w) \ held[w] : Rank(w, r) <= Rank(w, q)
        BY <3>1 DEF LockRow, NextRow
      <4>2. op[w] \in Operations
        BY <4>1 DEF LocalsInv
      <4>3. Wanted(w)' = Wanted(w) /\ \A q \in Rows : Rank(w, q)' = Rank(w, q)
        BY <3>1, <4>2, WantedFrame DEF LockRow
      <4>4. \A q \in Wanted(w) \ held'[w] : Rank(w, r) < Rank(w, q)
        <5> TAKE q \in Wanted(w) \ held'[w]
        <5>1. q # r /\ Rank(w, r) <= Rank(w, q)
          BY <4>1
        <5>2. Rank(w, r) # Rank(w, q) /\ Rank(w, r) \in 1..3 /\ Rank(w, q) \in 1..3
          BY <4>1, <4>2, <5>1, WantedRows
        <5> QED
          BY <5>1, <5>2
      <4>5. held'[w] \subseteq Wanted(w)
        BY <4>1
      <4>6. \A p \in held'[w] : \A q \in Wanted(w) \ held'[w] : Rank(w, p) < Rank(w, q)
        BY <4>1, <4>4
      <4>7. Wanted(w) \subseteq Rows
        BY <4>2, WantedRows
      <4> HIDE DEF IInv, TypeOK
      <4> QED
        BY <4>1, <4>3, <4>5, <4>6, <4>7
    <3>2. CASE Recheck(w) \/ CheckConfirmed(w)
      <4>1. op[w] \in Operations
        BY <3>2 DEF Recheck, CheckConfirmed, Operations
      <4>2. Wanted(w)' = Wanted(w)
        BY <3>2, <4>1, WantedFrame DEF Recheck, CheckConfirmed
      <4>3. /\ pc[w] = "locking" /\ Wanted(w) \subseteq held[w]
            /\ \/ pc'[w] = "writing" /\ held'[w] = held[w]
               \/ pc'[w] = "releasing" /\ held'[w] = {}
        BY <3>2 DEF Recheck, CheckConfirmed, HasRows
      <4> QED
        BY <4>2, <4>3
    <3>3. ASSUME held'[w] = {}, pc'[w] # "writing"
          PROVE  held'[w] \subseteq held[w] /\ RowsOf(w)'
      BY <3>3
    <3>4. ASSUME NEW b \in Bookings, CommitBooking(w, b)
          PROVE  held'[w] = {} /\ pc'[w] # "writing"
      BY <3>4 DEF CommitBooking
    <3>5. CASE AcquireSlotLock(w) \/ AcquireFails(w) \/ ReleaseSlotLock(w) \/ ReleaseFails(w)
               \/ NotifyPlayer(w) \/ NotifyOwner(w) \/ NotifyBookingFails(w)
      BY <3>5 DEF AcquireSlotLock, AcquireFails, ReleaseSlotLock, ReleaseFails,
                  NotifyPlayer, NotifyOwner, Enqueue, NotifyBookingFails, Finish
    <3>6. CASE NotCancellable(w) \/ CommitCancel(w) \/ Crash(w) \/ DeadlockAborts(w)
      BY <3>6, <3>3 DEF NotCancellable, CommitCancel, Crash, DeadlockAborts, Finish
    <3>7. CASE NotifyCancelled(w) \/ NotifyCancelledFails(w) \/ Requests(w)
      BY <3>7 DEF NotifyCancelled, NotifyCancelledFails, Requests, Preview, RequestCancel, Finish
    <3>8. CASE Recheck(w) \/ CheckConfirmed(w)
      BY <3>8, <3>2 DEF Recheck, CheckConfirmed
    <3> QED
      BY <1>1, <3>1, <3>2, <3>3, <3>4, <3>5, <3>6, <3>7, <3>8
         DEF WorkerStep, CreateStep, CancelStep
  <2>4. Disjoint'
    <3>1. CASE held'[w] \subseteq held[w]
      BY <1>a, <2>1, <3>1 DEF OnlyMoves, Disjoint
    <3>2. ASSUME NEW r \in Rows, LockRow(w, r)
          PROVE  Disjoint'
      <4>1. held'[w] = held[w] \cup {r} /\ \A v \in Workers : r \notin held[v]
        BY <3>2 DEF LockRow, Free
      <4> QED
        BY <1>a, <2>1, <4>1 DEF OnlyMoves, Disjoint
    <3> QED
      BY <2>3, <3>1, <3>2
  <2>5. \A v \in Workers : RowsOf(v)'
    BY <2>2, <2>3
  <2> QED
    BY <2>4, <2>5 DEF RowLocksInv, RowsOf, Disjoint
<1>2. CASE \/ CompletionTask
           \/ \E s \in Slots : SlotStep(s)
           \/ \E st \in Stadiums : ChangeStadium(st)
           \/ UNCHANGED vars
  <2>1. UNCHANGED <<pc, op, want, booking, held>>
    BY <1>2, EnvironmentFrame
  <2>2. \A v \in Workers : RowsOf(v)'
    BY <2>1, <1>b
  <2>3. Disjoint'
    BY <1>a, <2>1 DEF Disjoint
  <2> QED
    BY <2>2, <2>3 DEF RowLocksInv, RowsOf, Disjoint
<1> QED
  BY <1>1, <1>2 DEF Next

(* While a thread is between its check and its commit, nobody else changes *)
(* the rows it has locked: here the row locks do their work.               *)
LEMMA LockedRowsKept ==
    ASSUME IInv, [Next]_vars, NEW v \in Workers, pc[v] = "writing", pc'[v] = "writing"
    PROVE  /\ op'[v] = op[v] /\ want'[v] = want[v] /\ booking'[v] = booking[v]
           /\ op[v] = "create" =>
                 /\ slot'[want[v]] = slot[want[v]]
                 /\ active'[StadiumOf[want[v]]] = active[StadiumOf[want[v]]]
           /\ op[v] \in Cancellations => status'[booking[v]] = status[booking[v]]
<1> DEFINE Goal ==
        /\ op[v] = "create" =>
              /\ slot'[want[v]] = slot[want[v]]
              /\ active'[StadiumOf[want[v]]] = active[StadiumOf[want[v]]]
        /\ op[v] \in Cancellations => status'[booking[v]] = status[booking[v]]
<1> USE DEF IInv, TypeOK
<1>a. /\ op[v] \in Operations
      /\ Wanted(v) \subseteq held[v]
      /\ \A u \in Workers : u # v => held[u] \cap held[v] = {}
  BY DEF LocalsInv, RowLocksInv
<1>b. /\ op[v] = "create" => want[v] \in held[v] /\ StadiumOf[want[v]] \in held[v]
                           /\ want[v] \in Slots
      /\ op[v] \in Cancellations => booking[v] \in held[v] /\ booking[v] \in Bookings
                                 /\ status[booking[v]] = "confirmed"
  BY <1>a, WantedRows DEF DecisionInv
<1>1. ASSUME NEW w \in Workers, WorkerStep(w) \/ Requests(w) \/ Crash(w)
      PROVE  Goal /\ op'[v] = op[v] /\ want'[v] = want[v] /\ booking'[v] = booking[v]
  <2>1. w # v
    <3> SUFFICES ASSUME w = v PROVE FALSE
      OBVIOUS
    <3> QED
      BY <1>1, AbortLocking DEF WorkerStep, LockRow, CreateStep, AcquireSlotLock, AcquireFails, Recheck,
             CommitBooking, NotifyPlayer, NotifyOwner, Enqueue, NotifyBookingFails,
             ReleaseSlotLock, ReleaseFails, Finish, CancelStep, CheckConfirmed,
             NotCancellable, CommitCancel, NotifyCancelled, NotifyCancelledFails,
             Requests, Preview, RequestCancel, Crash, HasRows
  <2>2. OnlyMoves(w)
    BY <1>1, WorkerFrame
  <2>3. ASSUME NEW b \in Bookings, CommitBooking(w, b)
        PROVE  Goal
    <3>1. pc[w] = "writing" /\ op[w] = "create" /\ status[b] = "none"
      BY <2>3 DEF CommitBooking
    <3>2. want[w] \in held[w]
      BY <3>1, WantedRows DEF RowLocksInv, LocalsInv
    <3>3. op[v] = "create" => want[v] # want[w]
      BY <1>a, <1>b, <2>1, <3>2
    <3>4. op[v] \in Cancellations => booking[v] # b
      BY <1>b, <3>1
    <3>5. CASE ConstraintTrips(want[w])
      BY <2>3, <3>5 DEF CommitBooking
    <3>6. CASE ~ConstraintTrips(want[w])
      BY <1>b, <2>3, <3>3, <3>4, <3>6 DEF CommitBooking
    <3> QED
      BY <3>5, <3>6
  <2>4. CASE CommitCancel(w)
    <3>1. pc[w] = "writing" /\ op[w] \in Cancellations
      BY <2>4 DEF CommitCancel
    <3>2. booking[w] \in held[w] /\ slotOf[booking[w]] \in held[w]
      BY <3>1, WantedRows DEF RowLocksInv, LocalsInv
    <3>3. /\ op[v] = "create" => want[v] # slotOf[booking[w]]
          /\ op[v] \in Cancellations => booking[v] # booking[w]
      BY <1>a, <1>b, <2>1, <3>2
    <3> QED
      BY <1>b, <2>4, <3>3 DEF CommitCancel
  <2>5. Goal
    BY <1>1, <2>3, <2>4, TablesFrame
  <2> QED
    BY <2>1, <2>2, <2>5 DEF OnlyMoves
<1>2. CASE \/ CompletionTask
           \/ \E s \in Slots : SlotStep(s)
           \/ \E st \in Stadiums : ChangeStadium(st)
           \/ UNCHANGED vars
  <2>1. UNCHANGED <<pc, op, want, booking, held>>
    BY <1>2, EnvironmentFrame
  <2>2. CASE MarkCompletedWrite
    BY <1>b, <2>2 DEF MarkCompletedWrite, Free
  <2>3. CASE MarkCompletedMatch
    BY <2>3 DEF MarkCompletedMatch
  <2>4. ASSUME NEW s \in Slots, BlockSlot(s) \/ UnblockSlot(s)
        PROVE  Goal
    BY <1>b, <2>4 DEF BlockSlot, UnblockSlot, Free
  <2>5. ASSUME NEW st \in Stadiums, ChangeStadium(st)
        PROVE  Goal
    BY <1>b, <2>5, RowsAssumption DEF ChangeStadium, Free
  <2> QED
    BY <1>2, <2>1, <2>2, <2>3, <2>4, <2>5, EnvironmentTablesFrame
<1> QED
  BY <1>1, <1>2 DEF Next

\* What was decided under row locks stays so until the commit.
LEMMA NextDecisionInv ==
    ASSUME IInv, [Next]_vars
    PROVE  DecisionInv'
<1> SUFFICES ASSUME NEW v \in Workers, pc'[v] = "writing"
             PROVE  /\ op'[v] = "create" => Bookable(want[v])'
                    /\ op'[v] \in Cancellations => (status[booking[v]])' = "confirmed"
    BY DEF DecisionInv
<1> USE DEF IInv, TypeOK
<1>1. CASE pc[v] = "writing"
  BY <1>1, LockedRowsKept DEF DecisionInv, Bookable
<1>2. CASE pc[v] # "writing"
  <2>1. PICK w \in Workers : WorkerStep(w) \/ Requests(w) \/ Crash(w)
    BY <1>2, EnvironmentFrame DEF Next
  <2>2. w = v
    BY <1>2, <2>1, WorkerFrame DEF OnlyMoves
  <2>3. Recheck(v) \/ CheckConfirmed(v)
    BY <1>2, <2>1, <2>2
       DEF WorkerStep, LockRow, DeadlockAborts, CreateStep, AcquireSlotLock, AcquireFails,
           CommitBooking, NotifyPlayer, NotifyOwner, Enqueue, NotifyBookingFails,
           ReleaseSlotLock, ReleaseFails, Finish, CancelStep,
           NotCancellable, CommitCancel, NotifyCancelled, NotifyCancelledFails,
           Requests, Preview, RequestCancel, Crash, HasRows
  <2>4. CASE Recheck(v)
    BY <2>4 DEF Recheck, Bookable, Cancellations
  <2>5. CASE CheckConfirmed(v)
    BY <2>5 DEF CheckConfirmed, Cancellations
  <2> QED
    BY <2>3, <2>4, <2>5
<1> QED
  BY <1>1, <1>2

\* A commit finds its slot without a confirmed booking.
LEMMA NextNoDoubleBooking ==
    ASSUME IInv, [Next]_vars
    PROVE  NoDoubleBooking'
<1> USE DEF IInv, TypeOK
<1>a. NoDoubleBooking
  OBVIOUS
<1>b. \A b \in Bookings : status[b] # "none" => slotOf[b] \in Slots
  BY DEF ReferencesInv
<1>1. ASSUME NEW w \in Workers, NEW b \in Bookings, CommitBooking(w, b)
      PROVE  NoDoubleBooking'
  <2>1. /\ pc[w] = "writing" /\ op[w] = "create" /\ status[b] = "none"
        /\ want[w] \in Slots /\ slot[want[w]] = "available"
    BY <1>1 DEF CommitBooking, LocalsInv, DecisionInv, Bookable
  <2>2. CASE ConstraintTrips(want[w])
    BY <1>1, <1>a, <2>2 DEF CommitBooking, NoDoubleBooking
  <2>3. CASE ~ConstraintTrips(want[w])
    <3>1. /\ slot' = [slot EXCEPT ![want[w]] = "booked"]
          /\ status' = [status EXCEPT ![b] = "confirmed"]
          /\ slotOf' = [slotOf EXCEPT ![b] = want[w]]
      BY <1>1, <2>3 DEF CommitBooking
    <3>2. \A c \in Bookings : status[c] = "confirmed" => slotOf[c] # want[w] /\ c # b
      BY <1>a, <2>1 DEF NoDoubleBooking
    <3>3. \A s \in Slots : slot'[s] = "booked" =>
            \E c \in Bookings : slotOf'[c] = s /\ status'[c] \in {"confirmed", "completed"}
      <4> SUFFICES ASSUME NEW s \in Slots, slot'[s] = "booked"
                   PROVE  \E c \in Bookings : slotOf'[c] = s /\ status'[c] \in {"confirmed", "completed"}
        OBVIOUS
      <4>1. CASE s = want[w]
        BY <3>1, <4>1
      <4>2. CASE s # want[w]
        <5>1. PICK c \in Bookings : slotOf[c] = s /\ status[c] \in {"confirmed", "completed"}
          BY <1>a, <3>1, <4>2 DEF NoDoubleBooking
        <5>2. c # b
          BY <2>1, <5>1
        <5> QED
          BY <3>1, <5>1, <5>2
      <4> QED
        BY <4>1, <4>2
    <3>4. \A c \in Bookings : status'[c] = "confirmed" => slot'[slotOf'[c]] = "booked"
      BY <1>a, <1>b, <2>1, <3>1, <3>2 DEF NoDoubleBooking
    <3>5. \A c, d \in Bookings :
            status'[c] = "confirmed" /\ status'[d] = "confirmed" /\ slotOf'[c] = slotOf'[d] => c = d
      BY <1>a, <2>1, <3>1, <3>2 DEF NoDoubleBooking
    <3> QED
      BY <3>3, <3>4, <3>5 DEF NoDoubleBooking
  <2> QED
    BY <2>2, <2>3
<1>2. ASSUME NEW w \in Workers, CommitCancel(w)
      PROVE  NoDoubleBooking'
  <2> DEFINE b == booking[w]
  <2>1. /\ b \in Bookings /\ status[b] = "confirmed" /\ op[w] \in Cancellations
        /\ slotOf[b] \in Slots
    BY <1>2, <1>b DEF CommitCancel, LocalsInv, DecisionInv
  <2>2. /\ status' = [status EXCEPT ![b] = op[w]]
        /\ slot' = [slot EXCEPT ![slotOf[b]] = "available"]
        /\ slotOf' = slotOf
    BY <1>2 DEF CommitCancel
  <2>3. \A c \in Bookings : status'[c] = "confirmed" =>
          /\ status[c] = "confirmed" /\ c # b /\ slotOf[c] # slotOf[b]
    BY <1>a, <2>1, <2>2 DEF NoDoubleBooking, Cancellations
  <2>4. \A c \in Bookings : status'[c] = "confirmed" => slot'[slotOf'[c]] = "booked"
    BY <1>a, <1>b, <2>2, <2>3 DEF NoDoubleBooking
  <2>5. \A s \in Slots : slot'[s] = "booked" =>
          \E c \in Bookings : slotOf'[c] = s /\ status'[c] \in {"confirmed", "completed"}
    <3> SUFFICES ASSUME NEW s \in Slots, slot'[s] = "booked"
                 PROVE  \E c \in Bookings : slotOf'[c] = s /\ status'[c] \in {"confirmed", "completed"}
      OBVIOUS
    <3>1. s # slotOf[b] /\ slot[s] = "booked"
      BY <2>1, <2>2
    <3>2. PICK c \in Bookings : slotOf[c] = s /\ status[c] \in {"confirmed", "completed"}
      BY <1>a, <3>1 DEF NoDoubleBooking
    <3>3. c # b
      BY <3>1, <3>2
    <3> QED
      BY <2>2, <3>2, <3>3
  <2> QED
    BY <1>a, <2>2, <2>3, <2>4, <2>5 DEF NoDoubleBooking
<1>3. CASE MarkCompletedWrite
  BY <1>3, <1>a DEF MarkCompletedWrite, NoDoubleBooking
<1>4. CASE MarkCompletedMatch
  BY <1>4, <1>a DEF MarkCompletedMatch, NoDoubleBooking
<1>5. ASSUME NEW s \in Slots, BlockSlot(s) \/ UnblockSlot(s)
      PROVE  NoDoubleBooking'
  BY <1>5, <1>a, <1>b DEF BlockSlot, UnblockSlot, NoDoubleBooking
<1>6. ASSUME NEW st \in Stadiums, ChangeStadium(st)
      PROVE  NoDoubleBooking'
  BY <1>6, <1>a DEF ChangeStadium, NoDoubleBooking
<1>7. CASE \E w \in Workers : WorkerStep(w) \/ Requests(w) \/ Crash(w)
  BY <1>7, <1>a, <1>1, <1>2, TablesFrame DEF NoDoubleBooking
<1>8. CASE \/ CompletionTask
           \/ \E s \in Slots : SlotStep(s)
           \/ \E st \in Stadiums : ChangeStadium(st)
           \/ UNCHANGED vars
  BY <1>8, <1>a, <1>3, <1>4, <1>5, <1>6, EnvironmentTablesFrame DEF NoDoubleBooking
<1> QED
  BY <1>7, <1>8 DEF Next

-----------------------------------------------------------------------------
(* The theorems. *)

\* The invariant holds at the start,
LEMMA InitIInv == Init => IInv
<1> SUFFICES ASSUME Init PROVE IInv
  OBVIOUS
<1>1. TypeOK
  BY InitTypeOK
<1>2. ReferencesInv /\ LocalsInv /\ RowLocksInv /\ DecisionInv /\ NoDoubleBooking
  BY DEF Init, ReferencesInv, LocalsInv, RowLocksInv, DecisionInv, NoDoubleBooking,
         Operations, Cancellations
<1> QED
  BY <1>1, <1>2 DEF IInv

\* and every step keeps it.
LEMMA NextIInv == IInv /\ [Next]_vars => IInv'
BY NextTypeOK, NextReferencesInv, NextLocalsInv, NextRowLocksInv, NextDecisionInv,
   NextNoDoubleBooking DEF IInv

(***************************************************************************)
(* The inductive invariant holds whatever faults occur: with a lock that   *)
(* expires under its owner, without Redis, and through crashes.            *)
(***************************************************************************)
THEOREM InductiveInvariant == Spec => []IInv
BY InitIInv, NextIInv, PTL DEF Spec

(***************************************************************************)
(* Every reachable state is well typed.                                    *)
(***************************************************************************)
THEOREM TypeCorrect == Spec => []TypeOK
<1>1. IInv => TypeOK
  BY DEF IInv
<1> QED
  BY <1>1, InductiveInvariant, PTL

(***************************************************************************)
(* No double booking: one confirmed booking per slot, on a booked slot.    *)
(***************************************************************************)
THEOREM BookingSafety == Spec => []NoDoubleBooking
<1>1. IInv => NoDoubleBooking
  BY DEF IInv
<1> QED
  BY <1>1, InductiveInvariant, PTL

(***************************************************************************)
(* The unique constraint is a backstop that is never reached: a thread     *)
(* about to write sees its slot available under the row lock, and an       *)
(* available slot has no confirmed booking.                                *)
(***************************************************************************)
THEOREM ConstraintIdle == Spec => []ConstraintNeverTrips
<1>1. IInv => ConstraintNeverTrips
  BY DEF IInv, ConstraintNeverTrips, ConstraintTrips, DecisionInv, Bookable, NoDoubleBooking
<1> QED
  BY <1>1, InductiveInvariant, PTL

\* A booking that becomes confirmed has a bookable slot.
LEMMA CommitStep ==
    ASSUME IInv, [Next]_vars, NEW b \in Bookings, status[b] = "none", status'[b] = "confirmed"
    PROVE  Bookable(slotOf'[b])
<1> USE DEF IInv, TypeOK
<1>1. ASSUME NEW w \in Workers, NEW c \in Bookings, CommitBooking(w, c)
      PROVE  Bookable(slotOf'[b])
  <2>1. ~ConstraintTrips(want[w])
    BY <1>1 DEF CommitBooking
  <2>2. b = c /\ slotOf'[b] = want[w]
    BY <1>1, <2>1 DEF CommitBooking
  <2> QED
    BY <1>1, <2>2 DEF CommitBooking, DecisionInv
<1>2. ~(\E w \in Workers : CommitCancel(w))
  BY DEF CommitCancel, DecisionInv, LocalsInv, Cancellations
<1>3. ~MarkCompletedWrite /\ ~MarkCompletedMatch
  BY DEF MarkCompletedWrite, MarkCompletedMatch
<1>4. CASE \E w \in Workers : WorkerStep(w) \/ Requests(w) \/ Crash(w)
  BY <1>4, <1>1, <1>2, TablesFrame
<1>5. CASE \/ CompletionTask
           \/ \E s \in Slots : SlotStep(s)
           \/ \E st \in Stadiums : ChangeStadium(st)
           \/ UNCHANGED vars
  <2>1. status' = status
    BY <1>3, <1>5, EnvironmentTablesFrame DEF BlockSlot, UnblockSlot, ChangeStadium
  <2> QED
    BY <2>1
<1> QED
  BY <1>4, <1>5 DEF Next

(***************************************************************************)
(* A booking commits only on an available slot of an active stadium.       *)
(***************************************************************************)
THEOREM CommitsWhenBookable == Spec => BookedOnlyWhenBookable
<1> DEFINE Step == \A b \in Bookings :
        status[b] = "none" /\ status'[b] = "confirmed" => Bookable(slotOf'[b])
<1>1. IInv /\ [Next]_vars => [Step]_vars
  BY CommitStep
<1> QED
  BY <1>1, InductiveInvariant, PTL DEF Spec, BookedOnlyWhenBookable

-----------------------------------------------------------------------------
(* How requests can deadlock on their rows. *)

\* Beside its booking a statement locks a slot and the stadium of that slot.
LEMMA WantedShape ==
    ASSUME IInv, NEW w \in Workers, pc[w] = "locking"
    PROVE  \E s \in Slots : Wanted(w) \subseteq Bookings \cup {s, StadiumOf[s]}
<1>1. op[w] \in Operations
  BY DEF IInv, LocalsInv
<1>2. CASE op[w] = "create"
  BY <1>1, <1>2, WantedRows DEF IInv, Wanted
<1>3. CASE op[w] \in Cancellations
  <2>1. booking[w] \in Bookings /\ slotOf[booking[w]] \in Slots
    BY <1>1, <1>3, WantedRows DEF IInv
  <2> QED
    BY <1>3, <2>1 DEF Wanted, Cancellations
<1> QED
  BY <1>1, <1>2, <1>3 DEF Operations

\* A thread waits for rows that rank above those it holds.
LEMMA NextRowAbove ==
    ASSUME IInv, NEW w \in Workers, NEW q \in held[w], NEW r, NextRow(w, r)
    PROVE  /\ r \in Wanted(w) /\ q \in Wanted(w) /\ q # r
           /\ Rank(w, q) < Rank(w, r)
BY DEF IInv, RowLocksInv, NextRow

\* Whoever has a slot and waits is no owner's cancellation, and waits for its stadium.
LEMMA HolderOfSlot ==
    ASSUME IInv, NEW w \in Workers, pc[w] = "locking",
           NEW s \in Slots, s \in held[w], NEW r, NextRow(w, r)
    PROVE  op[w] # "cancelled_by_owner" /\ r = StadiumOf[s]
<1>1. PICK t \in Slots : Wanted(w) \subseteq Bookings \cup {t, StadiumOf[t]}
  BY WantedShape
<1>2. r \in Wanted(w) /\ s \in Wanted(w) /\ s # r /\ Rank(w, s) < Rank(w, r)
  BY NextRowAbove
<1>3. s = t /\ r \in Bookings \cup {StadiumOf[s]}
  BY <1>1, <1>2, RowsAssumption
<1> QED
  BY <1>2, <1>3, RowsAssumption DEF Rank, SecondTable

\* Whoever has a stadium and waits is an owner's cancellation, and waits for the slot.
LEMMA HolderOfStadium ==
    ASSUME IInv, NEW w \in Workers, pc[w] = "locking",
           NEW st \in Stadiums, st \in held[w], NEW r, NextRow(w, r)
    PROVE  op[w] = "cancelled_by_owner" /\ r \in Slots /\ StadiumOf[r] = st
<1>1. PICK t \in Slots : Wanted(w) \subseteq Bookings \cup {t, StadiumOf[t]}
  BY WantedShape
<1>2. r \in Wanted(w) /\ st \in Wanted(w) /\ st # r /\ Rank(w, st) < Rank(w, r)
  BY NextRowAbove
<1>3. st = StadiumOf[t] /\ r \in Bookings \cup {t}
  BY <1>1, <1>2, RowsAssumption
<1> QED
  BY <1>2, <1>3, RowsAssumption DEF Rank, SecondTable

\* A thread that has a row waits for a slot or a stadium.
LEMMA HolderWaits ==
    ASSUME IInv, NEW w \in Workers, pc[w] = "locking",
           NEW q \in held[w], NEW r, NextRow(w, r)
    PROVE  r \in Slots \cup Stadiums
<1>1. PICK t \in Slots : Wanted(w) \subseteq Bookings \cup {t, StadiumOf[t]}
  BY WantedShape
<1>2. r \in Wanted(w) /\ q \in Wanted(w) /\ Rank(w, q) < Rank(w, r)
  BY NextRowAbove
<1> QED
  BY <1>1, <1>2, RowsAssumption DEF Rank, SecondTable

\* In a ring, an owner's cancellation that has a stadium crosses whoever has its slot.
LEMMA OwnerCrosses ==
    ASSUME IInv, NEW ring \in SUBSET Workers,
           \A v \in ring : \E u \in ring : WaitsFor(v, u),
           NEW v \in ring, NEW st \in Stadiums, st \in held[v]
    PROVE  \E w \in ring : Crossed(v, w)
<1>1. PICK w \in ring : WaitsFor(v, w)
  OBVIOUS
<1>2. PICK s \in held[w] : NextRow(v, s)
  BY <1>1 DEF WaitsFor
<1>3. op[v] = "cancelled_by_owner" /\ s \in Slots /\ StadiumOf[s] = st
  BY <1>1, <1>2, HolderOfStadium DEF WaitsFor
<1>4. PICK u \in ring : WaitsFor(w, u)
  OBVIOUS
<1>5. PICK r \in held[u] : NextRow(w, r)
  BY <1>4 DEF WaitsFor
<1>6. op[w] # "cancelled_by_owner" /\ r = st
  BY <1>2, <1>3, <1>4, <1>5, HolderOfSlot DEF WaitsFor
<1>7. WaitsFor(w, v)
  BY <1>4, <1>5, <1>6 DEF WaitsFor
<1> QED
  BY <1>1, <1>3, <1>6, <1>7 DEF Crossed

\* Every ring has an owner's cancellation that has a stadium.
LEMMA RingHasOwner ==
    ASSUME IInv, NEW ring \in SUBSET Workers,
           \A v \in ring : \E u \in ring : WaitsFor(v, u),
           NEW x \in ring
    PROVE  \E v \in ring : \E st \in Stadiums : st \in held[v]
<1>1. PICK v \in ring : WaitsFor(x, v)
  OBVIOUS
<1>2. PICK q \in held[v] : NextRow(x, q)
  BY <1>1 DEF WaitsFor
<1>3. PICK w \in ring : WaitsFor(v, w)
  OBVIOUS
<1>4. PICK r \in held[w] : NextRow(v, r)
  BY <1>3 DEF WaitsFor
<1>5. r \in Slots \cup Stadiums
  BY <1>2, <1>3, <1>4, HolderWaits DEF WaitsFor
<1>6. CASE r \in Stadiums
  BY <1>4, <1>6
<1>7. CASE r \in Slots
  <2>1. PICK u \in ring : WaitsFor(w, u)
    OBVIOUS
  <2>2. PICK p \in held[u] : NextRow(w, p)
    BY <2>1 DEF WaitsFor
  <2>3. p = StadiumOf[r]
    BY <1>4, <1>7, <2>1, <2>2, HolderOfSlot DEF WaitsFor
  <2>4. p \in Stadiums
    BY <1>7, <2>3, RowsAssumption
  <2> QED
    BY <2>2, <2>4
<1> QED
  BY <1>5, <1>6, <1>7

(***************************************************************************)
(* Whatever threads wait for each other's rows, among them an owner's      *)
(* cancellation has a stadium and waits for a slot whose holder waits for  *)
(* that stadium: the order of the joins in services.py 185-189 against 74  *)
(* and 128-132 is the only source of deadlocks.                            *)
(***************************************************************************)
THEOREM OnlyOwnersDeadlock == Spec => []DeadlocksCross
<1>1. IInv => DeadlocksCross
  <2> SUFFICES ASSUME IInv, NEW ring \in (SUBSET Workers) \ {{}},
                      \A v \in ring : \E u \in ring : WaitsFor(v, u)
               PROVE  \E v, w \in ring : Crossed(v, w)
    BY DEF DeadlocksCross
  <2>1. PICK x : x \in ring
    OBVIOUS
  <2>2. PICK v \in ring : \E st \in Stadiums : st \in held[v]
    BY <2>1, RingHasOwner
  <2> QED
    BY <2>2, OwnerCrosses
<1> QED
  BY <1>1, InductiveInvariant, PTL

-----------------------------------------------------------------------------
(* The reservation book. *)

\* Every step is one of the reservation book or a stutter.
LEMMA StepRefines ==
    ASSUME IInv, [Next]_vars
    PROVE  [Promise!ReservationNext]_(Promise!reservationVars)
<1> USE DEF Promise!reservationVars
<1> USE DEF IInv, TypeOK
<1>a. \A b \in Bookings : status[b] # "none" => slotOf[b] \in Slots
  BY DEF ReferencesInv
<1>1. ASSUME NEW w \in Workers, NEW b \in Bookings, CommitBooking(w, b)
      PROVE  Promise!Reserve(b, want[w]) /\ want[w] \in Slots
  <2>1. /\ pc[w] = "writing" /\ op[w] = "create" /\ status[b] = "none"
        /\ want[w] \in Slots /\ slot[want[w]] = "available"
    BY <1>1 DEF CommitBooking, LocalsInv, DecisionInv, Bookable
  <2>2. ~ConstraintTrips(want[w])
    BY <2>1 DEF ConstraintTrips, NoDoubleBooking
  <2>3. /\ slot' = [slot EXCEPT ![want[w]] = "booked"]
        /\ status' = [status EXCEPT ![b] = "confirmed"]
        /\ slotOf' = [slotOf EXCEPT ![b] = want[w]]
    BY <1>1, <2>2 DEF CommitBooking
  <2> QED
    BY <2>1, <2>3 DEF Promise!Reserve
<1>2. ASSUME NEW w \in Workers, CommitCancel(w)
      PROVE  Promise!Release(booking[w]) /\ booking[w] \in Bookings
  <2>1. /\ booking[w] \in Bookings /\ status[booking[w]] = "confirmed"
        /\ op[w] \in Cancellations /\ slotOf[booking[w]] \in Slots
    BY <1>2, <1>a DEF CommitCancel, LocalsInv, DecisionInv
  <2> QED
    BY <1>2, <2>1 DEF CommitCancel, Promise!Release, Cancellations
<1>3. CASE MarkCompletedWrite
  <2>1. Promise!Settle(matched)
    BY <1>3 DEF MarkCompletedWrite, Promise!Settle, ReferencesInv
  <2>2. \E B \in SUBSET Bookings : Promise!Settle(B)
    BY <2>1 DEF Promise!Settle
  <2> QED
    BY <2>2, Zenon DEF Promise!ReservationNext
<1>4. CASE MarkCompletedMatch
  BY <1>4 DEF MarkCompletedMatch
<1>5. ASSUME NEW s \in Slots, BlockSlot(s) \/ UnblockSlot(s)
      PROVE  Promise!Withhold(s) \/ Promise!PutBack(s)
  BY <1>5 DEF BlockSlot, UnblockSlot, Promise!Withhold, Promise!PutBack
<1>6. ASSUME NEW st \in Stadiums, ChangeStadium(st)
      PROVE  UNCHANGED Promise!reservationVars
  BY <1>6 DEF ChangeStadium
<1>7. CASE \E w \in Workers : WorkerStep(w) \/ Requests(w) \/ Crash(w)
  <2>1. CASE UNCHANGED <<slot, status, slotOf>>
    BY <2>1
  <2>2. CASE \E w \in Workers, b \in Bookings : CommitBooking(w, b)
    <3>1. \E b \in Bookings, s \in Slots : Promise!Reserve(b, s)
      BY <2>2, <1>1 DEF Promise!Reserve
    <3> QED
      BY <3>1, Zenon DEF Promise!ReservationNext
  <2>3. CASE \E w \in Workers : CommitCancel(w)
    <3>1. \E b \in Bookings : Promise!Release(b)
      BY <2>3, <1>2 DEF Promise!Release
    <3> QED
      BY <3>1, Zenon DEF Promise!ReservationNext
  <2> QED
    BY <1>7, <2>1, <2>2, <2>3, TablesFrame
<1>8. CASE \/ CompletionTask
           \/ \E s \in Slots : SlotStep(s)
           \/ \E st \in Stadiums : ChangeStadium(st)
           \/ UNCHANGED vars
  BY <1>8, <1>3, <1>4, <1>5, <1>6, EnvironmentTablesFrame DEF Promise!ReservationNext
<1> QED
  BY <1>7, <1>8 DEF Next

(***************************************************************************)
(* The booking engine implements the abstract reservation book.            *)
(***************************************************************************)
THEOREM Refinement == Spec => ImplementsReservation
<1> USE DEF Promise!reservationVars
<1>1. Init => Promise!ReservationInit
  BY DEF Init, Promise!ReservationInit
<1>2. IInv /\ [Next]_vars => [Promise!ReservationNext]_(Promise!reservationVars)
  BY StepRefines
<1> QED
  BY <1>1, <1>2, InductiveInvariant, PTL DEF Spec, ImplementsReservation, Promise!ReservationSpec

-----------------------------------------------------------------------------
(* What is announced. *)

\* Only the on_commit callbacks enqueue.
LEMMA EnqueuedFrame ==
    ASSUME [Next]_vars
    PROVE  \/ enqueued' = enqueued
           \/ \E w \in Workers : NotifyPlayer(w) \/ NotifyOwner(w) \/ NotifyCancelled(w)
BY DEF Next, WorkerStep, LockRow, DeadlockAborts, CreateStep, AcquireSlotLock,
       AcquireFails, Recheck, CommitBooking, NotifyBookingFails, ReleaseSlotLock, ReleaseFails, Finish,
       CancelStep, CheckConfirmed, NotCancellable, CommitCancel, NotifyCancelledFails,
       Requests, Preview, RequestCancel, Crash, CompletionTask, MarkCompletedMatch,
       MarkCompletedWrite, MarkCompletedFails, SlotStep, BlockSlot, UnblockSlot, SlotEnds,
       ExpireSlotLock, ChangeStadium

\* What has been told stays true, and what is told is true.
LEMMA NotificationsStep == IInv /\ NotificationsTruthful /\ [Next]_vars => NotificationsTruthful'
<1> SUFFICES ASSUME IInv, NotificationsTruthful, [Next]_vars,
                    NEW b \in Bookings, NEW k \in TaskKinds, <<k, b>> \in enqueued'
             PROVE  /\ status'[b] # "none"
                    /\ k \in Cancellations => status'[b] # "confirmed"
  BY DEF NotificationsTruthful
<1>1. CASE <<k, b>> \in enqueued
  <2>1. status[b] # "none" /\ (k \in Cancellations => status[b] # "confirmed")
    BY <1>1 DEF NotificationsTruthful
  <2> QED
    BY <2>1, BookingMoves
<1>2. ASSUME NEW w \in Workers, NotifyPlayer(w) \/ NotifyOwner(w), <<k, b>> \notin enqueued
      PROVE  /\ status'[b] # "none"
             /\ k \in Cancellations => status'[b] # "confirmed"
  <2>1. k \notin Cancellations /\ b = booking[w] /\ status' = status
    BY <1>2 DEF NotifyPlayer, NotifyOwner, Enqueue, Cancellations
  <2>2. status[booking[w]] # "none"
    BY <1>2 DEF NotifyPlayer, NotifyOwner, Enqueue, IInv, LocalsInv
  <2> QED
    BY <2>1, <2>2
<1>3. ASSUME NEW w \in Workers, NotifyCancelled(w), <<k, b>> \notin enqueued
      PROVE  /\ status'[b] # "none"
             /\ k \in Cancellations => status'[b] # "confirmed"
  <2>1. b = booking[w] /\ status' = status
    BY <1>3 DEF NotifyCancelled
  <2>2. status[booking[w]] \notin {"none", "confirmed"}
    BY <1>3 DEF NotifyCancelled, IInv, LocalsInv
  <2> QED
    BY <2>1, <2>2
<1> QED
  BY <1>1, <1>2, <1>3, EnqueuedFrame

(***************************************************************************)
(* What was enqueued is true in the database, whatever fails: no task      *)
(* tells of a booking that does not exist or of a cancellation that did    *)
(* not commit.                                                             *)
(***************************************************************************)
THEOREM TellsTheTruth == Spec => []NotificationsTruthful
<1>1. Init => NotificationsTruthful
  BY DEF Init, NotificationsTruthful
<1> QED
  BY <1>1, NotificationsStep, InductiveInvariant, PTL DEF Spec

BrokerUp == "broker" \notin Faults

NoCrash == "crash" \notin Faults

\* A request changes no other request's locals.
LEMMA LocalsFrame ==
    ASSUME TypeOK, NEW w \in Workers, WorkerStep(w) \/ Requests(w) \/ Crash(w)
    PROVE  \A v \in Workers \ {w} :
              /\ pc'[v] = pc[v] /\ op'[v] = op[v] /\ booking'[v] = booking[v]
              /\ failed'[v] = failed[v]
<1>1. OnlyMoves(w)
  BY WorkerFrame
<1>2. \A v \in Workers \ {w} : failed'[v] = failed[v]
  BY DEF TypeOK, WorkerStep, LockRow, DeadlockAborts, CreateStep, AcquireSlotLock,
         AcquireFails, Recheck, CommitBooking, NotifyPlayer, NotifyOwner, Enqueue, NotifyBookingFails,
         ReleaseSlotLock, ReleaseFails, Finish, CancelStep, CheckConfirmed, NotCancellable,
         CommitCancel, NotifyCancelled, NotifyCancelledFails, Requests, Preview,
         RequestCancel, Crash
<1> QED
  BY <1>1, <1>2 DEF OnlyMoves

(* What a thread knows of the booking it makes: none before its commit;    *)
(* and when its request fails after the commit, the broker refused, and    *)
(* its owner has not been told.                                            *)
OwnerTold(b) == <<"booking_confirmed_owner", b>> \in enqueued

ErrorOf(w) ==
    /\ pc[w] = "idle" => booking[w] = NoOne /\ ~failed[w]
    /\ op[w] = "create" /\ pc[w] \in {"previewed", "locking", "writing"}
         => booking[w] = NoOne /\ ~failed[w]
    /\ op[w] = "create" /\ booking[w] # NoOne
         => booking[w] \in Bookings /\ status[booking[w]] # "none"
    /\ pc[w] \in {"notify_player", "notify_owner"} => ~failed[w] /\ ~OwnerTold(booking[w])
    /\ pc[w] = "releasing" /\ failed[w] /\ booking[w] # NoOne
         => ~BrokerUp /\ ~OwnerTold(booking[w])

OwnBookings ==
    \A v, w \in Workers :
        v # w /\ op[v] = "create" /\ op[w] = "create" /\ booking[v] = booking[w]
            => booking[v] = NoOne

ErrorInv == OwnBookings /\ \A w \in Workers : ErrorOf(w)

\* Only the request that made a booking tells its owner.
LEMMA OwnerIsTold ==
    ASSUME IInv, [Next]_vars, NEW b, OwnerTold(b)'
    PROVE  OwnerTold(b) \/ \E w \in Workers : NotifyOwner(w) /\ booking[w] = b
<1>1. \A w \in Workers : pc[w] = "notify_cancelled" => op[w] # "booking_confirmed_owner"
  BY DEF IInv, LocalsInv, Cancellations
<1>2. ASSUME NEW w \in Workers, NotifyPlayer(w) \/ NotifyCancelled(w)
      PROVE  OwnerTold(b)
  BY <1>1, <1>2 DEF OwnerTold, NotifyPlayer, NotifyCancelled, Enqueue
<1>3. ASSUME NEW w \in Workers, NotifyOwner(w), ~OwnerTold(b)
      PROVE  booking[w] = b
  BY <1>3 DEF OwnerTold, NotifyOwner, Enqueue
<1> QED
  BY <1>2, <1>3, EnqueuedFrame DEF OwnerTold

\* A request whose locals stay is not told about by another.
LEMMA ErrorFrame ==
    ASSUME IInv, ErrorInv, [Next]_vars, NEW v \in Workers,
           pc'[v] = pc[v], op'[v] = op[v], booking'[v] = booking[v], failed'[v] = failed[v]
    PROVE  ErrorOf(v)'
<1>1. op[v] = "create" /\ booking[v] # NoOne
        => booking[v] \in Bookings /\ status'[booking[v]] # "none"
  BY BookingMoves DEF ErrorInv, ErrorOf
<1>2. ASSUME pc[v] \in {"notify_player", "notify_owner", "releasing"}, booking[v] # NoOne,
             ~OwnerTold(booking[v])
      PROVE  ~OwnerTold(booking[v])'
  <2> SUFFICES ASSUME NEW w \in Workers, NotifyOwner(w), booking[w] = booking[v]
               PROVE  FALSE
    BY <1>2, OwnerIsTold DEF OwnerTold
  <2>1. pc[w] = "notify_owner" /\ pc'[w] = "releasing"
    BY DEF NotifyOwner, Enqueue, IInv, TypeOK
  <2>2. w # v /\ op[w] = "create" /\ op[v] = "create"
    BY <1>2, <2>1 DEF IInv, LocalsInv
  <2> QED
    BY <1>2, <2>2 DEF ErrorInv, OwnBookings
<1>3. pc[v] \in {"notify_player", "notify_owner"} => booking[v] # NoOne
  BY NullAssumption DEF IInv, LocalsInv, Rows
<1> QED
  BY <1>1, <1>2, <1>3 DEF ErrorInv, ErrorOf, BrokerUp, OwnerTold

\* A step of a thread keeps what it knows of its booking.
LEMMA ErrorMoves ==
    ASSUME IInv, ErrorInv, NotificationsTruthful, [Next]_vars,
           NEW w \in Workers, WorkerStep(w) \/ Requests(w) \/ Crash(w)
    PROVE  ErrorOf(w)'
<1> USE DEF ErrorOf, OwnerTold, BrokerUp, IInv, TypeOK, LocalsInv
<1>a. ErrorOf(w)
  BY DEF ErrorInv
<1>1. CASE \E r \in Rows : LockRow(w, r)
  BY <1>a, <1>1 DEF LockRow
<1>2. CASE DeadlockAborts(w)
  <2>1. CASE op[w] = "create"
    BY <1>a, <1>2, <2>1, AbortLocking DEF DeadlockAborts
  <2>2. CASE op[w] # "create"
    <3>1. Finish(w)
      BY <1>2, <2>2 DEF DeadlockAborts
    <3> QED
      BY <3>1 DEF Finish
  <2> QED
    BY <2>1, <2>2
<1>3. CASE CreateStep(w)
  <2>1. ASSUME NEW b \in Bookings, CommitBooking(w, b)
        PROVE  ErrorOf(w)'
    <3>1. pc[w] = "writing" /\ op[w] = "create" /\ status[b] = "none"
      BY <2>1 DEF CommitBooking
    <3>2. <<"booking_confirmed_owner", b>> \notin enqueued
      BY <3>1 DEF NotificationsTruthful, TaskKinds
    <3>3. CASE ConstraintTrips(want[w])
      BY <1>a, <2>1, <3>1, <3>3 DEF CommitBooking
    <3>4. CASE ~ConstraintTrips(want[w])
      BY <1>a, <2>1, <3>1, <3>2, <3>4 DEF CommitBooking
    <3> QED
      BY <3>3, <3>4
  <2>2. CASE NotifyPlayer(w) \/ NotifyOwner(w)
    BY <1>a, <2>2 DEF NotifyPlayer, NotifyOwner, Enqueue
  <2>3. CASE NotifyBookingFails(w)
    BY <1>a, <2>3 DEF NotifyBookingFails
  <2>4. CASE AcquireSlotLock(w) \/ AcquireFails(w)
    BY <1>a, <2>4 DEF AcquireSlotLock, AcquireFails, Finish
  <2>5. CASE Recheck(w)
    BY <1>a, <2>5 DEF Recheck, HasRows
  <2>6. CASE ReleaseSlotLock(w) \/ ReleaseFails(w)
    BY <1>a, <2>6 DEF ReleaseSlotLock, ReleaseFails, Finish
  <2> QED
    BY <1>3, <2>1, <2>2, <2>3, <2>4, <2>5, <2>6 DEF CreateStep
<1>4. CASE CancelStep(w)
  BY <1>a, <1>4 DEF CancelStep, CheckConfirmed, NotCancellable, CommitCancel,
                    NotifyCancelled, NotifyCancelledFails, Finish, HasRows, Cancellations
<1>5. CASE Requests(w) \/ Crash(w)
  BY <1>a, <1>5 DEF Requests, Preview, RequestCancel, Crash, Finish, Cancellations
<1> QED
  BY <1>1, <1>2, <1>3, <1>4, <1>5 DEF WorkerStep

\* A thread takes a booking id that no other creation has.
LEMMA TakesFreshBooking ==
    ASSUME IInv, ErrorInv, NEW w \in Workers, WorkerStep(w) \/ Requests(w) \/ Crash(w),
           op'[w] = "create", booking'[w] # NoOne
    PROVE  \/ op[w] = "create" /\ booking'[w] = booking[w]
           \/ booking'[w] \in Bookings /\ status[booking'[w]] = "none"
<1> USE DEF IInv, TypeOK
<1>1. CASE \E b \in Bookings : CommitBooking(w, b)
  <2>1. PICK b \in Bookings : CommitBooking(w, b)
    BY <1>1
  <2> QED
    BY <2>1 DEF CommitBooking
<1>2. CASE Requests(w)
  BY <1>2 DEF Requests, Preview, RequestCancel, Cancellations, ErrorInv, ErrorOf
<1>3. CASE DeadlockAborts(w)
  BY <1>3 DEF DeadlockAborts, Finish
<1>4. CASE CancelStep(w)
  BY <1>4 DEF CancelStep, CheckConfirmed, NotCancellable, CommitCancel,
              NotifyCancelled, NotifyCancelledFails, Finish, Cancellations
<1>5. CASE (\E r \in Rows : LockRow(w, r)) \/ Crash(w)
  BY <1>5 DEF LockRow, Crash, Finish
<1>6. CASE CreateStep(w) /\ ~(\E b \in Bookings : CommitBooking(w, b))
  BY <1>6 DEF CreateStep, AcquireSlotLock, AcquireFails, Recheck, NotifyPlayer, NotifyOwner,
              Enqueue, NotifyBookingFails, ReleaseSlotLock, ReleaseFails, Finish
<1> QED
  BY <1>1, <1>2, <1>3, <1>4, <1>5, <1>6 DEF WorkerStep

\* Every step keeps the bookings of creations apart, and what they know of them.
LEMMA ErrorStep ==
    ASSUME IInv, ErrorInv, NotificationsTruthful, [Next]_vars
    PROVE  ErrorInv'
<1>1. ASSUME NEW w \in Workers, WorkerStep(w) \/ Requests(w) \/ Crash(w)
      PROVE  ErrorInv'
  <2>1. \A v \in Workers \ {w} :
           /\ pc'[v] = pc[v] /\ op'[v] = op[v] /\ booking'[v] = booking[v]
           /\ failed'[v] = failed[v]
    BY <1>1, LocalsFrame DEF IInv
  <2>2. \A v \in Workers \ {w} : ErrorOf(v)'
    BY <2>1, ErrorFrame
  <2>3. ErrorOf(w)'
    BY <1>1, ErrorMoves
  <2>4. ASSUME NEW v \in Workers \ {w}, op'[v] = "create", op'[w] = "create",
               booking'[v] = booking'[w]
        PROVE  booking'[v] = NoOne
    <3> SUFFICES ASSUME booking'[v] # NoOne PROVE FALSE
      OBVIOUS
    <3>1. op[v] = "create" /\ booking[v] = booking'[w] /\ booking[v] # NoOne
      BY <2>1, <2>4
    <3>2. status[booking[v]] # "none"
      BY <3>1 DEF ErrorInv, ErrorOf
    <3>3. op[w] = "create" /\ booking[w] = booking[v]
      BY <1>1, <2>4, <3>1, <3>2, TakesFreshBooking
    <3> QED
      BY <3>1, <3>3 DEF ErrorInv, OwnBookings
  <2>5. OwnBookings'
    <3> SUFFICES ASSUME NEW v \in Workers, NEW u \in Workers, v # u,
                        op'[v] = "create", op'[u] = "create", booking'[v] = booking'[u]
                 PROVE  booking'[v] = NoOne
      BY DEF OwnBookings
    <3>1. CASE v # w /\ u # w
      BY <2>1, <3>1 DEF ErrorInv, OwnBookings
    <3>2. CASE v = w \/ u = w
      BY <2>4, <3>2
    <3> QED
      BY <3>1, <3>2
  <2> QED
    BY <2>2, <2>3, <2>5 DEF ErrorInv, ErrorOf
<1>2. CASE \/ CompletionTask
           \/ \E s \in Slots : SlotStep(s)
           \/ \E st \in Stadiums : ChangeStadium(st)
           \/ UNCHANGED vars
  <2>1. UNCHANGED <<pc, op, booking>>
    BY <1>2, EnvironmentFrame
  <2>2. failed' = failed
    BY <1>2 DEF CompletionTask, MarkCompletedMatch, MarkCompletedWrite, MarkCompletedFails,
                SlotStep, BlockSlot, UnblockSlot, SlotEnds, ExpireSlotLock, ChangeStadium
  <2>3. \A v \in Workers : ErrorOf(v)'
    BY <2>1, <2>2, ErrorFrame
  <2>4. OwnBookings'
    BY <2>1 DEF ErrorInv, OwnBookings
  <2> QED
    BY <2>3, <2>4 DEF ErrorInv
<1> QED
  BY <1>1, <1>2 DEF Next

(***************************************************************************)
(* Whatever fails: a creation that ends in an error has booked nothing,    *)
(* unless the broker refused a task after the commit; then its booking     *)
(* exists and the announcement to the owner is the one that is missing.    *)
(***************************************************************************)
THEOREM WhatAnErrorMeans == Spec => []ErrorMeansUnbookedOrUntold
<1>1. Init => ErrorInv
  BY DEF Init, ErrorInv, ErrorOf, OwnBookings
<1>2. IInv /\ NotificationsTruthful /\ ErrorInv /\ [Next]_vars => ErrorInv'
  BY ErrorStep
<1>3. IInv /\ ErrorInv => ErrorMeansUnbookedOrUntold
  <2> SUFFICES ASSUME IInv, ErrorInv, NEW w \in Workers,
                      op[w] = "create", failed[w], booking[w] # NoOne
               PROVE  /\ "broker" \in Faults
                      /\ status[booking[w]] # "none"
                      /\ <<"booking_confirmed_owner", booking[w]>> \notin enqueued
    BY DEF ErrorMeansUnbookedOrUntold
  <2>1. ErrorOf(w)
    BY DEF ErrorInv
  <2>2. pc[w] = "releasing"
    BY <2>1 DEF ErrorOf, IInv, TypeOK, LocalsInv, Steps, Cancellations
  <2> QED
    BY <2>1, <2>2 DEF ErrorOf, OwnerTold, BrokerUp
<1> QED
  BY <1>1, <1>2, <1>3, InductiveInvariant, TellsTheTruth, PTL DEF Spec

(* What a thread that has committed still owes, and what it has announced. *)
AnnounceInv ==
    \A w \in Workers :
        /\ pc[w] = "notify_owner" => <<"booking_confirmed_player", booking[w]>> \in enqueued
        /\ pc[w] = "notify_cancelled" => status[booking[w]] \in {op[w], "completed"}

\* Nothing that was enqueued is taken back.
LEMMA EnqueuedGrows ==
    ASSUME [Next]_vars
    PROVE  enqueued \subseteq enqueued'
BY EnqueuedFrame DEF NotifyPlayer, NotifyOwner, NotifyCancelled, Enqueue

(* A booking leaves "confirmed" in two ways, and is cancelled in one. *)
LEMMA StatusMoves ==
    ASSUME IInv, [Next]_vars, NEW b \in Bookings
    PROVE  \/ status'[b] = status[b]
           \/ \E w \in Workers : CommitBooking(w, b) /\ ~ConstraintTrips(want[w])
           \/ \E w \in Workers : CommitCancel(w) /\ booking[w] = b
           \/ status'[b] = "completed" /\ status[b] # "none"
<1> USE DEF IInv, TypeOK
<1>1. ASSUME NEW w \in Workers, NEW c \in Bookings, CommitBooking(w, c)
      PROVE  \/ status'[b] = status[b]
             \/ CommitBooking(w, b) /\ ~ConstraintTrips(want[w])
  BY <1>1 DEF CommitBooking
<1>2. ASSUME NEW w \in Workers, CommitCancel(w)
      PROVE  status'[b] = status[b] \/ booking[w] = b
  BY <1>2 DEF CommitCancel
<1>3. ASSUME MarkCompletedWrite
      PROVE  status'[b] = status[b] \/ (status'[b] = "completed" /\ status[b] # "none")
  BY <1>3 DEF MarkCompletedWrite, ReferencesInv
<1>4. CASE \E w \in Workers : WorkerStep(w) \/ Requests(w) \/ Crash(w)
  BY <1>1, <1>2, <1>4, TablesFrame
<1>5. CASE \/ CompletionTask
           \/ \E s \in Slots : SlotStep(s)
           \/ \E st \in Stadiums : ChangeStadium(st)
           \/ UNCHANGED vars
  BY <1>3, <1>5, EnvironmentTablesFrame
     DEF MarkCompletedMatch, BlockSlot, UnblockSlot, ChangeStadium
<1> QED
  BY <1>4, <1>5 DEF Next

\* A request that announces has the booking it has just changed.
LEMMA AnnounceStep ==
    ASSUME IInv, AnnounceInv, [Next]_vars
    PROVE  AnnounceInv'
<1> SUFFICES ASSUME NEW v \in Workers
             PROVE  /\ pc'[v] = "notify_owner"
                          => <<"booking_confirmed_player", booking'[v]>> \in enqueued'
                    /\ pc'[v] = "notify_cancelled" => status'[booking'[v]] \in {op'[v], "completed"}
  BY DEF AnnounceInv
<1> USE DEF IInv, TypeOK
<1>1. CASE pc'[v] = pc[v] /\ op'[v] = op[v] /\ booking'[v] = booking[v]
  <2>1. pc[v] = "notify_owner" => <<"booking_confirmed_player", booking[v]>> \in enqueued'
    BY EnqueuedGrows DEF AnnounceInv
  <2>2. ASSUME pc[v] = "notify_cancelled"
        PROVE  status'[booking[v]] \in {op[v], "completed"}
    <3> DEFINE b == booking[v]
    <3>1. b \in Bookings /\ status[b] \in {op[v], "completed"} /\ status[b] \notin {"none", "confirmed"}
      BY <2>2 DEF AnnounceInv, LocalsInv
    <3>2. ~(\E w \in Workers : CommitBooking(w, b))
      BY <3>1 DEF CommitBooking
    <3>3. ~(\E w \in Workers : CommitCancel(w) /\ booking[w] = b)
      BY <3>1 DEF CommitCancel, DecisionInv
    <3> QED
      BY <3>1, <3>2, <3>3, StatusMoves
  <2> QED
    BY <1>1, <2>1, <2>2
<1>2. CASE WorkerStep(v) \/ Requests(v) \/ Crash(v)
  <2>1. CASE \E r \in Rows : LockRow(v, r)
    BY <2>1 DEF LockRow
  <2>2. CASE CreateStep(v)
    BY <2>2 DEF CreateStep, AcquireSlotLock, AcquireFails, Recheck, CommitBooking, NotifyPlayer,
                NotifyOwner, Enqueue, NotifyBookingFails, ReleaseSlotLock, ReleaseFails, Finish
  <2>3. CASE CancelStep(v)
    BY <2>3 DEF CancelStep, CheckConfirmed, NotCancellable, CommitCancel, NotifyCancelled,
                NotifyCancelledFails, Finish, HasRows, LocalsInv
  <2>4. CASE Requests(v) \/ Crash(v) \/ DeadlockAborts(v)
    BY <2>4 DEF Requests, Preview, RequestCancel, Crash, DeadlockAborts, Finish
  <2> QED
    BY <1>2, <2>1, <2>2, <2>3, <2>4 DEF WorkerStep
<1>3. ASSUME NEW w \in Workers \ {v}, WorkerStep(w) \/ Requests(w) \/ Crash(w)
      PROVE  pc'[v] = pc[v] /\ op'[v] = op[v] /\ booking'[v] = booking[v]
  BY <1>3, LocalsFrame
<1>4. CASE \/ CompletionTask
           \/ \E s \in Slots : SlotStep(s)
           \/ \E st \in Stadiums : ChangeStadium(st)
           \/ UNCHANGED vars
  BY <1>1, <1>4, EnvironmentFrame
<1> QED
  BY <1>1, <1>2, <1>3, <1>4 DEF Next

(* Without a crash, and with the broker up, a thread that owes a task     *)
(* keeps owing it until it has enqueued it.                               *)
LEMMA Owed ==
    ASSUME NoCrash, BrokerUp, IInv, AnnounceInv, [Next]_vars,
           NEW w \in Workers, NEW b \in Bookings, booking[w] = b
    PROVE  /\ AboutTo(w, b, {"notify_player", "notify_owner"}) =>
                \/ AboutTo(w, b, {"notify_player", "notify_owner"})'
                \/ \A k \in {"booking_confirmed_player", "booking_confirmed_owner"} :
                      <<k, b>> \in enqueued'
           /\ AboutTo(w, b, {"notify_cancelled"}) =>
                \/ AboutTo(w, b, {"notify_cancelled"})'
                \/ <<op[w], b>> \in enqueued'
<1> USE DEF IInv, TypeOK, AboutTo
<1>1. CASE pc'[w] = pc[w] /\ booking'[w] = booking[w]
  BY <1>1
<1>2. CASE WorkerStep(w) \/ Requests(w)
  <2>1. CASE pc[w] \in {"notify_player", "notify_owner"}
    BY <1>2, <2>1, AbortLocking
       DEF WorkerStep, LockRow, CreateStep, AcquireSlotLock, AcquireFails, Recheck, CommitBooking,
           NotifyPlayer, NotifyOwner, Enqueue, NotifyBookingFails, BrokerUp, ReleaseSlotLock,
           ReleaseFails, CancelStep, CheckConfirmed, NotCancellable, CommitCancel,
           NotifyCancelled, NotifyCancelledFails, HasRows, Requests, Preview, RequestCancel,
           AnnounceInv
  <2>2. CASE pc[w] = "notify_cancelled"
    BY <1>2, <2>2, AbortLocking
       DEF WorkerStep, LockRow, CreateStep, AcquireSlotLock, AcquireFails, Recheck, CommitBooking,
           NotifyPlayer, NotifyOwner, Enqueue, NotifyBookingFails, BrokerUp, ReleaseSlotLock,
           ReleaseFails, CancelStep, CheckConfirmed, NotCancellable, CommitCancel,
           NotifyCancelled, NotifyCancelledFails, HasRows, Requests, Preview, RequestCancel
  <2> QED
    BY <2>1, <2>2
<1>3. ASSUME NEW v \in Workers \ {w}, WorkerStep(v) \/ Requests(v)
      PROVE  pc'[w] = pc[w] /\ booking'[w] = booking[w]
  BY <1>3, LocalsFrame
<1>4. CASE \/ CompletionTask
           \/ \E s \in Slots : SlotStep(s)
           \/ \E st \in Stadiums : ChangeStadium(st)
           \/ UNCHANGED vars
  BY <1>1, <1>4, EnvironmentFrame
<1>5. ~(\E v \in Workers : Crash(v))
  BY DEF Crash, NoCrash
<1> QED
  BY <1>1, <1>2, <1>3, <1>4, <1>5 DEF Next

\* A commit goes on to the announcement, which is made.
LEMMA EventsStep ==
    ASSUME NoCrash, BrokerUp, IInv, AnnounceInv, EventsAnnounced, [Next]_vars
    PROVE  EventsAnnounced'
<1> SUFFICES ASSUME NEW b \in Bookings
             PROVE  /\ status'[b] # "none" =>
                          \/ \E w \in Workers : AboutTo(w, b, {"notify_player", "notify_owner"})'
                          \/ \A k \in {"booking_confirmed_player", "booking_confirmed_owner"} :
                                <<k, b>> \in enqueued'
                    /\ status'[b] \in Cancellations =>
                          \/ \E w \in Workers : AboutTo(w, b, {"notify_cancelled"})'
                          \/ <<status'[b], b>> \in enqueued'
  BY DEF EventsAnnounced
<1> USE DEF IInv, TypeOK
<1>1. ASSUME status[b] # "none"
      PROVE  \/ \E w \in Workers : AboutTo(w, b, {"notify_player", "notify_owner"})'
             \/ \A k \in {"booking_confirmed_player", "booking_confirmed_owner"} :
                   <<k, b>> \in enqueued'
  <2>1. CASE \A k \in {"booking_confirmed_player", "booking_confirmed_owner"} : <<k, b>> \in enqueued
    BY <2>1, EnqueuedGrows
  <2>2. CASE \E w \in Workers : AboutTo(w, b, {"notify_player", "notify_owner"})
    <3>1. PICK w \in Workers : AboutTo(w, b, {"notify_player", "notify_owner"})
      BY <2>2
    <3>2. booking[w] = b
      BY <3>1 DEF AboutTo
    <3> QED
      BY <3>1, <3>2, Owed
  <2> QED
    BY <1>1, <2>1, <2>2 DEF EventsAnnounced
<1>2. ASSUME status[b] \in Cancellations, status'[b] = status[b]
      PROVE  \/ \E w \in Workers : AboutTo(w, b, {"notify_cancelled"})'
             \/ <<status'[b], b>> \in enqueued'
  <2>1. CASE <<status[b], b>> \in enqueued
    BY <1>2, <2>1, EnqueuedGrows
  <2>2. CASE \E w \in Workers : AboutTo(w, b, {"notify_cancelled"})
    <3>1. PICK w \in Workers : AboutTo(w, b, {"notify_cancelled"})
      BY <2>2
    <3>2. booking[w] = b
      BY <3>1 DEF AboutTo
    <3>3. status[b] = op[w]
      BY <1>2, <3>1, <3>2 DEF AboutTo, AnnounceInv, Cancellations
    <3> QED
      BY <1>2, <3>1, <3>2, <3>3, Owed
  <2> QED
    BY <1>2, <2>1, <2>2 DEF EventsAnnounced
<1>3. ASSUME NEW w \in Workers, CommitBooking(w, b), ~ConstraintTrips(want[w])
      PROVE  AboutTo(w, b, {"notify_player", "notify_owner"})' /\ status'[b] = "confirmed"
  BY <1>3 DEF CommitBooking, AboutTo
<1>4. ASSUME NEW w \in Workers, CommitCancel(w), booking[w] = b
      PROVE  AboutTo(w, b, {"notify_cancelled"})' /\ status[b] # "none"
  BY <1>4 DEF CommitCancel, AboutTo, DecisionInv
<1>5. CASE status'[b] = status[b]
  BY <1>1, <1>2, <1>5
<1>6. CASE \E w \in Workers : CommitBooking(w, b) /\ ~ConstraintTrips(want[w])
  BY <1>3, <1>6 DEF Cancellations
<1>7. CASE \E w \in Workers : CommitCancel(w) /\ booking[w] = b
  BY <1>1, <1>4, <1>7
<1>8. CASE status'[b] = "completed" /\ status[b] # "none"
  BY <1>1, <1>8 DEF Cancellations
<1> QED
  BY <1>5, <1>6, <1>7, <1>8, StatusMoves

(***************************************************************************)
(* Notifications go out for all booking events, as long as no process dies *)
(* and the broker takes the tasks: whatever is committed is announced, or  *)
(* its thread is about to announce it.                                     *)
(***************************************************************************)
THEOREM AllEventsAnnounced == NoCrash /\ BrokerUp => (Spec => []EventsAnnounced)
<1> SUFFICES ASSUME NoCrash, BrokerUp PROVE Spec => []EventsAnnounced
  OBVIOUS
<1>1. Init => AnnounceInv /\ EventsAnnounced
  BY DEF Init, AnnounceInv, EventsAnnounced, Cancellations
<1>2. IInv /\ AnnounceInv /\ [Next]_vars => AnnounceInv'
  BY AnnounceStep
<1>3. IInv /\ AnnounceInv /\ EventsAnnounced /\ [Next]_vars => EventsAnnounced'
  BY EventsStep
<1> QED
  BY <1>1, <1>2, <1>3, InductiveInvariant, PTL DEF Spec

-----------------------------------------------------------------------------
(* The Redis lock, as long as no critical section outlasts it. *)

NoOverrun == "overrun" \notin Faults

(* A thread in the critical section owns the key. *)
OwnsLock == \A s \in Slots, w \in Workers : InCriticalSection(w, s) => lock[s] = w

\* A request in its critical section keeps the slot's lock.
LEMMA NextOwnsLock ==
    ASSUME NoOverrun, IInv, OwnsLock, [Next]_vars
    PROVE  OwnsLock'
<1> SUFFICES ASSUME NEW s \in Slots, NEW v \in Workers, InCriticalSection(v, s)'
             PROVE  lock'[s] = v
    BY DEF OwnsLock
<1> USE NullAssumption DEF IInv, TypeOK, Rows
<1>1. ASSUME NEW w \in Workers, WorkerStep(w) \/ Requests(w) \/ Crash(w)
      PROVE  lock'[s] = v
  <2>1. OnlyMoves(w)
    BY <1>1, WorkerFrame
  <2>2. \/ AcquireSlotLock(w)
        \/ ReleaseSlotLock(w)
        \/ lock' = lock
    BY <1>1
       DEF WorkerStep, LockRow, DeadlockAborts, CreateStep, AcquireFails, Recheck,
           CommitBooking, NotifyPlayer, NotifyOwner, Enqueue, NotifyBookingFails,
           ReleaseFails, Finish, CancelStep, CheckConfirmed,
           NotCancellable, CommitCancel, NotifyCancelled, NotifyCancelledFails,
           Requests, Preview, RequestCancel, Crash
  <2>3. CASE v # w
    <3>1. lock[s] = v
      BY <2>1, <2>3 DEF OnlyMoves, OwnsLock, InCriticalSection
    <3>2. CASE AcquireSlotLock(w)
      BY <3>1, <3>2 DEF AcquireSlotLock
    <3>3. CASE ReleaseSlotLock(w)
      BY <2>3, <3>1, <3>3 DEF ReleaseSlotLock, Released
    <3> QED
      BY <2>2, <3>1, <3>2, <3>3
  <2>4. CASE v = w
    <3>1. CASE AcquireSlotLock(w)
      BY <2>4, <3>1 DEF AcquireSlotLock, InCriticalSection
    <3>2. CASE ReleaseSlotLock(w)
      BY <2>4, <3>2 DEF ReleaseSlotLock, Finish, InCriticalSection, CriticalSteps
    <3>3. CASE ~AcquireSlotLock(w) /\ ~ReleaseSlotLock(w)
      <4>1. InCriticalSection(w, s)
        <5>1. pc'[w] \in CriticalSteps /\ op'[w] = "create" /\ want'[w] = s
          BY <2>4 DEF InCriticalSection
        <5>2. CASE \E r \in Rows : LockRow(w, r)
          BY <5>1, <5>2 DEF LockRow, InCriticalSection, CriticalSteps
        <5>3. CASE CreateStep(w)
          BY <5>1, <5>3, <3>3
             DEF CreateStep, AcquireFails, Recheck, HasRows,
                 CommitBooking, NotifyPlayer, NotifyOwner, Enqueue, NotifyBookingFails,
                 ReleaseFails, Finish, InCriticalSection, CriticalSteps
        <5>4. CASE CancelStep(w)
          BY <5>1, <5>4
             DEF CancelStep, CheckConfirmed, NotCancellable, CommitCancel, NotifyCancelled,
                 NotifyCancelledFails, Finish, Cancellations, CriticalSteps
        <5>5. CASE Requests(w) \/ Crash(w)
          BY <5>1, <5>5 DEF Requests, Preview, RequestCancel, Crash, Finish, CriticalSteps,
                            Cancellations
        <5>6. CASE DeadlockAborts(w)
          BY <5>1, <5>6, AbortLocking
             DEF DeadlockAborts, Finish, InCriticalSection, CriticalSteps
        <5> QED
          BY <1>1, <5>2, <5>3, <5>4, <5>5, <5>6 DEF WorkerStep
      <4> QED
        BY <2>2, <2>4, <3>3, <4>1 DEF OwnsLock
    <3> QED
      BY <3>1, <3>2, <3>3
  <2> QED
    BY <2>3, <2>4
<1>2. CASE \/ CompletionTask
           \/ \E r \in Slots : SlotStep(r)
           \/ \E st \in Stadiums : ChangeStadium(st)
           \/ UNCHANGED vars
  <2>1. UNCHANGED <<pc, op, want, booking, held>>
    BY <1>2, EnvironmentFrame
  <2>2. lock[s] = v /\ InCriticalSection(v, s)
    BY <2>1 DEF OwnsLock, InCriticalSection
  <2>3. lock' = lock \/ \E r \in Slots : ExpireSlotLock(r)
    BY <1>2 DEF CompletionTask, MarkCompletedMatch, MarkCompletedWrite, MarkCompletedFails,
                SlotStep, BlockSlot, UnblockSlot, SlotEnds, ChangeStadium
  <2>4. ASSUME NEW r \in Slots, ExpireSlotLock(r)
        PROVE  lock'[s] = v
    BY <2>2, <2>4 DEF ExpireSlotLock, NoOverrun
  <2> QED
    BY <2>2, <2>3, <2>4
<1> QED
  BY <1>1, <1>2 DEF Next

\* A held lock changes hands only by its owner or the time to live.
LEMMA LockMoves ==
    ASSUME TypeOK, [Next]_vars, NEW s \in Slots, lock[s] # NoOne, lock'[s] # lock[s]
    PROVE  lock'[s] = NoOne /\ \A v \in Workers \ {lock[s]} : pc'[v] = pc[v]
<1> USE DEF TypeOK
<1>1. ASSUME NEW w \in Workers, AcquireSlotLock(w)
      PROVE  FALSE
  BY <1>1 DEF AcquireSlotLock
<1>2. ASSUME NEW w \in Workers, ReleaseSlotLock(w)
      PROVE  lock'[s] = NoOne /\ \A v \in Workers \ {lock[s]} : pc'[v] = pc[v]
  BY <1>2 DEF ReleaseSlotLock, Released, Finish
<1>3. ASSUME NEW r \in Slots, ExpireSlotLock(r)
      PROVE  lock'[s] = NoOne /\ pc' = pc
  BY <1>3 DEF ExpireSlotLock
<1>4. \/ \E w \in Workers : AcquireSlotLock(w) \/ ReleaseSlotLock(w)
      \/ \E r \in Slots : ExpireSlotLock(r)
  BY DEF Next, WorkerStep, LockRow, DeadlockAborts, CreateStep, AcquireFails, Recheck, CommitBooking,
         NotifyPlayer, NotifyOwner, Enqueue, NotifyBookingFails, ReleaseFails, Finish,
         CancelStep, CheckConfirmed, NotCancellable, CommitCancel, NotifyCancelled,
         NotifyCancelledFails, Requests, Preview, RequestCancel, Crash, CompletionTask,
         MarkCompletedMatch, MarkCompletedWrite, MarkCompletedFails, SlotStep, BlockSlot,
         UnblockSlot, SlotEnds, ChangeStadium
<1> QED
  BY <1>1, <1>2, <1>3, <1>4

(***************************************************************************)
(* Nobody takes the slot lock away from the thread that owns it, also when *)
(* the key has expired under an owner and another thread holds it now.     *)
(***************************************************************************)
THEOREM ReleasedByOwner == Spec => OnlyOwnerReleases
<1> DEFINE Step == \A s \in Slots : lock[s] # NoOne /\ lock'[s] # lock[s] =>
        /\ lock'[s] = NoOne
        /\ \A v \in Workers \ {lock[s]} : pc'[v] = pc[v]
<1>1. TypeOK /\ [Next]_vars => [Step]_vars
  BY LockMoves
<1> QED
  BY <1>1, TypeCorrect, PTL DEF Spec, OnlyOwnerReleases

(***************************************************************************)
(* A slot has at most one booking attempt in flight, also after crashes    *)
(* and refused releases, unless a critical section outlasts the key.       *)
(***************************************************************************)
THEOREM OneInFlight == Spec => []AtMostOneInFlight
<1>1. CASE NoOverrun
  <2>1. Init => OwnsLock
    BY DEF Init, OwnsLock, InCriticalSection, CriticalSteps
  <2>2. IInv /\ OwnsLock /\ [Next]_vars => OwnsLock'
    BY <1>1, NextOwnsLock
  <2>3. OwnsLock => AtMostOneInFlight
    BY DEF OwnsLock, AtMostOneInFlight
  <2> QED
    BY <2>1, <2>2, <2>3, InductiveInvariant, PTL DEF Spec
<1>2. CASE ~NoOverrun
  <2>1. TypeOK => AtMostOneInFlight
    BY <1>2 DEF AtMostOneInFlight, NoOverrun
  <2> QED
    BY <2>1, TypeCorrect, PTL
<1> QED
  BY <1>1, <1>2

=============================================================================
