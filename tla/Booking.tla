------------------------------- MODULE Booking -------------------------------
(***************************************************************************)
(* The booking engine: src/apps/bookings (services, locking, tasks) and    *)
(* the slot blocking views of src/api/v1/stadiums/views.py.                *)
(*                                                                         *)
(* Workers are the request threads of gunicorn.  A worker runs             *)
(* create_booking or one of the two cancellations statement by statement;  *)
(* what it wrote inside a transaction becomes visible at its commit, and   *)
(* PostgreSQL runs at READ COMMITTED, so a plain SELECT sees committed     *)
(* rows only and SELECT ... FOR UPDATE waits for the row.  The Redis lock  *)
(* is a key with a time to live.  mark_completed_bookings is a Celery task *)
(* whose single UPDATE first fixes the rows it matches (its snapshot) and  *)
(* then waits for their row locks.                                         *)
(***************************************************************************)
EXTENDS Naturals, FiniteSets

CONSTANTS
    Slots, Stadiums,
    StadiumOf,      \* the stadium of every slot (Slot.stadium)
    Bookings,       \* booking ids; a finite supply bounds a run
    Workers,        \* request threads
    NoOne,          \* the null reference
    Faults          \* the faults the environment may produce

FaultKinds ==
    { "crash",      \* a worker process is killed in the middle of a request
      "redis",      \* Redis refuses a SET or an EVAL
      "overrun",    \* a critical section outlasts the lock's time to live
      "broker",     \* task.delay() raises after the commit
      "db" }        \* the UPDATE of the completion task raises OperationalError

Rows == Slots \cup Stadiums \cup Bookings

ASSUME RowsAssumption ==
    /\ StadiumOf \in [Slots -> Stadiums]
    /\ Slots \cap Stadiums = {}
    /\ Slots \cap Bookings = {}
    /\ Stadiums \cap Bookings = {}

ASSUME NullAssumption == NoOne \notin Rows \cup Workers

ASSUME FaultsAssumption == Faults \subseteq FaultKinds

VARIABLES
    \* the database, as committed
    slot,           \* Slot.status
    status,         \* Booking.status; "none" before the INSERT commits
    slotOf,         \* Booking.slot
    active,         \* Stadium.status = 'active'
    held,           \* the row locks of each worker's open transaction
    \* Redis, the broker and the clock
    lock,           \* the owner of hagz:lock:booking:slot:<id>, or NoOne
    enqueued,       \* the notification tasks handed to Celery
    ended,          \* the slots whose end lies in the past
    \* the program counters and locals of the request threads
    pc, op,
    want,           \* the argument slot_id of create_booking
    booking,        \* the local variable of that name
    failed,         \* an exception is propagating
    \* the completion task
    matched         \* the rows its UPDATE has matched but not yet written

database == <<slot, status, slotOf, active>>
locals   == <<op, want, booking>>
vars == <<slot, status, slotOf, active, held, lock, enqueued, ended,
          pc, op, want, booking, failed, matched>>

SlotStatus == {"available", "booked", "blocked"}

Cancellations == {"cancelled_by_player", "cancelled_by_owner"}

BookingStatus == {"none", "confirmed", "completed"} \cup Cancellations

Operations == {"create"} \cup Cancellations

TaskKinds ==
    {"booking_confirmed_player", "booking_confirmed_owner"} \cup Cancellations

Steps == {"idle", "previewed", "locking", "writing", "notify_player",
          "notify_owner", "notify_cancelled", "releasing"}

(* The statements of create_booking inside `with booking_slot_lock`. *)
CriticalSteps == {"locking", "writing", "notify_player", "notify_owner", "releasing"}

InCriticalSection(w, s) ==
    pc[w] \in CriticalSteps /\ op[w] = "create" /\ want[w] = s

TypeOK ==
    /\ slot \in [Slots -> SlotStatus]
    /\ status \in [Bookings -> BookingStatus]
    /\ slotOf \in [Bookings -> Slots \cup {NoOne}]
    /\ active \in [Stadiums -> BOOLEAN]
    /\ held \in [Workers -> SUBSET Rows]
    /\ lock \in [Slots -> Workers \cup {NoOne}]
    /\ enqueued \subseteq TaskKinds \X Bookings
    /\ ended \subseteq Slots
    /\ pc \in [Workers -> Steps]
    /\ op \in [Workers -> Operations \cup {"none"}]
    /\ want \in [Workers -> Slots \cup {NoOne}]
    /\ booking \in [Workers -> Bookings \cup {NoOne}]
    /\ failed \in [Workers -> BOOLEAN]
    /\ matched \subseteq Bookings

Init ==
    /\ slot = [s \in Slots |-> "available"]
    /\ status = [b \in Bookings |-> "none"]
    /\ slotOf = [b \in Bookings |-> NoOne]
    /\ active = [st \in Stadiums |-> TRUE]
    /\ held = [w \in Workers |-> {}]
    /\ lock = [s \in Slots |-> NoOne]
    /\ enqueued = {}
    /\ ended = {}
    /\ pc = [w \in Workers |-> "idle"]
    /\ op = [w \in Workers |-> "none"]
    /\ want = [w \in Workers |-> NoOne]
    /\ booking = [w \in Workers |-> NoOne]
    /\ failed = [w \in Workers |-> FALSE]
    /\ matched = {}

-----------------------------------------------------------------------------
(* Row locks. *)

Free(r) == \A w \in Workers : r \notin held[w]

(* Not the code: create_booking locks the slot row alone (of=("self",)).   *)
WantedSlotOnly(w) ==
    IF op[w] = "create"
      THEN {want[w]}
      ELSE LET s == slotOf[booking[w]] IN {booking[w], s, StadiumOf[s]}

(* The rows the SELECT ... FOR UPDATE of w's operation joins and so locks: *)
(* slot and stadium for create_booking; booking, slot and stadium for a    *)
(* cancellation (select_related without of=).                              *)
Wanted(w) ==
    IF op[w] = "create"
      THEN {want[w], StadiumOf[want[w]]}
      ELSE LET s == slotOf[booking[w]] IN {booking[w], s, StadiumOf[s]}

(* Not the code: create_booking joins the slot to its stadium, as if it    *)
(* went by Stadium.                                                        *)
SecondTableOfStadium(w) ==
    IF op[w] \in {"create", "cancelled_by_owner"} THEN Stadiums ELSE Slots

(* The tables are locked in the order in which the query joins them.  The  *)
(* filter stadium__owner of cancel_booking_by_owner joins the stadium      *)
(* before select_related joins the slot; the two other queries have the    *)
(* slot before the stadium.                                                *)
SecondTable(w) == IF op[w] = "cancelled_by_owner" THEN Stadiums ELSE Slots

Rank(w, r) ==
    IF r \in Bookings THEN 1 ELSE IF r \in SecondTable(w) THEN 2 ELSE 3

NextRow(w, r) ==
    /\ r \in Wanted(w) \ held[w]
    /\ \A q \in Wanted(w) \ held[w] : Rank(w, r) <= Rank(w, q)

LockRow(w, r) ==
    /\ pc[w] = "locking"
    /\ NextRow(w, r)
    /\ Free(r)
    /\ held' = [held EXCEPT ![w] = @ \cup {r}]
    /\ UNCHANGED <<database, lock, enqueued, ended, pc, locals, failed, matched>>

HasRows(w) == pc[w] = "locking" /\ Wanted(w) \subseteq held[w]

(* The request is answered; the thread takes the next one. *)
Finish(w) ==
    /\ pc' = [pc EXCEPT ![w] = "idle"]
    /\ op' = [op EXCEPT ![w] = "none"]
    /\ want' = [want EXCEPT ![w] = NoOne]
    /\ booking' = [booking EXCEPT ![w] = NoOne]
    /\ failed' = [failed EXCEPT ![w] = FALSE]

(* w waits for a row that v has locked. *)
WaitsFor(w, v) ==
    pc[w] = "locking" /\ \E r \in held[v] : NextRow(w, r)

(* w is one of a ring of threads that wait for each other. *)
Deadlocked(w) ==
    \E ring \in SUBSET Workers :
        /\ w \in ring
        /\ \A v \in ring : /\ \E u \in ring : WaitsFor(v, u)
                          /\ \E u \in ring : WaitsFor(u, v)

(* Not the code: create_booking and the cancellations run an aborted       *)
(* transaction again, without a limit.                                     *)
AbortRetried(w) ==
    /\ Deadlocked(w)
    /\ held' = [held EXCEPT ![w] = {}]
    /\ UNCHANGED <<database, lock, enqueued, ended, pc, locals, failed, matched>>

(* PostgreSQL rolls back one transaction of a ring.  Its OperationalError  *)
(* is no IntegrityError: it leaves create_booking through the release of   *)
(* the slot lock, and a cancellation answers 500.                          *)
DeadlockAborts(w) ==
    /\ Deadlocked(w)
    /\ held' = [held EXCEPT ![w] = {}]
    /\ IF op[w] = "create"
         THEN /\ pc' = [pc EXCEPT ![w] = "releasing"]
              /\ failed' = [failed EXCEPT ![w] = TRUE]
              /\ UNCHANGED locals
         ELSE Finish(w)
    /\ UNCHANGED <<database, lock, enqueued, ended, matched>>

-----------------------------------------------------------------------------
(* create_booking *)

Bookable(s) == slot[s] = "available" /\ active[StadiumOf[s]]

(* The bound of a run: no more creations are started than ids are left. *)
SupplyLeft ==
    Cardinality({v \in Workers : op[v] = "create" /\ booking[v] = NoOne})
      < Cardinality({b \in Bookings : status[b] = "none"})

(* The unlocked pre-check.  One that fails answers 404 or 409 and changes  *)
(* nothing.  Whether the slot has ended is not looked at.                   *)
Preview(w, s) ==
    /\ pc[w] = "idle"
    /\ SupplyLeft
    /\ Bookable(s)
    /\ pc' = [pc EXCEPT ![w] = "previewed"]
    /\ op' = [op EXCEPT ![w] = "create"]
    /\ want' = [want EXCEPT ![w] = s]
    /\ UNCHANGED <<database, held, lock, enqueued, ended, booking, failed, matched>>

(* Not the code: SET without NX. *)
AcquireOverwrites(w) ==
    /\ pc[w] = "previewed"
    /\ lock' = [lock EXCEPT ![want[w]] = w]
    /\ pc' = [pc EXCEPT ![w] = "locking"]
    /\ UNCHANGED <<database, held, enqueued, ended, locals, failed, matched>>

(* SET key token NX PX 10000.  A worker has one request at a time and a    *)
(* crashed request never releases, so the worker stands for its token.     *)
AcquireSlotLock(w) ==
    /\ pc[w] = "previewed"
    /\ lock[want[w]] = NoOne
    /\ lock' = [lock EXCEPT ![want[w]] = w]
    /\ pc' = [pc EXCEPT ![w] = "locking"]
    /\ UNCHANGED <<database, held, enqueued, ended, locals, failed, matched>>

(* LockAcquisitionFailed (409), or BookingLockUnavailable (503). *)
AcquireFails(w) ==
    /\ pc[w] = "previewed"
    /\ lock[want[w]] # NoOne \/ "redis" \in Faults
    /\ Finish(w)
    /\ UNCHANGED <<database, held, lock, enqueued, ended, matched>>

(* Not the code: no re-check inside the lock. *)
RecheckSkipped(w) ==
    /\ HasRows(w)
    /\ op[w] = "create"
    /\ pc' = [pc EXCEPT ![w] = "writing"]
    /\ UNCHANGED <<database, held, lock, enqueued, ended, locals, failed, matched>>

(* The re-check on the locked rows.  When it fails the transaction rolls   *)
(* back, which frees the rows, and the exception leaves the with block.    *)
Recheck(w) ==
    /\ HasRows(w)
    /\ op[w] = "create"
    /\ IF Bookable(want[w])
         THEN /\ pc' = [pc EXCEPT ![w] = "writing"]
              /\ UNCHANGED <<held, failed>>
         ELSE /\ pc' = [pc EXCEPT ![w] = "releasing"]
              /\ failed' = [failed EXCEPT ![w] = TRUE]
              /\ held' = [held EXCEPT ![w] = {}]
    /\ UNCHANGED <<database, lock, enqueued, ended, locals, matched>>

(* The partial unique constraint: one confirmed booking per slot. *)
ConstraintTrips(s) ==
    \E b \in Bookings : slotOf[b] = s /\ status[b] = "confirmed"

(* Not the code: the slot is saved before the transaction, so the commit   *)
(* inserts the booking alone.                                              *)
CommitBookingOnly(w, b) ==
    /\ pc[w] = "writing"
    /\ op[w] = "create"
    /\ status[b] = "none"
    /\ status' = [status EXCEPT ![b] = "confirmed"]
    /\ slotOf' = [slotOf EXCEPT ![b] = want[w]]
    /\ booking' = [booking EXCEPT ![w] = b]
    /\ pc' = [pc EXCEPT ![w] = "notify_player"]
    /\ held' = [held EXCEPT ![w] = {}]
    /\ UNCHANGED <<slot, active, lock, enqueued, ended, op, want, failed, matched>>

(* UPDATE slot, INSERT booking, COMMIT.  If the constraint trips, the      *)
(* IntegrityError rolls everything back and becomes SlotNotAvailable.      *)
CommitBooking(w, b) ==
    /\ pc[w] = "writing"
    /\ op[w] = "create"
    /\ status[b] = "none"
    /\ IF ConstraintTrips(want[w])
         THEN /\ pc' = [pc EXCEPT ![w] = "releasing"]
              /\ failed' = [failed EXCEPT ![w] = TRUE]
              /\ UNCHANGED <<slot, status, slotOf, booking>>
         ELSE /\ slot' = [slot EXCEPT ![want[w]] = "booked"]
              /\ status' = [status EXCEPT ![b] = "confirmed"]
              /\ slotOf' = [slotOf EXCEPT ![b] = want[w]]
              /\ booking' = [booking EXCEPT ![w] = b]
              /\ pc' = [pc EXCEPT ![w] = "notify_player"]
              /\ UNCHANGED failed
    /\ held' = [held EXCEPT ![w] = {}]
    /\ UNCHANGED <<active, lock, enqueued, ended, op, want, matched>>

(* The on_commit callback, one task.delay() after the other. *)
Enqueue(w, here, kind, next) ==
    /\ pc[w] = here
    /\ enqueued' = enqueued \cup {<<kind, booking[w]>>}
    /\ pc' = [pc EXCEPT ![w] = next]
    /\ UNCHANGED <<database, held, lock, ended, locals, failed, matched>>

(* Not the code: the player's task twice instead of one for the owner. *)
NotifyOwnerWrongTask(w) ==
    Enqueue(w, "notify_owner", "booking_confirmed_player", "releasing")

NotifyPlayer(w) == Enqueue(w, "notify_player", "booking_confirmed_player", "notify_owner")
NotifyOwner(w)  == Enqueue(w, "notify_owner", "booking_confirmed_owner", "releasing")

(* delay() raises: the rest of the callback is skipped, the booking stays. *)
NotifyBookingFails(w) ==
    /\ "broker" \in Faults
    /\ pc[w] \in {"notify_player", "notify_owner"}
    /\ pc' = [pc EXCEPT ![w] = "releasing"]
    /\ failed' = [failed EXCEPT ![w] = TRUE]
    /\ UNCHANGED <<database, held, lock, enqueued, ended, locals, matched>>

(* Not the code: DEL without comparing the token. *)
ReleasedByAnyone(w, s) == NoOne

(* The Lua script deletes the key only if it still carries our token. *)
Released(w, s) == IF lock[s] = w THEN NoOne ELSE lock[s]

ReleaseSlotLock(w) ==
    /\ pc[w] = "releasing"
    /\ lock' = [lock EXCEPT ![want[w]] = Released(w, want[w])]
    /\ Finish(w)
    /\ UNCHANGED <<database, held, enqueued, ended, matched>>

(* Not the code: the RedisError of the release leaves the with block. *)
ReleaseRaises(w) ==
    /\ pc[w] = "releasing"
    /\ "redis" \in Faults
    /\ failed' = [failed EXCEPT ![w] = TRUE]
    /\ UNCHANGED <<database, held, lock, enqueued, ended, pc, locals, matched>>

(* A RedisError on release is swallowed. *)
ReleaseFails(w) ==
    /\ pc[w] = "releasing"
    /\ "redis" \in Faults
    /\ Finish(w)
    /\ UNCHANGED <<database, held, lock, enqueued, ended, matched>>

-----------------------------------------------------------------------------
(* cancel_booking and cancel_booking_by_owner *)

RequestCancel(w, b, by) ==
    /\ pc[w] = "idle"
    /\ status[b] # "none"
    /\ pc' = [pc EXCEPT ![w] = "locking"]
    /\ op' = [op EXCEPT ![w] = by]
    /\ booking' = [booking EXCEPT ![w] = b]
    /\ UNCHANGED <<database, held, lock, enqueued, ended, want, failed, matched>>

(* Not the code: a cancellation that does not look at the status. *)
CheckNothing(w) ==
    /\ HasRows(w)
    /\ op[w] \in Cancellations
    /\ pc' = [pc EXCEPT ![w] = "writing"]
    /\ UNCHANGED <<database, held, lock, enqueued, ended, locals, failed, matched>>

(* Not the code: delay() inside the transaction instead of on_commit. *)
CheckAndEnqueue(w) ==
    /\ HasRows(w)
    /\ op[w] \in Cancellations
    /\ status[booking[w]] = "confirmed"
    /\ enqueued' = enqueued \cup {<<op[w], booking[w]>>}
    /\ pc' = [pc EXCEPT ![w] = "writing"]
    /\ UNCHANGED <<database, held, lock, ended, locals, failed, matched>>

CheckConfirmed(w) ==
    /\ HasRows(w)
    /\ op[w] \in Cancellations
    /\ status[booking[w]] = "confirmed"
    /\ pc' = [pc EXCEPT ![w] = "writing"]
    /\ UNCHANGED <<database, held, lock, enqueued, ended, locals, failed, matched>>

NotCancellable(w) ==
    /\ HasRows(w)
    /\ op[w] \in Cancellations
    /\ status[booking[w]] # "confirmed"
    /\ held' = [held EXCEPT ![w] = {}]
    /\ Finish(w)
    /\ UNCHANGED <<database, lock, enqueued, ended, matched>>

(* Not the code: the slot is not rolled back to available. *)
CommitCancelKeepsSlot(w) ==
    /\ pc[w] = "writing"
    /\ op[w] \in Cancellations
    /\ status' = [status EXCEPT ![booking[w]] = op[w]]
    /\ held' = [held EXCEPT ![w] = {}]
    /\ pc' = [pc EXCEPT ![w] = "notify_cancelled"]
    /\ UNCHANGED <<slot, slotOf, active, lock, enqueued, ended, locals, failed, matched>>

CommitCancel(w) ==
    LET b == booking[w] IN
    /\ pc[w] = "writing"
    /\ op[w] \in Cancellations
    /\ status' = [status EXCEPT ![b] = op[w]]
    /\ slot' = [slot EXCEPT ![slotOf[b]] = "available"]
    /\ held' = [held EXCEPT ![w] = {}]
    /\ pc' = [pc EXCEPT ![w] = "notify_cancelled"]
    /\ UNCHANGED <<slotOf, active, lock, enqueued, ended, locals, failed, matched>>

NotifyCancelled(w) ==
    /\ pc[w] = "notify_cancelled"
    /\ enqueued' = enqueued \cup {<<op[w], booking[w]>>}
    /\ Finish(w)
    /\ UNCHANGED <<database, held, lock, ended, matched>>

NotifyCancelledFails(w) ==
    /\ "broker" \in Faults
    /\ pc[w] = "notify_cancelled"
    /\ Finish(w)
    /\ UNCHANGED <<database, held, lock, enqueued, ended, matched>>

-----------------------------------------------------------------------------
(* mark_completed_bookings.  Django turns the filter over a join into      *)
(* UPDATE ... WHERE id IN (SELECT ...).  The subquery runs on the          *)
(* statement's snapshot; when a matched row was changed meanwhile,         *)
(* PostgreSQL re-evaluates the condition on the row's new version but with *)
(* the subquery's old rows, so the row is still updated.                   *)

(* Not the code: the comparison the wrong way round. *)
MatchNotEnded ==
    {b \in Bookings : status[b] = "confirmed" /\ slotOf[b] \notin ended}

MatchEnded ==
    {b \in Bookings : status[b] = "confirmed" /\ slotOf[b] \in ended}

MarkCompletedMatch ==
    /\ matched = {}
    /\ MatchEnded # {}
    /\ matched' = MatchEnded
    /\ UNCHANGED <<database, held, lock, enqueued, ended, pc, locals, failed>>

MarkCompletedWrite ==
    /\ matched # {}
    /\ \A b \in matched : Free(b)
    /\ status' = [b \in Bookings |-> IF b \in matched THEN "completed" ELSE status[b]]
    /\ matched' = {}
    /\ UNCHANGED <<slot, slotOf, active, held, lock, enqueued, ended, pc, locals, failed>>

(* OperationalError: rolled back; the retry or the next hour starts over. *)
MarkCompletedFails ==
    /\ "db" \in Faults
    /\ matched # {}
    /\ matched' = {}
    /\ UNCHANGED <<database, held, lock, enqueued, ended, pc, locals, failed>>

-----------------------------------------------------------------------------
(* BlockSlotView and UnblockSlotView: one short transaction each. *)

BlockSlot(s) ==
    /\ Free(s)
    /\ slot[s] = "available"
    /\ slot' = [slot EXCEPT ![s] = "blocked"]
    /\ UNCHANGED <<status, slotOf, active, held, lock, enqueued, ended, pc, locals, failed, matched>>

UnblockSlot(s) ==
    /\ Free(s)
    /\ slot[s] = "blocked"
    /\ slot' = [slot EXCEPT ![s] = "available"]
    /\ UNCHANGED <<status, slotOf, active, held, lock, enqueued, ended, pc, locals, failed, matched>>

-----------------------------------------------------------------------------
(* The environment. *)

(* The stadium is approved, rejected or suspended: an UPDATE of its row,   *)
(* which waits for the row lock.                                           *)
ChangeStadium(st) ==
    /\ Free(st)
    /\ active' = [active EXCEPT ![st] = ~@]
    /\ UNCHANGED <<slot, status, slotOf, held, lock, enqueued, ended, pc, locals, failed, matched>>

SlotEnds(s) ==
    /\ s \notin ended
    /\ ended' = ended \cup {s}
    /\ UNCHANGED <<database, held, lock, enqueued, pc, locals, failed, matched>>

(* Not the code: SET NX without PX. *)
NeverExpires(s) == FALSE /\ UNCHANGED vars

(* The time to live runs out. *)
ExpireSlotLock(s) ==
    /\ lock[s] # NoOne
    /\ "overrun" \in Faults \/ ~InCriticalSection(lock[s], s)
    /\ lock' = [lock EXCEPT ![s] = NoOne]
    /\ UNCHANGED <<database, held, enqueued, ended, pc, locals, failed, matched>>

(* The process dies: PostgreSQL rolls its transaction back, Redis keeps    *)
(* the key, and whatever was not yet enqueued never is.                    *)
Crash(w) ==
    /\ "crash" \in Faults
    /\ pc[w] # "idle"
    /\ held' = [held EXCEPT ![w] = {}]
    /\ Finish(w)
    /\ UNCHANGED <<database, lock, enqueued, ended, matched>>

-----------------------------------------------------------------------------

CreateStep(w) ==
    \/ AcquireSlotLock(w)
    \/ AcquireFails(w)
    \/ Recheck(w)
    \/ \E b \in Bookings : CommitBooking(w, b)
    \/ NotifyPlayer(w)
    \/ NotifyOwner(w)
    \/ NotifyBookingFails(w)
    \/ ReleaseSlotLock(w)
    \/ ReleaseFails(w)

CancelStep(w) ==
    \/ CheckConfirmed(w)
    \/ NotCancellable(w)
    \/ CommitCancel(w)
    \/ NotifyCancelled(w)
    \/ NotifyCancelledFails(w)

(* What a thread does once it has a request. *)
WorkerStep(w) ==
    \/ \E r \in Rows : LockRow(w, r)
    \/ DeadlockAborts(w)
    \/ CreateStep(w)
    \/ CancelStep(w)

Requests(w) ==
    \/ \E s \in Slots : Preview(w, s)
    \/ \E b \in Bookings, by \in Cancellations : RequestCancel(w, b, by)

CompletionTask == MarkCompletedMatch \/ MarkCompletedWrite \/ MarkCompletedFails

SlotStep(s) == BlockSlot(s) \/ UnblockSlot(s) \/ SlotEnds(s) \/ ExpireSlotLock(s)

Next ==
    \/ \E w \in Workers : WorkerStep(w) \/ Requests(w) \/ Crash(w)
    \/ CompletionTask
    \/ \E s \in Slots : SlotStep(s)
    \/ \E st \in Stadiums : ChangeStadium(st)

Spec == Init /\ [][Next]_vars

(***************************************************************************)
(* Fairness.  A running thread is scheduled, and PostgreSQL grants a row   *)
(* lock in the order of the queue, so a thread that waits is not overtaken *)
(* for ever (strong fairness); the beat starts the task every hour and its *)
(* UPDATE queues for rows like any statement; a database that fails it     *)
(* works again in the end; time passes; Redis drops an expired key.        *)
(* Nothing makes a client send a request, an owner block a slot, a stadium *)
(* change or a fault happen.                                               *)
(***************************************************************************)
Fairness ==
    /\ \A w \in Workers : SF_vars(WorkerStep(w))
    /\ WF_vars(MarkCompletedMatch)
    /\ SF_vars(MarkCompletedWrite)
    /\ \A s \in Slots : WF_vars(SlotEnds(s)) /\ WF_vars(ExpireSlotLock(s))
    /\ <>[][~MarkCompletedFails]_vars

FairSpec == Spec /\ Fairness

-----------------------------------------------------------------------------
(* Safety. *)

(***************************************************************************)
(* No double booking, and the two tables agree: a confirmed booking is the *)
(* only one of its slot and the slot says so; a booked slot has a booking  *)
(* that was confirmed and never cancelled before it was played.  Every     *)
(* path of services.py writes both tables or neither.                      *)
(***************************************************************************)
NoDoubleBooking ==
    /\ \A b, c \in Bookings :
          status[b] = "confirmed" /\ status[c] = "confirmed" /\ slotOf[b] = slotOf[c]
            => b = c
    /\ \A b \in Bookings : status[b] = "confirmed" => slot[slotOf[b]] = "booked"
    /\ \A s \in Slots : slot[s] = "booked" =>
          \E b \in Bookings : slotOf[b] = s /\ status[b] \in {"confirmed", "completed"}

(***************************************************************************)
(* The partial unique constraint is never what stops a double booking: the *)
(* re-check under the row lock always comes first (services.py 74-79), so  *)
(* the IntegrityError branch (100-109) is dead.                            *)
(***************************************************************************)
ConstraintNeverTrips ==
    \A w \in Workers :
        pc[w] = "writing" /\ op[w] = "create" => ~ConstraintTrips(want[w])

(***************************************************************************)
(* A booking commits only while its slot is for sale and its stadium is    *)
(* active, although both were read earlier: FOR UPDATE with select_related *)
(* keeps the stadium row still as well as the slot row.                    *)
(***************************************************************************)
BookedOnlyWhenBookable ==
    [][\A b \in Bookings :
        status[b] = "none" /\ status'[b] = "confirmed" => Bookable(slotOf'[b])]_vars

(***************************************************************************)
(* Nobody takes away a slot lock that another thread owns; only its owner  *)
(* or the time to live does (locking.py 29-37).                            *)
(***************************************************************************)
OnlyOwnerReleases ==
    [][\A s \in Slots : lock[s] # NoOne /\ lock'[s] # lock[s] =>
        /\ lock'[s] = NoOne
        /\ \A v \in Workers \ {lock[s]} : pc'[v] = pc[v]]_vars

(* v, an owner's cancellation, has the stadium and waits for the slot of w, *)
(* which waits for the stadium.                                            *)
Crossed(v, w) ==
    /\ op[v] = "cancelled_by_owner" /\ op[w] # "cancelled_by_owner"
    /\ WaitsFor(v, w) /\ WaitsFor(w, v)

(***************************************************************************)
(* Requests deadlock on their rows in one way only: wherever threads wait  *)
(* for each other, an owner's cancellation crosses a creation or a         *)
(* player's cancellation, because it alone locks the stadium before the    *)
(* slot (services.py 185-189 against 74 and 128-132).  Whatever the number *)
(* of threads, there is no longer ring, and none without an owner.         *)
(***************************************************************************)
DeadlocksCross ==
    \A ring \in (SUBSET Workers) \ {{}} :
        (\A v \in ring : \E u \in ring : WaitsFor(v, u))
            => \E v, w \in ring : Crossed(v, w)

(***************************************************************************)
(* What was enqueued is true in the database: a confirmation is sent for a *)
(* booking that committed, a cancellation for one that is no longer        *)
(* confirmed (on_commit, services.py 99, 161, 209).                        *)
(***************************************************************************)
NotificationsTruthful ==
    \A b \in Bookings, k \in TaskKinds :
        <<k, b>> \in enqueued =>
            status[b] \notin (IF k \in Cancellations THEN {"none", "confirmed"} ELSE {"none"})

(***************************************************************************)
(* docs/implementation/05 124: "Notifications dispatched via Celery for    *)
(* all booking events."  Without a crash and a broker failure a booking    *)
(* that was confirmed or cancelled is announced, or the thread that        *)
(* committed it is about to do so.                                         *)
(***************************************************************************)
AboutTo(w, b, labels) == booking[w] = b /\ pc[w] \in labels

EventsAnnounced ==
    \A b \in Bookings :
        /\ status[b] # "none" =>
              \/ \E w \in Workers : AboutTo(w, b, {"notify_player", "notify_owner"})
              \/ \A k \in {"booking_confirmed_player", "booking_confirmed_owner"} :
                    <<k, b>> \in enqueued
        /\ status[b] \in Cancellations =>
              \/ \E w \in Workers : AboutTo(w, b, {"notify_cancelled"})
              \/ <<status[b], b>> \in enqueued

(***************************************************************************)
(* A creation that ends in an error has booked nothing, as its docstring   *)
(* has it, with one exception: if the broker refuses a task after the      *)
(* commit (services.py 99), the booking exists although the request fails, *)
(* and the owner's announcement is missing.  Not if Redis refuses the      *)
(* release, the slot is gone at the re-check or PostgreSQL ends a deadlock. *)
(***************************************************************************)
ErrorMeansUnbookedOrUntold ==
    \A w \in Workers : op[w] = "create" /\ failed[w] /\ booking[w] # NoOne =>
        /\ "broker" \in Faults
        /\ status[booking[w]] # "none"
        /\ <<"booking_confirmed_owner", booking[w]>> \notin enqueued

(***************************************************************************)
(* "At most one in-flight booking attempt per slot across all web/worker   *)
(* processes" (locking.py 3) on the condition of locking.py 12: no         *)
(* critical section outlasts the key's ten seconds.  Without it two        *)
(* attempts overlap.  With it the sentence holds although owners die with  *)
(* the key set, releases are refused and keys expire.                      *)
(***************************************************************************)
AtMostOneInFlight ==
    "overrun" \notin Faults =>
        \A s \in Slots : \A v, w \in Workers :
            InCriticalSection(v, s) /\ InCriticalSection(w, s) => v = w

(***************************************************************************)
(* tasks.py 20, docs/implementation/05 37: only a confirmed booking is     *)
(* ever completed; a cancelled one stays cancelled.                        *)
(***************************************************************************)
CompletedFromConfirmed ==
    [][\A b \in Bookings :
        status'[b] = "completed" => status[b] \in {"confirmed", "completed"}]_vars

(* The promise of SlotReservation, kept by the two tables. *)
Promise == INSTANCE SlotReservation WITH
    holds  <- [b \in Bookings |-> IF status[b] = "confirmed" THEN slotOf[b] ELSE NoOne],
    issued <- {b \in Bookings : status[b] # "none"}

(* Every step of the engine is a step of the abstract reservation book. *)
ImplementsReservation == Promise!ReservationSpec

-----------------------------------------------------------------------------
(* The inductive invariant behind NoDoubleBooking: its parts. *)

(* A row is locked by one transaction, which locks only rows its statement *)
(* joins, in their order, and all of them before it writes.                *)
RowLocksInv ==
    /\ \A v, w \in Workers : v # w => held[v] \cap held[w] = {}
    /\ \A w \in Workers : pc[w] \notin {"locking", "writing"} => held[w] = {}
    /\ \A w \in Workers : pc[w] = "writing" => Wanted(w) \subseteq held[w]
    /\ \A w \in Workers : held[w] # {} =>
          /\ held[w] \subseteq Wanted(w)
          /\ \A q \in held[w] : \A r \in Wanted(w) \ held[w] : Rank(w, q) < Rank(w, r)

(* What a thread's locals mean at each step. *)
LocalsInv ==
    \A w \in Workers :
        /\ pc[w] = "idle" => op[w] = "none"
        /\ pc[w] \in {"locking", "writing"} => op[w] \in Operations
        /\ pc[w] \in {"previewed", "notify_player", "notify_owner", "releasing"}
             => op[w] = "create"
        /\ pc[w] = "notify_cancelled" => op[w] \in Cancellations
        /\ op[w] = "create" => want[w] \in Slots
        /\ op[w] \in Cancellations \/ pc[w] \in {"notify_player", "notify_owner"}
             => booking[w] \in Bookings /\ status[booking[w]] # "none"
        /\ pc[w] = "notify_cancelled" => status[booking[w]] # "confirmed"

(* What was checked under the row locks is still so when it is written. *)
DecisionInv ==
    \A w \in Workers : pc[w] = "writing" =>
        /\ op[w] = "create" => Bookable(want[w])
        /\ op[w] \in Cancellations => status[booking[w]] = "confirmed"

ReferencesInv ==
    /\ \A b \in Bookings : status[b] = "none" <=> slotOf[b] = NoOne
    /\ \A b \in matched : status[b] # "none"

(* Inductive: the re-check under the row locks is what keeps the tables    *)
(* in agreement; the Redis lock plays no part in it.                       *)
IInv ==
    /\ TypeOK
    /\ ReferencesInv
    /\ LocalsInv
    /\ RowLocksInv
    /\ DecisionInv
    /\ NoDoubleBooking

-----------------------------------------------------------------------------
(* Liveness, under Fairness. *)

(* Every request is answered: no wait for a row lasts for ever, because a  *)
(* ring of waiting threads is broken by an abort.                          *)
RequestsAnswered == \A w \in Workers : pc[w] # "idle" ~> pc[w] = "idle"

(* A slot lock is freed in the end even when its owner died or Redis       *)
(* refused the release: a slot does not stay unbookable.                   *)
SlotLockFreed == \A s \in Slots, w \in Workers : lock[s] = w ~> lock[s] # w

(* A confirmed booking is played or cancelled in the end, also one that    *)
(* was made after its slot had ended.                                      *)
ConfirmedSettles == \A b \in Bookings : status[b] = "confirmed" ~> status[b] # "confirmed"

=============================================================================
