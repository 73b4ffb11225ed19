# A formal model of the Hagz Kora back end

Hagz Kora is a Django/DRF back end for booking football pitches: players book
slots of stadiums and form tournament teams, owners run stadiums and
tournaments, administrators approve stadiums. PostgreSQL keeps the state, Redis
locks slots and caches, Celery runs background tasks.

This directory holds TLA+ modules that model the parts of it with hard
behaviour, TLC configurations that check them on small instances, and TLAPS
proofs that hold for instances of every size. All definitions are translated
from `src/`; `PROJECT.json` names the lines of each. Paths below are relative to
the repository.

    tlc -workers 2 -config registration.cfg MCRegistration
    tlapm RegistrationProofs.tla

## 1. The system

### Execution model

What every module assumes, because the settings say so:

- Views run in gunicorn (4 processes of 2 threads), in **autocommit** mode (`ATOMIC_REQUESTS` is
  not set): each query is its own transaction unless `transaction.atomic`
  joins several. Between two queries of a request any other thread may run.
- PostgreSQL runs at **READ COMMITTED**: a SELECT sees what was committed when
  it started; `select_for_update()` and every UPDATE or DELETE wait for the
  row's lock and then see its newest version.
- `transaction.on_commit` callbacks run **in the request's thread**, after the
  commit and before the response. They are not persisted: a crash loses them.
- `.delay()` hands a task to the Redis broker and raises if the broker is away.

### Components

| Component | State it keeps | Operations | Hard behaviour | Correct when | Modelled in |
|---|---|---|---|---|---|
| Booking engine (`apps/bookings`) | Booking, Slot.status, Redis slot locks | create, cancel by player, cancel by owner | competing requests, lock expiry, crash, broker and Redis failures, row locks taken in two orders | a slot has at most one confirmed booking, notifications are truthful, requests end although two can deadlock | `Booking`, `SlotReservation` |
| Completion of past bookings (`bookings/tasks.py`) | Booking.status | hourly UPDATE over a join | snapshot against concurrent cancellation, failing runs | only confirmed bookings complete, all of them in the end | `Booking` |
| Slot blocking (`api/v1/stadiums/views.py`) | Slot.status | block, unblock | races with a booking | a booked slot is neither blocked nor freed | `Booking` |
| Registration (`api/v1/tournaments`) | Tournament, TournamentTeam, TournamentPlayer | publish, edit, delete, register, join, close, complete | owner requests check without a lock, registrations queue for the row | limits, no status taken back, fixtures generated once | `Registration` |
| Fixture generation (`fixture_generator.py`) | Fixture | draw for three formats | odd and even numbers, byes, dates | every pair once, nobody twice a day | `Fixtures` |
| Score entry and rounds (`knockout.py`) | Fixture, Tournament.status | score, next round, seeding, end | hooks of two threads, corrections, crash before the hook | rounds made of the winners, never early, never twice, an end | `TournamentPlay` |
| Standings (`standings.py`) | none | compute a table | ties among two and more | the documented criteria in order | `Fixtures` |
| Public tournament views | none | list, bracket, table | none | - | no: they only read |
| Stadium life cycle (`apps/stadiums`) | Stadium, StadiumPhoto | submit, approve, reject, edit, delete, photos | edits from stale reads, two administrators, photos counted before the insert | only approved stadiums become active, the number of photos stays near its limit | `StadiumRow`, `StadiumListing`, `Moderation`, `Stadium` |
| Slot generation (`stadiums/tasks.py`) | OperatingHour, Slot, the broker's queue | replace hours, generate for one or all stadiums | runs overlap, fail half-way and are retried, hours or duration change | slots do not overlap, a run leaves no gap, an approved stadium gets slots | `SlotGeneration`, `Stadium` |
| Reviews (`apps/reviews`) | Review, the averages of Stadium | create, respond | averages recomputed by a signal on each save | one review per completed booking, averages agree with the reviews | `StadiumRatings`, `Stadium` |
| Notifications (`apps/notifications`) | DeviceToken, tasks in the broker | event tasks, push, SMS, register, deregister | retries, lost answers, late deactivation, lost tasks | nobody gets a push again without need, every task ends | `Delivery`; enqueueing is in `Booking` |
| One-time passwords (`otp.py`) | Redis keys with a time to live | request, verify | counters read and written apart, keys that expire | limits hold, a code is good once | `Otp` |
| Accounts, permissions | User | register, log in, profile | none | - | the login by phone in `Otp`; otherwise no: single writes and predicates |
| Search (`apps/pitches`) | cache of results | query | none | - | no: reads only |
| Dashboards, core, settings, deployment, migrations | - | - | - | - | no: empty, configuration or history |

How they interact: an approval starts slot generation; slots are what bookings
book; a cancellation or block changes a slot; a booking enqueues
notifications; a completed booking allows a review, which updates the stadium;
closing a registration draws the fixtures, and entering a score may create the
next round or end the tournament.

## 2. Modules

| Module | What it is |
|---|---|
| `SlotReservation` | what the booking engine promises: a book of who holds which slot, with Reserve, Release, Settle, Withhold, PutBack |
| `Booking` | the booking engine, statement by statement |
| `MCBooking` | one stadium, symmetric threads, slots and bookings |
| `SlotReservationProofs`, `BookingProofs` | the proofs about them |
| `Registration` | the life of one tournament up to its fixtures |
| `MCRegistration` | symmetric players and client threads |
| `RegistrationProofs` | the proofs about it |
| `Fixtures` | pure operators: the draw of each format, and the standings |
| `TournamentPlay` | extends `Fixtures`: one tournament in progress |
| `MCTournamentPlay` | the tournaments from which the runs start |
| `FixturesProofs` | what the draw, the bracket and the standings compute, for every number of teams |
| `TournamentPlayProofs` | the proofs about `TournamentPlay` |
| `StadiumRow` | one row of Stadium, its threads, and the two ways to save it |
| `StadiumListing` | extends it: moderation, edits, deletion and the gallery |
| `SlotGeneration` | extends it: operating hours and slots of one date |
| `StadiumRatings` | extends it: reviews and averages |
| `Stadium` | the three together; deletion, fairness, the properties across them |
| `Moderation` | what the approval workflow promises, as an automaton of five steps |
| `MCStadium` | scenarios: who acts in a run |
| `StadiumProofs`, `TimetableProofs` | the proofs about `Stadium`: types, moderation, gallery and ratings; hours and slots |
| `Delivery` | notices on their way to devices |
| `Otp` | the one-time passwords of one phone |
| `MCMessaging` | `Delivery` and `Otp`, in separate behaviours of one run |
| `MessagingProofs` | the proofs about both |

A definition marked "Not the code" is a plausible slip in the definition that
follows it. It is used nowhere in the model; `PROJECT.json` pairs each checked
property with such a slip that breaks it, so that no property is vacuous.

### Booking

A worker is a request thread. `pc` is its next statement; a step is one
transaction, one row lock, one Redis call or one `.delay()`.

- `create_booking` (`bookings/services.py:42`): `Preview` (the unlocked read) →
  `AcquireSlotLock` or `AcquireFails` (Redis) → `LockRow` twice, slot then
  stadium (`select_for_update` with a join locks both) → `Recheck` →
  `CommitBooking`, which refuses if the partial unique constraint would trip →
  `NotifyPlayer`, `NotifyOwner` (on_commit) → `ReleaseSlotLock`.
- the cancellations (`bookings/services.py:114`, `166`): `RequestCancel` → `LockRow` three
  times → `CheckConfirmed` or `NotCancellable` → `CommitCancel` → `NotifyCancelled`.
- the row locks: PostgreSQL locks the rows of a join in the order of its tables
  (`Rank`, which depends on the statement). A player's cancellation locks booking,
  slot and stadium; the owner's filters on `stadium__owner`, so that Django joins
  the stadium before `select_related` adds the slot, and it locks booking, stadium
  and slot (`SecondTable`). An owner who has the stadium can therefore wait for a
  request that has the slot and waits for the stadium. `DeadlockAborts` is
  PostgreSQL's answer: one of the ring is rolled back; a creation raises through
  the release of its slot lock, a cancellation answers 500.
- `mark_completed_bookings`: `MarkCompletedMatch` evaluates the subquery on the
  snapshot, `MarkCompletedWrite` writes each matched row once its lock is free.
- `BlockSlot`, `UnblockSlot` (`views.py:278`, `304`), `ChangeStadium` (approval
  and suspension, seen only as "active or not").
- the environment: `SlotEnds` (the clock), `ExpireSlotLock` (the time to live),
  `Crash`, and the faults of the constant `Faults`: `crash`, `redis`,
  `overrun` (a critical section outlasts the lock), `broker`, `db`.

The lock token is the worker's identity: tokens are fresh UUIDs, and a worker
releases the lock before it asks again. A request answered with 404, 409 or 403
that changes nothing is a stutter. Left out: prices and deposits, the
late-cancellation flag, reasons and names (nothing reads them back to decide),
and NO_SHOW, which no code sets. One completion task runs at a time.

### Registration

`CommitTeam` is the only step under a row lock: `BeginRegister` reads the status
without it, `LockTournament` waits, `CheckRegister` looks again. Every owner
request is a `Check...` on an unlocked read followed by a later write; the write
waits while a registration holds the row, but does not look again. `ReadForEdit`
and `CommitEdit` are DRF's `update()`: it fetches the object a second time and
saves every field of it. Closing is `CheckClose`, `ValidateCount` (the
prefetched teams), `ReadTeams` (the query of `generate_fixtures`) and
`CommitStart` (fixtures and status in one commit). Deleting a tournament is a
status of its own, because requests that read it before go on.

Teams are the sequence of their captains; names and join codes are left out. A
player's request and the organizer's request have threads of their own.

### Fixtures and TournamentPlay

`Fixtures` computes what `generate_fixtures` stores for a number of teams. The
circle method is the recursive function `Circle` (the list before each round, by
`Rotated`); `Meeting` is the pair at a place of the two loops and `Meetings` the
places without BYE, which in order are `CirclePairs`. `KnockoutRound1` is the
bracket with `NumByes` and the pairing `Inward` from the outside, `GroupStage`
the groups, `Day` the date of a round. `Standings` ranks by points, goal
difference and goals for, then by a mini-table of the tied teams' matches, then
by name, as `compute_standings` does: a team's position is the number of teams
whose key does not come after its own (`Precedes`). A table is a function from
primary keys to fixtures; a query restricts it to the rows it selects. Goals are
counted as the elements of a set of goals, because cardinalities can be
reasoned about and sums over sequences cannot (section 4).

`TournamentPlay` starts from a *setting*: format, number of teams, threads,
whether scores are corrected, whether a process may die, and bounds. A request
is `CheckInProgress` → `SaveScore` → and in the same thread, because on_commit
runs at once, `CheckRoundDone` → `CheckNextRound` → `SeedKnockout` or
`ReadWinners` → `CreateRound` or `Finish`. `Complete` is the organizer's own
request. Walking over and postponing do not exist in the code; no view cancels
a fixture, so that status is left out.

### Stadium

All requests are threads; `thread[t]` is the next statement with the locals it
will use, so a step reads what is committed and a later step writes what it has
decided. Nothing locks the row. `SaveStatus` is `save(update_fields=...)`,
which keeps the other columns and fails if the row is gone; `SaveAll` is the plain
`save()` of an edit, which writes back the status and the averages as read and
inserts a row that has been deleted. That is where the three parts meet:

- `StadiumListing`: `BeginSubmit` → `CheckGallery` → `CommitSubmit`;
  `BeginEdit` (the check) → `Reread` (DRF fetches the object again) →
  `CommitEdit`; `BeginApprove` → `CommitApprove` → `EnqueueGeneration`;
  `BeginReject` → `CommitReject`. An upload is `BeginUpload` (the count) →
  `ReadFirst` → `InsertPhoto`; a PATCH is `BeginPhoto` → `StorePhoto`, or
  `MatchCovers` → `CommitCover` if it sets the cover; a DELETE is `DropPhoto`.
- `SlotGeneration`: `BeginRun` (the stadium) → `ReadHours` (the prefetch) → one
  `CreateSlot` per `get_or_create` → `EndRun`; `FailRun` is an exception with or
  without a retry left. `queue` counts the tasks in the broker.
- `StadiumRatings`: `BeginReview` → `InsertReview` (the INSERT and the aggregate of
  post_save, which sees its own row and the committed ones) → `CommitReview`;
  `BeginRespond` → `AggregateAll` → `WriteRating`, which is not in a transaction.
- `Stadium`: `CommitDelete` with its cascade, `RefuseDelete` if bookings protect
  the slots, and `Crash` of any thread.

A review's ratings never change, so the averages are represented by the set of
reviews they were computed from. One date stands for each day of the horizon, and
times count in a unit that divides the duration. Left out: the order of photos
and the reorder view, thumbnails, descriptive fields, and the status `suspended`,
which no view sets. `slot_duration_minutes` accepts 0, with which
`_create_slots_for_day` never ends; the models assume a positive duration.

### Delivery and Otp

`Announce` is a `.delay()` of a view; `RunEvent` reads the row and queues the
push, `QueueText` the text message. `StartPush` takes a snapshot of the active
tokens, `Send` is one call of `send_push` with each of its outcomes: sent, a dead token, an
error before anything was sent, and an error although FCM took the message
(`lost`; `fcm.py:89` turns every `FirebaseError`, a timeout as well, into the
same exception). `Deactivate` is the update after a dead answer, `FinishPush` the decision to retry. `received` and `lost` count, per
notice and device, the copies that arrived and the answers that were lost.
`Register` and `Deregister` come at any time. `LoseEvent` and `LosePush` are a
refused message and a killed worker: tasks are acknowledged when they start.

In `Otp` each access to Redis is a step of a caller, and `Tick` lets five minutes
pass, at any point of a call. The histories `issued` and `guessed` are the sets of
what the counters of the code are to limit, each event with its age. `disturbed` says that two calls have
overlapped, or that a request ended between storing and counting its code.

## 3. The runs

| Run | Instance | Shows |
|---|---|---|
| `booking_faults` | 3 threads, 1 slot, 2 bookings, faults redis, overrun and db | the inductive invariant, no double booking, no constraint error, truthful and complete notifications, commits only when bookable, only its owner releases a lock, deadlocks only where an owner's cancellation crosses another request; `Booking` implements `SlotReservation` |
| `booking_crossing` | 2 threads, 1 slot, 2 bookings, fault redis, cancellations by owners; fair | requests are answered although they deadlock; one attempt per slot in flight although keys outlive their owners' requests |
| `booking_progress` | 2 threads, 1 slot, 1 booking, faults crash, redis, broker, db; fair | what an error of a creation means, slot locks freed, confirmed bookings settled |
| `booking_stale_completion` | 2 threads, 1 slot, 1 booking, no fault | **violated**: the completion overwrites a cancellation |
| `registration` | 4 players, 2 client threads, 1 owner thread, limits 2 and 4 | limits, nothing taken back and one generation |
| `registration_two_closes` | 2 owner threads | **violated**: fixtures are generated twice |
| `play` | see below | pairings, dates, brackets, seeding, standings, the end |
| `play_away` | leagues of 3 and 4 | **violated**: one team never plays at home |
| `play_ends_early` | leagues of 3 and 4 | **violated**: a league ends with fixtures unplayed |
| `stadium` | 5 scenarios of 2 to 4 threads, see below | nothing becomes public without an approval, decisions hold when they are written, photos near their limit, slots without overlap and gap, exact averages |
| `stadium_no_slots` | 1 owner, 1 administrator, 1 worker with the deployed queues; fair | **violated**: an approved stadium never gets slots |
| `messaging` | 1 notice, 2 users, 2 devices, 3 retries; or 2 callers, 2 codes | a second copy of a push only after a lost answer, every task ends; the limits hold and a code is good once |

`play` starts from 35 settings: every outcome of every bracket of 2 to 8 teams;
brackets of 4 to 6 with corrected scores and crashes; brackets of 3 and 4 with
two threads; every outcome of two groups of four; fields of 10 to 32
teams in two and four groups, with home wins only; every table of leagues of up to four in any order of play;
and leagues of up to 16 as drawn.

### Bounds and why they suffice

- *Booking.* Two requests make every race between reads and writes, a third
  lets a lock expire under one, be taken by the second and be released by the
  first while another waits. The
  supply of booking ids (`SupplyLeft` in `Preview`) bounds the length of a
  history: two allow a slot to be booked, cancelled and booked again, and a creation
  to cross the cancellation of an earlier booking of its slot, which takes a
  confirmed booking and an attempt that has passed its preview before. Every
  request wants rows of one slot and its stadium, so one slot has all conflicts
  but those of two slots over their stadium, which the proofs cover.
  `booking_crossing` bounds the cancellations to the owner's (`OwnersCancel`), the
  only ones that can cross a creation; `AtMostOneInFlight` is about runs without
  the fault overrun, and so is not in `booking_faults`. The proofs have no such bounds.
- *Registration.* Two client threads for the last place; limits 2 and 4 so that
  an edit can lower the limit; four players fill a tournament of four.
- *TournamentPlay.* 2 to 8 teams have every number of byes in brackets of 2, 4
  and 8. `lookahead` says how many open fixtures may be entered next and
  `rounds` ends a run after that round; both are 99 and 9 (no bound) where not
  stated otherwise in `MCTournamentPlay`. Names run against the order of
  registration, so that a tie broken by name shows.
- *Stadium.* A scenario names the threads that take part and what may change:
  `Reviewing` (owner, administrator, one photo thread), `Galleries` (two photo
  threads, four photos, a limit of two), `Timetables` (edits, approvals, a worker
  and changing hours), `Generating` (edits of the duration, approvals and two
  workers), `Rating` (edits and two review threads). What two scenarios keep apart
  meets only in the row, and what is proved (section 4) has all of them together. Three
  pairs of opening hours with durations 1 and 2 give slots that end at, before
  and after closing. One task in the broker at a time suffices, because it is sent
  again as soon as one is taken.
- *Delivery.* Notices share nothing but the tokens, which registration changes
  in every way; one notice with a text and one without.
- *Otp.* The times to live are the real ones, in units of five minutes; the limits are
  2 instead of 3, which is enough to exceed them by one call. Codes are used again once
  no caller holds them.

### Deadlock and fairness

`CHECK_DEADLOCK FALSE` is used where the system may stop: a tournament that is
completed or deleted, and one of which every admitted score is entered, a stadium that is deleted and a
notice that is delivered. The booking
engine never stops (a stadium can always be suspended or activated), so there it stays on.

`FairSpec` of `Booking` assumes, for the steps of each worker, strong fairness (a
thread runs, and PostgreSQL's row lock queue is first come, first served, so a
waiter is not overtaken for ever); weak fairness of the hourly task's start
(Celery beat) and strong fairness of its write; that a database which fails the task
works again in the end (`<>[][~MarkCompletedFails]_vars`), after any number of failed
runs; weak fairness of the clock and of Redis
expiry. Nobody is obliged to book, cancel or block.

`DeliverySpec` assumes that the tasks of each notice are worked off, which the
workers' queue list justifies: it names `notifications`. `EveryTaskEnds` needs the
limit of retries as well. `FairMCSpec` in `stadium_no_slots` assumes that requests
that have begun go on and that idle workers take tasks from the queues of
`Consumed`; with `Consumed = {"celery"}` the property holds, with the deployed
value it does not. Nobody is obliged to send a request.

`TournamentPlay` has no liveness run: `SomethingToPlay` says as an invariant
that a tournament in progress always has a fixture left to enter, also when two threads
overlap, which is what progress rests on.

## 4. The proofs

All for any number of threads, players, slots, bookings, teams and callers, from the
named assumptions of the modules (disjoint sets of rows, a null that is none of
them, `max_teams` of at least 2, positive limits and times to live, the settings
of a tournament).

- `SlotReservationProofs`: the abstract book is exclusive.
- `BookingProofs`: `IInv` is inductive. `NoDoubleBooking` alone is not: it needs that no
  row is locked twice, that a worker's rows are a beginning of the order of its own
  statement, and that it holds all of them past `Recheck` (`RowLocksInv`), that what it decided under them is still so
  (`DecisionInv`), what its locals mean at each statement (`LocalsInv`), and
  that a booking has a slot from its INSERT on (`ReferencesInv`). From it follow type correctness, `NoDoubleBooking`,
  `ConstraintNeverTrips`, `BookedOnlyWhenBookable`, and step by
  step the refinement `ImplementsReservation`. None of these uses the Redis
  lock: the row locks alone make bookings exclusive, whatever fails.
  `OneInFlight` shows what the Redis lock adds: at most one attempt per slot, if
  no critical section outlasts it, under all other faults. `OnlyOwnersDeadlock` is about
  any set of threads in which each waits for another: the holder of a stadium that
  waits at all is an owner's cancellation that waits for a slot, and the holder of
  that slot waits for the stadium, so that the two cross; and following the waits
  from any thread leads to such a holder in three steps.
- `RegistrationProofs`: `IInv` (the row is held exactly between `LockTournament`
  and the commit, and the checks stay true meanwhile) gives `OneTeamRegistered`
  and `RegisteredWhileOpen` for **any** number of overlapping requests of
  players and organizer. `Capacity`, `OpenMeansRoom`, `GeneratedOnce` and
  `NeverTakenBack` are proved with `OneRequestAtATime` for the organizer
  (`LifeCycle`: the status a request has seen is still the status, and a draft has no
  teams). Without that hypothesis they are false, see below.
- `StadiumProofs`: `IInv` is inductive: the types, and, if owner and administrator
  have one request each at a time (`OneEach`; the two may overlap each other and photos,
  workers and reviews in any number), what they rely on when they write
  (`DecisionsHold`): an administrator who is about to write has a stadium in
  review, and an edit's copy agrees with the row unless it was in review. The
  last is the point of the argument: an edit of a stadium in review may meet an
  approval or rejection, so its copy may be old, but then it writes "in review".
  From it follows `Moderated`: each step of `Stadium` is a step of `Moderation` or a
  stutter.
- `TimetableProofs`: while all runs use one opening time and one duration, each
  slot and each worker's next start lie on one grid (`GridInv`), hence
  `SlotsDisjoint`. While the stadium exists, every start of a worker's grid
  that its run has passed has a slot, found or created (`CoverInv`); under `OneEach`
  a deleted stadium stays deleted, and hence `RunLeavesNoGap`.
- In `StadiumProofs`, too: photos, photos a request will save again and uploads past
  their count together stay below the limit plus the number of requests
  (`GalleryInv`), hence `PhotosBounded`. A bound on the photos alone is not
  inductive. A review request that arrives alone stays alone until another arrives,
  and has seen all reviews (`RatingInv`), hence `AloneMeansExact`.
- `MessagingProofs`: whatever a token has received that a try has still to do, it
  received without an answer, one copy a try, and so has every token while no
  answer of success has arrived (`Copies`), hence `NoNeedlessCopy`.
  For the one-time passwords (`OtpInv`, defined in `Otp`): a counter is as high as
  its history is large, and its key lives at least as long as the youngest event of
  the history counts (`Covers`), so an expiring key forgets only what has left the
  window. That holds between the statements of a call as well, because what the only
  call under way has read is still good enough. Hence `LimitsHold`, for any limits and times to
  live. A code that has logged in is neither stored nor on its way to a login
  (`CodesFresh`), hence `CodeUsedOnce`.
- `FixturesProofs`: what the operators of `Fixtures` return, for every number of
  teams. Before round r the circle is a rotation of its start (`At`): the
  least round before which it is not would follow one before which it is, and `Rotated`
  turns it by one. Two teams meet in the round their positions determine, once, so the draw
  is a `League`, with at most one fixture of a team on a day although days
  and rounds drift apart. Rounded up to a power of two and paired inward, a bracket
  keeps its top seeds apart. `Standings` lists every team of a table once, by its key
  (`SortedBy`).
- `TournamentPlayProofs`: everything the run `play` checks, for every format, number of
  teams, set of threads and scores. The argument is a ladder of inductive
  invariants:
  - `PlayInv`: the drawn rows stay as drawn but for their scores, later rows are
    no byes, and a request is about a row of the table. It gives `EveryPairOnce` and
    `OncePerDay` (the draw is what `FixturesProofs` says until a score is entered), and
    needs no hypothesis.
  - `RoundsInv`, for formats with knockout rounds and one thread: each round's rows are
    consecutive, a power of two of them and a bracket (`BracketInv`), and a request knows
    that its stage is over and is the last (`Knows`). It gives `OneFixturePerRound`,
    `NoRoundTooEarly`, `TopSeedsMeetLast` and `BracketCompletedWhenPlayed`, with any
    corrections and crashes.
  - `HoldsInv`, without corrections: each round has the winners of the one before, and
    so will a round that is planned. It gives `RoundHoldsWinners`.
  - `SeededInv`, without corrections: the first knockout round has the first two of each
    group's table. With `SortedBy` it gives `BestTwoAdvance`.
  - `LeagueInv`: a league gets no other rows, since each of its rounds has one winner. With
    `SortedBy`, and because two teams of a league meet once, it gives `TiebreakerOrder`.
  - `ProgressInv`, with any number of threads and corrections, without crashes: an open fixture of
    the last round exists, or a request that will add a round or complete the
    tournament (`GoesOn`). It gives `SomethingToPlay`.

  Used of the settings: at least two teams, a size the code admits for groups, names
  that can be compared. Nothing depends on `lookahead` and `rounds`, which bound
  the run only.
- In `BookingProofs`, too: `NotificationsTruthful` and `OnlyOwnerReleases` under every
  fault. So is `ErrorMeansUnbookedOrUntold`: a failed creation has no booking, or the broker
  has refused a task after the commit and the owner has not been told. The argument
  (`ErrorInv`) follows the booking a request has made through its statements, with
  no two creations making the same one (`OwnBookings`). `EventsAnnounced` is proved if the broker takes
  tasks and no process dies (`BrokerUp`, `NoCrash`): those are the faults section 5 names.

Only model-checked: the liveness properties `RequestsAnswered`, `SlotLockFreed`, `ConfirmedSettles` of
`Booking` and `EveryTaskEnds` of `Delivery`, which rest on fairness. What is violated (section 5)
has no proof, of course. Not proved either is that the open fixture of
`SomethingToPlay` is ever entered: nobody is obliged to.

## 5. Where code and documents differ

With a run (section 3):

1. `bookings/tasks.py:34` overwrites a cancellation that commits during the
   statement: the booking ends completed although its slot is free again.
2. `views_owner.py:123` lets two closing requests both generate fixtures.
3. `fixture_generator.py:108` does not balance home and away: the second team
   registered plays every fixture away.
4. `fixture_generator.py:130` gives round robin fixtures the knockout stage, so
   that the highest-numbered fixture, entered early, completes the league.
5. `generate_slots_for_stadium` (`stadiums/tasks.py:67`) names no queue and goes to
   Celery's default queue `celery`; the workers of both compose files consume
   `default,bookings,notifications`. The daily task has no entry in the beat
   schedule (`config/celery.py:12`). An approved stadium gets no slots, against
   `docs/implementation/03:119`.

Visible in the models with other bounds or hypotheses, without a run of their own:

- A team can register between the fixtures' read of the teams and the change of
  status: it is in the tournament, and in no fixture
  (`CommitStart` after `CommitTeam`; `docs/implementation/07` line 60).
- `TeamJoinView` takes no lock: a player can be in two teams, after which
  `MyTeamView` finds two rows (`views_registration.py:122`).
- With two owner threads an edit writes back the draft status over a
  publish, and may lower `max_teams` below the number of teams; a deletion can hit a
  tournament just published.
- Two threads that save the last scores of a round both create the next round
  (`knockout.py:37` says idempotent). A corrected score leaves the loser in the
  next round; a crash between a score and its hook leaves the tournament without its
  next round until a score is entered again.
- With the fault `overrun` two attempts on a slot overlap (`locking.py:3` guarantees
  one at a time; `AtMostOneInFlight` therefore excludes that fault); with `broker`, a
  request answers an error for a booking that exists (`services.py:99`, which
  `ErrorMeansUnbookedOrUntold` admits); with `crash`, its notifications are lost.
- An owner's cancellation and another request on the same slot can deadlock on their
  rows (`services.py:189` against `:74` and `:132`). PostgreSQL aborts one of them, and
  its client gets a 500 that no code handles: it is no IntegrityError.
- An edit that overlaps an approval puts the active stadium back in review
  (`Withdraw`); with two administrators an approval and a rejection can both
  succeed (`models.py:90`); with two threads of the owner an edit brings a
  deleted stadium back, without its photos and hours.
- Two first uploads at once give two covers; deleting the cover leaves none, also of a
  stadium in review (`views.py:210`, `:242`). A PATCH of a photo brings a photo back
  that was deleted meanwhile.
- After a change of opening time or duration new slots overlap those of earlier
  runs (`tasks.py:129`), and hours set after the approval start no run.
- Two review requests that overlap may leave the averages without a review until
  the next one (`signals.py:12`), and so may an edit of the stadium.
- A timeout after FCM has taken a push raises FCMError, and `notifications/tasks.py:67`
  tries again: the device gets the push once more (`NoNeedlessCopy` admits one copy for each
  lost answer).
- A push without credentials answers like one to a dead token, so that all
  tokens are deactivated (`fcm.py:47`, against the comment at
  `notifications/tasks.py:56`); an answer for a token that was registered again in
  the meantime deactivates it. The event tasks have `max_retries` but never
  retry: a broker failure between push and text loses the text.
- Two overlapping calls of `otp.py` count once and can both use one code
  (`otp.py:6`: "invalidated immediately"). Each request starts the window of
  15 minutes anew (`otp.py:85` speaks of keeping it).

Not modelled, found while reading: one-time passwords are never sent, only logged
in debug mode (`auth/views.py:88`); owners cannot be created by phone as
`auth/views.py:283` says, because the login creates players and the owner's
profile view admits owners only; logout does not deregister a device
(`notifications/models.py:16`); the language of a device is dropped on
registration (`notifications/serializers.py:23`); errors of the SMS provider other
than Twilio's own are not retried; the rejection note may be cleared by a new
submission before the task that quotes it runs; a PATCH of a photo writes back its
thumbnails.

Found while reading `docs/implementation/07`: the registration deadline (line 76)
and `min_players` are not enforced, no view reopens a closed registration
(line 77; `NeverTakenBack` would allow it), and seeding is by registration order, not at random.

## 6. Plan

In this order, with the most important behaviour first:

1. `SlotReservation`, `Booking` and their proofs - done.
2. `Registration` and its proofs - done.
3. `Fixtures`, `TournamentPlay` - done.
4. `StadiumRow`, `StadiumListing`, `SlotGeneration`, `StadiumRatings`, `Stadium`
   with `Moderation`, and their proofs - done.
5. `Delivery`, `Otp` and their proofs - done.
6. `FixturesProofs`, `TournamentPlayProofs`, the rest of `BookingProofs` and the
   one-time passwords in `MessagingProofs` - done.
7. Next: the hazards that no property covers yet (a team that registers while the
   fixtures are drawn, overlapping changes of the cover, a late answer to a push), as
   far as a hypothesis makes them provable; shorter arguments where a proof is long.

Not modelled, and why: photo variants and stored files are input and output;
registration by email, logout and profiles are single writes that nothing else
waits for; search, lists, dashboards and public views only read; settings,
migrations and deployment appear only as far as a model depends on them (isolation,
queues, schedule, constraints).
