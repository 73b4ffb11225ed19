---------------------------- MODULE SlotGeneration ----------------------------
(***************************************************************************)
(* Operating hours and slot generation: OperatingHoursView of              *)
(* src/api/v1/stadiums/views.py and src/apps/stadiums/tasks.py.            *)
(*                                                                         *)
(* The model looks at one date.  The code repeats the same for each day of *)
(* the horizon, and slots of different dates do not meet.  Times count in  *)
(* a unit that divides opening, closing and duration.                      *)
(***************************************************************************)
EXTENDS StadiumRow

CONSTANTS
    HourChoices,    \* the pairs of opening and closing time an owner enters
    Closed,         \* no operating hours on that weekday
    Consumed,       \* the queues the Celery workers consume
    DailyRuns       \* whether somebody starts generate_slots_for_all_stadiums

\* validate() of the hours of an open day
ValidHours == {h \in Nat \X Nat : h[1] < h[2]}

ASSUME HoursAssumption ==
    /\ HourChoices \subseteq ValidHours
    /\ Closed \notin Nat \X Nat
    /\ DailyRuns \in BOOLEAN

VARIABLES
    hours,          \* the OperatingHour of the weekday
    slots,          \* the Slot rows: pairs of start and end
    grids           \* history: opening time and duration of the runs, up to two

timetable == << hours, slots, grids >>

TimetableInit ==
    /\ hours \in HourChoices \cup {Closed}
    /\ slots = {}
    /\ grids = {}

\* put(): delete and bulk_create in one transaction.  Of two that overlap, the
\* second waits for the rows of the first and then trips over the unique
\* constraint, so that one replacement takes place at a time.
ReplaceHours ==
    /\ Exists
    /\ hours' \in HourChoices \cup {Closed}
    /\ UNCHANGED << row, thread, slots, grids >>

\* Neither task names a queue: both are sent to Celery's default one.
TaskQueue == "celery"

\* generate_slots_for_all_stadiums, which does the same to this stadium.  No
\* entry of the beat schedule sends it; an operator may.
SendDailyRun ==
    /\ DailyRuns
    /\ queue < QueueBound
    /\ queue' = queue + 1
    /\ UNCHANGED << stadium, thread, timetable >>

\* The stadium, if it is active.
BeginRun(g) ==
    /\ At(g, "idle")
    /\ TaskQueue \in Consumed
    /\ queue > 0
    /\ queue' = queue - 1
    /\ Goto(g, IF stadium.status = "active"
                 THEN [at |-> "hours", duration |-> stadium.duration] ELSE Idle)
    /\ UNCHANGED << stadium, timetable >>

\* The prefetch is a second query.
ReadHours(g) ==
    /\ At(g, "hours")
    /\ IF hours = Closed
       THEN Goto(g, Idle) /\ UNCHANGED grids
       ELSE LET duration == thread[g].duration
            IN /\ Goto(g, [at |-> "create", duration |-> duration, hours |-> hours,
                           start |-> hours[1]])
               /\ grids' = IF Cardinality(grids) > 1 THEN grids
                           ELSE grids \cup {<< hours[1], duration >>}
    /\ UNCHANGED << row, hours, slots >>

\* get_or_create looks up stadium, date and start_time, which are unique.
Known(start, end) == \E s \in slots : s[1] = start

\* Not the code: the loop stops before the slot that ends at closing time.
FitsBefore(end, close) == end < close

Fits(end, close) == end <= close

\* Not the code: the next slot starts where the last known slot ends.
NextStartAfterSlots(g) ==
    LET ends == {s[2] : s \in slots} \cup {thread[g].start + 1}
    IN CHOOSE e \in ends : \A f \in ends : f <= e

NextStart(g) == thread[g].start + thread[g].duration

CreateSlot(g) ==
    /\ At(g, "create") /\ Exists
    /\ LET start == thread[g].start
           end == start + thread[g].duration
       IN /\ Fits(end, thread[g].hours[2])
          /\ slots' = IF Known(start, end) THEN slots ELSE slots \cup {<< start, end >>}
          /\ thread' = [thread EXCEPT ![g].start = NextStart(g)]
    /\ UNCHANGED << row, hours, grids >>

EndRun(g) ==
    /\ At(g, "create")
    /\ ~ Fits(thread[g].start + thread[g].duration, thread[g].hours[2])
    /\ Goto(g, Idle)
    /\ UNCHANGED << row, timetable >>

\* Any exception: self.retry() sends the task again, three times at most.  A
\* slot of a stadium that is gone violates the foreign key.
FailRun(g) ==
    /\ thread[g].at \in {"hours", "create"}
    /\ "error" \in Faults \/ ~ Exists
    /\ queue' \in {queue, queue + 1}
    /\ Goto(g, Idle)
    /\ UNCHANGED << stadium, timetable >>

GeneratorStep(g) ==
    BeginRun(g) \/ ReadHours(g) \/ CreateSlot(g) \/ EndRun(g)

TimetableNext ==
    \/ ReplaceHours
    \/ SendDailyRun
    \/ \E g \in Generators : GeneratorStep(g) \/ FailRun(g)

-----------------------------------------------------------------------------
(* Properties *)

Overlap(s, t) == s[1] < t[2] /\ t[1] < s[2]

(* As long as all runs use one opening time and one duration, whatever the *)
(* closing times, however many runs overlap, fail half-way, are sent again *)
(* or come twice, no two slots of a date overlap: nobody can book a pitch  *)
(* that is taken.                                                          *)
SlotsDisjoint ==
    Cardinality(grids) <= 1 => \A s, t \in slots : s # t => ~ Overlap(s, t)

(* A run that ends has left no gap: each time from opening to closing that *)
(* holds a slot has one, although the run shares the table with others and *)
(* starts with what failed runs have left.                                 *)
RunLeavesNoGap ==
    [][\A g \in Generators : At(g, "create") /\ EndRun(g) /\ Exists =>
          \A k \in 0 .. thread[g].hours[2] :
             LET start == thread[g].hours[1] + k * thread[g].duration
             IN start + thread[g].duration <= thread[g].hours[2]
                   => \E s \in slots : s[1] = start]_<< row, thread, timetable >>
===============================================================================
