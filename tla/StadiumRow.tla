------------------------------ MODULE StadiumRow ------------------------------
(***************************************************************************)
(* One row of src/apps/stadiums/models.py and the ways to write it.        *)
(*                                                                         *)
(* Three parts of the program write a stadium: its owner's and the         *)
(* administrators' requests (StadiumListing), the signal of the reviews    *)
(* (StadiumRatings), and, through what an edit stores, the slot generator  *)
(* depends on it (SlotGeneration).  Module Stadium puts them together.     *)
(*                                                                         *)
(* No request locks the row.  save(update_fields=...) writes the columns   *)
(* named and fails if the row is gone; a plain save() writes every column  *)
(* of the instance the thread has read, and inserts the row again if it is *)
(* gone.                                                                   *)
(***************************************************************************)
EXTENDS Naturals, FiniteSets

CONSTANTS
    Owners,         \* threads that serve the stadium's owner
    Admins,         \* threads that serve administrators
    Uploaders,      \* threads that serve the owner's photo requests
    Generators,     \* Celery worker processes that generate slots
    Reviewers,      \* threads that serve players and the owner on reviews
    Durations,      \* the values of slot_duration_minutes
    Bookings,       \* the bookings of the stadium that may be reviewed
    QueueBound,     \* a bound of the model on the tasks in the broker
    Faults          \* the faults that may occur

FaultKinds ==
    { "crash",      \* a thread or a task ends between two statements
      "error" }     \* a query of the slot generator raises

ASSUME StadiumFaults == Faults \subseteq FaultKinds /\ QueueBound \in Nat

Threads == Owners \cup Admins \cup Uploaders \cup Generators \cup Reviewers

ASSUME StadiumThreads ==
    /\ Owners \cap (Admins \cup Uploaders \cup Generators \cup Reviewers) = {}
    /\ Admins \cap (Uploaders \cup Generators \cup Reviewers) = {}
    /\ Uploaders \cap (Generators \cup Reviewers) = {}
    /\ Generators \cap Reviewers = {}

\* The field accepts 0, with which the generator would never end.
ASSUME DurationsAssumption == Durations \subseteq Nat \ {0} /\ Durations # {}

\* 'suspended' is set by no code; "deleted" stands for a row that is gone.
Status == {"draft", "pending_review", "active", "deleted"}

\* avg_rating, review_count and the averages of the details are computed from
\* a set of reviews and never change otherwise: the row carries that set.
RowType == [status : Status, duration : Durations, rated : SUBSET Bookings]

VARIABLES
    stadium,        \* the row
    thread,         \* of every thread, its next statement and its locals
    queue           \* the number of slot generation tasks in the broker

row == << stadium, queue >>

Idle == [at |-> "idle"]

RowInit ==
    /\ stadium \in [status : {"draft"}, duration : Durations, rated : {{}}]
    /\ thread = [t \in Threads |-> Idle]
    /\ queue = 0

At(t, label) == thread[t].at = label

Goto(t, next) == thread' = [thread EXCEPT ![t] = next]

Exists == stadium.status # "deleted"

\* save(update_fields=["status", ...]); with the row gone it raises.
SaveStatus(new) ==
    stadium' = IF Exists THEN [stadium EXCEPT !.status = new] ELSE stadium

\* save(): the whole of the instance, which may be older than the row.
SaveAll(instance) == stadium' = instance

\* The process of a thread is killed, or the client goes away, between two
\* statements; an open transaction is rolled back and a Celery task is lost,
\* because it was acknowledged when it started.
Crash(t) ==
    /\ "crash" \in Faults
    /\ ~ At(t, "idle")
    /\ Goto(t, Idle)
    /\ UNCHANGED row
===============================================================================
