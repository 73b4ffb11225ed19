---------------------------- MODULE StadiumRatings ----------------------------
(***************************************************************************)
(* Reviews and the averages of a stadium: src/api/v1/reviews/views.py and  *)
(* src/apps/reviews/signals.py.                                            *)
(*                                                                         *)
(* A review's ratings never change, so the averages are known from the set *)
(* of reviews they were computed from: stadium.rated.  A review is known   *)
(* by its booking, of which it is the only one.                            *)
(***************************************************************************)
EXTENDS StadiumRow

VARIABLES
    completed,      \* the completed bookings
    reviews,        \* the Review rows, as committed
    overlapped      \* history: some review requests under way have overlapped

ratings == << completed, reviews, overlapped >>

RatingsInit ==
    /\ completed = {}
    /\ reviews = {}
    /\ overlapped = FALSE

\* A booking of an active stadium runs its course (module Booking).
CompleteBooking ==
    /\ stadium.status = "active"
    /\ \E b \in Bookings \ completed : completed' = completed \cup {b}
    /\ UNCHANGED << row, thread, reviews, overlapped >>

Arrive(r, next) ==
    /\ At(r, "idle")
    /\ Goto(r, next)
    /\ overlapped' = \E q \in Reviewers : ~ At(q, "idle")
    /\ UNCHANGED << row, completed, reviews >>

\* perform_create(): the booking is completed and has no review yet.
BeginReview(r) ==
    \E b \in completed \ reviews : Arrive(r, [at |-> "review", booking |-> b])

\* An INSERT waits for another transaction's INSERT for the same booking.
Contended(b) == \E q \in Reviewers : At(q, "commit") /\ thread[q].booking = b

\* Not the code: the new review is added to the averages there are.
AggregateAddsOne(b) == stadium.rated \cup {b}

\* Avg and Count over the committed reviews and the transaction's own.
Aggregate(b) == reviews \cup {b}

\* The INSERT and, from post_save, the aggregate.
InsertReview(r) ==
    /\ At(r, "review")
    /\ LET b == thread[r].booking
       IN /\ b \notin reviews /\ ~ Contended(b)
          /\ Goto(r, [at |-> "commit", booking |-> b, seen |-> Aggregate(b)])
    /\ UNCHANGED << row, ratings >>

\* The unique constraint: IntegrityError, answered with 400.
RefuseReview(r) ==
    /\ At(r, "review")
    /\ thread[r].booking \in reviews
    /\ Goto(r, Idle)
    /\ UNCHANGED << row, ratings >>

\* save(update_fields=[the averages]) and the commit; the UPDATE fails if the
\* stadium is gone, and the review is rolled back.
CommitReview(r) ==
    /\ At(r, "commit")
    /\ IF Exists
       THEN /\ reviews' = reviews \cup {thread[r].booking}
            /\ stadium' = [stadium EXCEPT !.rated = thread[r].seen]
       ELSE UNCHANGED << reviews, stadium >>
    /\ Goto(r, Idle)
    /\ UNCHANGED << queue, completed, overlapped >>

\* OwnerRespondView stores the response in a transaction of its own,
BeginRespond(r) == reviews # {} /\ Arrive(r, [at |-> "aggregate"])

\* then post_save computes the averages from what is committed,
AggregateAll(r) ==
    /\ At(r, "aggregate")
    /\ Goto(r, [at |-> "rate", seen |-> reviews])
    /\ UNCHANGED << row, ratings >>

\* and writes them.
WriteRating(r) ==
    /\ At(r, "rate")
    /\ stadium' = IF Exists THEN [stadium EXCEPT !.rated = thread[r].seen] ELSE stadium
    /\ Goto(r, Idle)
    /\ UNCHANGED << queue, ratings >>

ReviewerStep(r) ==
    \/ BeginReview(r) \/ InsertReview(r) \/ RefuseReview(r) \/ CommitReview(r)
    \/ BeginRespond(r) \/ AggregateAll(r) \/ WriteRating(r)

RatingsNext == CompleteBooking \/ \E r \in Reviewers : ReviewerStep(r)

-----------------------------------------------------------------------------
(* Properties *)

(* The averages are stored, and overlapping requests or an edit may leave  *)
(* them without some review.  A request about a review that overlaps no    *)
(* other, a player's review or the owner's response, always repairs that.  *)
AloneMeansExact ==
    [][\A r \in Reviewers :
          (CommitReview(r) \/ WriteRating(r)) /\ ~ overlapped /\ Exists
             => stadium'.rated = reviews']_<< row, thread, ratings >>
===============================================================================
