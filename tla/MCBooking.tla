----------------------------- MODULE MCBooking -----------------------------
(* Small instances of Booking for TLC. *)
EXTENDS Booking, TLC

OneStadium == [s \in Slots |-> CHOOSE st \in Stadiums : TRUE]

(* Workers and booking ids are interchangeable; so are the slots, which    *)
(* all belong to the one stadium.                                          *)
Symmetry == Permutations(Workers) \cup Permutations(Bookings) \cup Permutations(Slots)

(* A bound of the liveness run with two bookings: every cancellation is an *)
(* owner's, the one that can cross a creation.                             *)
OwnersCancel == \A w \in Workers : op'[w] # "cancelled_by_player"

OwnerSpec == Init /\ [][Next /\ OwnersCancel]_vars /\ Fairness
=============================================================================
