--------------------------- MODULE SlotReservation ---------------------------
(***************************************************************************)
(* What the booking engine promises, with no worker, lock or transaction   *)
(* in sight: a slot is held by at most one booking at a time, a booking    *)
(* holds at most one slot and only once in its life, and a slot whose      *)
(* booking was played never opens again.  Module Booking implements it.    *)
(*                                                                         *)
(* The promise is the one docs/implementation/05 states ("no               *)
(* double-bookings possible"), on the tables Slot.status and               *)
(* Booking(slot, status) of src/apps/stadiums/models.py and                *)
(* src/apps/bookings/models.py.                                            *)
(***************************************************************************)
EXTENDS Naturals

CONSTANTS
    Slots,          \* the bookable slots
    Bookings,       \* booking ids; a finite supply bounds a run
    NoOne           \* the null reference

(* What Exclusive needs of the constants. *)
NullIsNoSlot == NoOne \notin Slots

VARIABLES
    slot,           \* Slot.status, for every slot
    holds,          \* the slot a live reservation keeps, or NoOne
    issued          \* the booking ids handed out so far

reservationVars == <<slot, holds, issued>>

SlotStatus == {"available", "booked", "blocked"}

ReservationTypeOK ==
    /\ slot \in [Slots -> SlotStatus]
    /\ holds \in [Bookings -> Slots \cup {NoOne}]
    /\ issued \subseteq Bookings

ReservationInit ==
    /\ slot = [s \in Slots |-> "available"]
    /\ holds = [b \in Bookings |-> NoOne]
    /\ issued = {}

(* A fresh booking takes an available slot. *)
Reserve(b, s) ==
    /\ slot[s] = "available"
    /\ b \notin issued
    /\ slot' = [slot EXCEPT ![s] = "booked"]
    /\ holds' = [holds EXCEPT ![b] = s]
    /\ issued' = issued \cup {b}

(* A cancellation: the holder gives its slot back. *)
Release(b) ==
    /\ holds[b] \in Slots
    /\ slot' = [slot EXCEPT ![holds[b]] = "available"]
    /\ holds' = [holds EXCEPT ![b] = NoOne]
    /\ UNCHANGED issued

(* Completion settles any set of reservations; their slots stay used up. *)
Settle(B) ==
    /\ holds' = [b \in Bookings |-> IF b \in B THEN NoOne ELSE holds[b]]
    /\ UNCHANGED <<slot, issued>>

(* The owner withdraws a free slot from sale and puts it back. *)
Withhold(s) ==
    /\ slot[s] = "available"
    /\ slot' = [slot EXCEPT ![s] = "blocked"]
    /\ UNCHANGED <<holds, issued>>

PutBack(s) ==
    /\ slot[s] = "blocked"
    /\ slot' = [slot EXCEPT ![s] = "available"]
    /\ UNCHANGED <<holds, issued>>

ReservationNext ==
    \/ \E b \in Bookings, s \in Slots : Reserve(b, s)
    \/ \E b \in Bookings : Release(b)
    \/ \E B \in SUBSET Bookings : Settle(B)
    \/ \E s \in Slots : Withhold(s)
    \/ \E s \in Slots : PutBack(s)

ReservationSpec == ReservationInit /\ [][ReservationNext]_reservationVars

(***************************************************************************)
(* No two bookings hold one slot, and a held slot is off the market: the   *)
(* two facts together are "no double booking".                             *)
(***************************************************************************)
Exclusive ==
    /\ \A b, c \in Bookings : holds[b] \in Slots /\ holds[b] = holds[c] => b = c
    /\ \A b \in Bookings : holds[b] \in Slots => slot[holds[b]] = "booked" /\ b \in issued

=============================================================================
