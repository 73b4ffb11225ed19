------------------------ MODULE SlotReservationProofs ------------------------
(* The abstract reservation book keeps its promise, for any number of      *)
(* slots and bookings.                                                     *)
EXTENDS SlotReservation, TLAPS

\* Every step of the book keeps it exclusive.
LEMMA ReservationStep ==
    NullIsNoSlot /\ ReservationTypeOK /\ Exclusive /\ [ReservationNext]_reservationVars
      => ReservationTypeOK' /\ Exclusive'
<1> SUFFICES ASSUME NullIsNoSlot, ReservationTypeOK, Exclusive, [ReservationNext]_reservationVars
             PROVE  ReservationTypeOK' /\ Exclusive'
    OBVIOUS
<1> USE DEF NullIsNoSlot, ReservationTypeOK, Exclusive, SlotStatus
<1>1. ASSUME NEW b \in Bookings, NEW s \in Slots, Reserve(b, s)
      PROVE  ReservationTypeOK' /\ Exclusive'
  BY <1>1 DEF Reserve
<1>2. ASSUME NEW b \in Bookings, Release(b)
      PROVE  ReservationTypeOK' /\ Exclusive'
  BY <1>2 DEF Release
<1>3. ASSUME NEW B \in SUBSET Bookings, Settle(B)
      PROVE  ReservationTypeOK' /\ Exclusive'
  BY <1>3 DEF Settle
<1>4. ASSUME NEW s \in Slots, Withhold(s) \/ PutBack(s)
      PROVE  ReservationTypeOK' /\ Exclusive'
  BY <1>4 DEF Withhold, PutBack
<1>5. CASE UNCHANGED reservationVars
  BY <1>5 DEF reservationVars
<1> QED
  BY <1>1, <1>2, <1>3, <1>4, <1>5 DEF ReservationNext

(***************************************************************************)
(* No slot is ever held by two bookings, and a held slot is not for sale.  *)
(***************************************************************************)
THEOREM ReservationExclusive ==
    ASSUME NullIsNoSlot PROVE ReservationSpec => []Exclusive
<1>1. ReservationInit => ReservationTypeOK /\ Exclusive
  BY NullIsNoSlot DEF NullIsNoSlot, ReservationInit, ReservationTypeOK, Exclusive, SlotStatus
<1> QED
  BY NullIsNoSlot, <1>1, ReservationStep, PTL DEF ReservationSpec
=============================================================================
