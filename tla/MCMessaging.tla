----------------------------- MODULE MCMessaging -----------------------------
(***************************************************************************)
(* Delivery and Otp for TLC: two systems without common state in one run.  *)
(***************************************************************************)
EXTENDS Delivery, Otp, TLC

CONSTANTS n1, n2, u1, u2

VARIABLE scenario   \* the events that are announced; none in a run of Otp

KindOf == n1 :> "booking_confirmed_player" @@ n2 :> "booking_cancelled_player"

RecipientOf == n1 :> u1 @@ n2 :> u2

MCInit == DeliveryInit /\ OtpInit /\ scenario \in {{n1}, {n2}, {}}

MCNext ==
    /\ \/ /\ scenario # {} /\ DeliveryNext /\ UNCHANGED otp
          /\ \A n \in Notices \ scenario : event'[n] = None
       \/ scenario = {} /\ OtpNext /\ UNCHANGED delivery
    /\ UNCHANGED scenario

MCSpec ==
    /\ MCInit
    /\ [][MCNext]_<< delivery, otp, scenario >>
    /\ \A n \in Notices : WF_delivery(scenario # {} /\ WorkerStep(n) /\ UNCHANGED otp)
===============================================================================
