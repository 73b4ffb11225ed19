------------------------------ MODULE Moderation ------------------------------
(***************************************************************************)
(* What the approval workflow of src/docs/implementation/03 promises about *)
(* one stadium: it goes from the owner into the queue and from the queue,  *)
(* and from nowhere else, before the public.                               *)
(*                                                                         *)
(* Withdraw is not promised there.  It is what an edit does that was       *)
(* under way while the stadium was approved.                               *)
(***************************************************************************)
VARIABLE listing

ModerationInit == listing = "hidden"

Enqueue  == listing = "hidden" /\ listing' = "queued"
TurnDown == listing = "queued" /\ listing' = "hidden"
Publish  == listing = "queued" /\ listing' = "public"
Withdraw == listing = "public" /\ listing' = "queued"
Discard  == listing = "hidden" /\ listing' = "gone"

ModerationNext == Enqueue \/ TurnDown \/ Publish \/ Withdraw \/ Discard

ModerationSpec == ModerationInit /\ [][ModerationNext]_listing
===============================================================================
