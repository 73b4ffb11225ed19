---------------------------- MODULE MCRegistration ----------------------------
(* Registration for TLC: symmetric players and client threads. *)
EXTENDS Registration, TLC

Symmetry == Permutations(Players) \cup Permutations(Clients)

===============================================================================
