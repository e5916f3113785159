---------------------------- MODULE MCGuestEvents ----------------------------
(* GuestEvents for TLC. *)
EXTENDS GuestEvents, TLC

Symmetry == Permutations(Tasks)
================================================================================
