---------------------------- MODULE MCEventAdmin ----------------------------
(* Instances of EventAdmin for TLC. *)
EXTENDS EventAdmin, TLC

BelowZero == {-1}   \* what /tickets/warmup is called with: a .cfg has no negative numbers

Interchangeable == Permutations(Admins) \cup Permutations(Zones)
=============================================================================
