------------------------------- MODULE MCNews -------------------------------
(* Instances of News for TLC. *)
EXTENDS News, TLC
=============================================================================
