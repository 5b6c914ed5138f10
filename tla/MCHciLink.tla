---------------------------- MODULE MCHciLink -----------------------------
(* HciLink on small instances: the cfg files choose the device's habits.   *)
EXTENDS HciLink
============================================================================
