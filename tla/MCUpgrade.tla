---------------------------- MODULE MCUpgrade ------------------------------
(* Upgrade with the images' true lengths and enough failures for all three *)
(* readings of the RM parameters, or for losses of power between two files.*)
EXTENDS Upgrade
============================================================================
