--------------------------- MODULE MCSmartConfig ---------------------------
(* SmartConfig with calls enough for the second to see the first's flags.  *)
EXTENDS SmartConfig
============================================================================
