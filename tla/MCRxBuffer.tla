---------------------------- MODULE MCRxBuffer -----------------------------
(* RxBuffer with two connections and a buffer of two bytes.                *)
EXTENDS RxBuffer
============================================================================
