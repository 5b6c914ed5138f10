-------------------------- MODULE MCFlowControl ---------------------------
(* FlowControl with two sockets, three buffers and two-bit counters.       *)
EXTENDS FlowControl
============================================================================
