---------------------------- MODULE ByteStream -----------------------------
(***************************************************************************)
(* What sp_read and sp_read_line promise of a connection: the application  *)
(* gets the bytes that have arrived on it, each once, in order and with    *)
(* none left out.  Once recv has failed the connection promises no more.   *)
(***************************************************************************)
EXTENDS Naturals, Sequences

CONSTANTS
  Conns,  (* connections                                                    *)
  Length  (* bound: the bytes that arrive on one of them                    *)

VARIABLES
  arrived,  \* how many bytes have arrived on each connection
  got,      \* the bytes the application got from it, before recv failed
  broken    \* the connections on which recv has failed

streamVars == <<arrived, got, broken>>

(* The byte that comes next on c: bytes are known by connection and place. *)
NextByte(c) == <<c, Len(got[c]) + 1>>

StreamInit ==
  /\ arrived = [c \in Conns |-> 0]
  /\ got = [c \in Conns |-> <<>>]
  /\ broken = {}

ByteArrives(c) ==
  /\ c \notin broken /\ arrived[c] < Length
  /\ arrived' = [arrived EXCEPT ![c] = @ + 1]
  /\ UNCHANGED <<got, broken>>

ByteRead(c) ==
  /\ c \notin broken /\ Len(got[c]) < arrived[c]
  /\ got' = [got EXCEPT ![c] = Append(@, NextByte(c))]
  /\ UNCHANGED <<arrived, broken>>

(* A failure is only seen once every byte has been read. *)
Breaks(c) ==
  /\ c \notin broken /\ Len(got[c]) = arrived[c]
  /\ broken' = broken \cup {c}
  /\ UNCHANGED <<arrived, got>>

StreamNext == \E c \in Conns : ByteArrives(c) \/ ByteRead(c) \/ Breaks(c)

StreamSpec == StreamInit /\ [][StreamNext]_streamVars

============================================================================
