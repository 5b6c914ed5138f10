----------------------------- MODULE RxBuffer ------------------------------
(***************************************************************************)
(* The receive buffer of the socket helpers: sp_peek, sp_read,             *)
(* sp_read_line and data_available read through rxbuf, buf_siz and rx_ptr, *)
(* of which there is one for all sockets.  sp_connect empties it; accept   *)
(* and closesocket leave it alone.  Bytes and the peer's closing arrive    *)
(* between any two steps of the main program.                              *)
(*                                                                         *)
(* A byte is known by its connection and its place in it.  A connection    *)
(* stands for a socket descriptor from socket or accept to closesocket.    *)
(***************************************************************************)
EXTENDS Integers, Sequences

CONSTANTS
  Conns,       (* connections                                               *)
  Length,      (* bound: the bytes that arrive on one of them               *)
  BUFFER_SIZE, (* the size of rxbuf: 64 in the code                         *)
  ByteMod,     (* buf_siz wraps here: 2^8 in the code                       *)
  NotConnected,(* recv returns minus this on a closed connection: 57        *)
  LineSizes,   (* the lengths given to sp_read_line                         *)
  Careful      (* does the application read all it received on a connection *)
               (* before it turns to another?                               *)

ASSUME SizeAssumption ==
  /\ BUFFER_SIZE \in Nat \ {0} /\ NotConnected \in Nat \ {0}
  /\ ByteMod \in Nat /\ BUFFER_SIZE + NotConnected < ByteMod
ASSUME LengthAssumption == Length \in Nat
ASSUME LineAssumption == LineSizes \subseteq Nat
ASSUME CarefulAssumption == Careful \in BOOLEAN

VARIABLES
  (* the main program *)
  pc,       \* where it is
  sd,       \* the connection it reads
  room,     \* sp_read_line: the length it was given (history)
  len,      \* sp_read_line: what is left of it
  cnt,      \* sp_read_line: characters stored, then what it returned
  opened,   \* the connections opened so far
  open,     \* those not closed yet
  (* the receive buffer *)
  rxbuf,    \* its bytes
  buf_siz,  \* how many it holds
  rx_ptr,   \* which is the next to be read
  owner,    \* whose bytes they are (history)
  (* the device *)
  arrived,  \* how many bytes have arrived on each connection
  taken,    \* how many of them recv has returned
  gone,     \* the connections whose peer has closed
  (* history *)
  got,      \* the bytes the application got from each, before recv failed
  broken    \* the connections on which recv has failed

line     == <<room, len, cnt>>
mainVars == <<pc, sd, line, opened, open>>
bufVars  == <<rxbuf, buf_siz, rx_ptr, owner>>
devVars  == <<arrived, taken, gone>>
histVars == <<got, broken>>
vars == <<mainVars, bufVars, devVars, histVars>>

Stream == INSTANCE ByteStream WITH
  Conns <- Conns, Length <- Length,
  arrived <- arrived, got <- got, broken <- broken

----------------------------------------------------------------------------
Slots == 0 .. BUFFER_SIZE - 1

(* What static memory holds at first; it ends a line. *)
Zero == <<0, 0>>

Init ==
  /\ pc = "app" /\ sd \in Conns /\ room = 0 /\ len = 0 /\ cnt = 0
  /\ opened = {} /\ open = {}
  /\ rxbuf = [i \in Slots |-> Zero] /\ buf_siz = 0 /\ rx_ptr = 0
  /\ owner = sd
  /\ arrived = [c \in Conns |-> 0] /\ taken = [c \in Conns |-> 0]
  /\ gone = {}
  /\ got = [c \in Conns |-> <<>>] /\ broken = {}

Go(a, b) == pc \in a /\ pc' = b

(* The application is not inside one of the functions; in "ready",         *)
(* data_available has just said that there is something to read from sd.   *)
AtApp == {"app", "ready"}

Buffered == buf_siz > 0 /\ rx_ptr < buf_siz

(* Bytes of a connection that has been closed lie in the buffer. *)
Leftover == Buffered /\ owner \notin open

(* A careful application empties the buffer before it turns to another     *)
(* connection.  It may close its only one early, but then goes on with     *)
(* sp_connect and not with accept.                                         *)
MayUse(c)   == Careful => ~Buffered \/ owner = c \/ Leftover
MayClose(c) == Careful => ~Buffered \/ owner # c \/ open = {c}
MayConnect  == Careful => ~Buffered \/ Leftover
MayAccept   == Careful => ~Leftover

(* Mutant: a buffer that has just been read to its end still counts. *)
DataAvailableAtEnd(c) ==
  IF buf_siz > 0 \/ taken[c] < arrived[c] THEN {TRUE}
  ELSE IF c \in gone THEN BOOLEAN ELSE {FALSE}

(* data_available(c): the buffer, or else select.  On a closed connection  *)
(* with nothing left select may say either.                                *)
DataAvailable(c) ==
  IF Buffered \/ taken[c] < arrived[c] THEN {TRUE}
  ELSE IF c \in gone THEN BOOLEAN ELSE {FALSE}

----------------------------------------------------------------------------
(* Opening and closing.                                                    *)

(* Mutant: sp_connect without its first two lines. *)
ConnectKeeps(c) ==
  /\ Go(AtApp, "app")
  /\ c \notin opened /\ MayConnect
  /\ opened' = opened \cup {c} /\ open' = open \cup {c}
  /\ UNCHANGED <<sd, line, bufVars, devVars, histVars>>

(* sp_connect empties the buffer and opens c. *)
Connect(c) ==
  /\ Go(AtApp, "app")
  /\ c \notin opened /\ MayConnect
  /\ buf_siz' = 0 /\ rx_ptr' = 0
  /\ opened' = opened \cup {c} /\ open' = open \cup {c}
  /\ UNCHANGED <<sd, line, rxbuf, owner, devVars, histVars>>

(* It has emptied the buffer when socket or connect fails, too. *)
ConnectFails ==
  /\ Go(AtApp, "app")
  /\ MayConnect
  /\ buf_siz' = 0 /\ rx_ptr' = 0
  /\ UNCHANGED <<sd, line, opened, open, rxbuf, owner, devVars, histVars>>

(* accept (or socket and connect) returns a new connection. *)
Accept(c) ==
  /\ Go(AtApp, "app")
  /\ c \notin opened /\ MayAccept
  /\ opened' = opened \cup {c} /\ open' = open \cup {c}
  /\ UNCHANGED <<sd, line, bufVars, devVars, histVars>>

(* closesocket, or sp_close. *)
Close(c) ==
  /\ Go(AtApp, "app")
  /\ c \in open /\ MayClose(c)
  /\ open' = open \ {c}
  /\ UNCHANGED <<sd, line, opened, bufVars, devVars, histVars>>

----------------------------------------------------------------------------
(* data_available, sp_peek and sp_read.                                    *)

(* The application calls data_available(c). *)
Ask(c) ==
  /\ c \in open /\ MayUse(c)
  /\ \E yes \in DataAvailable(c) : Go(AtApp, IF yes THEN "ready" ELSE "app")
  /\ sd' = c
  /\ UNCHANGED <<line, opened, open, bufVars, devVars, histVars>>

(* It calls sp_peek or sp_read on sd after data_available, as their        *)
(* comments ask of it.                                                     *)
Call(f) ==
  /\ Go({"ready"}, f)
  /\ UNCHANGED <<sd, line, opened, open, bufVars, devVars, histVars>>

(* The main program is in sp_peek. *)
Peeking == pc \in {"peek", "read", "lineRead"}

(* The condition of sp_peek's loop. *)
MustFill == buf_siz <= 0 \/ buf_siz = rx_ptr

(* Mutant: rx_ptr is not set back. *)
FillForgets(n) ==
  /\ Peeking /\ MustFill /\ taken[sd] + n <= arrived[sd]
  /\ rxbuf' = [i \in Slots |-> IF i < n THEN <<sd, taken[sd] + i + 1>>
                               ELSE rxbuf[i]]
  /\ buf_siz' = n /\ owner' = sd
  /\ taken' = [taken EXCEPT ![sd] = @ + n]
  /\ UNCHANGED <<mainVars, rx_ptr, arrived, gone, histVars>>

(* recv returns n bytes. *)
Fill(n) ==
  /\ Peeking /\ MustFill
  /\ taken[sd] + n <= arrived[sd]
  /\ rxbuf' = [i \in Slots |-> IF i < n THEN <<sd, taken[sd] + i + 1>>
                               ELSE rxbuf[i]]
  /\ buf_siz' = n /\ rx_ptr' = 0 /\ owner' = sd
  /\ taken' = [taken EXCEPT ![sd] = @ + n]
  /\ UNCHANGED <<mainVars, arrived, gone, histVars>>

(* recv fails.  The result is kept in eight bits, so the comparison of     *)
(* buf_siz with -57 is false and the loop ends with a buffer that counts   *)
(* as filled.                                                              *)
FillFails ==
  /\ Peeking /\ MustFill
  /\ sd \in gone /\ taken[sd] = arrived[sd]
  /\ buf_siz' = ByteMod - NotConnected /\ rx_ptr' = 0 /\ owner' = sd
  /\ broken' = broken \cup {sd}
  /\ UNCHANGED <<mainVars, rxbuf, devVars, got>>

(* rxbuf[rx_ptr], as long as it is inside. *)
Front == rxbuf[rx_ptr]

(* sp_peek returns. *)
Peek ==
  /\ ~MustFill
  /\ Go({"peek"}, "ready")
  /\ UNCHANGED <<sd, line, opened, open, bufVars, devVars, histVars>>

(* Mutant: rx_ptr stays where it is. *)
TakeAgain ==
  /\ ~MustFill
  /\ got' = IF sd \in broken THEN got
            ELSE [got EXCEPT ![sd] = Append(@, Front)]
  /\ UNCHANGED <<rxbuf, buf_siz, rx_ptr, owner, devVars, broken>>

(* sp_read takes the byte and moves on. *)
Take ==
  /\ ~MustFill
  /\ rx_ptr' = rx_ptr + 1
  /\ got' = IF sd \in broken THEN got
            ELSE [got EXCEPT ![sd] = Append(@, Front)]
  /\ UNCHANGED <<rxbuf, buf_siz, owner, devVars, broken>>

Read ==
  /\ Take
  /\ Go({"read"}, "app")
  /\ UNCHANGED <<sd, line, opened, open>>

----------------------------------------------------------------------------
(* sp_read_line.                                                           *)

BeginLine(c, n) ==
  /\ Go(AtApp, "lineTest")
  /\ c \in open /\ MayUse(c)
  /\ sd' = c /\ room' = n /\ len' = n /\ cnt' = 0
  /\ UNCHANGED <<opened, open, bufVars, devVars, histVars>>

(* Mutant: goes on once more when the length is used up. *)
LineMoreLate ==
  /\ Go({"lineTest"}, "lineRead")
  /\ TRUE \in DataAvailable(sd) /\ len >= 0
  /\ len' = len - 1
  /\ UNCHANGED <<sd, room, cnt, opened, open, bufVars, devVars, histVars>>

(* data_available(s) && len--: there is more, and room for it. *)
LineMore ==
  /\ Go({"lineTest"}, "lineRead")
  /\ TRUE \in DataAvailable(sd) /\ len # 0
  /\ len' = len - 1
  /\ UNCHANGED <<sd, room, cnt, opened, open, bufVars, devVars, histVars>>

(* sp_read_line returns v; the other locals are dead. *)
LineReturns(v) == Go({"lineTest"}, "app") /\ cnt' = v /\ room' = 0 /\ len' = 0

(* There is more and no room: the decrement makes len -1, and !len false. *)
LineFull ==
  /\ TRUE \in DataAvailable(sd) /\ len = 0
  /\ LineReturns(-1)
  /\ UNCHANGED <<sd, opened, open, bufVars, devVars, histVars>>

(* There is no more: the decrement is not reached. *)
LineNoData ==
  /\ FALSE \in DataAvailable(sd)
  /\ LineReturns(IF len = 0 THEN cnt ELSE -1)
  /\ UNCHANGED <<sd, opened, open, bufVars, devVars, histVars>>

(* Any character may end the line, but static memory's zeros always do. *)
LineRead ==
  /\ Take
  /\ \E ends \in IF rx_ptr \in Slots /\ Front = Zero THEN {TRUE} ELSE BOOLEAN :
       /\ Go({"lineRead"}, IF ends THEN "app" ELSE "lineTest")
       /\ cnt' = IF ends THEN cnt ELSE cnt + 1
       /\ room' = (IF ends THEN 0 ELSE room) /\ len' = IF ends THEN 0 ELSE len
  /\ UNCHANGED <<sd, opened, open>>

----------------------------------------------------------------------------
(* The peers (external).                                                   *)

Arrive(c) ==
  /\ c \in open \ gone /\ arrived[c] < Length
  /\ arrived' = [arrived EXCEPT ![c] = @ + 1]
  /\ UNCHANGED <<mainVars, bufVars, taken, gone, histVars>>

PeerCloses(c) ==
  /\ c \in open \ gone /\ gone' = gone \cup {c}
  /\ UNCHANGED <<mainVars, bufVars, arrived, taken, histVars>>

----------------------------------------------------------------------------
(* The main program once it has called a helper. *)
Progress ==
  \/ \E n \in 1 .. BUFFER_SIZE : Fill(n)
  \/ FillFails \/ Peek \/ Read
  \/ LineMore \/ LineFull \/ LineNoData \/ LineRead

Application ==
  \/ \E c \in Conns :
       \/ Connect(c) \/ Accept(c) \/ Close(c) \/ Ask(c)
       \/ \E n \in LineSizes : BeginLine(c, n)
  \/ ConnectFails
  \/ \E f \in {"peek", "read"} : Call(f)

Peers == \E c \in Conns : Arrive(c) \/ PeerCloses(c)

Next == Progress \/ Application \/ Peers

Spec == Init /\ [][Next]_vars

(* The CPU runs; nothing is assumed of the peers. *)
FairSpec == Spec /\ WF_vars(Progress)

----------------------------------------------------------------------------
(* Properties.                                                             *)

Bytes == (Conns \X (1 .. Length)) \cup {Zero}

TypeOK ==
  /\ pc \in {"app", "ready", "peek", "read", "lineTest", "lineRead"}
  /\ sd \in Conns /\ owner \in Conns
  /\ room \in Nat /\ len \in Int /\ cnt \in Int
  /\ open \subseteq opened /\ opened \subseteq Conns
  /\ rxbuf \in [Slots -> Bytes]
  /\ buf_siz \in 0 .. ByteMod - 1 /\ rx_ptr \in 0 .. buf_siz
  /\ arrived \in [Conns -> 0 .. Length] /\ taken \in [Conns -> 0 .. Length]
  /\ got \in [Conns -> Seq(Bytes)]
  /\ gone \subseteq Conns /\ broken \subseteq gone

(* The helpers keep the promise of ByteStream: whatever mix of sp_peek,    *)
(* sp_read and sp_read_line a careful application uses, it gets the bytes  *)
(* of the connection it reads, each once and in order.                     *)
InOrder == Stream!StreamSpec

(* sp_peek returns the byte that the next sp_read will return, without     *)
(* advancing: the next byte of the socket it was given.                    *)
PeekSeesNext ==
  [][Peek /\ sd \notin broken => Front = Stream!NextByte(sd)]_vars

(* On an open connection every byte that recv has taken from the device    *)
(* has been read or is still in the buffer: none is dropped.               *)
NothingLost ==
  \A c \in open \ broken :
    taken[c] = Len(got[c]) + (IF owner = c THEN buf_siz - rx_ptr ELSE 0)

(* sp_read_line writes inside the array it was given: a character, or the  *)
(* terminator in its place, has an index below the length.                 *)
LineInside == pc = "lineRead" => cnt \in 0 .. room - 1

(* sp_peek and sp_read return if data_available has said that there is     *)
(* something to read, and sp_read_line returns in any case, though nothing *)
(* more need arrive.                                                       *)
CallsReturn == (pc \notin AtApp) ~> (pc \in AtApp)

(* sp_read returns data: what recv returned when it failed, for which      *)
(* sp_peek has a branch, does not pass for received bytes.                 *)
FailureIsNoData == [][Read => sd \notin broken]_vars

============================================================================
