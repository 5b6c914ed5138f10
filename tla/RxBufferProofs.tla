-------------------------- MODULE RxBufferProofs ---------------------------
(***************************************************************************)
(* The socket helpers deliver the stream of every connection to a careful  *)
(* application, for any connections, any size of rxbuf and any lengths of  *)
(* lines: RxBuffer implements ByteStream.                                  *)
(***************************************************************************)
EXTENDS RxBuffer, TLAPS

----------------------------------------------------------------------------
(* The inductive invariant.                                                *)

(* The buffer belongs to the connection being read, and what a closed      *)
(* connection left behind is never met by another.                         *)
SocketInv ==
  /\ pc # "app" => sd \in open /\ (~Buffered \/ owner = sd)
  /\ Leftover => open = {}
  /\ owner \notin opened => buf_siz = 0

(* Nothing has happened on a connection that has not been opened. *)
Untouched ==
  \A c \in Conns \ opened :
    arrived[c] = 0 /\ taken[c] = 0 /\ Len(got[c]) = 0 /\ c \notin gone

(* The application is behind recv, which is behind the device. *)
Ordered ==
  /\ \A c \in Conns : taken[c] <= arrived[c]
  /\ \A c \in Conns \ broken : Len(got[c]) <= taken[c]

(* recv only fails after the last byte. *)
Finished ==
  \A c \in broken : taken[c] = arrived[c] /\ Len(got[c]) = arrived[c]

(* NothingLost, by cases. *)
Kept ==
  \A c \in open \ broken :
    /\ owner = c => taken[c] = Len(got[c]) + (buf_siz - rx_ptr)
    /\ owner # c => taken[c] = Len(got[c])

CountInv == Untouched /\ Ordered /\ Finished /\ Kept

(* The unread part of rxbuf is what comes next on its connection. *)
ContentInv ==
  owner \notin broken =>
    /\ buf_siz <= BUFFER_SIZE
    /\ \A i \in rx_ptr .. buf_siz - 1 :
         rxbuf[i] = <<owner, Len(got[owner]) + 1 + (i - rx_ptr)>>

(* What sp_read_line has stored and what room it has left. *)
LineInv ==
  /\ pc = "lineTest" => len \in Nat /\ cnt \in Nat /\ cnt + len = room
  /\ pc = "lineRead" => len \in Nat /\ cnt \in Nat /\ cnt + len + 1 = room

IInv == TypeOK /\ SocketInv /\ CountInv /\ ContentInv /\ LineInv

----------------------------------------------------------------------------
(* Every action preserves it.                                              *)

(* Nothing has been opened, received or read at first.                     *)
LEMMA InitInv == Init => IInv
<1> SUFFICES ASSUME Init PROVE IInv
  OBVIOUS
<1> USE SizeAssumption, LengthAssumption
<1>1. TypeOK
  BY DEF Init, TypeOK, Bytes, Slots, Zero
<1>2. SocketInv /\ ContentInv /\ LineInv
  BY DEF Init, SocketInv, ContentInv, LineInv, Leftover, Buffered
<1>3. CountInv
  BY DEF Init, CountInv, Untouched, Ordered, Finished, Kept
<1> QED
  BY <1>1, <1>2, <1>3 DEF IInv

(* What sp_read returns on a connection that has not failed is the byte    *)
(* that comes next on it.                                                  *)
LEMMA TakeNext ==
  ASSUME Careful, IInv, Take, Peeking, sd \notin broken
  PROVE  /\ owner = sd /\ rx_ptr < buf_siz
         /\ Front = <<sd, Len(got[sd]) + 1>>
         /\ Len(got[sd]) < taken[sd]
         /\ Front \in Bytes
<1> USE SizeAssumption, LengthAssumption
<1>1. Buffered /\ rx_ptr < buf_siz
  BY DEF IInv, TypeOK, Take, MustFill, Buffered
<1>2. owner = sd /\ sd \in open
  BY <1>1 DEF IInv, SocketInv, Peeking
<1>3. rxbuf[rx_ptr] = <<sd, Len(got[sd]) + 1 + (rx_ptr - rx_ptr)>>
  BY <1>1, <1>2 DEF IInv, TypeOK, ContentInv
<1>4. Len(got[sd]) \in Nat
  BY DEF IInv, TypeOK
<1>5. Front = <<sd, Len(got[sd]) + 1>>
  BY <1>3, <1>4, <1>1 DEF Front, IInv, TypeOK
<1>6. Len(got[sd]) < taken[sd]
  BY <1>1, <1>2, <1>4
     DEF IInv, TypeOK, CountInv, Untouched, Ordered, Finished, Kept
<1>7. taken[sd] <= Length
  BY DEF IInv, TypeOK
<1>8. Len(got[sd]) + 1 \in 1 .. Length
  BY <1>4, <1>6, <1>7 DEF IInv, TypeOK
<1>9. Front \in Bytes
  BY <1>5, <1>8 DEF IInv, TypeOK, Bytes
<1> QED
  BY <1>1, <1>2, <1>5, <1>6, <1>9

(* How got changes then. *)
LEMMA TakeGot ==
  ASSUME Careful, IInv, Take, Peeking, sd \notin broken
  PROVE  /\ got' \in [Conns -> Seq(Bytes)]
         /\ got'[sd] = Append(got[sd], Front)
         /\ Len(got'[sd]) = Len(got[sd]) + 1
         /\ \A c \in Conns \ {sd} : got'[c] = got[c]
<1>1. got' = [got EXCEPT ![sd] = Append(got[sd], Front)]
  BY DEF Take
<1>2. got \in [Conns -> Seq(Bytes)] /\ sd \in Conns
  BY DEF IInv, TypeOK
<1>3. Append(got[sd], Front) \in Seq(Bytes)
  BY <1>2, TakeNext
<1>4. Len(Append(got[sd], Front)) = Len(got[sd]) + 1
  BY <1>2, TakeNext
<1> QED
  BY <1>1, <1>2, <1>3, <1>4

(* The application opens, closes and asks. *)
LEMMA ApplicationInv ==
  ASSUME Careful, IInv, Application PROVE IInv'
<1> USE SizeAssumption, LengthAssumption, LineAssumption
<1> USE DEF IInv, Go, AtApp, MayUse, MayClose, MayConnect, MayAccept, Leftover,
            Buffered, line, mainVars, bufVars, devVars, histVars
<1>1. ASSUME NEW c \in Conns, Connect(c) PROVE IInv'
  <2>1. TypeOK'
    BY <1>1 DEF TypeOK, Connect
  <2>2. SocketInv'
    BY <1>1 DEF TypeOK, SocketInv, Connect
  <2>3. CountInv'
    BY <1>1
       DEF TypeOK, SocketInv, CountInv, Untouched, Ordered, Finished, Kept,
           Connect
  <2>4. ContentInv'
    BY <1>1
       DEF TypeOK, SocketInv, CountInv, Untouched, Ordered, Finished, Kept,
           ContentInv, Connect
  <2>5. LineInv'
    BY <1>1 DEF TypeOK, LineInv, Connect
  <2> QED
    BY <2>1, <2>2, <2>3, <2>4, <2>5
<1>2. ASSUME NEW c \in Conns, Accept(c) PROVE IInv'
  <2>1. TypeOK'
    BY <1>2 DEF TypeOK, Accept
  <2>2. SocketInv'
    BY <1>2 DEF TypeOK, SocketInv, Accept
  <2>3. CountInv'
    BY <1>2
       DEF TypeOK, SocketInv, CountInv, Untouched, Ordered, Finished, Kept,
           Accept
  <2>4. ContentInv'
    BY <1>2
       DEF TypeOK, SocketInv, CountInv, Untouched, Ordered, Finished, Kept,
           ContentInv, Accept
  <2>5. LineInv'
    BY <1>2 DEF TypeOK, LineInv, Accept
  <2> QED
    BY <2>1, <2>2, <2>3, <2>4, <2>5
<1>3. ASSUME NEW c \in Conns, Close(c) PROVE IInv'
  <2>1. TypeOK'
    BY <1>3 DEF TypeOK, Close
  <2>2. SocketInv'
    BY <1>3 DEF TypeOK, SocketInv, Close
  <2>3. CountInv'
    BY <1>3
       DEF TypeOK, SocketInv, CountInv, Untouched, Ordered, Finished, Kept,
           Close
  <2>4. ContentInv'
    BY <1>3
       DEF TypeOK, SocketInv, CountInv, Untouched, Ordered, Finished, Kept,
           ContentInv, Close
  <2>5. LineInv'
    BY <1>3 DEF TypeOK, LineInv, Close
  <2> QED
    BY <2>1, <2>2, <2>3, <2>4, <2>5
<1>4. ASSUME NEW c \in Conns, Ask(c) PROVE IInv'
  <2>1. TypeOK'
    BY <1>4 DEF TypeOK, Ask
  <2>2. SocketInv'
    BY <1>4 DEF TypeOK, SocketInv, Ask
  <2>3. CountInv'
    BY <1>4
       DEF TypeOK, SocketInv, CountInv, Untouched, Ordered, Finished, Kept, Ask
  <2>4. ContentInv'
    BY <1>4
       DEF TypeOK, SocketInv, CountInv, Untouched, Ordered, Finished, Kept,
           ContentInv, Ask
  <2>5. LineInv'
    BY <1>4 DEF TypeOK, LineInv, Ask
  <2> QED
    BY <2>1, <2>2, <2>3, <2>4, <2>5
<1>5. ASSUME NEW c \in Conns, NEW n \in LineSizes, BeginLine(c, n) PROVE IInv'
  <2>1. TypeOK'
    BY <1>5 DEF TypeOK, BeginLine
  <2>2. SocketInv'
    BY <1>5 DEF TypeOK, SocketInv, BeginLine
  <2>3. CountInv'
    BY <1>5
       DEF TypeOK, SocketInv, CountInv, Untouched, Ordered, Finished, Kept,
           BeginLine
  <2>4. ContentInv'
    BY <1>5
       DEF TypeOK, SocketInv, CountInv, Untouched, Ordered, Finished, Kept,
           ContentInv, BeginLine
  <2>5. LineInv'
    BY <1>5 DEF TypeOK, LineInv, BeginLine
  <2> QED
    BY <2>1, <2>2, <2>3, <2>4, <2>5
<1>6. CASE ConnectFails
  <2>1. TypeOK'
    BY <1>6 DEF TypeOK, ConnectFails
  <2>2. SocketInv'
    BY <1>6 DEF TypeOK, SocketInv, ConnectFails
  <2>3. CountInv'
    BY <1>6
       DEF TypeOK, SocketInv, CountInv, Untouched, Ordered, Finished, Kept,
           ConnectFails
  <2>4. ContentInv'
    BY <1>6
       DEF TypeOK, SocketInv, CountInv, Untouched, Ordered, Finished, Kept,
           ContentInv, ConnectFails
  <2>5. LineInv'
    BY <1>6 DEF TypeOK, LineInv, ConnectFails
  <2> QED
    BY <2>1, <2>2, <2>3, <2>4, <2>5
<1>7. ASSUME NEW f \in {"peek", "read"}, Call(f) PROVE IInv'
  <2>1. TypeOK'
    BY <1>7 DEF TypeOK, Call
  <2>2. SocketInv'
    BY <1>7 DEF TypeOK, SocketInv, Call
  <2>3. CountInv'
    BY <1>7
       DEF TypeOK, SocketInv, CountInv, Untouched, Ordered, Finished, Kept,
           Call
  <2>4. ContentInv'
    BY <1>7
       DEF TypeOK, SocketInv, CountInv, Untouched, Ordered, Finished, Kept,
           ContentInv, Call
  <2>5. LineInv'
    BY <1>7 DEF TypeOK, LineInv, Call
  <2> QED
    BY <2>1, <2>2, <2>3, <2>4, <2>5
<1> QED
  BY <1>1, <1>2, <1>3, <1>4, <1>5, <1>6, <1>7 DEF Application

(* Bytes arrive and peers close. *)
LEMMA PeersInv ==
  ASSUME Careful, IInv, Peers PROVE IInv'
<1> USE SizeAssumption, LengthAssumption, LineAssumption
<1> USE DEF IInv, Go, AtApp, MayUse, MayClose, MayConnect, MayAccept, Leftover,
            Buffered, line, mainVars, bufVars, devVars, histVars
<1>1. ASSUME NEW c \in Conns, Arrive(c) PROVE IInv'
  <2>1. TypeOK'
    BY <1>1 DEF TypeOK, Arrive
  <2>2. SocketInv'
    BY <1>1 DEF TypeOK, SocketInv, Arrive
  <2>3. CountInv'
    BY <1>1
       DEF TypeOK, SocketInv, CountInv, Untouched, Ordered, Finished, Kept,
           Arrive
  <2>4. ContentInv'
    BY <1>1
       DEF TypeOK, SocketInv, CountInv, Untouched, Ordered, Finished, Kept,
           ContentInv, Arrive
  <2>5. LineInv'
    BY <1>1 DEF TypeOK, LineInv, Arrive
  <2> QED
    BY <2>1, <2>2, <2>3, <2>4, <2>5
<1>2. ASSUME NEW c \in Conns, PeerCloses(c) PROVE IInv'
  <2>1. TypeOK'
    BY <1>2 DEF TypeOK, PeerCloses
  <2>2. SocketInv'
    BY <1>2 DEF TypeOK, SocketInv, PeerCloses
  <2>3. CountInv'
    BY <1>2
       DEF TypeOK, SocketInv, CountInv, Untouched, Ordered, Finished, Kept,
           PeerCloses
  <2>4. ContentInv'
    BY <1>2
       DEF TypeOK, SocketInv, CountInv, Untouched, Ordered, Finished, Kept,
           ContentInv, PeerCloses
  <2>5. LineInv'
    BY <1>2 DEF TypeOK, LineInv, PeerCloses
  <2> QED
    BY <2>1, <2>2, <2>3, <2>4, <2>5
<1> QED
  BY <1>1, <1>2 DEF Peers

(* The main program in a helper. *)
LEMMA ProgressInv ==
  ASSUME Careful, IInv, Progress PROVE IInv'
<1> USE SizeAssumption, LengthAssumption, LineAssumption
<1> USE DEF IInv, Go, AtApp, MayUse, MayClose, MayConnect, MayAccept, Leftover,
            Buffered, line, mainVars, bufVars, devVars, histVars
<1>1. ASSUME NEW n \in 1 .. BUFFER_SIZE, Fill(n) PROVE IInv'
  <2>1. sd \in open /\ sd \in Conns /\ buf_siz = rx_ptr /\ n \in Nat
    BY <1>1 DEF Fill, Peeking, MustFill, SocketInv, TypeOK
  <2>2. taken[sd] \in Nat /\ arrived[sd] \in Nat /\ arrived[sd] <= Length
    BY <2>1 DEF TypeOK
  <2>3. ASSUME NEW c \in open \ broken PROVE taken[c] = Len(got[c])
    BY <2>1 DEF TypeOK, CountInv, Kept
  <2>4. TypeOK'
    <3>1. taken' \in [Conns -> 0 .. Length]
      BY <1>1, <2>1, <2>2 DEF Fill, TypeOK
    <3>2. rxbuf' \in [Slots -> Bytes]
      <4>1. ASSUME NEW i \in Slots, i < n
            PROVE  <<sd, taken[sd] + i + 1>> \in Bytes
        <5>1. i \in Nat
          BY DEF Slots
        <5>2. taken[sd] + i + 1 \in 1 .. Length
          BY <1>1, <2>1, <2>2, <4>1, <5>1 DEF Fill
        <5> QED
          BY <2>1, <5>2 DEF Bytes
      <4>2. rxbuf' = [i \in Slots |-> IF i < n THEN <<sd, taken[sd] + i + 1>>
                                      ELSE rxbuf[i]]
        BY <1>1 DEF Fill
      <4>3. \A i \in Slots : rxbuf[i] \in Bytes
        BY DEF TypeOK
      <4> QED
        BY <4>1, <4>2, <4>3
    <3>3. buf_siz' \in 0 .. ByteMod - 1 /\ rx_ptr' \in 0 .. buf_siz'
      BY <1>1 DEF Fill
    <3> QED
      BY <1>1, <3>1, <3>2, <3>3 DEF Fill, TypeOK
  <2>5. SocketInv'
    BY <1>1, <2>1 DEF Fill, SocketInv, TypeOK
  <2>6. CountInv'
    <3>1. Untouched'
      BY <1>1, <2>1 DEF Fill, TypeOK, Untouched, CountInv
    <3>2. Ordered' /\ Finished'
      BY <1>1, <2>1 DEF Fill, TypeOK, Ordered, Finished, CountInv
    <3>3. ASSUME NEW c \in open \ broken
          PROVE  /\ sd = c => taken'[c] = Len(got[c]) + (n - 0)
                 /\ sd # c => taken'[c] = Len(got[c])
      <4>1. taken[c] = Len(got[c])
        BY <2>3
      <4>2. taken'[c] = IF c = sd THEN taken[c] + n ELSE taken[c]
        BY <1>1 DEF Fill, TypeOK
      <4> QED
        BY <4>1, <4>2
    <3>4. Kept'
      BY <1>1, <3>3 DEF Fill, Kept
    <3> QED
      BY <3>1, <3>2, <3>4 DEF CountInv
  <2>7. ContentInv'
    <3>1. SUFFICES ASSUME sd \notin broken, NEW i \in 0 .. n - 1
          PROVE  rxbuf'[i] = <<sd, Len(got[sd]) + 1 + (i - 0)>>
      BY <1>1, <2>1 DEF Fill, ContentInv
    <3>2. taken[sd] = Len(got[sd])
      BY <2>1, <2>3, <3>1
    <3>3. rxbuf'[i] = <<sd, taken[sd] + i + 1>>
      BY <1>1, <2>1 DEF Fill, Slots
    <3>4. taken[sd] + i + 1 = Len(got[sd]) + 1 + (i - 0)
      BY <2>2, <3>2
    <3> QED
      BY <3>3, <3>4
  <2>8. LineInv'
    BY <1>1 DEF Fill, LineInv
  <2> QED
    BY <2>4, <2>5, <2>6, <2>7, <2>8
<1>2. CASE FillFails
  <2>1. TypeOK'
    BY <1>2 DEF TypeOK, FillFails, Peeking, MustFill
  <2>2. SocketInv'
    BY <1>2 DEF TypeOK, SocketInv, FillFails, Peeking, MustFill
  <2>3. CountInv'
    BY <1>2
       DEF TypeOK, SocketInv, CountInv, Untouched, Ordered, Finished, Kept,
           FillFails, Peeking, MustFill
  <2>4. ContentInv'
    BY <1>2
       DEF TypeOK, SocketInv, CountInv, Untouched, Ordered, Finished, Kept,
           ContentInv, FillFails, Peeking, MustFill
  <2>5. LineInv'
    BY <1>2 DEF TypeOK, LineInv, FillFails, Peeking, MustFill
  <2> QED
    BY <2>1, <2>2, <2>3, <2>4, <2>5
<1>3. CASE Peek
  <2>1. TypeOK'
    BY <1>3 DEF TypeOK, Peek
  <2>2. SocketInv'
    BY <1>3 DEF TypeOK, SocketInv, Peek
  <2>3. CountInv'
    BY <1>3
       DEF TypeOK, SocketInv, CountInv, Untouched, Ordered, Finished, Kept,
           Peek
  <2>4. ContentInv'
    BY <1>3
       DEF TypeOK, SocketInv, CountInv, Untouched, Ordered, Finished, Kept,
           ContentInv, Peek
  <2>5. LineInv'
    BY <1>3 DEF TypeOK, LineInv, Peek
  <2> QED
    BY <2>1, <2>2, <2>3, <2>4, <2>5
<1>4. CASE LineMore
  <2>1. TypeOK'
    BY <1>4 DEF TypeOK, LineMore
  <2>2. SocketInv'
    BY <1>4 DEF TypeOK, SocketInv, LineMore
  <2>3. CountInv'
    BY <1>4
       DEF TypeOK, SocketInv, CountInv, Untouched, Ordered, Finished, Kept,
           LineMore
  <2>4. ContentInv'
    BY <1>4
       DEF TypeOK, SocketInv, CountInv, Untouched, Ordered, Finished, Kept,
           ContentInv, LineMore
  <2>5. LineInv'
    BY <1>4 DEF TypeOK, LineInv, LineMore
  <2> QED
    BY <2>1, <2>2, <2>3, <2>4, <2>5
<1>5. CASE LineFull
  <2>1. TypeOK'
    BY <1>5 DEF TypeOK, LineFull, LineReturns
  <2>2. SocketInv'
    BY <1>5 DEF TypeOK, SocketInv, LineFull, LineReturns
  <2>3. CountInv'
    BY <1>5
       DEF TypeOK, SocketInv, CountInv, Untouched, Ordered, Finished, Kept,
           LineFull, LineReturns
  <2>4. ContentInv'
    BY <1>5
       DEF TypeOK, SocketInv, CountInv, Untouched, Ordered, Finished, Kept,
           ContentInv, LineFull, LineReturns
  <2>5. LineInv'
    BY <1>5 DEF TypeOK, LineInv, LineFull, LineReturns
  <2> QED
    BY <2>1, <2>2, <2>3, <2>4, <2>5
<1>6. CASE LineNoData
  <2>1. TypeOK'
    BY <1>6 DEF TypeOK, LineNoData, LineReturns
  <2>2. SocketInv'
    BY <1>6 DEF TypeOK, SocketInv, LineNoData, LineReturns
  <2>3. CountInv'
    BY <1>6
       DEF TypeOK, SocketInv, CountInv, Untouched, Ordered, Finished, Kept,
           LineNoData, LineReturns
  <2>4. ContentInv'
    BY <1>6
       DEF TypeOK, SocketInv, CountInv, Untouched, Ordered, Finished, Kept,
           ContentInv, LineNoData, LineReturns
  <2>5. LineInv'
    BY <1>6 DEF TypeOK, LineInv, LineNoData, LineReturns
  <2> QED
    BY <2>1, <2>2, <2>3, <2>4, <2>5
<1>7. CASE Read
  <2>1. Take /\ Peeking /\ rx_ptr < buf_siz /\ owner = sd /\ sd \in open
    BY <1>7 DEF Read, Take, Peeking, MustFill, TypeOK, SocketInv
  <2>2. CASE sd \in broken
    <3>1. TypeOK'
      BY <1>7, <2>1, <2>2 DEF TypeOK, Read, Take
    <3>2. SocketInv'
      BY <1>7, <2>1, <2>2 DEF TypeOK, SocketInv, Read, Take
    <3>3. CountInv'
      BY <1>7, <2>1, <2>2
         DEF TypeOK, CountInv, Untouched, Ordered, Finished, Kept, Read, Take
    <3>4. ContentInv'
      BY <1>7, <2>1, <2>2 DEF TypeOK, ContentInv, Read, Take
    <3>5. LineInv'
      BY <1>7, <2>1, <2>2 DEF TypeOK, LineInv, Read, Take
    <3> QED
      BY <3>1, <3>2, <3>3, <3>4, <3>5
  <2>3. CASE sd \notin broken
    <3>1. TypeOK'
      BY <1>7, <2>1, <2>3, TakeNext, TakeGot DEF TypeOK, Read, Take
    <3>2. SocketInv'
      BY <1>7, <2>1, <2>3, TakeNext, TakeGot DEF TypeOK, SocketInv, Read, Take
    <3>3. CountInv'
      BY <1>7, <2>1, <2>3, TakeNext, TakeGot
         DEF TypeOK, CountInv, Untouched, Ordered, Finished, Kept, Read, Take
    <3>4. ContentInv'
      BY <1>7, <2>1, <2>3, TakeNext, TakeGot DEF TypeOK, ContentInv, Read, Take
    <3>5. LineInv'
      BY <1>7, <2>1, <2>3, TakeNext, TakeGot DEF TypeOK, LineInv, Read, Take
    <3> QED
      BY <3>1, <3>2, <3>3, <3>4, <3>5
  <2> QED
    BY <2>2, <2>3
<1>8. CASE LineRead
  <2>1. Take /\ Peeking /\ rx_ptr < buf_siz /\ owner = sd /\ sd \in open
    BY <1>8 DEF LineRead, Take, Peeking, MustFill, TypeOK, SocketInv
  <2>2. CASE sd \in broken
    <3>1. TypeOK'
      BY <1>8, <2>1, <2>2 DEF TypeOK, LineRead, Take
    <3>2. SocketInv'
      BY <1>8, <2>1, <2>2 DEF TypeOK, SocketInv, LineRead, Take
    <3>3. CountInv'
      BY <1>8, <2>1, <2>2
         DEF TypeOK, CountInv, Untouched, Ordered, Finished, Kept, LineRead,
             Take
    <3>4. ContentInv'
      BY <1>8, <2>1, <2>2 DEF TypeOK, ContentInv, LineRead, Take
    <3>5. LineInv'
      BY <1>8, <2>1, <2>2 DEF TypeOK, LineInv, LineRead, Take
    <3> QED
      BY <3>1, <3>2, <3>3, <3>4, <3>5
  <2>3. CASE sd \notin broken
    <3>1. TypeOK'
      BY <1>8, <2>1, <2>3, TakeNext, TakeGot DEF TypeOK, LineRead, Take
    <3>2. SocketInv'
      BY <1>8, <2>1, <2>3, TakeNext, TakeGot
         DEF TypeOK, SocketInv, LineRead, Take
    <3>3. CountInv'
      <4>1. Untouched' /\ Ordered' /\ Finished'
        BY <1>8, <2>1, <2>3, TakeNext, TakeGot
           DEF TypeOK, CountInv, Untouched, Ordered, Finished, LineRead, Take
      <4>2. Kept'
        BY <1>8, <2>1, <2>3, TakeNext, TakeGot
           DEF TypeOK, CountInv, Kept, LineRead, Take
      <4> QED
        BY <4>1, <4>2 DEF CountInv
    <3>4. ContentInv'
      BY <1>8, <2>1, <2>3, TakeNext, TakeGot
         DEF TypeOK, ContentInv, LineRead, Take
    <3>5. LineInv'
      BY <1>8, <2>1, <2>3, TakeNext, TakeGot
         DEF TypeOK, LineInv, LineRead, Take
    <3> QED
      BY <3>1, <3>2, <3>3, <3>4, <3>5
  <2> QED
    BY <2>2, <2>3
<1> QED
  BY <1>1, <1>2, <1>3, <1>4, <1>5, <1>6, <1>7, <1>8 DEF Progress

(* IInv holds of every state a careful application can reach.              *)
THEOREM Invariance == Careful => (Spec => []IInv)
<1> SUFFICES ASSUME Careful PROVE Spec => []IInv
  OBVIOUS
<1>1. IInv /\ UNCHANGED vars => IInv'
  BY DEF vars, line, mainVars, bufVars, devVars, histVars, IInv, TypeOK,
         SocketInv, CountInv, Untouched, Ordered, Finished, Kept, ContentInv, LineInv, Leftover,
         Buffered
<1>2. IInv /\ [Next]_vars => IInv'
  BY <1>1, ProgressInv, ApplicationInv, PeersInv DEF Next
<1> QED
  BY <1>2, InitInv, PTL DEF Spec

----------------------------------------------------------------------------
(* What follows.                                                           *)

(* buf_siz and rx_ptr keep to their width, and rx_ptr to the buffer.       *)
THEOREM TypeCorrect == Careful => (Spec => []TypeOK)
<1>1. IInv => TypeOK
  BY DEF IInv
<1> QED
  BY <1>1, Invariance, PTL

(* Every byte recv has taken is with the application or still in rxbuf.    *)
THEOREM NoneLost == Careful => (Spec => []NothingLost)
<1>1. IInv => NothingLost
  BY DEF IInv, CountInv, Kept, NothingLost
<1> QED
  BY <1>1, Invariance, PTL

(* sp_read_line never writes outside the array it was given.               *)
THEOREM LineInBounds == Careful => (Spec => []LineInside)
<1>1. IInv => LineInside
  BY DEF IInv, TypeOK, LineInv, LineInside
<1> QED
  BY <1>1, Invariance, PTL

(* sp_peek shows the byte that sp_read will return.                        *)
THEOREM PeekSound == Careful => (Spec => PeekSeesNext)
<1> SUFFICES ASSUME Careful PROVE Spec => PeekSeesNext
  OBVIOUS
<1>1. ASSUME IInv, Peek, sd \notin broken PROVE Front = Stream!NextByte(sd)
  <2>1. Buffered /\ owner = sd
    BY <1>1 DEF IInv, TypeOK, SocketInv, Peek, Go, MustFill, Buffered
  <2>2. rxbuf[rx_ptr] = <<sd, Len(got[sd]) + 1 + (rx_ptr - rx_ptr)>>
    BY <1>1, <2>1 DEF IInv, TypeOK, ContentInv, Buffered
  <2>3. Len(got[sd]) \in Nat /\ rx_ptr \in Nat
    BY <1>1 DEF IInv, TypeOK
  <2> QED
    BY <2>2, <2>3 DEF Front, Stream!NextByte
<1>2. IInv /\ [Next]_vars
        => [Peek /\ sd \notin broken => Front = Stream!NextByte(sd)]_vars
  BY <1>1
<1> QED
  BY <1>2, Invariance, PTL DEF Spec, PeekSeesNext

----------------------------------------------------------------------------
(* RxBuffer implements ByteStream.                                         *)

(* Nothing has arrived and nothing been read.                              *)
LEMMA InitStream == Init => Stream!StreamInit
  BY DEF Init, Stream!StreamInit

(* A step of the helpers reads the next byte, sees the failure, or changes *)
(* nothing of the stream.                                                  *)
LEMMA ProgressStream ==
  ASSUME Careful, IInv, Progress
  PROVE  Stream!StreamNext \/ UNCHANGED <<arrived, got, broken>>
<1> USE DEF mainVars, bufVars, devVars, histVars
<1>1. CASE Read \/ LineRead
  <2>1. Take /\ Peeking
    BY <1>1 DEF Read, LineRead, Go, Peeking
  <2>2. CASE sd \in broken
    BY <2>1, <2>2 DEF Take
  <2>3. CASE sd \notin broken
    <3>1. got' = [got EXCEPT ![sd] = Append(@, Stream!NextByte(sd))]
      BY <2>1, <2>3, TakeNext DEF Take, Stream!NextByte
    <3>2. Len(got[sd]) < arrived[sd] /\ sd \in Conns
      <4>1. Len(got[sd]) < taken[sd] /\ taken[sd] <= arrived[sd]
        BY <2>1, <2>3, TakeNext DEF IInv, TypeOK, CountInv, Ordered
      <4>2. Len(got[sd]) \in Nat /\ taken[sd] \in Nat /\ arrived[sd] \in Nat
        BY DEF IInv, TypeOK
      <4> QED
        BY <4>1, <4>2 DEF IInv, TypeOK
    <3>3. Stream!ByteRead(sd)
      BY <2>1, <2>3, <3>1, <3>2 DEF Take, Stream!ByteRead
    <3> QED
      BY <3>2, <3>3 DEF Stream!StreamNext
  <2> QED
    BY <2>2, <2>3
<1>2. CASE FillFails
  <2>1. CASE sd \in broken
    BY <1>2, <2>1 DEF FillFails
  <2>2. CASE sd \notin broken
    <3>1. sd \in open /\ sd \in Conns /\ buf_siz = rx_ptr
      BY <1>2 DEF FillFails, Peeking, MustFill, IInv, TypeOK, SocketInv
    <3>2. taken[sd] = Len(got[sd])
      BY <2>2, <3>1 DEF IInv, TypeOK, CountInv, Kept
    <3>3. Len(got[sd]) = arrived[sd]
      BY <1>2, <3>2 DEF FillFails
    <3>4. Stream!Breaks(sd)
      BY <1>2, <2>2, <3>3 DEF FillFails, Stream!Breaks
    <3> QED
      BY <3>1, <3>4 DEF Stream!StreamNext
  <2> QED
    BY <2>1, <2>2
<1>3. CASE \E n \in 1 .. BUFFER_SIZE : Fill(n)
  BY <1>3 DEF Fill
<1>4. CASE Peek \/ LineMore \/ LineFull \/ LineNoData
  BY <1>4 DEF Peek, LineMore, LineFull, LineNoData
<1> QED
  BY <1>1, <1>2, <1>3, <1>4 DEF Progress

(* A byte that arrives arrives; the application changes nothing.           *)
LEMMA OthersStream ==
  ASSUME IInv, Application \/ Peers
  PROVE  Stream!StreamNext \/ UNCHANGED <<arrived, got, broken>>
<1> USE DEF mainVars, bufVars, devVars, histVars
<1>1. CASE Application
  BY <1>1
     DEF Application, Connect, ConnectFails, Accept, Close, Ask, BeginLine,
              Call
<1>2. ASSUME NEW c \in Conns, Arrive(c)
      PROVE  Stream!StreamNext
  <2>1. Stream!ByteArrives(c)
    BY <1>2 DEF Arrive, Stream!ByteArrives, IInv, TypeOK
  <2> QED
    BY <2>1 DEF Stream!StreamNext
<1>3. ASSUME NEW c \in Conns, PeerCloses(c)
      PROVE  UNCHANGED <<arrived, got, broken>>
  BY <1>3 DEF PeerCloses
<1> QED
  BY <1>1, <1>2, <1>3 DEF Peers

(* A careful application gets the stream of every connection it reads.     *)
THEOREM Implements == Careful => (Spec => InOrder)
<1> SUFFICES ASSUME Careful PROVE Spec => InOrder
  OBVIOUS
<1>1. UNCHANGED vars => UNCHANGED <<arrived, got, broken>>
  BY DEF vars, devVars, histVars
<1>2. IInv /\ [Next]_vars => [Stream!StreamNext]_(<<arrived, got, broken>>)
  BY <1>1, ProgressStream, OthersStream DEF Next
<1> QED
  BY <1>2, InitStream, Invariance, PTL
     DEF Spec, InOrder, Stream!StreamSpec, Stream!streamVars

============================================================================
