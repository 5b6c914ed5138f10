------------------------- MODULE FlowControlProofs -------------------------
(***************************************************************************)
(* The safety of FlowControl for any sockets, any size of the device's     *)
(* pool, and counters of any width that exceeds it.                        *)
(***************************************************************************)
EXTENDS FlowControl, TLAPS

----------------------------------------------------------------------------
(* The inductive invariant.                                                *)

(* A buffer has been taken, and its packet is not in the device yet. *)
Taken == pc \in {"count", "transmit"}

(* Packets the host has counted and the device has not reported. *)
Unreleased == held + pending + (IF pc = "transmit" THEN 1 ELSE 0)

(* NumberOfSentPackets is ahead of NumberOfReleasedPackets by just those,  *)
(* modulo the width of the counters.                                       *)
CountInv ==
  pc # "off" => \/ sent = released + Unreleased
                \/ sent = released + Unreleased - CounterMod

(* Between the pool's size and what the loop needs: a race may lose        *)
(* credits, but never the two that the decrement starts from.              *)
CreditInv ==
  /\ pc \in {"off", "starting"} => held = 0 /\ pending = 0
  /\ pc \notin {"off", "starting"} =>
       /\ free >= 1
       /\ Credits + (IF Taken THEN 1 ELSE 0) \in 2 .. Buffers
  /\ pc = "loadFree" => free >= 2
  /\ pc = "storeFree" => 2 <= tmp /\ tmp <= free

(* A socket the application does not have open is marked inactive, or is   *)
(* being marked.                                                           *)
StatusInv ==
  /\ Socks \ open \subseteq
       inactive \cup (IF pc \in {"loadBits", "storeBits"} THEN {sd} ELSE {})
  /\ pc = "storeBits" => Socks \ open \subseteq bits \cup {sd}
  /\ pc \in {"loadBits", "storeBits"} /\ setTo = "ACTIVE" => sd \in open
  /\ pc \in {"checkFree", "loadFree", "storeFree", "count", "transmit"}
       => sd \in open

IInv == TypeOK /\ CountInv /\ CreditInv /\ StatusInv

----------------------------------------------------------------------------
(* Every action preserves it.                                              *)

(* Nothing is sent, taken or marked before wlan_start.                     *)
LEMMA InitInv == Init => IInv
<1> SUFFICES ASSUME Init PROVE IInv
  OBVIOUS
<1> USE BuffersAssumption, CounterAssumption
<1>1. FlagsOK
  BY Zenon DEF Init, FlagsOK
<1>2. ValuesOK
  BY DEF Init, ValuesOK, Locations
<1>3. CountInv /\ CreditInv /\ StatusInv
  BY DEF Init, CountInv, CreditInv, StatusInv
<1> QED
  BY <1>1, <1>2, <1>3 DEF IInv, TypeOK

(* The main program in a call preserves it. *)
LEMMA ProgressInv == IInv /\ Progress => IInv'
<1> SUFFICES ASSUME IInv, Progress PROVE IInv'
  OBVIOUS
<1> USE BuffersAssumption, CounterAssumption
<1> USE DEF Go, mainVars, countVars, statusVars, devVars, IInv, TypeOK
<1>1. CASE ReadBufferSize
  <2>1. FlagsOK'
    BY <1>1, Zenon DEF FlagsOK, ReadBufferSize
  <2>2. ValuesOK'
    BY <1>1, SMTT(30) DEF ValuesOK, CreditInv, Credits,
          Taken, Locations, ReadBufferSize
  <2>3. CountInv'
    BY <1>1, SMTT(30) DEF ValuesOK, CreditInv, Credits,
          Taken, CountInv, Unreleased, ReadBufferSize
  <2>4. CreditInv'
    BY <1>1, SMTT(30) DEF ValuesOK, CreditInv, Credits,
          Taken, ReadBufferSize
  <2>5. StatusInv'
    BY <1>1, SMTT(30) DEF ValuesOK, StatusInv,
          ReadBufferSize
  <2> QED
    BY <2>1, <2>2, <2>3, <2>4, <2>5
<1>2. CASE LoadBits
  <2>1. FlagsOK'
    BY <1>2, Zenon DEF FlagsOK, LoadBits
  <2>2. ValuesOK'
    BY <1>2, SMTT(30) DEF ValuesOK, CreditInv, Credits,
          Taken, Locations, LoadBits
  <2>3. CountInv'
    BY <1>2, SMTT(30) DEF ValuesOK, CreditInv, Credits,
          Taken, CountInv, Unreleased, LoadBits
  <2>4. CreditInv'
    BY <1>2, SMTT(30) DEF ValuesOK, CreditInv, Credits,
          Taken, LoadBits
  <2>5. StatusInv'
    BY <1>2, SMTT(30) DEF ValuesOK, StatusInv, LoadBits
  <2> QED
    BY <2>1, <2>2, <2>3, <2>4, <2>5
<1>3. CASE StoreBits
  <2>1. FlagsOK'
    BY <1>3, Zenon DEF FlagsOK, StoreBits
  <2>2. ValuesOK'
    BY <1>3, SMTT(30) DEF ValuesOK, CreditInv, Credits,
          Taken, Locations, StoreBits
  <2>3. CountInv'
    BY <1>3, SMTT(30) DEF ValuesOK, CreditInv, Credits,
          Taken, CountInv, Unreleased, StoreBits
  <2>4. CreditInv'
    BY <1>3, SMTT(30) DEF ValuesOK, CreditInv, Credits,
          Taken, StoreBits
  <2>5. StatusInv'
    BY <1>3, SMTT(30) DEF ValuesOK, StatusInv, StoreBits
  <2> QED
    BY <2>1, <2>2, <2>3, <2>4, <2>5
<1>4. CASE Drained
  <2>1. FlagsOK'
    BY <1>4, Zenon DEF FlagsOK, Drained
  <2>2. ValuesOK'
    BY <1>4, SMTT(30) DEF ValuesOK, CreditInv, Credits,
          Taken, Locations, Drained
  <2>3. CountInv'
    BY <1>4, SMTT(30) DEF ValuesOK, CreditInv, Credits,
          Taken, CountInv, Unreleased, Drained
  <2>4. CreditInv'
    BY <1>4, SMTT(30) DEF ValuesOK, CreditInv, Credits,
          Taken, Drained
  <2>5. StatusInv'
    BY <1>4, SMTT(30) DEF ValuesOK, StatusInv, Drained
  <2> QED
    BY <2>1, <2>2, <2>3, <2>4, <2>5
<1>5. CASE Closed
  <2>1. FlagsOK'
    BY <1>5, Zenon DEF FlagsOK, Closed
  <2>2. ValuesOK'
    BY <1>5, SMTT(30) DEF ValuesOK, CreditInv, Credits,
          Taken, Locations, Closed
  <2>3. CountInv'
    BY <1>5, SMTT(30) DEF ValuesOK, CreditInv, Credits,
          Taken, CountInv, Unreleased, Closed
  <2>4. CreditInv'
    BY <1>5, SMTT(30) DEF ValuesOK, CreditInv, Credits,
          Taken, Closed
  <2>5. StatusInv'
    BY <1>5, SMTT(30) DEF ValuesOK, StatusInv, Closed
  <2> QED
    BY <2>1, <2>2, <2>3, <2>4, <2>5
<1>6. CASE CheckError
  <2>1. FlagsOK'
    BY <1>6, Zenon DEF FlagsOK, CheckError
  <2>2. ValuesOK'
    BY <1>6, SMTT(30) DEF ValuesOK, CreditInv, Credits,
          Taken, Locations, CheckError
  <2>3. CountInv'
    BY <1>6, SMTT(30) DEF ValuesOK, CreditInv, Credits,
          Taken, CountInv, Unreleased, CheckError
  <2>4. CreditInv'
    BY <1>6, SMTT(30) DEF ValuesOK, CreditInv, Credits,
          Taken, CheckError
  <2>5. StatusInv'
    BY <1>6, SMTT(30) DEF ValuesOK, StatusInv, CheckError
  <2> QED
    BY <2>1, <2>2, <2>3, <2>4, <2>5
<1>7. CASE ClearError
  <2>1. FlagsOK'
    BY <1>7, Zenon DEF FlagsOK, ClearError
  <2>2. ValuesOK'
    BY <1>7, SMTT(30) DEF ValuesOK, CreditInv, Credits,
          Taken, Locations, ClearError
  <2>3. CountInv'
    BY <1>7, SMTT(30) DEF ValuesOK, CreditInv, Credits,
          Taken, CountInv, Unreleased, ClearError
  <2>4. CreditInv'
    BY <1>7, SMTT(30) DEF ValuesOK, CreditInv, Credits,
          Taken, ClearError
  <2>5. StatusInv'
    BY <1>7, SMTT(30) DEF ValuesOK, StatusInv, ClearError
  <2> QED
    BY <2>1, <2>2, <2>3, <2>4, <2>5
<1>8. CASE CheckActive
  <2>1. FlagsOK'
    BY <1>8, Zenon DEF FlagsOK, CheckActive
  <2>2. ValuesOK'
    BY <1>8, SMTT(30) DEF ValuesOK, CreditInv, Credits,
          Taken, Locations, CheckActive
  <2>3. CountInv'
    BY <1>8, SMTT(30) DEF ValuesOK, CreditInv, Credits,
          Taken, CountInv, Unreleased, CheckActive
  <2>4. CreditInv'
    BY <1>8, SMTT(30) DEF ValuesOK, CreditInv, Credits,
          Taken, CheckActive
  <2>5. StatusInv'
    BY <1>8, SMTT(30) DEF ValuesOK, StatusInv, CheckActive
  <2> QED
    BY <2>1, <2>2, <2>3, <2>4, <2>5
<1>9. CASE CheckFree
  <2>1. FlagsOK'
    BY <1>9, Zenon DEF FlagsOK, CheckFree
  <2>2. ValuesOK'
    BY <1>9, SMTT(30) DEF ValuesOK, CreditInv, Credits,
          Taken, Locations, CheckFree
  <2>3. CountInv'
    BY <1>9, SMTT(30) DEF ValuesOK, CreditInv, Credits,
          Taken, CountInv, Unreleased, CheckFree
  <2>4. CreditInv'
    BY <1>9, SMTT(30) DEF ValuesOK, CreditInv, Credits,
          Taken, CheckFree
  <2>5. StatusInv'
    BY <1>9, SMTT(30) DEF ValuesOK, StatusInv, CheckFree
  <2> QED
    BY <2>1, <2>2, <2>3, <2>4, <2>5
<1>10. CASE LoadFree
  <2>1. FlagsOK'
    BY <1>10, Zenon DEF FlagsOK, LoadFree
  <2>2. ValuesOK'
    BY <1>10, SMTT(30) DEF ValuesOK, CreditInv, Credits,
          Taken, Locations, LoadFree
  <2>3. CountInv'
    BY <1>10, SMTT(30) DEF ValuesOK, CreditInv, Credits,
          Taken, CountInv, Unreleased, LoadFree
  <2>4. CreditInv'
    BY <1>10, SMTT(30) DEF ValuesOK, CreditInv, Credits,
          Taken, LoadFree
  <2>5. StatusInv'
    BY <1>10, SMTT(30) DEF ValuesOK, StatusInv, LoadFree
  <2> QED
    BY <2>1, <2>2, <2>3, <2>4, <2>5
<1>11. CASE StoreFree
  <2>1. FlagsOK'
    BY <1>11, Zenon DEF FlagsOK, StoreFree
  <2>2. ValuesOK'
    BY <1>11, SMTT(30) DEF ValuesOK, CreditInv, Credits,
          Taken, Locations, StoreFree
  <2>3. CountInv'
    BY <1>11, SMTT(30) DEF ValuesOK, CreditInv, Credits,
          Taken, CountInv, Unreleased, StoreFree
  <2>4. CreditInv'
    BY <1>11, SMTT(30) DEF ValuesOK, CreditInv, Credits,
          Taken, StoreFree
  <2>5. StatusInv'
    BY <1>11, SMTT(30) DEF ValuesOK, StatusInv, StoreFree
  <2> QED
    BY <2>1, <2>2, <2>3, <2>4, <2>5
<1>12. CASE Count
  <2>1. FlagsOK'
    BY <1>12, Zenon DEF FlagsOK, Count
  <2>2. ValuesOK'
    BY <1>12, SMTT(30) DEF ValuesOK, CreditInv, Credits,
          Taken, Locations, Count, Wrap
  <2>3. CountInv'
    BY <1>12, SMTT(30) DEF ValuesOK, CreditInv, Credits,
          Taken, CountInv, Unreleased, Count, Wrap
  <2>4. CreditInv'
    BY <1>12, SMTT(30) DEF ValuesOK, CreditInv, Credits,
          Taken, Count
  <2>5. StatusInv'
    BY <1>12, SMTT(30) DEF ValuesOK, StatusInv, Count
  <2> QED
    BY <2>1, <2>2, <2>3, <2>4, <2>5
<1>13. CASE Transmit
  <2>1. FlagsOK'
    BY <1>13, Zenon DEF FlagsOK, Transmit
  <2>2. ValuesOK'
    BY <1>13, SMTT(30) DEF ValuesOK, CreditInv, Credits,
          Taken, Locations, Transmit
  <2>3. CountInv'
    BY <1>13, SMTT(30) DEF ValuesOK, CreditInv, Credits,
          Taken, CountInv, Unreleased, Transmit
  <2>4. CreditInv'
    BY <1>13, SMTT(30) DEF ValuesOK, CreditInv, Credits,
          Taken, Transmit
  <2>5. StatusInv'
    BY <1>13, SMTT(30) DEF ValuesOK, StatusInv, Transmit
  <2> QED
    BY <2>1, <2>2, <2>3, <2>4, <2>5
<1>14. CASE Sent
  <2>1. FlagsOK'
    BY <1>14, Zenon DEF FlagsOK, Sent
  <2>2. ValuesOK'
    BY <1>14, SMTT(30) DEF ValuesOK, CreditInv, Credits,
          Taken, Locations, Sent
  <2>3. CountInv'
    BY <1>14, SMTT(30) DEF ValuesOK, CreditInv, Credits,
          Taken, CountInv, Unreleased, Sent
  <2>4. CreditInv'
    BY <1>14, SMTT(30) DEF ValuesOK, CreditInv, Credits,
          Taken, Sent
  <2>5. StatusInv'
    BY <1>14, SMTT(30) DEF ValuesOK, StatusInv, Sent
  <2> QED
    BY <2>1, <2>2, <2>3, <2>4, <2>5
<1> QED
  BY <1>1, <1>2, <1>3, <1>4, <1>5, <1>6, <1>7, <1>8, <1>9, <1>10, <1>11,
     <1>12, <1>13, <1>14 DEF Progress

(* The application preserves it. *)
LEMMA ApplicationInv == IInv /\ Application => IInv'
<1> SUFFICES ASSUME IInv, Application PROVE IInv'
  OBVIOUS
<1> USE BuffersAssumption, CounterAssumption
<1> USE DEF Go, mainVars, countVars, statusVars, devVars, IInv, TypeOK
<1>1. CASE Start
  <2>1. FlagsOK'
    BY <1>1, Zenon DEF FlagsOK, Start
  <2>2. ValuesOK'
    BY <1>1, SMTT(30) DEF ValuesOK, CreditInv, Credits,
          Taken, Locations, Start
  <2>3. CountInv'
    BY <1>1, SMTT(30) DEF ValuesOK, CreditInv, Credits,
          Taken, CountInv, Unreleased, Start
  <2>4. CreditInv'
    BY <1>1, SMTT(30) DEF ValuesOK, CreditInv, Credits,
          Taken, Start
  <2>5. StatusInv'
    BY <1>1, SMTT(30) DEF ValuesOK, StatusInv, Start
  <2> QED
    BY <2>1, <2>2, <2>3, <2>4, <2>5
<1>2. CASE Stop
  <2>1. FlagsOK'
    BY <1>2, Zenon DEF FlagsOK, Stop
  <2>2. ValuesOK'
    BY <1>2, SMTT(30) DEF ValuesOK, CreditInv, Credits,
          Taken, Locations, Stop
  <2>3. CountInv'
    BY <1>2, SMTT(30) DEF ValuesOK, CreditInv, Credits,
          Taken, CountInv, Unreleased, Stop
  <2>4. CreditInv'
    BY <1>2, SMTT(30) DEF ValuesOK, CreditInv, Credits,
          Taken, Stop
  <2>5. StatusInv'
    BY <1>2, SMTT(30) DEF ValuesOK, StatusInv, Stop
  <2> QED
    BY <2>1, <2>2, <2>3, <2>4, <2>5
<1>3. CASE SetEventMask
  <2>1. FlagsOK'
    BY <1>3, Zenon DEF FlagsOK, SetEventMask
  <2>2. ValuesOK'
    BY <1>3, SMTT(30) DEF ValuesOK, CreditInv, Credits,
          Taken, Locations, SetEventMask
  <2>3. CountInv'
    BY <1>3, SMTT(30) DEF ValuesOK, CreditInv, Credits,
          Taken, CountInv, Unreleased, SetEventMask
  <2>4. CreditInv'
    BY <1>3, SMTT(30) DEF ValuesOK, CreditInv, Credits,
          Taken, SetEventMask
  <2>5. StatusInv'
    BY <1>3, SMTT(30) DEF ValuesOK, StatusInv, SetEventMask
  <2> QED
    BY <2>1, <2>2, <2>3, <2>4, <2>5
<1>4. ASSUME NEW s \in Socks, NewSocket(s) PROVE IInv'
  <2>1. FlagsOK'
    BY <1>4, Zenon DEF FlagsOK, NewSocket
  <2>2. ValuesOK'
    BY <1>4, SMTT(30) DEF ValuesOK, CreditInv, Credits,
          Taken, Locations, NewSocket
  <2>3. CountInv'
    BY <1>4, SMTT(30) DEF ValuesOK, CreditInv, Credits,
          Taken, CountInv, Unreleased, NewSocket
  <2>4. CreditInv'
    BY <1>4, SMTT(30) DEF ValuesOK, CreditInv, Credits,
          Taken, NewSocket
  <2>5. StatusInv'
    BY <1>4, SMTT(30) DEF ValuesOK, StatusInv, NewSocket
  <2> QED
    BY <2>1, <2>2, <2>3, <2>4, <2>5
<1>5. ASSUME NEW s \in Socks, AcceptNothing(s) PROVE IInv'
  <2>1. FlagsOK'
    BY <1>5, Zenon DEF FlagsOK, AcceptNothing
  <2>2. ValuesOK'
    BY <1>5, SMTT(30) DEF ValuesOK, CreditInv, Credits,
          Taken, Locations, AcceptNothing
  <2>3. CountInv'
    BY <1>5, SMTT(30) DEF ValuesOK, CreditInv, Credits,
          Taken, CountInv, Unreleased, AcceptNothing
  <2>4. CreditInv'
    BY <1>5, SMTT(30) DEF ValuesOK, CreditInv, Credits,
          Taken, AcceptNothing
  <2>5. StatusInv'
    BY <1>5, SMTT(30) DEF ValuesOK, StatusInv,
          AcceptNothing
  <2> QED
    BY <2>1, <2>2, <2>3, <2>4, <2>5
<1>6. ASSUME NEW s \in Socks, BeginDrain(s) PROVE IInv'
  <2>1. FlagsOK'
    BY <1>6, Zenon DEF FlagsOK, BeginDrain
  <2>2. ValuesOK'
    BY <1>6, SMTT(30) DEF ValuesOK, CreditInv, Credits,
          Taken, Locations, BeginDrain
  <2>3. CountInv'
    BY <1>6, SMTT(30) DEF ValuesOK, CreditInv, Credits,
          Taken, CountInv, Unreleased, BeginDrain
  <2>4. CreditInv'
    BY <1>6, SMTT(30) DEF ValuesOK, CreditInv, Credits,
          Taken, BeginDrain
  <2>5. StatusInv'
    BY <1>6, SMTT(30) DEF ValuesOK, StatusInv, BeginDrain
  <2> QED
    BY <2>1, <2>2, <2>3, <2>4, <2>5
<1>7. ASSUME NEW s \in Socks, CloseNow(s) PROVE IInv'
  <2>1. FlagsOK'
    BY <1>7, Zenon DEF FlagsOK, CloseNow
  <2>2. ValuesOK'
    BY <1>7, SMTT(30) DEF ValuesOK, CreditInv, Credits,
          Taken, Locations, CloseNow
  <2>3. CountInv'
    BY <1>7, SMTT(30) DEF ValuesOK, CreditInv, Credits,
          Taken, CountInv, Unreleased, CloseNow
  <2>4. CreditInv'
    BY <1>7, SMTT(30) DEF ValuesOK, CreditInv, Credits,
          Taken, CloseNow
  <2>5. StatusInv'
    BY <1>7, SMTT(30) DEF ValuesOK, StatusInv, CloseNow
  <2> QED
    BY <2>1, <2>2, <2>3, <2>4, <2>5
<1>8. ASSUME NEW s \in Socks, BeginSend(s) PROVE IInv'
  <2>1. FlagsOK'
    BY <1>8, Zenon DEF FlagsOK, BeginSend
  <2>2. ValuesOK'
    BY <1>8, SMTT(30) DEF ValuesOK, CreditInv, Credits,
          Taken, Locations, BeginSend
  <2>3. CountInv'
    BY <1>8, SMTT(30) DEF ValuesOK, CreditInv, Credits,
          Taken, CountInv, Unreleased, BeginSend
  <2>4. CreditInv'
    BY <1>8, SMTT(30) DEF ValuesOK, CreditInv, Credits,
          Taken, BeginSend
  <2>5. StatusInv'
    BY <1>8, SMTT(30) DEF ValuesOK, StatusInv, BeginSend
  <2> QED
    BY <2>1, <2>2, <2>3, <2>4, <2>5
<1> QED
  BY <1>1, <1>2, <1>3, <1>4, <1>5, <1>6, <1>7, <1>8 DEF Application

(* The interrupt handler and the device preserve it. *)
LEMMA EnvironmentInv == IInv /\ (Isr \/ Device) => IInv'
<1> SUFFICES ASSUME IInv, (Isr \/ Device) PROVE IInv'
  OBVIOUS
<1> USE BuffersAssumption, CounterAssumption
<1> USE DEF Go, mainVars, countVars, statusVars, devVars, IInv, TypeOK
<1>1. CASE FreeBuff
  <2>1. FlagsOK'
    BY <1>1, Zenon DEF FlagsOK, FreeBuff
  <2>2. ValuesOK'
    BY <1>1, SMTT(30) DEF ValuesOK, CreditInv, Credits,
          Taken, Locations, FreeBuff, Wrap
  <2>3. CountInv'
    BY <1>1, SMTT(30) DEF ValuesOK, CreditInv, Credits,
          Taken, CountInv, Unreleased, FreeBuff, Wrap
  <2>4. CreditInv'
    BY <1>1, SMTT(30) DEF ValuesOK, CreditInv, Credits,
          Taken, FreeBuff
  <2>5. StatusInv'
    BY <1>1, SMTT(30) DEF ValuesOK, StatusInv, FreeBuff
  <2> QED
    BY <2>1, <2>2, <2>3, <2>4, <2>5
<1>2. ASSUME NEW s \in Socks, SendFailed(s) PROVE IInv'
  <2>1. FlagsOK'
    BY <1>2, Zenon DEF FlagsOK, SendFailed
  <2>2. ValuesOK'
    BY <1>2, SMTT(30) DEF ValuesOK, CreditInv, Credits,
          Taken, Locations, SendFailed
  <2>3. CountInv'
    BY <1>2, SMTT(30) DEF ValuesOK, CreditInv, Credits,
          Taken, CountInv, Unreleased, SendFailed
  <2>4. CreditInv'
    BY <1>2, SMTT(30) DEF ValuesOK, CreditInv, Credits,
          Taken, SendFailed
  <2>5. StatusInv'
    BY <1>2, SMTT(30) DEF ValuesOK, StatusInv, SendFailed
  <2> QED
    BY <2>1, <2>2, <2>3, <2>4, <2>5
<1>3. CASE DevTransmits
  <2>1. FlagsOK'
    BY <1>3, Zenon DEF FlagsOK, DevTransmits
  <2>2. ValuesOK'
    BY <1>3, SMTT(30) DEF ValuesOK, CreditInv, Credits,
          Taken, Locations, DevTransmits
  <2>3. CountInv'
    BY <1>3, SMTT(30) DEF ValuesOK, CreditInv, Credits,
          Taken, CountInv, Unreleased, DevTransmits
  <2>4. CreditInv'
    BY <1>3, SMTT(30) DEF ValuesOK, CreditInv, Credits,
          Taken, DevTransmits
  <2>5. StatusInv'
    BY <1>3, SMTT(30) DEF ValuesOK, StatusInv, DevTransmits
  <2> QED
    BY <2>1, <2>2, <2>3, <2>4, <2>5
<1>4. ASSUME NEW s \in Socks, DevFails(s) PROVE IInv'
  <2>1. FlagsOK'
    BY <1>4, Zenon DEF FlagsOK, DevFails
  <2>2. ValuesOK'
    BY <1>4, SMTT(30) DEF ValuesOK, CreditInv, Credits,
          Taken, Locations, DevFails
  <2>3. CountInv'
    BY <1>4, SMTT(30) DEF ValuesOK, CreditInv, Credits,
          Taken, CountInv, Unreleased, DevFails
  <2>4. CreditInv'
    BY <1>4, SMTT(30) DEF ValuesOK, CreditInv, Credits,
          Taken, DevFails
  <2>5. StatusInv'
    BY <1>4, SMTT(30) DEF ValuesOK, StatusInv, DevFails
  <2> QED
    BY <2>1, <2>2, <2>3, <2>4, <2>5
<1> QED
  BY <1>1, <1>2, <1>3, <1>4 DEF Isr, Device

(* IInv holds of every reachable state.                                    *)
THEOREM Invariance == Spec => []IInv
<1>1. IInv /\ UNCHANGED vars => IInv'
  BY DEF vars, mainVars, countVars, statusVars, devVars, IInv, TypeOK, FlagsOK,
         ValuesOK, CountInv, CreditInv, StatusInv, Credits, Taken, Unreleased
<1>2. IInv /\ [Next]_vars => IInv'
  BY <1>1, ProgressInv, ApplicationInv, EnvironmentInv DEF Next
<1> QED
  BY <1>2, InitInv, PTL DEF Spec

----------------------------------------------------------------------------
(* What follows.                                                           *)

(* usNumberOfFreeBuffers never exceeds the device's pool, and the counters *)
(* keep their width.                                                       *)
THEOREM TypeCorrect == Spec => []TypeOK
<1>1. IInv => TypeOK
  BY DEF IInv
<1> QED
  BY <1>1, Invariance, PTL

(* HostFlowControlConsumeBuff never lets a packet go to a device without a *)
(* free buffer, and it never starves for lost credits.                     *)
THEOREM FlowControlled == Spec => [](NoOverrun /\ CreditsSuffice)
<1>1. IInv => NoOverrun /\ CreditsSuffice
  BY BuffersAssumption DEF IInv, TypeOK, ValuesOK, CreditInv, Credits, Taken,
     NoOverrun, CreditsSuffice
<1> QED
  BY <1>1, Invariance, PTL

(* A socket the application closed is refused by simple_link_send.         *)
THEOREM ClosedRefused == Spec => []SendNeedsOpen
<1>1. IInv => SendNeedsOpen
  BY DEF IInv, StatusInv, SendNeedsOpen
<1> QED
  BY <1>1, Invariance, PTL

(* Equal counters mean an empty device, for the pool is smaller than the   *)
(* counters' range.                                                        *)
LEMMA EqualMeansEmpty ==
  IInv /\ pc # "off" /\ sent = released => held = 0 /\ pending = 0
<1> SUFFICES ASSUME IInv, pc # "off", sent = released
             PROVE  held = 0 /\ pending = 0
  OBVIOUS
<1>1. Unreleased \in Nat /\ Unreleased < CounterMod
  BY BuffersAssumption, CounterAssumption
     DEF IInv, TypeOK, ValuesOK, CreditInv, Credits, Taken, Unreleased
<1>2. Unreleased = 0
  BY <1>1, CounterAssumption DEF IInv, TypeOK, ValuesOK, CountInv
<1> QED
  BY <1>2 DEF IInv, TypeOK, ValuesOK, Unreleased

(* sp_close waits until the device has transmitted the last packet.        *)
THEOREM DrainSound == Spec => CloseDrained
<1>1. IInv /\ Drained => held = 0 /\ pending = 0
  BY EqualMeansEmpty DEF Drained, Go
<1>2. IInv /\ [Next]_vars => [Drained => held = 0 /\ pending = 0]_vars
  BY <1>1
<1> QED
  BY <1>2, Invariance, PTL DEF Spec, CloseDrained

(* The host hears CAN_SHUT_DOWN only when the device holds no packet.      *)
THEOREM ShutDownSound == Spec => ShutDownDrained
<1>1. (IInv /\ pc # "off" /\ sent = released => held = 0 /\ pending = 0)'
  BY EqualMeansEmpty, PTL
<1>2. ASSUME IInv, IInv', CanShutDown PROVE held = 0 /\ pending' = 0
  <2>1. released' = sent /\ sent' = sent /\ held' = held /\ pc' = pc
    BY <1>2 DEF CanShutDown, FreeBuff, mainVars
  <2>2. pc # "off"
    BY <1>2, BuffersAssumption
       DEF CanShutDown, FreeBuff, IInv, TypeOK, ValuesOK, CreditInv
  <2> QED
    BY <1>1, <1>2, <2>1, <2>2
<1>3. IInv /\ IInv' /\ [Next]_vars
        => [CanShutDown => held = 0 /\ pending' = 0]_vars
  BY <1>2
<1> QED
  BY <1>3, Invariance, PTL DEF Spec, ShutDownDrained

============================================================================
