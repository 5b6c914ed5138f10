--------------------------- MODULE HciLinkProofs ---------------------------
(***************************************************************************)
(* The safety of HciLink for every value of its constants: any unsolicited *)
(* events, any number of them, and a device of any habits.  The inductive  *)
(* invariant IInv ties the place of the main program to ulSpiState and to  *)
(* the wires; and, for a device all whose unsolicited events the handler   *)
(* knows, to where the answer of the command in progress is.               *)
(***************************************************************************)
EXTENDS HciLink, TLAPS

----------------------------------------------------------------------------
(* The inductive invariant.                                                *)

(* The main program is between SpiWrite's entry and the delivery of tx. *)
Undelivered ==
  \/ pc \in {"write", "firstIdle", "firstNegate", "writeArm", "writeUnmask"}
  \/ spi = "WRITE_IRQ"

(* The main program is inside SpiWrite. *)
Sending ==
  {"write", "firstIdle", "firstNegate", "writeArm", "writeUnmask", "writePin",
   "direct", "directNegate", "spin"}

(* An answer lies in the receive buffer and belongs to the main program. *)
Kept == received /\ rx \in AnswerPackets

(* The device runs exactly while a call may be made or is in progress, and *)
(* data is expected only in a call.                                        *)
PowerInv ==
  /\ pc \in {"off", "enable", "stopping", "closing"} => dev = "off"
  /\ pc = "waitHigh" => dev = "booting"
  /\ pc = "waitLow" => dev = IF irq = "request" THEN "on" ELSE "booting"
  /\ pc \notin {"off", "enable", "stopping", "closing", "waitHigh", "waitLow"}
       => dev = "on"
  /\ pc = "waitLow" => irq # "served"
  /\ dev # "on" => irq # "request" /\ unsol = {} /\ ans = "none"
  /\ pc \notin {"off", "closing"} => rxOpen
  /\ pc \in {"off", "enable", "waitHigh", "waitLow", "app", "stopping",
             "closing"} => ~hasData

(* ulSpiState at every place of the main program. *)
SpiInv ==
  /\ pc \in {"enable", "waitHigh"} => spi \in {"POWERUP", "INITIALIZED"}
  /\ pc = "waitLow" => spi \in {"POWERUP", "INITIALIZED"}
  /\ pc = "firstIdle" => spi = "INITIALIZED"
  /\ pc \in {"app", "stopping", "closing", "firstNegate", "writeArm",
             "direct", "directNegate", "setOpcode", "setData", "poll",
             "dispatch", "release", "resume", "patch", "check"} => spi = "IDLE"
  /\ pc = "off" => spi \in {"POWERUP", "IDLE"}
  /\ pc = "writeUnmask" => spi = "WRITE_IRQ"
  /\ pc \in {"writePin", "spin"} => spi \in {"IDLE", "WRITE_IRQ"}
  /\ spi \in {"POWERUP", "INITIALIZED"} /\ pc = "write"
       => call = "start" /\ tx = "call"

(* Chip select, the IRQ line and the edge latch. *)
LineInv ==
  /\ cs <=> spi = "WRITE_IRQ" \/ pc \in {"firstIdle", "firstNegate"}
  /\ spi = "WRITE_IRQ" => pc \in {"writeUnmask", "writePin", "spin"}
  /\ spi = "WRITE_IRQ" /\ pc # "writeUnmask" => ~masked
  /\ cs => irq # "served"
  /\ spi \in {"POWERUP", "INITIALIZED"} /\ pc # "off" => ~masked
  /\ spi \in {"POWERUP", "INITIALIZED"} /\ pc = "write" => irq = "request"
  /\ pc \in {"firstIdle", "firstNegate"} => irq = "request" /\ ~masked /\ ~latch
  /\ irq = "request" => \/ latch
                        \/ spi = "INITIALIZED"
                        \/ pc = "firstNegate"
  /\ latch /\ spi = "IDLE" => (dev = "on" /\ Readable # {}) \/ (dev = "off" /\ masked)
  /\ pc \in {"writeArm", "writeUnmask"} => masked
  /\ pc = "off" /\ spi = "POWERUP" => ~latch

(* How often the transmit buffer has reached the device. *)
TxInv ==
  /\ delivered \in {0, 1}
  /\ Undelivered => delivered = 0
  /\ pc \in {"writePin", "direct", "directNegate", "spin"} /\ spi = "IDLE"
       => delivered = 1

(* What the main program waits for, and where. *)
WaitInv ==
  /\ call = "none" => pc \in {"off", "enable", "waitHigh", "waitLow"}
  /\ hasData => /\ call = "recv" /\ evt = "none" /\ ~dataPending
                /\ pc \in {"release", "resume", "check", "setData"}
  /\ dataPending => /\ call = "recv" /\ evt = "none"
                    /\ pc \in {"poll", "dispatch", "release", "resume", "check"}
  /\ evt # "none" => /\ evt = call
                     /\ \/ pc \in {"poll", "dispatch", "release", "resume",
                                   "check", "patch"}
                        \/ tx = "patch" /\ pc \in Sending
  /\ pc \in {"poll", "dispatch"} => evt # "none" \/ dataPending
  /\ pc = "setData" => hasData
  /\ pc = "patch" => evt = "start"
  /\ tx = "patch" /\ pc \in Sending => evt = "start"
  /\ pc = "setOpcode" => tx = "call"

(* The announced data is still in the device, or in the receive buffer. *)
DataComing ==
  \/ ans = "data" /\ ~Kept
  \/ ans = "none" /\ Kept /\ rx = "data"

(* The conversation: which answer is where.  What the handler leaves in    *)
(* the buffer is an answer, and it masks until the main program has taken  *)
(* it.                                                                     *)
AnsInv ==
  /\ received => rx \in AnswerPackets
  /\ "data" \notin unsol
  /\ ans \in {"recvEvent", "recvEmpty", "data"} => call = "recv"
  /\ ans \in {"patchReq", "patchWait"} => call = "start"
  /\ ans = "cmdEvent" => call \in {"cmd", "start"}
  /\ ans \in {"sendEvent", "sendFail"} => call = "send"
  /\ Kept => /\ masked /\ ans = AnsAfter(rx)
             /\ rx = "patchReq" => call = "start"
             /\ rx \in {"recvEvent", "recvEmpty", "data"} => call = "recv"
             /\ rx # "sendFail"
  /\ Undelivered => ~Kept /\ ans = IF tx = "call" THEN "none" ELSE "patchWait"
  /\ pc \in {"off", "enable", "waitHigh", "waitLow", "app", "stopping",
             "closing"} => ~Kept /\ ans = "none"
  /\ pc \in {"dispatch", "release"} => Kept /\ rx = rcvd
  /\ pc = "resume" => /\ rcvd \in AnswerPackets /\ ans = AnsAfter(rcvd)
                      /\ rx = rcvd /\ ~received /\ masked
  /\ pc \in {"release", "resume"} /\ Return
       => /\ rcvd \in AnswerPackets \ {"patchReq"}
          /\ hasData <=> rcvd = "recvEvent"
  /\ pc = "check" /\ Return
       => IF hasData THEN DataComing ELSE ans = "none" /\ ~Kept
  /\ pc = "setData" => DataComing
  /\ dataPending => ans \in {"data", "none"} /\ (Kept => rx = "data")
  /\ pc = "patch" => ans = "patchWait" /\ ~Kept

(* The handler has known every unsolicited event since wlan_start.         *)
(* Another one it leaves to the main program, and SpiWrite then unmasks    *)
(* with usEventOrDataReceived set: the release of that event can unmask    *)
(* over an answer.                                                         *)
Known == ~unknownRead

(* What holds with or without such events, and what only without. *)
Protocol ==
  /\ PowerInv /\ SpiInv /\ LineInv /\ TxInv
  /\ ~Known => "unknown" \in Unsolicited
  /\ Known => WaitInv /\ AnsInv

IInv == TypeOK /\ Protocol

----------------------------------------------------------------------------
(* Types.                                                                  *)

(* The state before the first wlan_start is well typed.                    *)
LEMMA InitType == Init => TypeOK
<1>1. Init => FlagsOK
  BY Zenon DEF Init, FlagsOK
<1>2. Init => ValuesOK
  BY BoundAssumption DEF Init, ValuesOK, Locations, Packets
<1> QED
  BY <1>1, <1>2 DEF TypeOK

(* The interrupt handler keeps the types. *)
LEMMA IsrType == TypeOK /\ Isr => TypeOK'
<1> SUFFICES ASSUME TypeOK, Isr PROVE TypeOK'
  OBVIOUS
<1> USE UnsolAssumption, BoundAssumption
<1> USE DEF Step, Pending, PinLow, mainVars, hciVars, wireVars, devVars,
            LineAfterCs, Accepts
<1>1. CASE IsrPowerup
  <2>1. FlagsOK'
    BY <1>1, Zenon DEF TypeOK, FlagsOK, IsrPowerup
  <2>2. ValuesOK'
    BY <1>1, SMTT(30) DEF TypeOK, ValuesOK, IsrPowerup, Calls, AnswerPackets,
          Packets, Locations
  <2> QED
    BY <2>1, <2>2 DEF TypeOK
<1>2. CASE IsrIgnore
  <2>1. FlagsOK'
    BY <1>2, Zenon DEF TypeOK, FlagsOK, IsrIgnore
  <2>2. ValuesOK'
    BY <1>2, SMTT(30) DEF TypeOK, ValuesOK, IsrIgnore, Calls, AnswerPackets,
          Packets, Locations
  <2> QED
    BY <2>1, <2>2 DEF TypeOK
<1>3. CASE IsrRead
  <2>1. FlagsOK'
    BY <1>3, Zenon DEF TypeOK, FlagsOK, IsrRead, Readable, HandleReceived,
          Taken, AnsAfter, Handled, Awaited
  <2>2. ValuesOK'
    BY <1>3, SMTT(30) DEF TypeOK, ValuesOK, IsrRead, Readable, HandleReceived,
          Taken, AnsAfter, Handled, Awaited, Calls, AnswerPackets, Packets,
          Locations
  <2> QED
    BY <2>1, <2>2 DEF TypeOK
<1>4. CASE IsrWrite
  <2>1. FlagsOK'
    BY <1>4, Zenon DEF TypeOK, FlagsOK, IsrWrite
  <2>2. ValuesOK'
    BY <1>4, SMTT(30) DEF TypeOK, ValuesOK, IsrWrite, Calls, AnswerPackets,
          Packets, Locations
  <2> QED
    BY <2>1, <2>2 DEF TypeOK
<1> QED
  BY <1>1, <1>2, <1>3, <1>4
     DEF Isr

(* The main program in a call keeps the types. *)
LEMMA ProgressType == TypeOK /\ Progress => TypeOK'
<1> SUFFICES ASSUME TypeOK, Progress PROVE TypeOK'
  OBVIOUS
<1> USE UnsolAssumption, BoundAssumption
<1> USE DEF Step, Pending, PinLow, mainVars, hciVars, wireVars, devVars,
            LineAfterCs, Accepts
<1>1. CASE StartEnable
  <2>1. FlagsOK'
    BY <1>1, Zenon DEF TypeOK, FlagsOK, StartEnable
  <2>2. ValuesOK'
    BY <1>1, SMTT(30) DEF TypeOK, ValuesOK, StartEnable, Calls, AnswerPackets,
          Packets, Locations
  <2> QED
    BY <2>1, <2>2 DEF TypeOK
<1>2. CASE StartWaitHigh
  <2>1. FlagsOK'
    BY <1>2, Zenon DEF TypeOK, FlagsOK, StartWaitHigh
  <2>2. ValuesOK'
    BY <1>2, SMTT(30) DEF TypeOK, ValuesOK, StartWaitHigh, Calls,
          AnswerPackets, Packets, Locations
  <2> QED
    BY <2>1, <2>2 DEF TypeOK
<1>3. CASE StartWaitLow
  <2>1. FlagsOK'
    BY <1>3, Zenon DEF TypeOK, FlagsOK, StartWaitLow
  <2>2. ValuesOK'
    BY <1>3, SMTT(30) DEF TypeOK, ValuesOK, StartWaitLow, Calls,
          AnswerPackets, Packets, Locations
  <2> QED
    BY <2>1, <2>2 DEF TypeOK
<1>4. CASE StopClose
  <2>1. FlagsOK'
    BY <1>4, Zenon DEF TypeOK, FlagsOK, StopClose
  <2>2. ValuesOK'
    BY <1>4, SMTT(30) DEF TypeOK, ValuesOK, StopClose, Calls, AnswerPackets,
          Packets, Locations
  <2> QED
    BY <2>1, <2>2 DEF TypeOK
<1>5. CASE StopMask
  <2>1. FlagsOK'
    BY <1>5, Zenon DEF TypeOK, FlagsOK, StopMask
  <2>2. ValuesOK'
    BY <1>5, SMTT(30) DEF TypeOK, ValuesOK, StopMask, Calls, AnswerPackets,
          Packets, Locations
  <2> QED
    BY <2>1, <2>2 DEF TypeOK
<1>6. CASE FirstWrite
  <2>1. FlagsOK'
    BY <1>6, Zenon DEF TypeOK, FlagsOK, FirstWrite
  <2>2. ValuesOK'
    BY <1>6, SMTT(30) DEF TypeOK, ValuesOK, FirstWrite, Calls, AnswerPackets,
          Packets, Locations
  <2> QED
    BY <2>1, <2>2 DEF TypeOK
<1>7. CASE FirstWriteIdle
  <2>1. FlagsOK'
    BY <1>7, Zenon DEF TypeOK, FlagsOK, FirstWriteIdle
  <2>2. ValuesOK'
    BY <1>7, SMTT(30) DEF TypeOK, ValuesOK, FirstWriteIdle, Calls,
          AnswerPackets, Packets, Locations
  <2> QED
    BY <2>1, <2>2 DEF TypeOK
<1>8. CASE FirstWriteNegate
  <2>1. FlagsOK'
    BY <1>8, Zenon DEF TypeOK, FlagsOK, FirstWriteNegate
  <2>2. ValuesOK'
    BY <1>8, SMTT(30) DEF TypeOK, ValuesOK, FirstWriteNegate, Calls,
          AnswerPackets, Packets, Locations
  <2> QED
    BY <2>1, <2>2 DEF TypeOK
<1>9. CASE WriteMask
  <2>1. FlagsOK'
    BY <1>9, Zenon DEF TypeOK, FlagsOK, WriteMask
  <2>2. ValuesOK'
    BY <1>9, SMTT(30) DEF TypeOK, ValuesOK, WriteMask, Calls, AnswerPackets,
          Packets, Locations
  <2> QED
    BY <2>1, <2>2 DEF TypeOK
<1>10. CASE WriteArm
  <2>1. FlagsOK'
    BY <1>10, Zenon DEF TypeOK, FlagsOK, WriteArm
  <2>2. ValuesOK'
    BY <1>10, SMTT(30) DEF TypeOK, ValuesOK, WriteArm, Calls, AnswerPackets,
          Packets, Locations
  <2> QED
    BY <2>1, <2>2 DEF TypeOK
<1>11. CASE WriteUnmask
  <2>1. FlagsOK'
    BY <1>11, Zenon DEF TypeOK, FlagsOK, WriteUnmask
  <2>2. ValuesOK'
    BY <1>11, SMTT(30) DEF TypeOK, ValuesOK, WriteUnmask, Calls,
          AnswerPackets, Packets, Locations
  <2> QED
    BY <2>1, <2>2 DEF TypeOK
<1>12. CASE WriteCheckPin
  <2>1. FlagsOK'
    BY <1>12, Zenon DEF TypeOK, FlagsOK, WriteCheckPin
  <2>2. ValuesOK'
    BY <1>12, SMTT(30) DEF TypeOK, ValuesOK, WriteCheckPin, Calls,
          AnswerPackets, Packets, Locations
  <2> QED
    BY <2>1, <2>2 DEF TypeOK
<1>13. CASE DirectIdle
  <2>1. FlagsOK'
    BY <1>13, Zenon DEF TypeOK, FlagsOK, DirectIdle
  <2>2. ValuesOK'
    BY <1>13, SMTT(30) DEF TypeOK, ValuesOK, DirectIdle, Calls, AnswerPackets,
          Packets, Locations
  <2> QED
    BY <2>1, <2>2 DEF TypeOK
<1>14. CASE DirectNegate
  <2>1. FlagsOK'
    BY <1>14, Zenon DEF TypeOK, FlagsOK, DirectNegate
  <2>2. ValuesOK'
    <3>1. UNCHANGED <<call, tx, rcvd, rx, evt, spi, dev, budget>>
      BY <1>14 DEF DirectNegate
    <3>2. pc' = "spin" /\ irq' \in {"high", "served", irq}
      BY <1>14 DEF DirectNegate
    <3>3. /\ ans' \in {ans, "think"} /\ unsol' \in {unsol, unsol \cup {"data"}}
          /\ delivered' \in {delivered, delivered + 1}
      BY <1>14 DEF DirectNegate
    <3> QED
      BY <3>1, <3>2, <3>3 DEF TypeOK, ValuesOK, Locations
  <2> QED
    BY <2>1, <2>2 DEF TypeOK
<1>15. CASE WriteSpin
  <2>1. FlagsOK'
    BY <1>15, Zenon DEF TypeOK, FlagsOK, WriteSpin
  <2>2. ValuesOK'
    BY <1>15, SMTT(30) DEF TypeOK, ValuesOK, WriteSpin, Calls, AnswerPackets,
          Packets, Locations
  <2> QED
    BY <2>1, <2>2 DEF TypeOK
<1>16. CASE WaitEvent
  <2>1. FlagsOK'
    BY <1>16, Zenon DEF TypeOK, FlagsOK, WaitEvent
  <2>2. ValuesOK'
    BY <1>16, SMTT(30) DEF TypeOK, ValuesOK, WaitEvent, Calls, AnswerPackets,
          Packets, Locations
  <2> QED
    BY <2>1, <2>2 DEF TypeOK
<1>17. CASE WaitData
  <2>1. FlagsOK'
    BY <1>17, Zenon DEF TypeOK, FlagsOK, WaitData
  <2>2. ValuesOK'
    BY <1>17, SMTT(30) DEF TypeOK, ValuesOK, WaitData, Calls, AnswerPackets,
          Packets, Locations
  <2> QED
    BY <2>1, <2>2 DEF TypeOK
<1>18. CASE Poll
  <2>1. FlagsOK'
    BY <1>18, Zenon DEF TypeOK, FlagsOK, Poll
  <2>2. ValuesOK'
    BY <1>18, SMTT(30) DEF TypeOK, ValuesOK, Poll, Calls, AnswerPackets,
          Packets, Locations
  <2> QED
    BY <2>1, <2>2 DEF TypeOK
<1>19. CASE Dispatch
  <2>1. FlagsOK'
    BY <1>19, Zenon DEF TypeOK, FlagsOK, Dispatch, Handled, Awaited,
          Announced
  <2>2. ValuesOK'
    BY <1>19, SMTT(30) DEF TypeOK, ValuesOK, Dispatch, Handled, Awaited,
          Calls, AnswerPackets, Packets, Locations
  <2> QED
    BY <2>1, <2>2 DEF TypeOK
<1>20. CASE Release
  <2>1. FlagsOK'
    BY <1>20, Zenon DEF TypeOK, FlagsOK, Release
  <2>2. ValuesOK'
    BY <1>20, SMTT(30) DEF TypeOK, ValuesOK, Release, Calls, AnswerPackets,
          Packets, Locations
  <2> QED
    BY <2>1, <2>2 DEF TypeOK
<1>26. CASE Resume
  <2>1. FlagsOK'
    BY <1>26, Zenon DEF TypeOK, FlagsOK, Resume
  <2>2. ValuesOK'
    BY <1>26, SMTT(30) DEF TypeOK, ValuesOK, Resume, Calls, AnswerPackets,
          Packets, Locations
  <2> QED
    BY <2>1, <2>2 DEF TypeOK
<1>21. CASE HandlePatch
  <2>1. FlagsOK'
    BY <1>21, Zenon DEF TypeOK, FlagsOK, HandlePatch
  <2>2. ValuesOK'
    BY <1>21, SMTT(30) DEF TypeOK, ValuesOK, HandlePatch, Calls,
          AnswerPackets, Packets, Locations
  <2> QED
    BY <2>1, <2>2 DEF TypeOK
<1>22. CASE CheckAgain
  <2>1. FlagsOK'
    BY <1>22, Zenon DEF TypeOK, FlagsOK, CheckAgain, Return
  <2>2. ValuesOK'
    BY <1>22, SMTT(30) DEF TypeOK, ValuesOK, CheckAgain, Return, Calls,
          AnswerPackets, Packets, Locations
  <2> QED
    BY <2>1, <2>2 DEF TypeOK
<1>23. CASE CheckData
  <2>1. FlagsOK'
    BY <1>23, Zenon DEF TypeOK, FlagsOK, CheckData, Return
  <2>2. ValuesOK'
    BY <1>23, SMTT(30) DEF TypeOK, ValuesOK, CheckData, Return, Calls,
          AnswerPackets, Packets, Locations
  <2> QED
    BY <2>1, <2>2 DEF TypeOK
<1>24. CASE CheckStart
  <2>1. FlagsOK'
    BY <1>24, Zenon DEF TypeOK, FlagsOK, CheckStart, Return
  <2>2. ValuesOK'
    BY <1>24, SMTT(30) DEF TypeOK, ValuesOK, CheckStart, Return, Calls,
          AnswerPackets, Packets, Locations
  <2> QED
    BY <2>1, <2>2 DEF TypeOK
<1>25. CASE CheckDone
  <2>1. FlagsOK'
    BY <1>25, Zenon DEF TypeOK, FlagsOK, CheckDone, Return
  <2>2. ValuesOK'
    BY <1>25, SMTT(30) DEF TypeOK, ValuesOK, CheckDone, Return, Calls,
          AnswerPackets, Packets, Locations
  <2> QED
    BY <2>1, <2>2 DEF TypeOK
<1> QED
  BY <1>1, <1>2, <1>3, <1>4, <1>5, <1>6, <1>7, <1>8, <1>9, <1>10, <1>11,
     <1>12, <1>13, <1>14, <1>15, <1>16, <1>17, <1>18, <1>19, <1>20, <1>21,
     <1>22, <1>23, <1>24, <1>25, <1>26
     DEF Progress

(* The application keeps the types. *)
LEMMA ApplicationType == TypeOK /\ Application => TypeOK'
<1> SUFFICES ASSUME TypeOK, Application PROVE TypeOK'
  OBVIOUS
<1> USE UnsolAssumption, BoundAssumption
<1> USE DEF Step, Pending, PinLow, mainVars, hciVars, wireVars, devVars,
            LineAfterCs, Accepts
<1>1. CASE StartOpen
  <2>1. FlagsOK'
    BY <1>1, Zenon DEF TypeOK, FlagsOK, StartOpen
  <2>2. ValuesOK'
    BY <1>1, SMTT(30) DEF TypeOK, ValuesOK, StartOpen, Calls, AnswerPackets,
          Packets, Locations
  <2> QED
    BY <2>1, <2>2 DEF TypeOK
<1>2. CASE StopDisable
  <2>1. FlagsOK'
    BY <1>2, Zenon DEF TypeOK, FlagsOK, StopDisable
  <2>2. ValuesOK'
    BY <1>2, SMTT(30) DEF TypeOK, ValuesOK, StopDisable, Calls, AnswerPackets,
          Packets, Locations
  <2> QED
    BY <2>1, <2>2 DEF TypeOK
<1>3. ASSUME NEW c \in Calls, BeginCall(c) PROVE TypeOK'
  <2>1. FlagsOK'
    BY <1>3, Zenon DEF TypeOK, FlagsOK, BeginCall
  <2>2. ValuesOK'
    BY <1>3, SMTT(30) DEF TypeOK, ValuesOK, BeginCall, Calls, AnswerPackets,
          Packets, Locations
  <2> QED
    BY <2>1, <2>2 DEF TypeOK
<1> QED
  BY <1>1, <1>2, <1>3
     DEF Application

(* The device keeps the types. *)
LEMMA DeviceType == TypeOK /\ Device => TypeOK'
<1> SUFFICES ASSUME TypeOK, Device PROVE TypeOK'
  OBVIOUS
<1> USE UnsolAssumption, BoundAssumption
<1> USE DEF Step, Pending, PinLow, mainVars, hciVars, wireVars, devVars,
            LineAfterCs, Accepts
<1>1. CASE DevBoot
  <2>1. FlagsOK'
    BY <1>1, Zenon DEF TypeOK, FlagsOK, DevBoot
  <2>2. ValuesOK'
    BY <1>1, SMTT(30) DEF TypeOK, ValuesOK, DevBoot, Calls, AnswerPackets,
          Packets, Locations
  <2> QED
    BY <2>1, <2>2 DEF TypeOK
<1>2. CASE DevRaise
  <2>1. FlagsOK'
    BY <1>2, Zenon DEF TypeOK, FlagsOK, DevRaise
  <2>2. ValuesOK'
    BY <1>2, SMTT(30) DEF TypeOK, ValuesOK, DevRaise, Calls, AnswerPackets,
          Packets, Locations
  <2> QED
    BY <2>1, <2>2 DEF TypeOK
<1>3. CASE DevLower
  <2>1. FlagsOK'
    BY <1>3, Zenon DEF TypeOK, FlagsOK, DevLower, Readable
  <2>2. ValuesOK'
    BY <1>3, SMTT(30) DEF TypeOK, ValuesOK, DevLower, Readable, Calls,
          AnswerPackets, Packets, Locations
  <2> QED
    BY <2>1, <2>2 DEF TypeOK
<1>4. CASE DevAnswer
  <2>1. FlagsOK'
    BY <1>4, Zenon DEF TypeOK, FlagsOK, DevAnswer, AnswersTo, OpcodeIs
  <2>2. ValuesOK'
    BY <1>4, SMTT(30) DEF TypeOK, ValuesOK, DevAnswer, AnswersTo, OpcodeIs,
          Calls, AnswerPackets, Packets, Locations
  <2> QED
    BY <2>1, <2>2 DEF TypeOK
<1>5. CASE DevAskPatch
  <2>1. FlagsOK'
    BY <1>5, Zenon DEF TypeOK, FlagsOK, DevAskPatch
  <2>2. ValuesOK'
    BY <1>5, SMTT(30) DEF TypeOK, ValuesOK, DevAskPatch, Calls, AnswerPackets,
          Packets, Locations
  <2> QED
    BY <2>1, <2>2 DEF TypeOK
<1>6. ASSUME NEW k \in Unsolicited, DevUnsolicited(k) PROVE TypeOK'
  <2>1. FlagsOK'
    BY <1>6, Zenon DEF TypeOK, FlagsOK, DevUnsolicited
  <2>2. ValuesOK'
    BY <1>6, SMTT(30) DEF TypeOK, ValuesOK, DevUnsolicited, Calls,
          AnswerPackets, Packets, Locations
  <2> QED
    BY <2>1, <2>2 DEF TypeOK
<1> QED
  BY <1>1, <1>2, <1>3, <1>4, <1>5, <1>6
     DEF Device, DevReacts

(* Every variable of the link keeps its type, whatever the device does.    *)
THEOREM TypeCorrect == Spec => []TypeOK
<1>1. TypeOK /\ UNCHANGED vars => TypeOK'
  BY DEF TypeOK, FlagsOK, ValuesOK, vars, mainVars, hciVars, wireVars, devVars
<1>2. TypeOK /\ [Next]_vars => TypeOK'
  BY <1>1, IsrType, ProgressType, ApplicationType, DeviceType DEF Next
<1> QED
  BY <1>2, InitType, PTL DEF Spec

----------------------------------------------------------------------------
(* The protocol.                                                           *)

(* Before the first wlan_start nothing is on the wires.                     *)
LEMMA InitProtocol == Init => Protocol
<1>1. Init => PowerInv /\ SpiInv /\ LineInv /\ TxInv /\ WaitInv
  BY DEF Init, PowerInv, SpiInv, LineInv, TxInv, Undelivered, WaitInv, Sending
<1>2. Init => AnsInv
  BY DEF Init, AnsInv, Kept, Undelivered, Return, DataComing
<1>3. Init => Known
  BY DEF Init, Known
<1> QED
  BY <1>1, <1>2, <1>3 DEF Protocol

(* The interrupt handler keeps the protocol. *)
LEMMA IsrProtocol == IInv /\ Isr => Protocol'
<1> SUFFICES ASSUME IInv, Isr PROVE Protocol'
  OBVIOUS
<1> USE UnsolAssumption, BoundAssumption
<1> USE DEF Step, Pending, PinLow, mainVars, hciVars, wireVars, devVars,
            LineAfterCs, Accepts, AnsAfter, AnswerPackets, Packets, IInv,
            TypeOK, ValuesOK, Protocol, PowerInv, SpiInv, LineInv, TxInv,
            WaitInv, AnsInv, Kept, Undelivered, Sending, DataComing, Readable,
            Return, Known
<1>1. CASE IsrPowerup
  <2>1. PowerInv'
    BY <1>1, SMTT(30) DEF IsrPowerup
  <2>2. SpiInv'
    BY <1>1, SMTT(30) DEF IsrPowerup
  <2>3. LineInv'
    BY <1>1, SMTT(30) DEF IsrPowerup
  <2>4. TxInv'
    BY <1>1, SMTT(30) DEF IsrPowerup
  <2>5. Known' => WaitInv'
    BY <1>1, SMTT(30) DEF IsrPowerup
  <2>6. Known' => AnsInv'
    BY <1>1, SMTT(30) DEF IsrPowerup
  <2>7. ~Known' => "unknown" \in Unsolicited
    BY <1>1, SMTT(30) DEF IsrPowerup
  <2> QED
    BY <2>1, <2>2, <2>3, <2>4, <2>5, <2>6, <2>7
<1>2. CASE IsrIgnore
  <2>1. PowerInv'
    BY <1>2, SMTT(30) DEF IsrIgnore
  <2>2. SpiInv'
    BY <1>2, SMTT(30) DEF IsrIgnore
  <2>3. LineInv'
    BY <1>2, SMTT(30) DEF IsrIgnore
  <2>4. TxInv'
    BY <1>2, SMTT(30) DEF IsrIgnore
  <2>5. Known' => WaitInv'
    BY <1>2, SMTT(30) DEF IsrIgnore
  <2>6. Known' => AnsInv'
    BY <1>2, SMTT(30) DEF IsrIgnore
  <2>7. ~Known' => "unknown" \in Unsolicited
    BY <1>2, SMTT(30) DEF IsrIgnore
  <2> QED
    BY <2>1, <2>2, <2>3, <2>4, <2>5, <2>6, <2>7
<1>3. CASE IsrRead
  <2>1. PowerInv'
    BY <1>3, SMTT(30) DEF IsrRead, HandleReceived, Taken, Handled, Awaited,
          OpcodeIs, FlagsOK
  <2>2. SpiInv'
    BY <1>3, SMTT(30) DEF IsrRead, HandleReceived, Taken, Handled, Awaited,
          OpcodeIs, FlagsOK
  <2>3. LineInv'
    BY <1>3, SMTT(30) DEF IsrRead, HandleReceived, Taken, Handled, Awaited,
          OpcodeIs, FlagsOK
  <2>4. TxInv'
    BY <1>3, SMTT(30) DEF IsrRead, HandleReceived, Taken, Handled, Awaited,
          OpcodeIs, FlagsOK
  <2>5. Known' => WaitInv'
    BY <1>3, SMTT(30) DEF IsrRead, HandleReceived, Taken, Handled, Awaited,
          OpcodeIs, FlagsOK
  <2>6. ASSUME Known' PROVE AnsInv'
    <3>1. PICK p \in IF Readable = {} THEN {"junk"} ELSE Readable :
            rx' = p /\ HandleReceived(p) /\ Taken(p)
      BY <1>3, SMTT(30) DEF IsrRead
    <3>2. /\ latch /\ ~masked /\ spi = "IDLE" /\ spi' = spi
          /\ UNCHANGED <<pc, call, tx, rcvd, hasData, evt, dataPending>>
      BY <1>3, SMTT(30) DEF IsrRead
    <3>6. ~unknownRead /\ rx' # "unknown"
      BY <1>3, <2>6, Zenon DEF IsrRead
    <3>3. p \in Readable /\ ~received /\ WaitInv /\ AnsInv
      <4>1. WaitInv /\ AnsInv
        BY <3>6, Zenon
      <4>2. ~received
        BY <3>2, <4>1, SMTT(30)
      <4>3. LineInv
        BY Zenon
      <4> HIDE DEF Readable
      <4>4. Readable # {}
        BY <3>2, <4>3, SMTT(30)
      <4> QED
        BY <3>1, <4>1, <4>2, <4>4, Zenon
    <3>4. CASE p \in unsol
      <4>1. p \in {"free", "async"}
        BY <3>1, <3>3, <3>4, <3>6, SMTT(30)
      <4>2. Handled(p) /\ ans # p
        BY <4>1, SMTT(30) DEF Handled
      <4>3. received' = FALSE
        BY <3>1, <4>2, Zenon DEF HandleReceived
      <4>4. ans' = ans /\ unsol' \subseteq unsol
        BY <3>1, <4>2, SMTT(30) DEF Taken
      <4> QED
        BY <3>2, <3>3, <4>3, <4>4, SMTT(30)
    <3>5. CASE p \notin unsol /\ p = ans /\ p \in AnswerPackets
      <4>1. ans' = AnsAfter(p) /\ unsol' \subseteq unsol
        BY <3>1, <3>5, SMTT(30) DEF Taken
      <4>2. CASE Handled(p)
        <5>1. received' = FALSE
          BY <3>1, <4>2, Zenon DEF HandleReceived
        <5> QED
          BY <3>2, <3>3, <3>5, <4>1, <4>2, <5>1, SMTT(30)
             DEF Handled, Awaited, OpcodeIs
      <4>3. CASE ~Handled(p)
        <5>1. received' = TRUE /\ masked' = TRUE
          BY <3>1, <4>3, Zenon DEF HandleReceived
        <5> QED
          BY <3>1, <3>2, <3>3, <3>5, <4>1, <4>3, <5>1, SMTT(30)
             DEF Handled, Awaited, OpcodeIs
      <4> QED BY <4>2, <4>3
    <3> QED
      BY <3>3, <3>4, <3>5
  <2>7. ~Known' => "unknown" \in Unsolicited
    BY <1>3, SMTT(30) DEF IsrRead, HandleReceived, Taken, Handled, Awaited,
          OpcodeIs, FlagsOK
  <2> QED
    BY <2>1, <2>2, <2>3, <2>4, <2>5, <2>6, <2>7
<1>4. CASE IsrWrite
  <2>1. PowerInv'
    BY <1>4, SMTT(30) DEF IsrWrite
  <2>2. SpiInv'
    BY <1>4, SMTT(30) DEF IsrWrite
  <2>3. LineInv'
    BY <1>4, SMTT(30) DEF IsrWrite
  <2>4. TxInv'
    BY <1>4, SMTT(30) DEF IsrWrite
  <2>5. Known' => WaitInv'
    BY <1>4, SMTT(30) DEF IsrWrite
  <2>6. Known' => AnsInv'
    BY <1>4, SMTT(30) DEF IsrWrite
  <2>7. ~Known' => "unknown" \in Unsolicited
    BY <1>4, SMTT(30) DEF IsrWrite
  <2> QED
    BY <2>1, <2>2, <2>3, <2>4, <2>5, <2>6, <2>7
<1> QED
  BY <1>1, <1>2, <1>3, <1>4
     DEF Isr

(* The main program in a call keeps the protocol. *)
LEMMA ProgressProtocol == IInv /\ Progress => Protocol'
<1> SUFFICES ASSUME IInv, Progress PROVE Protocol'
  OBVIOUS
<1> USE UnsolAssumption, BoundAssumption
<1> USE DEF Step, Pending, PinLow, mainVars, hciVars, wireVars, devVars,
            LineAfterCs, Accepts, AnsAfter, AnswerPackets, Packets, IInv,
            TypeOK, ValuesOK, Protocol, PowerInv, SpiInv, LineInv, TxInv,
            WaitInv, AnsInv, Kept, Undelivered, Sending, DataComing, Readable,
            Return, Known
<1>1. CASE StartEnable
  BY <1>1, SMTT(30) DEF StartEnable
<1>2. CASE StartWaitHigh
  BY <1>2, SMTT(30) DEF StartWaitHigh
<1>3. CASE StartWaitLow
  BY <1>3, SMTT(30) DEF StartWaitLow
<1>4. CASE StopClose
  <2>1. PowerInv'
    BY <1>4, SMTT(30) DEF StopClose
  <2>2. SpiInv'
    BY <1>4, SMTT(30) DEF StopClose
  <2>3. LineInv'
    BY <1>4, SMTT(30) DEF StopClose
  <2>4. TxInv'
    BY <1>4, SMTT(30) DEF StopClose
  <2>5. Known' => WaitInv'
    BY <1>4, SMTT(30) DEF StopClose
  <2>6. Known' => AnsInv'
    BY <1>4, SMTT(30) DEF StopClose
  <2>7. ~Known' => "unknown" \in Unsolicited
    BY <1>4, SMTT(30) DEF StopClose
  <2> QED
    BY <2>1, <2>2, <2>3, <2>4, <2>5, <2>6, <2>7
<1>5. CASE StopMask
  BY <1>5, SMTT(30) DEF StopMask
<1>6. CASE FirstWrite
  BY <1>6, SMTT(30) DEF FirstWrite
<1>7. CASE FirstWriteIdle
  BY <1>7, SMTT(30) DEF FirstWriteIdle
<1>8. CASE FirstWriteNegate
  <2>1. PowerInv'
    BY <1>8, SMTT(30) DEF FirstWriteNegate
  <2>2. SpiInv'
    BY <1>8, SMTT(30) DEF FirstWriteNegate
  <2>3. LineInv'
    BY <1>8, SMTT(30) DEF FirstWriteNegate
  <2>4. TxInv'
    BY <1>8, SMTT(30) DEF FirstWriteNegate
  <2>5. Known' => WaitInv'
    BY <1>8, SMTT(30) DEF FirstWriteNegate
  <2>6. Known' => AnsInv'
    BY <1>8, SMTT(30) DEF FirstWriteNegate
  <2>7. ~Known' => "unknown" \in Unsolicited
    BY <1>8, SMTT(30) DEF FirstWriteNegate
  <2> QED
    BY <2>1, <2>2, <2>3, <2>4, <2>5, <2>6, <2>7
<1>9. CASE WriteMask
  BY <1>9, SMTT(30) DEF WriteMask
<1>10. CASE WriteArm
  <2>1. PowerInv'
    BY <1>10, SMTT(30) DEF WriteArm
  <2>2. SpiInv'
    BY <1>10, SMTT(30) DEF WriteArm
  <2>3. LineInv'
    BY <1>10, SMTT(30) DEF WriteArm
  <2>4. TxInv'
    BY <1>10, SMTT(30) DEF WriteArm
  <2>5. Known' => WaitInv'
    BY <1>10, SMTT(30) DEF WriteArm
  <2>6. Known' => AnsInv'
    BY <1>10, SMTT(30) DEF WriteArm
  <2>7. ~Known' => "unknown" \in Unsolicited
    BY <1>10, SMTT(30) DEF WriteArm
  <2> QED
    BY <2>1, <2>2, <2>3, <2>4, <2>5, <2>6, <2>7
<1>11. CASE WriteUnmask
  <2>1. PowerInv'
    BY <1>11, SMTT(30) DEF WriteUnmask
  <2>2. SpiInv'
    BY <1>11, SMTT(30) DEF WriteUnmask
  <2>3. LineInv'
    BY <1>11, SMTT(30) DEF WriteUnmask
  <2>4. TxInv'
    BY <1>11, SMTT(30) DEF WriteUnmask
  <2>5. Known' => WaitInv'
    BY <1>11, SMTT(30) DEF WriteUnmask
  <2>6. Known' => AnsInv'
    BY <1>11, SMTT(30) DEF WriteUnmask
  <2>7. ~Known' => "unknown" \in Unsolicited
    BY <1>11, SMTT(30) DEF WriteUnmask
  <2> QED
    BY <2>1, <2>2, <2>3, <2>4, <2>5, <2>6, <2>7
<1>12. CASE WriteCheckPin
  BY <1>12, SMTT(30) DEF WriteCheckPin
<1>13. CASE DirectIdle
  BY <1>13, SMTT(30) DEF DirectIdle
<1>14. CASE DirectNegate
  <2>1. PowerInv'
    BY <1>14, SMTT(30) DEF DirectNegate
  <2>2. SpiInv'
    BY <1>14, SMTT(30) DEF DirectNegate
  <2>3. LineInv'
    BY <1>14, SMTT(30) DEF DirectNegate
  <2>4. TxInv'
    BY <1>14, SMTT(30) DEF DirectNegate
  <2>5. Known' => WaitInv'
    BY <1>14, SMTT(30) DEF DirectNegate
  <2>6. Known' => AnsInv'
    BY <1>14, SMTT(30) DEF DirectNegate
  <2>7. ~Known' => "unknown" \in Unsolicited
    BY <1>14, SMTT(30) DEF DirectNegate
  <2> QED
    BY <2>1, <2>2, <2>3, <2>4, <2>5, <2>6, <2>7
<1>15. CASE WriteSpin
  BY <1>15, SMTT(30) DEF WriteSpin
<1>16. CASE WaitEvent
  BY <1>16, SMTT(30) DEF WaitEvent
<1>17. CASE WaitData
  <2>1. PowerInv'
    BY <1>17, SMTT(30) DEF WaitData
  <2>2. SpiInv'
    BY <1>17, SMTT(30) DEF WaitData
  <2>3. LineInv'
    BY <1>17, SMTT(30) DEF WaitData
  <2>4. TxInv'
    BY <1>17, SMTT(30) DEF WaitData
  <2>5. Known' => WaitInv'
    BY <1>17, SMTT(30) DEF WaitData
  <2>6. Known' => AnsInv'
    BY <1>17, SMTT(30) DEF WaitData
  <2>7. ~Known' => "unknown" \in Unsolicited
    BY <1>17, SMTT(30) DEF WaitData
  <2> QED
    BY <2>1, <2>2, <2>3, <2>4, <2>5, <2>6, <2>7
<1>18. CASE Poll
  BY <1>18, SMTT(30) DEF Poll
<1>19. CASE Dispatch
  <2>1. PowerInv'
    BY <1>19, SMTT(30) DEF Dispatch, Announced, Handled, Awaited, OpcodeIs,
          FlagsOK
  <2>2. SpiInv'
    BY <1>19, SMTT(30) DEF Dispatch, Announced, Handled, Awaited, OpcodeIs,
          FlagsOK
  <2>3. LineInv'
    BY <1>19, SMTT(30) DEF Dispatch, Announced, Handled, Awaited, OpcodeIs,
          FlagsOK
  <2>4. TxInv'
    BY <1>19, SMTT(30) DEF Dispatch, Announced, Handled, Awaited, OpcodeIs,
          FlagsOK
  <2>5. Known' => WaitInv'
    BY <1>19, SMTT(30) DEF Dispatch, Announced, Handled, Awaited, OpcodeIs,
          FlagsOK
  <2>6. Known' => AnsInv'
    BY <1>19, SMTT(30) DEF Dispatch, Announced, Handled, Awaited, OpcodeIs,
          FlagsOK
  <2>7. ~Known' => "unknown" \in Unsolicited
    BY <1>19, SMTT(30) DEF Dispatch, Announced, Handled, Awaited, OpcodeIs,
          FlagsOK
  <2> QED
    BY <2>1, <2>2, <2>3, <2>4, <2>5, <2>6, <2>7
<1>20. CASE Release
  <2>1. PowerInv'
    BY <1>20, SMTT(30) DEF Release
  <2>2. SpiInv'
    BY <1>20, SMTT(30) DEF Release
  <2>3. LineInv'
    BY <1>20, SMTT(30) DEF Release
  <2>4. TxInv'
    BY <1>20, SMTT(30) DEF Release
  <2>5. Known' => WaitInv'
    BY <1>20, SMTT(30) DEF Release
  <2>6. Known' => AnsInv'
    BY <1>20, SMTT(30) DEF Release
  <2>7. ~Known' => "unknown" \in Unsolicited
    BY <1>20, SMTT(30) DEF Release
  <2> QED
    BY <2>1, <2>2, <2>3, <2>4, <2>5, <2>6, <2>7
<1>26. CASE Resume
  <2>1. PowerInv'
    BY <1>26, SMTT(30) DEF Resume
  <2>2. SpiInv'
    BY <1>26, SMTT(30) DEF Resume
  <2>3. LineInv'
    BY <1>26, SMTT(30) DEF Resume
  <2>4. TxInv'
    BY <1>26, SMTT(30) DEF Resume
  <2>5. Known' => WaitInv'
    BY <1>26, SMTT(30) DEF Resume
  <2>6. Known' => AnsInv'
    BY <1>26, SMTT(30) DEF Resume
  <2>7. ~Known' => "unknown" \in Unsolicited
    BY <1>26, SMTT(30) DEF Resume
  <2> QED
    BY <2>1, <2>2, <2>3, <2>4, <2>5, <2>6, <2>7
<1>21. CASE HandlePatch
  BY <1>21, SMTT(30) DEF HandlePatch
<1>22. CASE CheckAgain
  BY <1>22, SMTT(30) DEF CheckAgain
<1>23. CASE CheckData
  BY <1>23, SMTT(30) DEF CheckData
<1>24. CASE CheckStart
  BY <1>24, SMTT(30) DEF CheckStart
<1>25. CASE CheckDone
  BY <1>25, SMTT(30) DEF CheckDone
<1> QED
  BY <1>1, <1>2, <1>3, <1>4, <1>5, <1>6, <1>7, <1>8, <1>9, <1>10, <1>11,
     <1>12, <1>13, <1>14, <1>15, <1>16, <1>17, <1>18, <1>19, <1>20, <1>21,
     <1>22, <1>23, <1>24, <1>25, <1>26
     DEF Progress

(* The application keeps the protocol. *)
LEMMA ApplicationProtocol == IInv /\ Application => Protocol'
<1> SUFFICES ASSUME IInv, Application PROVE Protocol'
  OBVIOUS
<1> USE UnsolAssumption, BoundAssumption
<1> USE DEF Step, Pending, PinLow, mainVars, hciVars, wireVars, devVars,
            LineAfterCs, Accepts, AnsAfter, AnswerPackets, Packets, IInv,
            TypeOK, ValuesOK, Protocol, PowerInv, SpiInv, LineInv, TxInv,
            WaitInv, AnsInv, Kept, Undelivered, Sending, DataComing, Readable,
            Return, Known
<1>1. CASE StartOpen
  <2>1. PowerInv'
    BY <1>1, SMTT(30) DEF StartOpen
  <2>2. SpiInv'
    BY <1>1, SMTT(30) DEF StartOpen
  <2>3. LineInv'
    BY <1>1, SMTT(30) DEF StartOpen
  <2>4. TxInv'
    BY <1>1, SMTT(30) DEF StartOpen
  <2>5. Known' => WaitInv'
    BY <1>1, SMTT(30) DEF StartOpen
  <2>6. Known' => AnsInv'
    BY <1>1, SMTT(30) DEF StartOpen
  <2>7. ~Known' => "unknown" \in Unsolicited
    BY <1>1, SMTT(30) DEF StartOpen
  <2> QED
    BY <2>1, <2>2, <2>3, <2>4, <2>5, <2>6, <2>7
<1>2. CASE StopDisable
  BY <1>2, SMTT(30) DEF StopDisable
<1>3. ASSUME NEW c \in Calls, BeginCall(c) PROVE Protocol'
  BY <1>3, SMTT(30) DEF BeginCall, Calls
<1> QED
  BY <1>1, <1>2, <1>3
     DEF Application

(* The device keeps the protocol. *)
LEMMA DeviceProtocol == IInv /\ Device => Protocol'
<1> SUFFICES ASSUME IInv, Device PROVE Protocol'
  OBVIOUS
<1> USE UnsolAssumption, BoundAssumption
<1> USE DEF Step, Pending, PinLow, mainVars, hciVars, wireVars, devVars,
            LineAfterCs, Accepts, AnsAfter, AnswerPackets, Packets, IInv,
            TypeOK, ValuesOK, Protocol, PowerInv, SpiInv, LineInv, TxInv,
            WaitInv, AnsInv, Kept, Undelivered, Sending, DataComing, Readable,
            Return, Known
<1>1. CASE DevBoot
  BY <1>1, SMTT(30) DEF DevBoot
<1>2. CASE DevRaise
  BY <1>2, SMTT(30) DEF DevRaise
<1>3. CASE DevLower
  BY <1>3, SMTT(30) DEF DevLower
<1>4. CASE DevAnswer
  BY <1>4, SMTT(30) DEF DevAnswer, AnswersTo, OpcodeIs
<1>5. CASE DevAskPatch
  BY <1>5, SMTT(30) DEF DevAskPatch
<1>6. ASSUME NEW k \in Unsolicited, DevUnsolicited(k) PROVE Protocol'
  BY <1>6, SMTT(30) DEF DevUnsolicited
<1> QED
  BY <1>1, <1>2, <1>3, <1>4, <1>5, <1>6
     DEF Device, DevReacts

(* IInv holds of every reachable state.                                    *)
THEOREM Invariance == Spec => []IInv
<1>1. Init => IInv
  BY InitType, InitProtocol DEF IInv
<1>2. IInv /\ UNCHANGED vars => IInv'
  BY DEF vars, mainVars, hciVars, wireVars, devVars, IInv, TypeOK, FlagsOK,
         ValuesOK, Protocol, PowerInv, SpiInv, LineInv, TxInv, WaitInv, AnsInv,
         Kept, Undelivered, DataComing, Readable, Return, Known
<1>3. IInv /\ Next => TypeOK'
  BY IsrType, ProgressType, ApplicationType, DeviceType DEF Next, IInv
<1>4. IInv /\ Next => Protocol'
  BY IsrProtocol, ProgressProtocol, ApplicationProtocol, DeviceProtocol
     DEF Next
<1>5. IInv /\ [Next]_vars => IInv'
  BY <1>2, <1>3, <1>4 DEF IInv
<1> QED
  BY <1>1, <1>5, PTL DEF Spec

----------------------------------------------------------------------------
(* What follows.                                                           *)

(* SpiWrite, SpiFirstWrite and the handler's WRITE_IRQ branch deliver each *)
(* packet to the device once, however they are interleaved with the edges  *)
(* of the IRQ line.                                                        *)
THEOREM ExactlyOnce == Spec => []TxExactlyOnce
<1>1. IInv => TxExactlyOnce
  BY DEF IInv, Protocol, TxInv, TxExactlyOnce
<1> QED
  BY <1>1, Invariance, PTL

(* The handler never starts to read a packet the device does not have.     *)
THEOREM NoPhantom == Spec => []NoPhantomRead
<1>1. IInv => NoPhantomRead
  BY DEF IInv, TypeOK, ValuesOK, Protocol, PowerInv, SpiInv, LineInv,
         NoPhantomRead, Pending, Locations
<1> QED
  BY <1>1, Invariance, PTL

(* As long as the handler has known every unsolicited event since          *)
(* wlan_start, it reads no packet over an answer that the main program     *)
(* still owns, although Release and Resume are two steps.                  *)
THEOREM NotOverwritten == Spec => AnswerNotOverwritten
<1>1. ASSUME IInv, IsrRead
      PROVE  unknownRead \/ ~(received /\ rx \in AnswerPackets)
  <2>1. ~masked
    BY <1>1 DEF IsrRead, Pending
  <2> QED
    BY <1>1, <2>1 DEF IInv, Protocol, AnsInv, Kept, Known
<1>2. IInv /\ [Next]_vars =>
        [IsrRead => unknownRead \/ ~(received /\ rx \in AnswerPackets)]_vars
  BY <1>1
<1> QED
  BY <1>2, Invariance, PTL DEF Spec, AnswerNotOverwritten

----------------------------------------------------------------------------
(* Whatever hci_event_handler waits for is still to come, if the device is *)
(* benign: it answers a caller that waits, completes its sends, sends only *)
(* events the handler knows, and says nothing while it asks for a patch.   *)
(* CauseInv follows the answer from the device to the receive buffer and   *)
(* through the handler, and adds to IInv when each step of it can happen.  *)
Benign ==
  /\ ~ReplyEarly /\ ~SendMayFail /\ QuietPatch
  /\ Unsolicited \subseteq {"free", "async"}

Events == {"cmdEvent", "recvEvent", "recvEmpty", "sendEvent"}

(* The packet in tx has reached the device, and SpiWrite is about to end. *)
Delivered ==
  \/ pc \in {"writePin", "direct", "directNegate", "spin"} /\ spi = "IDLE"
  \/ pc = "setOpcode"

Coming == ans \in AnswerPackets \cup {"think"} \/ Kept

(* Where the main program is, and what it still has to get. *)
PlaceInv ==
  /\ pc = "poll" => Coming
  /\ pc \in {"release", "resume"} => Return \/ rcvd = "patchReq"
  /\ pc = "patch" => rx = "patchReq"
  /\ pc = "check" => Return \/ Coming
  /\ Delivered => ans = "think"

(* When the device has something to say, and when it lies in the buffer. *)
AnswerInv ==
  /\ ans # "sendFail"
  /\ ans \in Events => pc \in {"poll", "check"} /\ evt = call
  /\ ans = "think" => (pc \in {"poll", "check"} /\ evt = call) \/ Delivered
  /\ ans = "data" => evt = "none" \/ (Kept /\ rx = "recvEvent")
  /\ ans = "patchReq" => pc = "poll"
  /\ ans \in {"patchReq", "patchWait"} => unsol = {}
  /\ Kept /\ rx = "data" => evt = "none"
  /\ Kept /\ rx \in Events /\ pc # "release" => Awaited(rx)

CauseInv == PlaceInv /\ AnswerInv

----------------------------------------------------------------------------
(* A packet read is one the device owed, and the main program keeps it. *)
LEMMA InterruptCause ==
  Benign /\ IInv /\ CauseInv /\ Isr => CauseInv'
<1> SUFFICES ASSUME Benign, IInv, CauseInv, Isr PROVE CauseInv'
  OBVIOUS
<1> USE UnsolAssumption DEF Benign, Known, Step, Pending, PinLow, mainVars, hciVars,
        wireVars, devVars, LineAfterCs, Accepts, AnsAfter, AnswerPackets, Events,
        IInv, Protocol, PowerInv, SpiInv, LineInv, TxInv, WaitInv, AnsInv, Kept,
        Undelivered, Sending, DataComing, Readable, Return, CauseInv, PlaceInv,
        AnswerInv, Delivered, Coming, Awaited, OpcodeIs
<1>1. CASE IsrPowerup
  BY <1>1, SMTT(30) DEF IsrPowerup
<1>2. CASE IsrIgnore
  BY <1>2, SMTT(30) DEF IsrIgnore
<1>3. CASE IsrRead
  <2>1. PICK p \in Readable : rx' = p /\ HandleReceived(p) /\ Taken(p)
    BY <1>3, SMTT(30) DEF IsrRead
  <2>2. ~received /\ spi = "IDLE" /\ spi' = spi
        /\ UNCHANGED <<mainVars, evt, dataPending>>
    BY <1>3, SMTT(30) DEF IsrRead
  <2>3. pc \notin {"dispatch", "release", "patch"}
    BY <1>3, <2>2, SMTT(30) DEF IsrRead
  <2>4. CASE p \in unsol
    <3>1. p \in {"free", "async"}
      BY <2>4 DEF TypeOK, ValuesOK
    <3>2. Handled(p) /\ ans # p
      BY <3>1 DEF Handled, TypeOK, ValuesOK
    <3>3. received' = FALSE
      BY <2>1, <3>2, Zenon DEF HandleReceived
    <3>4. ans' = ans /\ unsol' \subseteq unsol
      BY <2>1, <3>2 DEF Taken
    <3> QED
      BY <2>1, <2>2, <2>3, <3>3, <3>4, SMTT(30)
  <2>5. CASE p \in AnswerPackets /\ p = ans
    <3>1. ~Handled(p)
      BY <2>5 DEF Handled
    <3>2. received' = TRUE
      BY <2>1, <3>1, Zenon DEF HandleReceived
    <3>6. p \notin unsol
      BY <2>5 DEF TypeOK, ValuesOK
    <3>3. ans' = AnsAfter(p) /\ unsol' \subseteq unsol
      BY <2>1, <2>5, <3>6 DEF Taken
    <3>4. PlaceInv'
      BY <2>1, <2>2, <2>3, <2>5, <3>2, <3>3, SMTT(30)
    <3>5. AnswerInv'
      BY <2>1, <2>2, <2>3, <2>5, <3>2, <3>3, SMTT(30)
    <3> QED
      BY <3>4, <3>5
  <2> QED
    BY <2>1, <2>4, <2>5
<1>4. CASE IsrWrite
  BY <1>4, SMTT(30) DEF IsrWrite
<1> QED
  BY <1>1, <1>2, <1>3, <1>4
     DEF Isr

(* The main program does not go on to wait without a cause. *)
LEMMA ProgressCause ==
  Benign /\ IInv /\ CauseInv /\ Progress => CauseInv'
<1> SUFFICES ASSUME Benign, IInv, CauseInv, Progress PROVE CauseInv'
  OBVIOUS
<1> USE UnsolAssumption DEF Benign, Known, Step, Pending, PinLow, mainVars, hciVars,
        wireVars, devVars, LineAfterCs, Accepts, AnsAfter, AnswerPackets, Events,
        IInv, Protocol, PowerInv, SpiInv, LineInv, TxInv, WaitInv, AnsInv, Kept,
        Undelivered, Sending, DataComing, Readable, Return, CauseInv, PlaceInv,
        AnswerInv, Delivered, Coming, Awaited, OpcodeIs
<1>1. CASE StartEnable
  BY <1>1, SMTT(30) DEF StartEnable
<1>2. CASE StartWaitHigh
  BY <1>2, SMTT(30) DEF StartWaitHigh
<1>3. CASE StartWaitLow
  BY <1>3, SMTT(30) DEF StartWaitLow
<1>4. CASE StopClose
  BY <1>4, SMTT(30) DEF StopClose
<1>5. CASE StopMask
  BY <1>5, SMTT(30) DEF StopMask
<1>6. CASE FirstWrite
  BY <1>6, SMTT(30) DEF FirstWrite
<1>7. CASE FirstWriteIdle
  BY <1>7, SMTT(30) DEF FirstWriteIdle
<1>8. CASE FirstWriteNegate
  BY <1>8, SMTT(30) DEF FirstWriteNegate
<1>9. CASE WriteMask
  BY <1>9, SMTT(30) DEF WriteMask
<1>10. CASE WriteArm
  BY <1>10, SMTT(30) DEF WriteArm
<1>11. CASE WriteUnmask
  BY <1>11, SMTT(30) DEF WriteUnmask
<1>12. CASE WriteCheckPin
  BY <1>12, SMTT(30) DEF WriteCheckPin
<1>13. CASE DirectIdle
  BY <1>13, SMTT(30) DEF DirectIdle
<1>14. CASE DirectNegate
  BY <1>14, SMTT(30) DEF DirectNegate
<1>15. CASE WriteSpin
  BY <1>15, SMTT(30) DEF WriteSpin
<1>16. CASE WaitEvent
  BY <1>16, SMTT(30) DEF WaitEvent
<1>17. CASE WaitData
  BY <1>17, SMTT(30) DEF WaitData
<1>18. CASE Poll
  BY <1>18, SMTT(30) DEF Poll
<1>19. CASE Dispatch
  BY <1>19, SMTT(30) DEF Dispatch, Announced, Handled
<1>20. CASE Release
  BY <1>20, SMTT(30) DEF Release
<1>26. CASE Resume
  BY <1>26, SMTT(30) DEF Resume
<1>21. CASE HandlePatch
  BY <1>21, SMTT(30) DEF HandlePatch
<1>22. CASE CheckAgain
  BY <1>22, SMTT(30) DEF CheckAgain
<1>23. CASE CheckData
  BY <1>23, SMTT(30) DEF CheckData
<1>24. CASE CheckStart
  BY <1>24, SMTT(30) DEF CheckStart
<1>25. CASE CheckDone
  BY <1>25, SMTT(30) DEF CheckDone
<1> QED
  BY <1>1, <1>2, <1>3, <1>4, <1>5, <1>6, <1>7, <1>8, <1>9, <1>10, <1>11, <1>12,
     <1>13, <1>14, <1>15, <1>16, <1>17, <1>18, <1>19, <1>20, <1>21, <1>22, <1>23, <1>24,
     <1>25, <1>26
     DEF Progress

(* Between calls nothing is awaited. *)
LEMMA ApplicationCause ==
  Benign /\ IInv /\ CauseInv /\ Application => CauseInv'
<1> SUFFICES ASSUME Benign, IInv, CauseInv, Application PROVE CauseInv'
  OBVIOUS
<1> USE UnsolAssumption DEF Benign, Known, Step, Pending, PinLow, mainVars, hciVars,
        wireVars, devVars, LineAfterCs, Accepts, AnsAfter, AnswerPackets, Events,
        IInv, Protocol, PowerInv, SpiInv, LineInv, TxInv, WaitInv, AnsInv, Kept,
        Undelivered, Sending, DataComing, Readable, Return, CauseInv, PlaceInv,
        AnswerInv, Delivered, Coming, Awaited, OpcodeIs
<1>1. CASE StartOpen
  BY <1>1, SMTT(30) DEF StartOpen
<1>2. CASE StopDisable
  BY <1>2, SMTT(30) DEF StopDisable
<1>3. ASSUME NEW c \in Calls, BeginCall(c) PROVE CauseInv'
  BY <1>3, SMTT(30) DEF BeginCall, Calls
<1> QED
  BY <1>1, <1>2, <1>3
     DEF Application

(* The device answers a caller that waits. *)
LEMMA DeviceCause ==
  Benign /\ IInv /\ CauseInv /\ Device => CauseInv'
<1> SUFFICES ASSUME Benign, IInv, CauseInv, Device PROVE CauseInv'
  OBVIOUS
<1> USE UnsolAssumption DEF Benign, Known, Step, Pending, PinLow, mainVars, hciVars,
        wireVars, devVars, LineAfterCs, Accepts, AnsAfter, AnswerPackets, Events,
        IInv, Protocol, PowerInv, SpiInv, LineInv, TxInv, WaitInv, AnsInv, Kept,
        Undelivered, Sending, DataComing, Readable, Return, CauseInv, PlaceInv,
        AnswerInv, Delivered, Coming, Awaited, OpcodeIs
<1>1. CASE DevBoot
  BY <1>1, SMTT(30) DEF DevBoot
<1>2. CASE DevRaise
  BY <1>2, SMTT(30) DEF DevRaise
<1>3. CASE DevLower
  BY <1>3, SMTT(30) DEF DevLower
<1>4. CASE DevAnswer
  BY <1>4, SMTT(30) DEF DevAnswer, AnswersTo
<1>5. CASE DevAskPatch
  BY <1>5, SMTT(30) DEF DevAskPatch
<1>6. ASSUME NEW k \in Unsolicited, DevUnsolicited(k) PROVE CauseInv'
  BY <1>6, SMTT(30) DEF DevUnsolicited
<1> QED
  BY <1>1, <1>2, <1>3, <1>4, <1>5, <1>6
     DEF Device, DevReacts

LEMMA Causes == Benign => (Spec => []CauseInv)
<1> SUFFICES ASSUME Benign PROVE Spec => []CauseInv
  OBVIOUS
<1>1. Init => CauseInv
  BY DEF Init, CauseInv, PlaceInv, AnswerInv, Delivered, Coming, Kept, Events
<1>2. IInv /\ CauseInv /\ UNCHANGED vars => CauseInv'
  BY DEF vars, mainVars, hciVars, wireVars, devVars, CauseInv, PlaceInv,
         AnswerInv, Delivered, Coming, Kept, Return, Awaited, OpcodeIs
<1>3. IInv /\ CauseInv /\ Next => CauseInv'
  BY InterruptCause, ProgressCause, ApplicationCause, DeviceCause DEF Next
<1>4. IInv /\ CauseInv /\ [Next]_vars => CauseInv'
  BY <1>2, <1>3
<1> QED
  BY <1>1, <1>4, Invariance, PTL DEF Spec

(* While hci_event_handler polls without a time limit, its answer is owed  *)
(* by a benign device or lies in the receive buffer.                       *)
THEOREM WaitsForSomething == Benign => (Spec => []WaitHasCause)
<1> SUFFICES ASSUME Benign PROVE Spec => []WaitHasCause
  OBVIOUS
<1>1. CauseInv => WaitHasCause
  BY DEF CauseInv, PlaceInv, Coming, Kept, WaitHasCause
<1> QED
  BY <1>1, Causes, PTL

============================================================================
