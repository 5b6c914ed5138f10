------------------------------ MODULE HciLink ------------------------------
(***************************************************************************)
(* The SPI and HCI link between the Arduino and the CC3000: one blocking   *)
(* call at a time in the main program, the falling-edge interrupt handler, *)
(* and the device.  The main program masks and unmasks the interrupt, so   *)
(* the two share ulSpiState, the receive buffer, usEventOrDataReceived,    *)
(* usRxEventOpcode and usRxDataPending without any other lock.             *)
(*                                                                         *)
(* The handler runs with interrupts off on AVR, so each of its runs is one *)
(* action, and an interrupt that is pending and unmasked runs before the   *)
(* next step of the main program.  Packets are abstracted to their kind.   *)
(***************************************************************************)
EXTENDS Naturals, FiniteSets

CONSTANTS
  Unsolicited,  (* kinds of unsolicited event the device may send           *)
  MaxUnsol,     (* bound: unsolicited events and patch requests, together   *)
  ReplyEarly,   (* may an answer be ready before the caller waits for it?   *)
  SendMayFail,  (* may a send complete with a negative status?              *)
  QuietPatch    (* does the device keep quiet while a patch is asked for?   *)

ASSUME UnsolAssumption == Unsolicited \subseteq {"free", "async", "unknown"}
ASSUME BoundAssumption == MaxUnsol \in Nat
ASSUME FlagAssumption ==
  /\ ReplyEarly \in BOOLEAN
  /\ SendMayFail \in BOOLEAN
  /\ QuietPatch \in BOOLEAN

VARIABLES
  (* the main program *)
  pc,         \* where it is
  call,       \* the call in progress
  tx,         \* what the transmit buffer holds: the call or a patch answer
  rcvd,       \* hci_event_handler's copy of the packet kind it handles
  hasData,    \* the RECV event announced bytes: the caller waits for data
  (* shared between the main program and the interrupt handler *)
  spi,        \* sSpiInformation.ulSpiState
  masked,     \* the interrupt is masked (EIMSK)
  rxOpen,     \* pRxPacket points to the receive buffer
  rx,         \* kind of the packet in the receive buffer
  received,   \* usEventOrDataReceived
  evt,        \* usRxEventOpcode: the call whose event is awaited, or "none"
  dataPending,\* usRxDataPending
  (* the wires and the edge latch *)
  cs,         \* chip select is asserted
  irq,        \* IRQ line: high, low and to be served, low but already served
  latch,      \* a falling edge is latched in EIFR
  (* the device *)
  dev,        \* off, booting or on
  ans,        \* its answer to the command in progress
  unsol,      \* what else it wants to deliver: unsolicited events, and data
              \* that an earlier call was to read
  budget,     \* how many more it may produce
  (* history *)
  delivered,  \* how often the packet in tx reached the device
  unknownRead \* since wlan_start the handler has read an event it does not know

mainVars == <<pc, call, tx, rcvd, hasData>>
hciVars  == <<rxOpen, rx, received, evt, dataPending, unknownRead>>
wireVars == <<cs, irq, latch>>
devVars  == <<dev, ans, unsol, budget>>
vars == <<mainVars, spi, masked, hciVars, wireVars, devVars, delivered>>

----------------------------------------------------------------------------
(* Packets and answers.                                                    *)

Calls == {"cmd", "recv", "send"}

(* The packets of a call's answer.  cmdEvent stands for the event of any   *)
(* command that only waits for one event; recvEvent announces data and     *)
(* recvEmpty does not.                                                     *)
AnswerPackets ==
  {"patchReq", "cmdEvent", "recvEvent", "recvEmpty", "sendEvent",
   "sendFail", "data"}

Packets == AnswerPackets \cup Unsolicited \cup {"junk"}

(* Packet p carries the opcode of the event that call c waits for. *)
OpcodeIs(p, c) ==
  \/ p = "cmdEvent" /\ c \in {"cmd", "start"}
  \/ p \in {"recvEvent", "recvEmpty"} /\ c = "recv"
  \/ p \in {"sendEvent", "sendFail"} /\ c = "send"

(* The opcode of p equals usRxEventOpcode. *)
Awaited(p) == OpcodeIs(p, evt)

(* Mutant: without the test that spares the awaited opcode. *)
HandledAlways(p) ==
  p \in {"free", "async", "sendFail", "cmdEvent", "recvEvent", "recvEmpty"}

(* hci_unsol_event_handler returns 1: the packet is done with.  An event   *)
(* the WLAN switch does not know is not, nor is a good SEND completion;    *)
(* any other event is dropped unless its opcode is the one waited for.     *)
Handled(p) ==
  \/ p \in {"free", "async", "sendFail"}
  \/ p \in {"cmdEvent", "recvEvent", "recvEmpty"} /\ ~Awaited(p)

(* hci_unsolicited_event_handler: the handler releases the buffer and      *)
(* unmasks if the packet is done with; if not, the main program owns it.   *)
HandleReceived(p) == received' = ~Handled(p) /\ masked' = ~Handled(p)

PinLow == irq # "high"

(* The interrupt fires before the next step of the main program. *)
Pending == latch /\ ~masked

(* What the device would put on the bus if it were read now. *)
Readable == (IF ans \in AnswerPackets THEN {ans} ELSE {}) \cup unsol

(* What the device owes next once packet p of an answer has been read. *)
AnsAfter(p) ==
  IF p = "patchReq" THEN "patchWait"
  ELSE IF p = "recvEvent" THEN "data" ELSE "none"

(* The device's state after packet p was read from it. *)
Taken(p) ==
  /\ unsol' = unsol \ {p}
  /\ ans' = IF p = ans /\ p \notin unsol THEN AnsAfter(p) ELSE ans
  /\ UNCHANGED <<dev, budget>>

(* The device's state once the transaction that wrote tx to it has ended.  *)
(* Data that nobody has read stays to be read.                             *)
Accepts ==
  /\ delivered' = delivered + 1
  /\ ans' = IF tx = "call" \/ ans = "patchWait" THEN "think" ELSE ans
  /\ unsol' = IF tx = "call" /\ ans = "data" THEN unsol \cup {"data"} ELSE unsol
  /\ UNCHANGED <<dev, budget>>

(* The IRQ line when chip select is negated: a low line has been served. *)
LineAfterCs == IF PinLow THEN "served" ELSE "high"

----------------------------------------------------------------------------
Init ==
  /\ pc = "off" /\ call = "none" /\ tx = "call"
  /\ rcvd = "junk" /\ hasData = FALSE
  /\ spi = "POWERUP"
  /\ masked = FALSE           \* sp_wifi_init attaches the handler
  /\ rxOpen = FALSE /\ rx = "junk" /\ received = FALSE /\ unknownRead = FALSE
  /\ evt = "none" /\ dataPending = FALSE
  /\ cs = FALSE
  /\ irq \in {"high", "served"}
  /\ latch = FALSE
  /\ dev = "off" /\ ans = "none" /\ unsol = {} /\ budget = MaxUnsol
  /\ delivered = 0

(* The main program is at a, and goes to b: an interrupt comes first. *)
Step(a, b) == pc = a /\ ~Pending /\ pc' = b

----------------------------------------------------------------------------
(* The interrupt handler.                                                  *)

(* POWERUP: the device has lowered the line for the first time. *)
IsrPowerup ==
  /\ Pending /\ spi = "POWERUP"
  /\ latch' = FALSE
  /\ spi' = "INITIALIZED"
  /\ UNCHANGED <<mainVars, masked, hciVars, cs, irq, devVars, delivered>>

(* INITIALIZED: no branch of the handler; the edge is gone. *)
IsrIgnore ==
  /\ Pending /\ spi = "INITIALIZED"
  /\ latch' = FALSE
  /\ UNCHANGED <<mainVars, spi, masked, hciVars, cs, irq, devVars, delivered>>

(* Mutant: unmasks whether or not the packet was handled. *)
IsrReadUnmasks ==
  /\ Pending /\ spi = "IDLE"
  /\ latch' = FALSE
  /\ \E p \in IF Readable = {} THEN {"junk"} ELSE Readable :
       rx' = p /\ received' = ~Handled(p) /\ Taken(p)
  /\ unknownRead' = (unknownRead \/ rx' = "unknown")
  /\ masked' = FALSE /\ cs' = FALSE /\ irq' = LineAfterCs
  /\ UNCHANGED <<mainVars, spi, rxOpen, evt, dataPending, delivered>>

(* Mutant: leaves the interrupt masked after a packet it handled. *)
IsrReadStaysMasked ==
  /\ Pending /\ spi = "IDLE"
  /\ latch' = FALSE
  /\ \E p \in IF Readable = {} THEN {"junk"} ELSE Readable :
       rx' = p /\ received' = ~Handled(p) /\ Taken(p)
  /\ unknownRead' = (unknownRead \/ rx' = "unknown")
  /\ masked' = TRUE /\ cs' = FALSE /\ irq' = LineAfterCs
  /\ UNCHANGED <<mainVars, spi, rxOpen, evt, dataPending, delivered>>

(* IDLE: read one packet, mask, negate CS, go back to IDLE and call        *)
(* SpiReceiveHandler.                                                      *)
IsrRead ==
  /\ Pending /\ spi = "IDLE"
  /\ latch' = FALSE
  /\ \E p \in IF Readable = {} THEN {"junk"} ELSE Readable :
       rx' = p /\ HandleReceived(p) /\ Taken(p)
  /\ unknownRead' = (unknownRead \/ rx' = "unknown")
  /\ cs' = FALSE
  /\ irq' = LineAfterCs
  /\ UNCHANGED <<mainVars, spi, rxOpen, evt, dataPending, delivered>>

(* Mutant: leaves chip select asserted after the write. *)
IsrWriteKeepsCs ==
  /\ Pending /\ spi = "WRITE_IRQ"
  /\ latch' = FALSE
  /\ spi' = "IDLE"
  /\ Accepts
  /\ UNCHANGED <<mainVars, masked, hciVars, cs, irq>>

(* WRITE_IRQ: the device grants the write. *)
IsrWrite ==
  /\ Pending /\ spi = "WRITE_IRQ"
  /\ latch' = FALSE
  /\ spi' = "IDLE"
  /\ cs' = FALSE
  /\ irq' = LineAfterCs
  /\ Accepts
  /\ UNCHANGED <<mainVars, masked, hciVars>>

Isr == IsrPowerup \/ IsrIgnore \/ IsrRead \/ IsrWrite

----------------------------------------------------------------------------
(* wlan_start and wlan_stop.                                               *)

(* Reset the HCI state, then SpiOpen, which ends by unmasking. *)
StartOpen ==
  /\ Step("off", "enable")
  /\ received' = FALSE /\ evt' = "none" /\ dataPending' = FALSE
  /\ spi' = "POWERUP" /\ rx' = "junk" /\ rxOpen' = TRUE /\ unknownRead' = FALSE
  /\ masked' = FALSE
  /\ UNCHANGED <<call, tx, rcvd, hasData, wireVars, devVars, delivered>>

(* Sample the line, then drive WLAN_EN. *)
StartEnable ==
  /\ Step("enable", IF PinLow THEN "waitHigh" ELSE "waitLow")
  /\ dev' = "booting"
  /\ UNCHANGED <<call, tx, rcvd, hasData, spi, masked, hciVars, wireVars,
                 ans, unsol, budget, delivered>>

StartWaitHigh ==
  /\ Step("waitHigh", "waitLow")
  /\ ~PinLow
  /\ UNCHANGED <<call, tx, rcvd, hasData, spi, masked, hciVars, wireVars,
                 devVars, delivered>>

(* The line is low: SimpleLink_Init_Start sends SIMPLE_LINK_START. *)
StartWaitLow ==
  /\ Step("waitLow", "write")
  /\ PinLow
  /\ call' = "start" /\ tx' = "call" /\ delivered' = 0
  /\ UNCHANGED <<rcvd, hasData, spi, masked, hciVars, wireVars, devVars>>

(* WLAN_EN goes low: the device forgets everything and lets the line rise. *)
StopDisable ==
  /\ Step("app", "stopping")
  /\ dev' = "off" /\ ans' = "none" /\ unsol' = {}
  /\ irq' = LineAfterCs
  /\ UNCHANGED <<call, tx, rcvd, hasData, spi, masked, hciVars, cs, latch,
                 budget, delivered>>

(* The line is high: SpiClose drops the receive buffer ... *)
StopClose ==
  /\ Step("stopping", "closing")
  /\ ~PinLow
  /\ rxOpen' = FALSE
  /\ UNCHANGED <<call, tx, rcvd, hasData, spi, masked, rx, received, evt,
                 dataPending, unknownRead, wireVars, devVars, delivered>>

(* ... and then masks the interrupt. *)
StopMask ==
  /\ Step("closing", "off")
  /\ masked' = TRUE
  /\ UNCHANGED <<call, tx, rcvd, hasData, spi, hciVars, wireVars, devVars,
                 delivered>>

----------------------------------------------------------------------------
(* SpiWrite.                                                               *)

(* A call: fill the transmit buffer and enter SpiWrite. *)
BeginCall(c) ==
  /\ Step("app", "write")
  /\ call' = c /\ tx' = "call" /\ delivered' = 0
  /\ UNCHANGED <<rcvd, hasData, spi, masked, hciVars, wireVars, devVars>>

(* SpiFirstWrite, taken in INITIALIZED: CS is asserted and the packet      *)
(* written with the interrupt unmasked ...                                 *)
FirstWrite ==
  /\ Step("write", "firstIdle")
  /\ spi = "INITIALIZED"
  /\ cs' = TRUE
  /\ UNCHANGED <<call, tx, rcvd, hasData, spi, masked, hciVars, irq, latch,
                 devVars, delivered>>

(* ... the state becomes IDLE ... *)
FirstWriteIdle ==
  /\ Step("firstIdle", "firstNegate")
  /\ spi' = "IDLE"
  /\ UNCHANGED <<call, tx, rcvd, hasData, masked, hciVars, wireVars,
                 devVars, delivered>>

(* ... and CS is negated: only now may the device raise the line. *)
FirstWriteNegate ==
  /\ Step("firstNegate", "spin")
  /\ cs' = FALSE /\ irq' = LineAfterCs
  /\ Accepts
  /\ UNCHANGED <<call, tx, rcvd, hasData, spi, masked, hciVars, latch>>

WriteMask ==
  /\ Step("write", "writeArm")
  /\ spi \notin {"POWERUP", "INITIALIZED"}
  /\ masked' = TRUE
  /\ UNCHANGED <<call, tx, rcvd, hasData, spi, hciVars, wireVars, devVars,
                 delivered>>

(* Mutant: asserts CS and forgets WRITE_IRQ. *)
WriteArmIdle ==
  /\ Step("writeArm", "writeUnmask")
  /\ spi = "IDLE" /\ irq # "served"
  /\ cs' = TRUE
  /\ UNCHANGED <<call, tx, rcvd, hasData, spi, masked, hciVars, irq, latch,
                 devVars, delivered>>

(* Wait for IDLE, set WRITE_IRQ, assert CS: one step, since the handler is *)
(* masked.  The line has risen since the last transaction by then.         *)
WriteArm ==
  /\ Step("writeArm", "writeUnmask")
  /\ spi = "IDLE"
  /\ irq # "served"
  /\ spi' = "WRITE_IRQ"
  /\ cs' = TRUE
  /\ UNCHANGED <<call, tx, rcvd, hasData, masked, hciVars, irq, latch,
                 devVars, delivered>>

WriteUnmask ==
  /\ Step("writeUnmask", "writePin")
  /\ masked' = FALSE
  /\ UNCHANGED <<call, tx, rcvd, hasData, spi, hciVars, wireVars, devVars,
                 delivered>>

(* "Check for a missing interrupt": a low line starts a direct write. *)
WriteCheckPin ==
  /\ Step("writePin", IF PinLow THEN "direct" ELSE "spin")
  /\ UNCHANGED <<call, tx, rcvd, hasData, spi, masked, hciVars, wireVars,
                 devVars, delivered>>

DirectIdle ==
  /\ Step("direct", "directNegate")
  /\ spi' = "IDLE"
  /\ UNCHANGED <<call, tx, rcvd, hasData, masked, hciVars, wireVars,
                 devVars, delivered>>

(* The device takes the directly written packet only if CS was asserted.   *)
DirectNegate ==
  /\ Step("directNegate", "spin")
  /\ cs' = FALSE
  /\ \/ cs /\ irq' = LineAfterCs /\ Accepts
     \/ ~cs /\ UNCHANGED <<irq, devVars, delivered>>
  /\ UNCHANGED <<call, tx, rcvd, hasData, spi, masked, hciVars, latch>>

(* The wait for IDLE that ends SpiWrite; hci_patch_send returns into the   *)
(* event handler, every other sender goes on to wait for its event.        *)
WriteSpin ==
  /\ Step("spin", IF tx = "patch" THEN "check" ELSE "setOpcode")
  /\ spi = "IDLE"
  /\ UNCHANGED <<call, tx, rcvd, hasData, spi, masked, hciVars, wireVars,
                 devVars, delivered>>

----------------------------------------------------------------------------
(* SimpleLinkWaitEvent, SimpleLinkWaitData and hci_event_handler.          *)

WaitEvent ==
  /\ Step("setOpcode", "poll")
  /\ evt' = call
  /\ UNCHANGED <<call, tx, rcvd, hasData, spi, masked, rxOpen, rx, received,
                 dataPending, unknownRead, wireVars, devVars, delivered>>

WaitData ==
  /\ Step("setData", "poll")
  /\ dataPending' = TRUE /\ hasData' = FALSE
  /\ UNCHANGED <<call, tx, rcvd, spi, masked, rxOpen, rx, received, evt,
                 unknownRead, wireVars, devVars, delivered>>

(* Mutant: copies the awaited opcode instead of the received one. *)
PollCopiesAwaited ==
  /\ Step("poll", "dispatch")
  /\ received
  /\ rcvd' = evt
  /\ UNCHANGED <<call, tx, hasData, spi, masked, hciVars, wireVars, devVars,
                 delivered>>

(* A packet is there: copy its type and opcode. *)
Poll ==
  /\ Step("poll", "dispatch")
  /\ received
  /\ rcvd' = rx
  /\ UNCHANGED <<call, tx, hasData, spi, masked, hciVars, wireVars, devVars,
                 delivered>>

(* What the RECV event in the buffer says of data to come; if another      *)
(* packet has overwritten it since its opcode was copied, anything.        *)
Announced ==
  IF rcvd \in {"recvEvent", "recvEmpty"} /\ rx # rcvd THEN BOOLEAN
  ELSE {rcvd = "recvEvent" /\ ~Handled(rx)}

(* Store its results and clear what was awaited, by the copied opcode.     *)
Dispatch ==
  /\ Step("dispatch", "release")
  /\ IF rcvd = "data"
       THEN dataPending' = FALSE /\ UNCHANGED evt
       ELSE /\ evt' = IF Awaited(rcvd) THEN "none" ELSE evt
            /\ UNCHANGED dataPending
  /\ \E more \in Announced : hasData' = (hasData \/ more)
  /\ UNCHANGED <<call, tx, rcvd, spi, masked, rxOpen, rx, received,
                 unknownRead, wireVars, devVars, delivered>>

(* usEventOrDataReceived is cleared ... *)
Release ==
  /\ Step("release", "resume")
  /\ received' = FALSE
  /\ UNCHANGED <<call, tx, rcvd, hasData, spi, masked, rxOpen, rx, evt,
                 dataPending, unknownRead, wireVars, devVars, delivered>>

(* Mutant: SpiResumeSpi is forgotten. *)
ResumeMasked ==
  /\ Step("resume", IF rcvd = "patchReq" THEN "patch" ELSE "check")
  /\ UNCHANGED <<call, tx, rcvd, hasData, spi, masked, hciVars, wireVars,
                 devVars, delivered>>

(* ... and then SpiResumeSpi unmasks.  An interrupt can come in between if *)
(* it was not masked; this unmasks over the packet that it has read.       *)
Resume ==
  /\ Step("resume", IF rcvd = "patchReq" THEN "patch" ELSE "check")
  /\ masked' = FALSE
  /\ UNCHANGED <<call, tx, rcvd, hasData, spi, hciVars, wireVars, devVars,
                 delivered>>

(* hci_unsol_handle_patch_request reads the buffer again, after unmasking: *)
(* if another packet is in it by then, its first parameter byte decides.   *)
HandlePatch ==
  /\ \E answer \in IF rx = "patchReq" THEN {TRUE} ELSE BOOLEAN :
       /\ Step("patch", IF answer THEN "write" ELSE "check")
       /\ tx' = IF answer THEN "patch" ELSE tx
       /\ delivered' = IF answer THEN 0 ELSE delivered
  /\ UNCHANGED <<call, rcvd, hasData, spi, masked, hciVars, wireVars, devVars>>

(* Nothing awaited any more: the wait returns. *)
Return == evt = "none" /\ ~dataPending

CheckAgain ==
  /\ Step("check", "poll")
  /\ ~Return
  /\ UNCHANGED <<call, tx, rcvd, hasData, spi, masked, hciVars, wireVars,
                 devVars, delivered>>

(* simple_link_recv goes on to wait for the announced data. *)
CheckData ==
  /\ Step("check", "setData")
  /\ Return /\ hasData
  /\ UNCHANGED <<call, tx, rcvd, hasData, spi, masked, hciVars, wireVars,
                 devVars, delivered>>

(* wlan_start goes on to READ_BUFFER_SIZE. *)
CheckStart ==
  /\ Step("check", "write")
  /\ Return /\ call = "start"
  /\ call' = "cmd" /\ tx' = "call" /\ delivered' = 0
  /\ UNCHANGED <<rcvd, hasData, spi, masked, hciVars, wireVars, devVars>>

CheckDone ==
  /\ Step("check", "app")
  /\ Return /\ ~hasData /\ call # "start"
  /\ UNCHANGED <<call, tx, rcvd, hasData, spi, masked, hciVars, wireVars,
                 devVars, delivered>>

----------------------------------------------------------------------------
(* The device (external).                                                  *)

DevBoot ==
  /\ dev = "booting" /\ irq = "high" /\ pc = "waitLow"
  /\ dev' = "on" /\ irq' = "request" /\ latch' = TRUE
  /\ UNCHANGED <<mainVars, spi, masked, hciVars, cs, ans, unsol, budget,
                 delivered>>

(* It lets the line rise once chip select is negated. *)
DevRaise ==
  /\ irq = "served"
  /\ irq' = "high"
  /\ UNCHANGED <<mainVars, spi, masked, hciVars, cs, latch, devVars,
                 delivered>>

(* It lowers the line to be read, or to grant a write. *)
DevLower ==
  /\ dev = "on" /\ irq = "high"
  /\ cs \/ Readable # {}
  /\ irq' = "request" /\ latch' = TRUE
  /\ UNCHANGED <<mainVars, spi, masked, hciVars, cs, devVars, delivered>>

(* Its answers to a command. *)
AnswersTo(c) ==
  {p \in AnswerPackets : OpcodeIs(p, c) /\ (p = "sendFail" => SendMayFail)}

(* An answer is ready; unless ReplyEarly, not before its caller waits. *)
DevAnswer ==
  /\ dev = "on" /\ ans = "think"
  /\ ReplyEarly \/ pc \in {"poll", "dispatch", "release", "resume", "patch",
                          "check"}
  /\ ans' \in AnswersTo(call)
  /\ UNCHANGED <<mainVars, spi, masked, hciVars, wireVars, dev, unsol, budget,
                 delivered>>

(* During SIMPLE_LINK_START it may ask the host for a patch first. *)
DevAskPatch ==
  /\ dev = "on" /\ ans = "think" /\ call = "start"
  /\ ReplyEarly \/ pc = "poll"
  /\ QuietPatch => unsol = {} /\ ~received
  /\ budget > 0
  /\ ans' = "patchReq" /\ budget' = budget - 1
  /\ UNCHANGED <<mainVars, spi, masked, hciVars, wireVars, dev, unsol,
                 delivered>>

DevUnsolicited(k) ==
  /\ dev = "on"
  /\ QuietPatch => ans \notin {"patchReq", "patchWait"}
  /\ budget > 0
  /\ unsol' = unsol \cup {k} /\ budget' = budget - 1
  /\ UNCHANGED <<mainVars, spi, masked, hciVars, wireVars, dev, ans,
                 delivered>>

----------------------------------------------------------------------------
(* The main program once a call has begun. *)
Progress ==
  \/ StartEnable \/ StartWaitHigh \/ StartWaitLow
  \/ StopClose \/ StopMask
  \/ FirstWrite \/ FirstWriteIdle \/ FirstWriteNegate
  \/ WriteMask \/ WriteArm \/ WriteUnmask \/ WriteCheckPin
  \/ DirectIdle \/ DirectNegate \/ WriteSpin
  \/ WaitEvent \/ WaitData \/ Poll \/ Dispatch
  \/ Release \/ Resume \/ HandlePatch
  \/ CheckAgain \/ CheckData \/ CheckStart \/ CheckDone

(* The application chooses what to do next. *)
Application ==
  \/ StartOpen \/ StopDisable
  \/ \E c \in Calls : BeginCall(c)

DevReacts == DevBoot \/ DevRaise \/ DevLower \/ DevAnswer

Device ==
  \/ DevReacts \/ DevAskPatch
  \/ \E k \in Unsolicited : DevUnsolicited(k)

Next == Isr \/ Progress \/ Application \/ Device

Spec == Init /\ [][Next]_vars

(* The CPU runs, a pending interrupt is taken, and the device answers and  *)
(* passes none of its packets over forever.                                *)
Fairness ==
  /\ WF_vars(Isr)
  /\ WF_vars(Progress)
  /\ WF_vars(DevRaise) /\ WF_vars(DevLower)
  /\ WF_vars(DevBoot) /\ WF_vars(DevAnswer)
  /\ \A k \in Unsolicited : SF_vars(IsrRead /\ rx' = k)

FairSpec == Spec /\ Fairness

----------------------------------------------------------------------------
(* Properties.                                                             *)

Locations ==
  {"off", "enable", "waitHigh", "waitLow", "app", "stopping", "closing",
   "write", "firstIdle", "firstNegate", "writeArm", "writeUnmask", "writePin",
   "direct", "directNegate", "spin", "setOpcode", "setData", "poll",
   "dispatch", "release", "resume", "patch", "check"}

FlagsOK ==
  /\ hasData \in BOOLEAN /\ masked \in BOOLEAN /\ rxOpen \in BOOLEAN
  /\ received \in BOOLEAN /\ dataPending \in BOOLEAN
  /\ cs \in BOOLEAN /\ latch \in BOOLEAN /\ unknownRead \in BOOLEAN

ValuesOK ==
  /\ pc \in Locations
  /\ call \in Calls \cup {"none", "start"}
  /\ evt \in Calls \cup {"none", "start"}
  /\ tx \in {"call", "patch"}
  /\ rcvd \in Packets /\ rx \in Packets
  /\ spi \in {"POWERUP", "INITIALIZED", "IDLE", "WRITE_IRQ"}
  /\ irq \in {"high", "request", "served"}
  /\ dev \in {"off", "booting", "on"}
  /\ ans \in AnswerPackets \cup {"none", "think", "patchWait"}
  /\ unsol \subseteq Unsolicited \cup {"data"}
  /\ budget \in 0 .. MaxUnsol
  /\ delivered \in Nat

(* Every variable keeps to the values the code and the hardware give it.   *)
TypeOK == FlagsOK /\ ValuesOK

(* Every packet the host sends reaches the device exactly once, whether    *)
(* the handler or the main program writes it: SpiWrite, SpiFirstWrite and  *)
(* CC3000InterruptHandler agree on who writes through ulSpiState and CS.   *)
TxExactlyOnce ==
  /\ delivered <= 1
  /\ pc = "spin" /\ spi = "IDLE" => delivered = 1

(* When the handler is about to read, the device has a packet to give, the *)
(* receive buffer exists and no write is under way: an edge that granted a *)
(* write, or one latched before a restart, is never taken for a packet.    *)
NoPhantomRead ==
  Pending /\ spi = "IDLE" => Readable # {} /\ rxOpen /\ ~cs

(* An answer the handler has left in the receive buffer stays there until  *)
(* the main program releases it: no later packet, of whatever kind and     *)
(* whoever handles it, is read into the buffer before.  It holds until the *)
(* handler meets an event that it does not know: such an event is left to  *)
(* the main program whether or not that waits, and SpiWrite unmasks over   *)
(* it.                                                                     *)
AnswerNotOverwritten ==
  [][IsrRead => unknownRead \/ ~(received /\ rx \in AnswerPackets)]_vars

(* While hci_event_handler waits, what it waits for is still to come: the  *)
(* device owes it, or it lies in the receive buffer.                       *)
WaitHasCause ==
  pc = "poll" => \/ ans \in AnswerPackets \cup {"think"}
                 \/ received /\ rx \in AnswerPackets

(* A send returns, with the number of bytes or -1, as sendto documents,    *)
(* also when the device completes it with a negative status.               *)
SendReturns == (pc = "poll" /\ call = "send") ~> (pc = "app")

(* Every blocking call, wlan_start and wlan_stop included, returns.        *)
EveryCallReturns == (pc \notin {"app", "off"}) ~> (pc \in {"app", "off"})

(* An unsolicited event is read (or lost to wlan_stop), even if the        *)
(* application makes no further call.                                      *)
UnsolicitedRead == \A k \in Unsolicited : (k \in unsol) ~> (k \notin unsol)

============================================================================
