---------------------------- MODULE FlowControl ----------------------------
(***************************************************************************)
(* Flow control of the data path.  The device owns a pool of buffers; the  *)
(* host counts the free ones in usNumberOfFreeBuffers, and the packets     *)
(* sent and released in two 32-bit counters.  The main program runs socket,*)
(* accept, send, closesocket and sp_close; the interrupt handler runs the  *)
(* FREE_BUFF event and the late, negative completions of a send.  The      *)
(* counters and socket_active_status are shared without a lock, so a read- *)
(* modify-write of the main program is two steps, and an interrupt may     *)
(* come between them.                                                      *)
(*                                                                         *)
(* The link below (module HciLink) is abstracted: a command is answered,   *)
(* an event is handled once, and an interrupt may come at any step.        *)
(***************************************************************************)
EXTENDS Naturals, FiniteSets

CONSTANTS
  Socks,      (* socket descriptors: 0 .. 7 in the code                     *)
  Buffers,    (* transmit buffers of the device, as READ_BUFFER_SIZE says   *)
  CounterMod  (* NumberOfSentPackets wraps here: 2^32 in the code           *)

(* The number of buffers is read as one byte, so it is below 2^32. *)
ASSUME BuffersAssumption == Buffers \in Nat /\ Buffers > 1
ASSUME CounterAssumption == CounterMod \in Nat /\ Buffers < CounterMod

VARIABLES
  (* the main program *)
  pc,       \* where it is
  sd,       \* the socket it works on
  tmp,      \* the copy of usNumberOfFreeBuffers being decremented
  bits,     \* the copy of socket_active_status being changed
  setTo,    \* the status being set for sd
  open,     \* the sockets the application opened and did not close
  (* shared with the interrupt handler *)
  free,     \* usNumberOfFreeBuffers
  sent,     \* NumberOfSentPackets
  released, \* NumberOfReleasedPackets
  failure,  \* slTransmitDataError is not zero
  inactive, \* socket_active_status: the sockets whose bit is set
  inform,   \* InformHostOnTxComplete
  (* the device *)
  live,     \* its sockets
  held,     \* packets in its buffers
  users,    \* the sockets they may belong to
  pending,  \* buffers it has freed and not reported
  failed    \* sockets with a failed transmission it has not reported

mainVars   == <<pc, sd, tmp, bits, setTo, open>>
countVars  == <<free, sent, released>>
statusVars == <<failure, inactive, inform>>
devVars    == <<live, held, users, pending, failed>>
vars == <<mainVars, countVars, statusVars, devVars>>

----------------------------------------------------------------------------
(* A counter that is incremented by at most Buffers at a time. *)
Wrap(x) == IF x < CounterMod THEN x ELSE x - CounterMod

Init ==
  /\ pc = "off" /\ open = {} /\ sd \in Socks
  /\ tmp = 0 /\ bits = {} /\ setTo = "ACTIVE"
  /\ free = 0 /\ sent = 0 /\ released = 0
  /\ failure = FALSE
  /\ inactive = Socks         \* SOCKET_STATUS_INIT_VAL
  /\ inform = TRUE
  /\ live = {} /\ held = 0 /\ users = {} /\ pending = 0 /\ failed = {}

Go(a, b) == pc = a /\ pc' = b

----------------------------------------------------------------------------
(* wlan_start, wlan_stop and wlan_set_event_mask.                          *)

(* Mutant: wlan_start leaves the counters of sp_close alone. *)
StartForgets ==
  /\ Go("off", "starting")
  /\ free' = 0 /\ failure' = FALSE
  /\ UNCHANGED <<sd, tmp, bits, setTo, open, sent, released, inactive, inform,
                 devVars>>

(* wlan_start clears the counters and the error, not socket_active_status. *)
Start ==
  /\ Go("off", "starting")
  /\ free' = 0 /\ sent' = 0 /\ released' = 0
  /\ failure' = FALSE
  /\ UNCHANGED <<sd, tmp, bits, setTo, open, inactive, inform, devVars>>

(* READ_BUFFER_SIZE is answered. *)
ReadBufferSize ==
  /\ Go("starting", "app")
  /\ free' = Buffers
  /\ UNCHANGED <<sd, tmp, bits, setTo, open, sent, released, statusVars,
                 devVars>>

(* wlan_stop: the device loses its sockets, its packets and its events. *)
Stop ==
  /\ Go("app", "off")
  /\ live' = {} /\ held' = 0 /\ users' = {} /\ pending' = 0 /\ failed' = {}
  /\ UNCHANGED <<sd, tmp, bits, setTo, open, countVars, statusVars>>

SetEventMask ==
  /\ Go("app", "app")
  /\ inform' \in BOOLEAN
  /\ UNCHANGED <<sd, tmp, bits, setTo, open, countVars, failure, inactive,
                 devVars>>

----------------------------------------------------------------------------
(* set_socket_active_status, and the calls that end with it.               *)

LoadBits ==
  /\ Go("loadBits", "storeBits")
  /\ bits' = inactive
  /\ UNCHANGED <<sd, tmp, setTo, open, countVars, statusVars, devVars>>

StoreBits ==
  /\ Go("storeBits", "app")
  /\ inactive' = IF setTo = "ACTIVE" THEN bits \ {sd} ELSE bits \cup {sd}
  /\ bits' = {} /\ setTo' = "ACTIVE"     \* the copies are dead
  /\ UNCHANGED <<sd, tmp, open, countVars, failure, inform, devVars>>

(* socket, or an accept that returns a connection: the device opens s. *)
NewSocket(s) ==
  /\ Go("app", "loadBits")
  /\ s \notin live
  /\ sd' = s /\ setTo' = "ACTIVE"
  /\ open' = open \cup {s} /\ live' = live \cup {s}
  /\ UNCHANGED <<tmp, bits, countVars, statusVars, held, users, pending,
                 failed>>

(* accept without a connection, SOC_IN_PROGRESS included, on listener s. *)
AcceptNothing(s) ==
  /\ Go("app", "loadBits")
  /\ s \in open
  /\ sd' = s /\ setTo' = "INACTIVE"
  /\ UNCHANGED <<tmp, bits, open, countVars, statusVars, devVars>>

(* sp_close: wait for the two counters to be equal. *)
BeginDrain(s) ==
  /\ Go("app", "drain")
  /\ s \in open /\ sd' = s
  /\ UNCHANGED <<tmp, bits, setTo, open, countVars, statusVars, devVars>>

Drained ==
  /\ Go("drain", "close")
  /\ sent = released
  /\ UNCHANGED <<sd, tmp, bits, setTo, open, countVars, statusVars, devVars>>

(* closesocket, called directly. *)
CloseNow(s) ==
  /\ Go("app", "close")
  /\ s \in open /\ sd' = s
  /\ UNCHANGED <<tmp, bits, setTo, open, countVars, statusVars, devVars>>

(* CLOSE_SOCKET is answered: sd is marked inactive whatever the answer. *)
Closed ==
  /\ Go("close", "loadBits")
  /\ setTo' = "INACTIVE"
  /\ open' = open \ {sd} /\ live' = live \ {sd}
  /\ UNCHANGED <<sd, tmp, bits, countVars, statusVars, held, users, pending,
                 failed>>

----------------------------------------------------------------------------
(* simple_link_send and HostFlowControlConsumeBuff.                        *)

BeginSend(s) ==
  /\ Go("app", "checkError")
  /\ sd' = s
  /\ UNCHANGED <<tmp, bits, setTo, open, countVars, statusVars, devVars>>

(* An error is pending: it is read now and cleared in the next step. *)
CheckError ==
  /\ Go("checkError", IF failure THEN "clearError" ELSE "checkActive")
  /\ UNCHANGED <<sd, tmp, bits, setTo, open, countVars, statusVars, devVars>>

ClearError ==
  /\ Go("clearError", "app")
  /\ failure' = FALSE
  /\ UNCHANGED <<sd, tmp, bits, setTo, open, countVars, inactive, inform,
                 devVars>>

(* Mutant: the status of the socket is not looked at. *)
CheckNothing ==
  /\ Go("checkActive", "checkFree")
  /\ UNCHANGED <<sd, tmp, bits, setTo, open, countVars, statusVars, devVars>>

CheckActive ==
  /\ Go("checkActive", IF sd \in inactive THEN "app" ELSE "checkFree")
  /\ UNCHANGED <<sd, tmp, bits, setTo, open, countVars, statusVars, devVars>>

(* Mutant: the last free buffer may be taken as well. *)
CheckAnyFree ==
  /\ Go("checkFree", IF 1 > free THEN "checkError" ELSE "loadFree")
  /\ UNCHANGED <<sd, tmp, bits, setTo, open, countVars, statusVars, devVars>>

(* while (1 >= usNumberOfFreeBuffers): one buffer is always kept back. *)
CheckFree ==
  /\ Go("checkFree", IF 1 >= free THEN "checkError" ELSE "loadFree")
  /\ UNCHANGED <<sd, tmp, bits, setTo, open, countVars, statusVars, devVars>>

(* usNumberOfFreeBuffers--, in two steps. *)
LoadFree ==
  /\ Go("loadFree", "storeFree")
  /\ tmp' = free
  /\ UNCHANGED <<sd, bits, setTo, open, countVars, statusVars, devVars>>

(* Mutant: takes two buffers for one packet. *)
StoreFreeTwo ==
  /\ Go("storeFree", "count")
  /\ free' = (IF tmp > 2 THEN tmp - 2 ELSE 0) /\ tmp' = 0
  /\ UNCHANGED <<sd, bits, setTo, open, sent, released, statusVars, devVars>>

StoreFree ==
  /\ Go("storeFree", "count")
  /\ free' = tmp - 1 /\ tmp' = 0
  /\ UNCHANGED <<sd, bits, setTo, open, sent, released, statusVars,
                 devVars>>

(* Mutant: the packet is counted after it has been transmitted. *)
CountLate ==
  \/ /\ Go("count", "late")
     /\ held' = held + 1 /\ users' = users \cup {sd}
     /\ UNCHANGED <<sd, tmp, bits, setTo, open, countVars, statusVars, live,
                    pending, failed>>
  \/ /\ Go("late", "await")
     /\ sent' = Wrap(sent + 1)
     /\ UNCHANGED <<sd, tmp, bits, setTo, open, free, released, statusVars,
                    devVars>>

(* Mutant: the packet is not counted. *)
CountNot ==
  /\ Go("count", "transmit")
  /\ UNCHANGED <<sd, tmp, bits, setTo, open, countVars, statusVars, devVars>>

(* NumberOfSentPackets++, before the packet is written to the device. *)
Count ==
  /\ Go("count", "transmit")
  /\ sent' = Wrap(sent + 1)
  /\ UNCHANGED <<sd, tmp, bits, setTo, open, free, released, statusVars,
                 devVars>>

(* hci_data_send. *)
Transmit ==
  /\ Go("transmit", "await")
  /\ held' = held + 1 /\ users' = users \cup {sd}
  /\ UNCHANGED <<sd, tmp, bits, setTo, open, countVars, statusVars, live,
                 pending, failed>>

(* The SEND event of this packet. *)
Sent ==
  /\ Go("await", "app")
  /\ UNCHANGED <<sd, tmp, bits, setTo, open, countVars, statusVars, devVars>>

----------------------------------------------------------------------------
(* The interrupt handler.                                                  *)

(* Mutant: takes every freed buffer twice. *)
FreeBuffTwice ==
  \E n \in 1 .. pending :
    /\ free' = free + 2 * n
    /\ released' = Wrap(released + n)
    /\ pending' = pending - n
    /\ UNCHANGED <<mainVars, sent, statusVars, live, held, users, failed>>

(* A FREE_BUFF event reports n buffers, the sum over its handles. *)
FreeBuff ==
  \E n \in 1 .. pending :
    /\ free' = free + n
    /\ released' = Wrap(released + n)
    /\ pending' = pending - n
    /\ UNCHANGED <<mainVars, sent, statusVars, live, held, users, failed>>

(* It calls back with HCI_EVENT_CC3000_CAN_SHUT_DOWN in this step. *)
CanShutDown == FreeBuff /\ inform /\ released' = sent

(* A negative SEND completion for socket s; -57 also marks it inactive. *)
SendFailed(s) ==
  /\ s \in failed /\ failed' = failed \ {s}
  /\ failure' = TRUE
  /\ inactive' \in {inactive, inactive \cup {s}}
  /\ UNCHANGED <<mainVars, countVars, inform, live, held, users, pending>>

Isr == FreeBuff \/ \E s \in Socks : SendFailed(s)

----------------------------------------------------------------------------
(* The device (external).                                                  *)

(* It transmits a packet and frees its buffer ... *)
DevTransmits ==
  /\ held > 0
  /\ held' = held - 1 /\ pending' = pending + 1
  /\ users' = IF held = 1 THEN {} ELSE users
  /\ UNCHANGED <<mainVars, countVars, statusVars, live, failed>>

(* ... or fails to, and frees it all the same. *)
DevFails(s) ==
  /\ held > 0 /\ s \in users
  /\ held' = held - 1 /\ pending' = pending + 1
  /\ users' = IF held = 1 THEN {} ELSE users
  /\ failed' = failed \cup {s}
  /\ UNCHANGED <<mainVars, countVars, statusVars, live>>

----------------------------------------------------------------------------
(* The main program once a call has begun. *)
Progress ==
  \/ ReadBufferSize \/ LoadBits \/ StoreBits \/ Drained \/ Closed
  \/ CheckError \/ ClearError \/ CheckActive \/ CheckFree
  \/ LoadFree \/ StoreFree \/ Count \/ Transmit \/ Sent

Application ==
  \/ Start \/ Stop \/ SetEventMask
  \/ \E s \in Socks :
       \/ NewSocket(s) \/ AcceptNothing(s) \/ BeginDrain(s) \/ CloseNow(s)
       \/ BeginSend(s)

Device == DevTransmits \/ \E s \in Socks : DevFails(s)

Next == Progress \/ Application \/ Isr \/ Device

Spec == Init /\ [][Next]_vars

(* The CPU runs, the device transmits what it holds, and its FREE_BUFF     *)
(* events are taken.                                                       *)
Fairness == WF_vars(Progress) /\ WF_vars(DevTransmits) /\ WF_vars(FreeBuff)

FairSpec == Spec /\ Fairness

----------------------------------------------------------------------------
(* Properties.                                                             *)

Locations ==
  {"off", "starting", "app", "loadBits", "storeBits", "drain", "close",
   "checkError", "clearError", "checkActive", "checkFree", "loadFree",
   "storeFree", "count", "transmit", "await"}

FlagsOK == failure \in BOOLEAN /\ inform \in BOOLEAN

ValuesOK ==
  /\ pc \in Locations /\ sd \in Socks /\ setTo \in {"ACTIVE", "INACTIVE"}
  /\ tmp \in 0 .. Buffers /\ free \in 0 .. Buffers
  /\ sent \in 0 .. CounterMod - 1 /\ released \in 0 .. CounterMod - 1
  /\ held \in 0 .. Buffers /\ pending \in 0 .. Buffers
  /\ open \subseteq Socks /\ bits \subseteq Socks /\ inactive \subseteq Socks
  /\ live \subseteq Socks /\ users \subseteq Socks /\ failed \subseteq Socks

(* The counters keep to their width, and usNumberOfFreeBuffers to the size *)
(* of the pool.                                                            *)
TypeOK == FlagsOK /\ ValuesOK

(* The host never sends a packet the device has no buffer for; the buffer  *)
(* that HostFlowControlConsumeBuff keeps back stays free.                  *)
NoOverrun ==
  /\ held + pending < Buffers
  /\ pc = "transmit" => held + pending + 1 < Buffers

(* A packet is only written for a socket the application has open: one it  *)
(* closed is refused, though its status is set in two steps.               *)
SendNeedsOpen == pc = "transmit" => sd \in open

(* sp_close goes on to closesocket only when the device has transmitted    *)
(* every packet, also when the counters have wrapped.                      *)
CloseDrained == [][Drained => held = 0 /\ pending = 0]_vars

(* The host is told that it can shut the device down only when the device  *)
(* holds no packet.                                                        *)
ShutDownDrained == [][CanShutDown => held = 0 /\ pending' = 0]_vars

(* sp_close does not wait forever for the device to transmit.              *)
DrainEnds == (pc = "drain") ~> (pc # "drain")

(* HostFlowControlConsumeBuff blocks until a free buffer becomes available,*)
(* as its comment says, and no longer, though credits may be lost.         *)
SendGetsBuffer == (pc = "checkFree") ~> (pc \in {"loadFree", "app"})

(* The buffers free, in use and freed but not yet reported.                *)
Credits == free + held + pending

(* The credits lost to interrupts inside usNumberOfFreeBuffers-- never     *)
(* leave fewer than HostFlowControlConsumeBuff needs for one more send.    *)
CreditsSuffice ==
  /\ pc \notin {"off", "starting", "count", "transmit"} => Credits >= 2
  /\ pc \in {"count", "transmit"} => Credits >= 1

============================================================================
