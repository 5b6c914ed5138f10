----------------------------- MODULE Commands ------------------------------
(***************************************************************************)
(* One call of the host driver after the other: the function sends its     *)
(* command, the device answers with an event and, for some, with data,     *)
(* hci_event_handler copies the answer into the function's variable, whose *)
(* size it does not know, and the function returns bytes of it.  The link  *)
(* below (module HciLink) is abstracted: the event that is awaited comes.  *)
(***************************************************************************)
EXTENDS ApiCalls, Sequences

CONSTANTS
  Socks,      (* socket descriptors: 0 .. 7 in the code                     *)
  Verdicts,   (* what the device may answer                                 *)
  AnyByte     (* what a byte that is not initialised may hold               *)

ASSUME ValuesAssumption ==
  /\ Socks \subseteq 0 .. 7 /\ Verdicts \subseteq -128 .. 127
  /\ AnyByte \subseteq 0 .. 255 /\ AnyByte # {}

VARIABLES
  phase,    \* where the main program is
  call,     \* the function it is in, or was in last
  sd,       \* the socket it was given
  wrote,    \* the argument and data bytes it laid out
  sent,     \* the length it put into the header
  verdict,  \* the device's answer
  mem,      \* the bytes of its variable that it returns
  reach,    \* how far hci_event_handler has written from its address on
  ret,      \* what the last call returned
  inactive, \* socket_active_status: the sockets whose bit is set
  live      \* the device's sockets

txVars  == <<wrote, sent>>
varVars == <<mem, reach>>
vars == <<phase, call, sd, txVars, verdict, varVars, ret, inactive, live>>

----------------------------------------------------------------------------
(* hci_event_handler: how many bytes an event's case writes, and which of  *)
(* them are the device's verdict.                                          *)

Writes(at, width, size) == [at |-> at, width |-> width, size |-> size]

StatusEvents ==
  {"DHCP", "PING_SEND", "PING_STOP", "ARP_FLUSH", "SET_DEBUG_LEVEL",
   "SET_TIMERS", "NVMEM_READ", "NVMEM_CREATE_ENTRY", "PING_REPORT",
   "MDNS_ADVERTISE"}

LongEvents ==
  {"SETSOCKOPT", "WLAN_CONNECT", "STATUSGET", "ADD_PROFILE", "DEL_PROFILE",
   "SET_CONNECTION_POLICY", "SET_SCANPARAM", "SIMPLE_CONFIG_START",
   "SIMPLE_CONFIG_STOP", "SIMPLE_CONFIG_SET_PREFIX", "EVENT_MASK",
   "WLAN_DISCONNECT", "SOCKET", "BIND", "LISTEN", "CLOSE_SOCKET", "CONNECT",
   "NVMEM_WRITE"}

(* Mutant: the status byte is written as a long. *)
HandlerWritesLong(evt) == Writes(0, 4, 4)

HandlerWrites(evt) ==
  IF evt \in StatusEvents THEN Writes(0, 1, 1)
  ELSE IF evt \in LongEvents THEN Writes(0, 4, 4)
  ELSE IF evt = "READ_SP_VERSION" THEN Writes(0, 1, 5)
  ELSE IF evt = "GETHOSTNAME" THEN Writes(0, 4, 8)
  ELSE IF evt = "ACCEPT" THEN Writes(4, 4, 24)
  ELSE IF evt \in {"RECV", "RECVFROM"} THEN Writes(4, 4, 12)
  ELSE IF evt \in {"SEND", "SENDTO"} THEN Writes(4, 4, 8)
  ELSE IF evt = "SELECT" THEN Writes(0, 4, 16)
  ELSE IF evt = "GETSOCKOPT" THEN Writes(4, 1, 5)
  ELSE IF evt = "GET_SCAN_RESULTS" THEN Writes(4, 4, 50)
  ELSE IF evt = "IPCONFIG" THEN Writes(0, 0, 58)
  ELSE Writes(0, 0, 0)    \* READ_BUFFER_SIZE and SIMPLE_LINK_START

(* Byte i of a small number in two's complement, least significant first. *)
Byte(v, i) == IF i = 0 THEN v % 256 ELSE IF v < 0 THEN 255 ELSE 0

(* Byte i of the variable after the event, for a verdict v. *)
Written(evt, v, i, before) ==
  LET w == HandlerWrites(evt) IN
  IF i \in w.at .. w.at + w.width - 1 THEN Byte(v, i - w.at)
  ELSE IF i < w.size THEN 0 ELSE before

(* The number that bytes stand for; one or two bytes matter for a small    *)
(* number, and the last has the sign.                                      *)
Value(bytes, signed) ==
  LET n    == Len(bytes)
      low  == bytes[1]
      next == IF n = 1 THEN 0 ELSE 256 * bytes[2]
      sign == IF signed /\ bytes[n] > 127
              THEN (IF n = 1 THEN -256 ELSE -65536) ELSE 0
  IN  low + next + sign

(* What a function makes of what it finds in its variable. *)
Result(c, bytes) ==
  LET x == Value(bytes, c.signed) IN
  IF c.post = "always0" THEN 0
  ELSE IF c.post = "zero" /\ x >= 0 THEN 0
  ELSE IF c.post = "minus1" /\ x < 0 THEN -1
  ELSE x

----------------------------------------------------------------------------
CommandInit ==
  /\ phase = "idle" /\ call = Read_Buffer_Size /\ sd \in Socks
  /\ wrote = 0 /\ sent = 0 /\ verdict = 0 /\ mem = <<0>> /\ reach = 0
  /\ ret = 0 /\ inactive = Socks /\ live = {}

(* send and sendto ask only for an active socket. *)
Sends(c) == c.evt \in {"SEND", "SENDTO"}
Asks(c, s) == Sends(c) => s \notin inactive

(* A call that is not passed to the device. *)
RefuseCall(c, s, r) ==
  /\ phase = "idle" /\ r \in c.refusals
  /\ (Sends(c) /\ r = -1 => s \in inactive)
  /\ call' = c /\ sd' = s /\ ret' = r
  /\ UNCHANGED <<phase, txVars, verdict, varVars, inactive, live>>

(* The header has 8 bits for the length of a command's arguments, and 16   *)
(* for a data packet's arguments and data.                                 *)
LengthField(c, n) ==
  n % (IF c.evt \in {"SEND", "SENDTO", "NVMEM_WRITE"} THEN 65536 ELSE 256)

(* hci_command_send, hci_data_send or hci_data_command_send. *)
Send(c, s) ==
  /\ phase = "idle" /\ Asks(c, s)
  /\ phase' = "asked" /\ call' = c /\ sd' = s
  /\ \E p \in c.args : wrote' = p[1] /\ sent' = LengthField(c, p[2])
  /\ \E any \in AnyByte :
       mem' = [i \in 1 .. c.width |-> IF c.init = Garbage THEN any ELSE c.init]
  /\ reach' = 0
  /\ UNCHANGED <<verdict, ret, inactive, live>>

(* The device executes the command: a socket it opens is a new one, and a  *)
(* socket it closes is gone.                                               *)
DevAnswers(v) ==
  /\ phase = "asked" /\ phase' = "answered" /\ verdict' = v
  /\ IF call.name \in {"socket", "accept"} /\ v >= 0
     THEN v \in Socks \ live /\ live' = live \cup {v}
     ELSE live' = IF call.name = "closesocket" /\ v = 0 THEN live \ {sd}
                  ELSE live
  /\ UNCHANGED <<call, sd, txVars, varVars, ret, inactive>>

(* After a RECV event the handler looks for -57 beyond the structure it    *)
(* has filled, and would mark the socket that the flags name.              *)
RecvMarks(c) ==
  IF c.evt \in {"RECV", "RECVFROM"} THEN {inactive} \cup
                                         {inactive \cup {s} : s \in Socks}
  ELSE {inactive}

(* Mutant: data is awaited after any event of recv. *)
WaitsForDataAlways(c, v) == c.data # "never"

(* Does the function wait for data after an event with verdict v? *)
WaitsForData(c, v) == c.data = "always" \/ (c.data = "positive" /\ v > 0)

(* hci_unsol_event_handler takes the completion of a send with a negative  *)
(* status for itself.  It marks a socket that the device says is inactive  *)
(* (-57), and says that the packet is done with, so that                   *)
(* SimpleLinkWaitEvent never sees it and waits on, for ever.               *)
Taken(c, v) == Sends(c) /\ v < 0

TakeFailure ==
  /\ phase = "answered" /\ Taken(call, verdict)
  /\ phase' = "lost"
  /\ inactive' = IF verdict = -57 THEN inactive \cup {sd} ELSE inactive
  /\ UNCHANGED <<call, sd, txVars, verdict, varVars, ret, live>>

(* Any other event hci_event_handler copies, and ends SimpleLinkWaitEvent. *)
HandleEvent ==
  /\ phase = "answered" /\ ~Taken(call, verdict)
  /\ mem' = [i \in 1 .. call.width |->
               Written(call.evt, verdict, call.at + i - 1, mem[i])]
  /\ reach' = HandlerWrites(call.evt).size
  /\ phase' = IF WaitsForData(call, verdict) THEN "noData" ELSE "return"
  /\ inactive' \in RecvMarks(call)
  /\ UNCHANGED <<call, sd, txVars, verdict, ret, live>>

(* The device sends what it has read. *)
DevSendsData ==
  /\ phase = "noData"
  /\ call.data = "always" \/ verdict > 0
  /\ phase' = "data"
  /\ UNCHANGED <<call, sd, txVars, verdict, varVars, ret, inactive, live>>

HandleData ==
  /\ phase = "data" /\ phase' = "return"
  /\ UNCHANGED <<call, sd, txVars, verdict, varVars, ret, inactive, live>>

(* Mutant: the bit of a new socket is left as it was. *)
MarkOnlyClosed(c, r) ==
  IF c.name = "closesocket" THEN inactive \cup {sd} ELSE inactive

(* What socket, accept and closesocket do to socket_active_status; a       *)
(* failed accept marks the socket that listens.                            *)
Mark(c, r) ==
  IF c.name \in {"socket", "accept"} /\ r \in Socks THEN inactive \ {r}
  ELSE IF c.name \in {"accept", "closesocket"} THEN inactive \cup {sd}
  ELSE inactive

ReturnCall ==
  /\ phase = "return" /\ phase' = "idle"
  /\ ret' = Result(call, mem)
  /\ inactive' = Mark(call, ret')
  /\ verdict' = 0 /\ wrote' = 0 /\ sent' = 0 /\ reach' = 0 /\ mem' = <<0>>
  /\ UNCHANGED <<call, sd, live>>

Main == TakeFailure \/ HandleEvent \/ HandleData \/ ReturnCall
Dev  == DevSendsData \/ \E v \in Verdicts : DevAnswers(v)

Next ==
  \/ Main \/ Dev
  \/ \E c \in Api, s \in Socks : Send(c, s) \/ \E r \in c.refusals : RefuseCall(c, s, r)

Spec == CommandInit /\ [][Next]_vars

(* The CPU runs, and the device answers what it was asked. *)
FairSpec == Spec /\ WF_vars(Main) /\ WF_vars(Dev)

----------------------------------------------------------------------------
(* Properties.                                                             *)

(* Functions whose result is not what the device said: they return the     *)
(* length given, zero, or a variable that is only half written.            *)
Lossy == {"send", "sendto", "wlan_ioctl_get_scan_results", "netapp_ipconfig",
          "netapp_ping_report", "nvmem_create_entry", "mdnsAdvertiser",
          "SimpleLink_Init_Start", "Read_Buffer_Size"}

(* Functions that send more than they lay out. *)
StaleTail == {"netapp_timeout_values", "select"}

Succeeded(c, x) == IF c.ok = "zero" THEN x = 0 ELSE x >= 0
Outcome(c, x) == IF Succeeded(c, x) THEN "success" ELSE "failure"

Remote == INSTANCE RemoteCall WITH
  Functions <- {c.name : c \in Api},
  Trusted   <- {c.name : c \in Api} \ Lossy,
  running   <- IF phase = "idle" THEN "none" ELSE call.name,
  verdict   <- IF phase \in {"idle", "asked"} THEN "open"
               ELSE Outcome(call, verdict),
  outcome   <- IF phase = "idle" THEN Outcome(call, ret) ELSE "open"

TypeOK ==
  /\ phase \in {"idle", "asked", "answered", "lost", "noData", "data", "return"}
  /\ call \in Api /\ sd \in Socks
  /\ wrote \in Nat /\ sent \in Nat /\ verdict \in Verdicts \cup {0}
  /\ phase # "idle" => mem \in [1 .. call.width -> 0 .. 255]
  /\ reach \in Nat
  /\ inactive \subseteq Socks /\ live \subseteq Socks

(* hci_event_handler writes no further than the variable of the function   *)
(* that waits, but for setsockopt's int, which has two bytes.              *)
NeighbourSafe ==
  phase # "idle" /\ call.name # "setsockopt" => reach <= call.size

(* The length in the header is that of the arguments laid out, also where  *)
(* the caller chooses it, so the device finds no byte of an older command  *)
(* among them, and no argument is cut off.                                 *)
LengthExact ==
  phase # "idle" /\ call.name \notin StaleTail => sent = wrote

(* Every function that returns the device's verdict returns the verdict on *)
(* the command it has just sent: a success is a success on the device, and *)
(* a failure a failure, whatever widths the value passes through.          *)
VerdictReturned == Remote!RemoteSpec

(* A descriptor that socket or accept returns is one the device knows and  *)
(* the driver will send on, and one given to closesocket is refused after, *)
(* whether the device has closed it or not.                                *)
HandlesUsable ==
  [][ReturnCall =>
       /\ call.name \in {"socket", "accept"} /\ ret' >= 0
            => ret' \in live \ inactive'
       /\ call.name = "closesocket" => sd \in inactive']_vars

(* Every call returns, but for a send that the device answers with a       *)
(* negative status, whose completion the interrupt handler takes: no other *)
(* function waits for an event or for data that it does not get.           *)
CallsReturn ==
  (phase # "idle") ~> (phase = "idle" \/ (Sends(call) /\ verdict < 0))

============================================================================
