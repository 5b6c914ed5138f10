--------------------------- MODULE CommandsProofs --------------------------
(***************************************************************************)
(* For any lengths the callers choose within the code's limits, any        *)
(* answers and any garbage: types, no write beyond the caller's variable,  *)
(* and the length in the header.  The facts about single functions come    *)
(* from the records of ApiCalls, one lemma for each source file.           *)
(***************************************************************************)
EXTENDS Commands, TLAPS

(* What the proofs need of a function. *)
SoundVar(c) ==
  /\ c.width \in Nat /\ c.init \in {Garbage, 255}
  /\ c.name # "setsockopt" => HandlerWrites(c.evt).size <= c.size
  /\ c.size \in Nat

(* Pairs of lengths that are equal and fit the header's field. *)
FitsField(c) ==
  \A p \in c.args :
    /\ p[1] \in Nat /\ p[2] \in Nat
    /\ c.name \notin StaleTail => p[1] = LengthField(c, p[2])

USE DEF Call, Var, EfailLong, EfailChar, GarbageLong, NotNegative, Part,
        Unsigned, Results, Garbage, IntBytes

(* The layouts of the handler's cases. *)
LEMMA Sizes == \A evt : HandlerWrites(evt).size \in 0 .. 58
BY DEF HandlerWrites, Writes

(* Every function of wlan.cpp waits with a variable that is large enough. *)
LEMMA WlanVars == \A c \in WlanCalls : SoundVar(c)
BY DEF WlanCalls, SoundVar, HandlerWrites, Writes, StatusEvents, LongEvents,
       SimpleLink_Init_Start, Read_Buffer_Size, wlan_connect, wlan_disconnect,
       wlan_ioctl_set_connection_policy, wlan_add_profile,
       wlan_ioctl_del_profile, wlan_ioctl_get_scan_results,
       wlan_ioctl_set_scan_params, wlan_set_event_mask, wlan_ioctl_statusget,
       wlan_smart_config_start, wlan_smart_config_stop,
       wlan_smart_config_set_prefix

LEMMA NetappVars == \A c \in NetappCalls : SoundVar(c)
BY DEF NetappCalls, SoundVar, HandlerWrites, Writes, StatusEvents, LongEvents,
       netapp_dhcp, netapp_timeout_values, netapp_ping_send,
       netapp_ping_report, netapp_ping_stop, netapp_ipconfig,
       netapp_arp_flush, netapp_set_debug_level

LEMMA NvmemVars == \A c \in NvmemCalls : SoundVar(c)
<1>1. SoundVar(nvmem_read)
  BY DEF nvmem_read,
          SoundVar, HandlerWrites, Writes, StatusEvents, LongEvents
<1>2. SoundVar(nvmem_write)
  BY DEF nvmem_write,
          SoundVar, HandlerWrites, Writes, StatusEvents, LongEvents
<1>3. SoundVar(nvmem_set_mac_address)
  BY DEF nvmem_set_mac_address,
          SoundVar, HandlerWrites, Writes, StatusEvents, LongEvents
<1>4. SoundVar(nvmem_get_mac_address)
  BY DEF nvmem_get_mac_address, nvmem_read,
          SoundVar, HandlerWrites, Writes, StatusEvents, LongEvents
<1>5. SoundVar(netapp_config_mac_adrress)
  BY DEF netapp_config_mac_adrress, nvmem_set_mac_address,
          SoundVar, HandlerWrites, Writes, StatusEvents, LongEvents
<1>6. SoundVar(nvmem_read_sp_version)
  BY DEF nvmem_read_sp_version,
          SoundVar, HandlerWrites, Writes, StatusEvents, LongEvents
<1>7. SoundVar(nvmem_create_entry)
  BY DEF nvmem_create_entry,
          SoundVar, HandlerWrites, Writes, StatusEvents, LongEvents
<1> QED BY <1>1, <1>2, <1>3, <1>4, <1>5, <1>6, <1>7 DEF NvmemCalls

LEMMA SocketVars == \A c \in SocketCalls : SoundVar(c)
<1>1. SoundVar(socket)
  BY DEF socket,
          SoundVar, HandlerWrites, Writes, StatusEvents, LongEvents
<1>2. SoundVar(closesocket)
  BY DEF closesocket,
          SoundVar, HandlerWrites, Writes, StatusEvents, LongEvents
<1>3. SoundVar(accept)
  BY DEF accept,
          SoundVar, HandlerWrites, Writes, StatusEvents, LongEvents
<1>4. SoundVar(bind)
  BY DEF bind,
          SoundVar, HandlerWrites, Writes, StatusEvents, LongEvents
<1>5. SoundVar(listen)
  BY DEF listen,
          SoundVar, HandlerWrites, Writes, StatusEvents, LongEvents
<1>6. SoundVar(gethostbyname)
  BY DEF gethostbyname,
          SoundVar, HandlerWrites, Writes, StatusEvents, LongEvents
<1>7. SoundVar(connect)
  BY DEF connect,
          SoundVar, HandlerWrites, Writes, StatusEvents, LongEvents
<1>8. SoundVar(select)
  BY DEF select,
          SoundVar, HandlerWrites, Writes, StatusEvents, LongEvents
<1>9. SoundVar(setsockopt)
  BY DEF setsockopt,
          SoundVar, HandlerWrites, Writes, StatusEvents, LongEvents
<1>10. SoundVar(getsockopt)
  BY DEF getsockopt,
          SoundVar, HandlerWrites, Writes, StatusEvents, LongEvents
<1>11. SoundVar(simple_link_recv)
  BY DEF simple_link_recv,
          SoundVar, HandlerWrites, Writes, StatusEvents, LongEvents
<1>12. SoundVar(recvfrom)
  BY DEF recvfrom, simple_link_recv,
          SoundVar, HandlerWrites, Writes, StatusEvents, LongEvents
<1>13. SoundVar(simple_link_send)
  BY DEF simple_link_send,
          SoundVar, HandlerWrites, Writes, StatusEvents, LongEvents
<1>14. SoundVar(sendto)
  BY DEF sendto, simple_link_send,
          SoundVar, HandlerWrites, Writes, StatusEvents, LongEvents
<1>15. SoundVar(mdnsAdvertiser)
  BY DEF mdnsAdvertiser,
          SoundVar, HandlerWrites, Writes, StatusEvents, LongEvents
<1> QED
  BY SMTT(30), <1>1, <1>2, <1>3, <1>4, <1>5, <1>6, <1>7, <1>8, <1>9, <1>10,
     <1>11, <1>12, <1>13, <1>14, <1>15 DEF SocketCalls

(* The same for the lengths. *)
LEMMA WlanLengths == \A c \in WlanCalls : FitsField(c)
BY LengthsAssumption
DEF WlanCalls, FitsField, LengthField, StaleTail, Exactly, PlusEach,
       SimpleLink_Init_Start, Read_Buffer_Size, wlan_connect, wlan_disconnect,
       wlan_ioctl_set_connection_policy, wlan_add_profile,
       wlan_ioctl_del_profile, wlan_ioctl_get_scan_results,
       wlan_ioctl_set_scan_params, wlan_set_event_mask, wlan_ioctl_statusget,
       wlan_smart_config_start, wlan_smart_config_stop,
       wlan_smart_config_set_prefix

LEMMA NetappLengths == \A c \in NetappCalls : FitsField(c)
BY DEF NetappCalls, FitsField, LengthField, StaleTail, Exactly,
       netapp_dhcp, netapp_timeout_values, netapp_ping_send,
       netapp_ping_report, netapp_ping_stop, netapp_ipconfig,
       netapp_arp_flush, netapp_set_debug_level

LEMMA NvmemLengths == \A c \in NvmemCalls : FitsField(c)
<1>1. FitsField(nvmem_read)
  BY LengthsAssumption DEF nvmem_read,
          FitsField, LengthField, StaleTail, Exactly, PlusEach
<1>2. FitsField(nvmem_write)
  <2>1. \A d \in Datas : 16 + d \in Nat /\ (16 + d) % 65536 = 16 + d
    BY LengthsAssumption
  <2>2. /\ nvmem_write.args = {<<16 + d, 16 + d>> : d \in Datas}
        /\ nvmem_write.evt = "NVMEM_WRITE" /\ nvmem_write.name = "nvmem_write"
    BY DEF nvmem_write, PlusEach
  <2> QED BY <2>1, <2>2 DEF FitsField, LengthField
<1>3. FitsField(nvmem_set_mac_address)
  BY LengthsAssumption DEF nvmem_set_mac_address,
          FitsField, LengthField, StaleTail, Exactly, PlusEach
<1>4. FitsField(nvmem_get_mac_address)
  BY LengthsAssumption DEF nvmem_get_mac_address, nvmem_read,
          FitsField, LengthField, StaleTail, Exactly, PlusEach
<1>5. FitsField(netapp_config_mac_adrress)
  BY LengthsAssumption DEF netapp_config_mac_adrress, nvmem_set_mac_address,
          FitsField, LengthField, StaleTail, Exactly, PlusEach
<1>6. FitsField(nvmem_read_sp_version)
  BY LengthsAssumption DEF nvmem_read_sp_version,
          FitsField, LengthField, StaleTail, Exactly, PlusEach
<1>7. FitsField(nvmem_create_entry)
  BY LengthsAssumption DEF nvmem_create_entry,
          FitsField, LengthField, StaleTail, Exactly, PlusEach
<1> QED BY <1>1, <1>2, <1>3, <1>4, <1>5, <1>6, <1>7 DEF NvmemCalls

LEMMA SocketLengths == \A c \in SocketCalls : FitsField(c)
<1>1. FitsField(socket)
  BY LengthsAssumption DEF socket,
          FitsField, LengthField, StaleTail, Exactly, PlusEach, HostMax, ServiceMax
<1>2. FitsField(closesocket)
  BY LengthsAssumption DEF closesocket,
          FitsField, LengthField, StaleTail, Exactly, PlusEach, HostMax, ServiceMax
<1>3. FitsField(accept)
  BY LengthsAssumption DEF accept,
          FitsField, LengthField, StaleTail, Exactly, PlusEach, HostMax, ServiceMax
<1>4. FitsField(bind)
  BY LengthsAssumption DEF bind,
          FitsField, LengthField, StaleTail, Exactly, PlusEach, HostMax, ServiceMax
<1>5. FitsField(listen)
  BY LengthsAssumption DEF listen,
          FitsField, LengthField, StaleTail, Exactly, PlusEach, HostMax, ServiceMax
<1>6. FitsField(gethostbyname)
  BY LengthsAssumption DEF gethostbyname,
          FitsField, LengthField, StaleTail, Exactly, PlusEach, HostMax, ServiceMax
<1>7. FitsField(connect)
  BY LengthsAssumption DEF connect,
          FitsField, LengthField, StaleTail, Exactly, PlusEach, HostMax, ServiceMax
<1>8. FitsField(select)
  BY LengthsAssumption DEF select,
          FitsField, LengthField, StaleTail, Exactly, PlusEach, HostMax, ServiceMax
<1>9. FitsField(setsockopt)
  BY LengthsAssumption DEF setsockopt,
          FitsField, LengthField, StaleTail, Exactly, PlusEach, HostMax, ServiceMax
<1>10. FitsField(getsockopt)
  BY LengthsAssumption DEF getsockopt,
          FitsField, LengthField, StaleTail, Exactly, PlusEach, HostMax, ServiceMax
<1>11. FitsField(simple_link_recv)
  BY LengthsAssumption DEF simple_link_recv,
          FitsField, LengthField, StaleTail, Exactly, PlusEach, HostMax, ServiceMax
<1>12. FitsField(recvfrom)
  BY LengthsAssumption DEF recvfrom, simple_link_recv,
          FitsField, LengthField, StaleTail, Exactly, PlusEach, HostMax, ServiceMax
<1>13. FitsField(simple_link_send)
  <2>1. \A d \in Datas : 16 + d \in Nat /\ (16 + d) % 65536 = 16 + d
    BY LengthsAssumption
  <2>2. /\ simple_link_send.args = {<<16 + d, 16 + d>> : d \in Datas}
        /\ simple_link_send.evt = "SEND" /\ simple_link_send.name = "send"
    BY DEF simple_link_send, PlusEach
  <2> QED BY <2>1, <2>2 DEF FitsField, LengthField
<1>14. FitsField(sendto)
  <2>1. \A d \in Datas : 32 + d \in Nat /\ (32 + d) % 65536 = 32 + d
    BY LengthsAssumption
  <2>2. /\ sendto.args = {<<32 + d, 32 + d>> : d \in Datas}
        /\ sendto.evt = "SENDTO" /\ sendto.name = "sendto"
    BY DEF sendto, simple_link_send, PlusEach
  <2> QED BY <2>1, <2>2 DEF FitsField, LengthField
<1>15. FitsField(mdnsAdvertiser)
  BY LengthsAssumption DEF mdnsAdvertiser,
          FitsField, LengthField, StaleTail, Exactly, PlusEach, HostMax, ServiceMax
<1> QED
  BY SMTT(30), <1>1, <1>2, <1>3, <1>4, <1>5, <1>6, <1>7, <1>8, <1>9, <1>10,
     <1>11, <1>12, <1>13, <1>14, <1>15 DEF SocketCalls

LEMMA Calls == \A c \in Api : SoundVar(c) /\ FitsField(c)
BY WlanVars, NetappVars, NvmemVars, SocketVars, WlanLengths, NetappLengths,
   NvmemLengths, SocketLengths DEF Api

----------------------------------------------------------------------------
(* The invariant: while a call is in progress its header's length is that  *)
(* of what it laid out, and the handler has written nothing, or what its   *)
(* case for the awaited event writes.                                      *)
LengthInv == phase # "idle" => wrote = sent \/ call.name \in StaleTail
ReachInv  == phase # "idle" => reach \in {0, HandlerWrites(call.evt).size}
IInv == TypeOK /\ LengthInv /\ ReachInv

USE ValuesAssumption

LEMMA Bytes == \A v \in Verdicts \cup {0} : \A i : Byte(v, i) \in 0 .. 255
BY DEF Byte

Answers == Verdicts \cup {0}
ByteSet == 0 .. 255

LEMMA WrittenIsByte ==
  \A evt, i : \A v \in Answers : \A b \in ByteSet :
    Written(evt, v, i, b) \in ByteSet
BY Bytes DEF Written, Answers, ByteSet

LEMMA InitInv == CommandInit => IInv
<1> SUFFICES ASSUME CommandInit PROVE IInv
  OBVIOUS
<1>1. Read_Buffer_Size \in Api
  BY DEF Api, WlanCalls
<1> QED
  BY <1>1 DEF CommandInit, IInv, TypeOK, LengthInv, ReachInv

LEMMA StepInv == IInv /\ [Next]_vars => IInv'
<1> SUFFICES ASSUME IInv, [Next]_vars PROVE IInv'
  OBVIOUS
<1> USE DEF IInv, TypeOK, LengthInv, ReachInv
<1>1. ASSUME NEW c \in Api, NEW s \in Socks, Send(c, s) PROVE IInv'
  <2>1. SoundVar(c) /\ FitsField(c)
    BY Calls
  <2>2. phase' = "asked" /\ call' = c /\ sd' = s /\ reach' = 0
    BY <1>1 DEF Send
  <2>3. wrote' \in Nat /\ sent' \in Nat
        /\ (wrote' = sent' \/ c.name \in StaleTail)
    <3>1. PICK p \in c.args : wrote' = p[1] /\ sent' = LengthField(c, p[2])
      BY <1>1 DEF Send
    <3>2. p[1] \in Nat /\ p[2] \in Nat
          /\ (c.name \notin StaleTail => p[1] = LengthField(c, p[2]))
      BY <2>1, <3>1 DEF FitsField
    <3>3. LengthField(c, p[2]) \in Nat
      BY <3>2 DEF LengthField
    <3> QED BY <3>1, <3>2, <3>3
  <2>4. mem' \in [1 .. c.width -> 0 .. 255]
    BY <1>1, <2>1 DEF Send, SoundVar
  <2> QED BY <1>1, <2>2, <2>3, <2>4 DEF Send
<1>2. ASSUME NEW c \in Api, NEW s \in Socks, NEW r \in c.refusals,
             RefuseCall(c, s, r) PROVE IInv'
  BY <1>2 DEF RefuseCall, txVars, varVars
<1>3. ASSUME NEW v \in Verdicts, DevAnswers(v) PROVE IInv'
  <2>1. /\ phase = "asked" /\ phase' = "answered" /\ verdict' = v
        /\ UNCHANGED <<call, sd, txVars, varVars, ret, inactive>>
    BY <1>3 DEF DevAnswers
  <2>2. live' \subseteq Socks
    <3>1. live \subseteq Socks
      OBVIOUS
    <3>2. live' \in {live \cup {v}, live \ {sd}, live}
          /\ (live' # live \cup {v} \/ v \in Socks \/ live' = live)
      BY <1>3 DEF DevAnswers
    <3> HIDE DEF IInv, TypeOK, LengthInv, ReachInv
    <3> QED BY <3>1, <3>2
  <2> QED BY <2>1, <2>2 DEF txVars, varVars
<1>4. ASSUME HandleEvent PROVE IInv'
  <2>1. phase # "idle" /\ phase' \in {"noData", "return"}
        /\ UNCHANGED <<call, sd, txVars, verdict, ret, live>>
        /\ reach' = HandlerWrites(call.evt).size
    BY <1>4 DEF HandleEvent
  <2>2. mem' \in [1 .. call.width -> 0 .. 255]
    <3> DEFINE S == 1 .. call.width
               new(i) ==
                 Written(call.evt, verdict, call.at + i - 1, mem[i])
    <3>1. mem \in [S -> 0 .. 255] /\ verdict \in Verdicts \cup {0}
      BY <1>4 DEF HandleEvent
    <3>2. mem' = [i \in S |-> new(i)] /\ call' = call
      BY <1>4 DEF HandleEvent
    <3> HIDE DEF IInv, TypeOK, LengthInv, ReachInv, S
    <3>3. \A i \in S : mem[i] \in 0 .. 255
      BY <3>1
    <3>4. \A i \in S : new(i) \in 0 .. 255
      <4> SUFFICES ASSUME NEW i \in S PROVE new(i) \in 0 .. 255
        OBVIOUS
      <4> DEFINE e == call.evt
                 k == call.at + i - 1
                 m == mem[i]
      <4>1. m \in ByteSet
        BY <3>3 DEF ByteSet
      <4> HIDE DEF e, k, m
      <4>3. verdict \in Answers
        BY <3>1 DEF Answers
      <4>2. Written(e, verdict, k, m) \in ByteSet
        BY <4>1, <4>3, WrittenIsByte
      <4> QED BY <4>2 DEF e, k, m, new, ByteSet
    <3> HIDE DEF new
    <3>5. mem' \in [S -> 0 .. 255]
      BY <3>2, <3>4
    <3> QED BY <3>5 DEF S
  <2>3. reach' \in Nat
    <3>1. HandlerWrites(call.evt).size \in 0 .. 58
      BY Sizes
    <3> HIDE DEF IInv, TypeOK, LengthInv, ReachInv
    <3>2. HandlerWrites(call.evt).size \in Nat
      BY <3>1
    <3> QED BY <2>1, <3>2
  <2>4. inactive' \subseteq Socks
    BY <1>4 DEF HandleEvent, RecvMarks
  <2> QED BY <2>1, <2>2, <2>3, <2>4 DEF txVars
<1>9. ASSUME TakeFailure PROVE IInv'
  <2>1. inactive' \subseteq Socks
    BY <1>9 DEF TakeFailure
  <2> QED BY <1>9, <2>1 DEF TakeFailure, txVars, varVars
<1>5. ASSUME DevSendsData PROVE IInv'
  BY <1>5 DEF DevSendsData, txVars, varVars
<1>8. ASSUME HandleData PROVE IInv'
  BY <1>8 DEF HandleData, txVars, varVars
<1>6. ASSUME ReturnCall PROVE IInv'
  <2>1. inactive' \subseteq Socks
    BY <1>6 DEF ReturnCall, Mark
  <2> QED BY <1>6, <2>1 DEF ReturnCall
<1>7. ASSUME UNCHANGED vars PROVE IInv'
  BY <1>7 DEF vars, txVars, varVars
<1> QED
  BY <1>1, <1>2, <1>3, <1>4, <1>5, <1>6, <1>7, <1>8, <1>9 DEF Next, Main, Dev

LEMMA Inductive == Spec => []IInv
BY InitInv, StepInv, PTL DEF Spec

(* Types hold for any lengths, answers and garbage. *)
THEOREM TypeCorrect == Spec => []TypeOK
<1>1. IInv => TypeOK
  BY DEF IInv
<1> QED BY <1>1, Inductive, PTL

(* For every function but setsockopt hci_event_handler stays inside the    *)
(* variable it was given the address of.                                   *)
THEOREM Contained == Spec => []NeighbourSafe
<1>1. IInv => NeighbourSafe
  <2> SUFFICES ASSUME IInv, phase # "idle", call.name # "setsockopt"
               PROVE  reach <= call.size
    BY DEF NeighbourSafe
  <2>1. SoundVar(call)
    BY Calls DEF IInv, TypeOK
  <2> QED BY <2>1 DEF IInv, ReachInv, SoundVar
<1> QED BY <1>1, Inductive, PTL

(* The device is told the length of what was laid out, whatever lengths    *)
(* the callers choose within the limits that the functions check.          *)
THEOREM LengthsTold == Spec => []LengthExact
<1>1. IInv => LengthExact
  BY DEF IInv, LengthInv, LengthExact
<1> QED BY <1>1, Inductive, PTL

----------------------------------------------------------------------------
(* The refinement of RemoteCall.  What makes a function's result tell the  *)
(* verdict: the bytes it returns are the first ones of the verdict, which  *)
(* the handler has written, as many as its type has; and what it makes of  *)
(* them keeps what its callers look at.                                    *)
TellsVerdict(c) ==
  /\ c.name # "none" /\ c.at \in Nat /\ c.width \in Nat
  /\ c.signed \in BOOLEAN
  /\ c.name \notin Lossy =>
       /\ c.at = HandlerWrites(c.evt).at
       /\ c.width \in {1, 2, 4} /\ c.width <= HandlerWrites(c.evt).width
       /\ \/ c.signed
          \/ c.width = 1 /\ c.ok = "zero" /\ c.post = "asIs"
       /\ \/ c.post = "asIs"
          \/ c.post \in {"zero", "minus1"} /\ c.ok = "notNegative"
  /\ c.name \in {"socket", "accept"} => c.post = "asIs" /\ c.signed

(* Every function of wlan.cpp that returns the verdict returns its bytes.  *)
LEMMA WlanTells == \A c \in WlanCalls : TellsVerdict(c)
<1>1. TellsVerdict(SimpleLink_Init_Start)
  BY DEF SimpleLink_Init_Start, TellsVerdict, Lossy,
         HandlerWrites, Writes, StatusEvents, LongEvents
<1>2. TellsVerdict(Read_Buffer_Size)
  BY DEF Read_Buffer_Size, TellsVerdict, Lossy,
         HandlerWrites, Writes, StatusEvents, LongEvents
<1>3. TellsVerdict(wlan_connect)
  BY DEF wlan_connect, TellsVerdict, Lossy,
         HandlerWrites, Writes, StatusEvents, LongEvents
<1>4. TellsVerdict(wlan_disconnect)
  BY DEF wlan_disconnect, TellsVerdict, Lossy,
         HandlerWrites, Writes, StatusEvents, LongEvents
<1>5. TellsVerdict(wlan_ioctl_set_connection_policy)
  BY DEF wlan_ioctl_set_connection_policy, TellsVerdict, Lossy,
         HandlerWrites, Writes, StatusEvents, LongEvents
<1>6. TellsVerdict(wlan_add_profile)
  BY DEF wlan_add_profile, TellsVerdict, Lossy,
         HandlerWrites, Writes, StatusEvents, LongEvents
<1>7. TellsVerdict(wlan_ioctl_del_profile)
  BY DEF wlan_ioctl_del_profile, TellsVerdict, Lossy,
         HandlerWrites, Writes, StatusEvents, LongEvents
<1>8. TellsVerdict(wlan_ioctl_get_scan_results)
  BY DEF wlan_ioctl_get_scan_results, TellsVerdict, Lossy,
         HandlerWrites, Writes, StatusEvents, LongEvents
<1>9. TellsVerdict(wlan_ioctl_set_scan_params)
  BY DEF wlan_ioctl_set_scan_params, TellsVerdict, Lossy,
         HandlerWrites, Writes, StatusEvents, LongEvents
<1>10. TellsVerdict(wlan_set_event_mask)
  BY DEF wlan_set_event_mask, TellsVerdict, Lossy,
         HandlerWrites, Writes, StatusEvents, LongEvents
<1>11. TellsVerdict(wlan_ioctl_statusget)
  BY DEF wlan_ioctl_statusget, TellsVerdict, Lossy,
         HandlerWrites, Writes, StatusEvents, LongEvents
<1>12. TellsVerdict(wlan_smart_config_start)
  BY DEF wlan_smart_config_start, TellsVerdict, Lossy,
         HandlerWrites, Writes, StatusEvents, LongEvents
<1>13. TellsVerdict(wlan_smart_config_stop)
  BY DEF wlan_smart_config_stop, TellsVerdict, Lossy,
         HandlerWrites, Writes, StatusEvents, LongEvents
<1>14. TellsVerdict(wlan_smart_config_set_prefix)
  BY DEF wlan_smart_config_set_prefix, TellsVerdict, Lossy,
         HandlerWrites, Writes, StatusEvents, LongEvents
<1> QED
  BY SMTT(30), <1>1, <1>2, <1>3, <1>4, <1>5, <1>6, <1>7, <1>8, <1>9, <1>10,
     <1>11, <1>12, <1>13, <1>14 DEF WlanCalls

LEMMA NetappTells == \A c \in NetappCalls : TellsVerdict(c)
<1>1. TellsVerdict(netapp_dhcp)
  BY DEF netapp_dhcp, TellsVerdict, Lossy,
         HandlerWrites, Writes, StatusEvents, LongEvents
<1>2. TellsVerdict(netapp_timeout_values)
  BY DEF netapp_timeout_values, TellsVerdict, Lossy,
         HandlerWrites, Writes, StatusEvents, LongEvents
<1>3. TellsVerdict(netapp_ping_send)
  BY DEF netapp_ping_send, TellsVerdict, Lossy,
         HandlerWrites, Writes, StatusEvents, LongEvents
<1>4. TellsVerdict(netapp_ping_report)
  BY DEF netapp_ping_report, TellsVerdict, Lossy,
         HandlerWrites, Writes, StatusEvents, LongEvents
<1>5. TellsVerdict(netapp_ping_stop)
  BY DEF netapp_ping_stop, TellsVerdict, Lossy,
         HandlerWrites, Writes, StatusEvents, LongEvents
<1>6. TellsVerdict(netapp_ipconfig)
  BY DEF netapp_ipconfig, TellsVerdict, Lossy,
         HandlerWrites, Writes, StatusEvents, LongEvents
<1>7. TellsVerdict(netapp_arp_flush)
  BY DEF netapp_arp_flush, TellsVerdict, Lossy,
         HandlerWrites, Writes, StatusEvents, LongEvents
<1>8. TellsVerdict(netapp_set_debug_level)
  BY DEF netapp_set_debug_level, TellsVerdict, Lossy,
         HandlerWrites, Writes, StatusEvents, LongEvents
<1> QED
  BY SMTT(30), <1>1, <1>2, <1>3, <1>4, <1>5, <1>6, <1>7, <1>8 DEF NetappCalls

LEMMA NvmemTells == \A c \in NvmemCalls : TellsVerdict(c)
<1>1. TellsVerdict(nvmem_read)
  BY DEF nvmem_read, TellsVerdict, Lossy,
         HandlerWrites, Writes, StatusEvents, LongEvents
<1>2. TellsVerdict(nvmem_write)
  BY DEF nvmem_write, TellsVerdict, Lossy,
         HandlerWrites, Writes, StatusEvents, LongEvents
<1>3. TellsVerdict(nvmem_set_mac_address)
  BY DEF nvmem_set_mac_address, TellsVerdict, Lossy,
         HandlerWrites, Writes, StatusEvents, LongEvents
<1>4. TellsVerdict(nvmem_get_mac_address)
  BY DEF nvmem_get_mac_address, nvmem_read, TellsVerdict, Lossy,
         HandlerWrites, Writes, StatusEvents, LongEvents
<1>5. TellsVerdict(netapp_config_mac_adrress)
  BY DEF netapp_config_mac_adrress, nvmem_set_mac_address, TellsVerdict, Lossy,
         HandlerWrites, Writes, StatusEvents, LongEvents
<1>6. TellsVerdict(nvmem_read_sp_version)
  BY DEF nvmem_read_sp_version, TellsVerdict, Lossy,
         HandlerWrites, Writes, StatusEvents, LongEvents
<1>7. TellsVerdict(nvmem_create_entry)
  BY DEF nvmem_create_entry, TellsVerdict, Lossy,
         HandlerWrites, Writes, StatusEvents, LongEvents
<1> QED
  BY SMTT(30), <1>1, <1>2, <1>3, <1>4, <1>5, <1>6, <1>7 DEF NvmemCalls

LEMMA SocketTells == \A c \in SocketCalls : TellsVerdict(c)
<1>1. TellsVerdict(socket)
  BY DEF socket, TellsVerdict, Lossy,
         HandlerWrites, Writes, StatusEvents, LongEvents
<1>2. TellsVerdict(closesocket)
  BY DEF closesocket, TellsVerdict, Lossy,
         HandlerWrites, Writes, StatusEvents, LongEvents
<1>3. TellsVerdict(accept)
  BY DEF accept, TellsVerdict, Lossy,
         HandlerWrites, Writes, StatusEvents, LongEvents
<1>4. TellsVerdict(bind)
  BY DEF bind, TellsVerdict, Lossy,
         HandlerWrites, Writes, StatusEvents, LongEvents
<1>5. TellsVerdict(listen)
  BY DEF listen, TellsVerdict, Lossy,
         HandlerWrites, Writes, StatusEvents, LongEvents
<1>6. TellsVerdict(gethostbyname)
  BY DEF gethostbyname, TellsVerdict, Lossy,
         HandlerWrites, Writes, StatusEvents, LongEvents
<1>7. TellsVerdict(connect)
  BY DEF connect, TellsVerdict, Lossy,
         HandlerWrites, Writes, StatusEvents, LongEvents
<1>8. TellsVerdict(select)
  BY DEF select, TellsVerdict, Lossy,
         HandlerWrites, Writes, StatusEvents, LongEvents
<1>9. TellsVerdict(setsockopt)
  BY DEF setsockopt, TellsVerdict, Lossy,
         HandlerWrites, Writes, StatusEvents, LongEvents
<1>10. TellsVerdict(getsockopt)
  BY DEF getsockopt, TellsVerdict, Lossy,
         HandlerWrites, Writes, StatusEvents, LongEvents
<1>11. TellsVerdict(simple_link_recv)
  BY DEF simple_link_recv, TellsVerdict, Lossy,
         HandlerWrites, Writes, StatusEvents, LongEvents
<1>12. TellsVerdict(recvfrom)
  BY DEF recvfrom, simple_link_recv, TellsVerdict, Lossy,
         HandlerWrites, Writes, StatusEvents, LongEvents
<1>13. TellsVerdict(simple_link_send)
  BY DEF simple_link_send, TellsVerdict, Lossy,
         HandlerWrites, Writes, StatusEvents, LongEvents
<1>14. TellsVerdict(sendto)
  BY DEF sendto, simple_link_send, TellsVerdict, Lossy,
         HandlerWrites, Writes, StatusEvents, LongEvents
<1>15. TellsVerdict(mdnsAdvertiser)
  BY DEF mdnsAdvertiser, TellsVerdict, Lossy,
         HandlerWrites, Writes, StatusEvents, LongEvents
<1> QED
  BY SMTT(30), <1>1, <1>2, <1>3, <1>4, <1>5, <1>6, <1>7, <1>8, <1>9, <1>10,
     <1>11, <1>12, <1>13, <1>14, <1>15 DEF SocketCalls

LEMMA Tells == \A c \in Api : TellsVerdict(c)
BY WlanTells, NetappTells, NvmemTells, SocketTells DEF Api

SmallNumber == -128 .. 127
Widths == {1, 2, 4}

(* The variable b of n bytes holds the first bytes of v. *)
Holds(b, n, v) ==
  b \in [1 .. n -> 0 .. 255] /\ \A i \in 1 .. n : b[i] = Byte(v, i - 1)

(* The bytes of a small number in two's complement, read as one, two or    *)
(* four bytes with sign, give the number; one byte without sign is 0 for 0 *)
(* only.                                                                   *)
LEMMA ValueOfBytes ==
  ASSUME NEW v \in SmallNumber, NEW n \in Widths, NEW b, Holds(b, n, v),
         NEW signed \in BOOLEAN
  PROVE  /\ signed => Value(b, signed) = v
         /\ n = 1 /\ ~signed =>
              Value(b, signed) >= 0 /\ (Value(b, signed) = 0 <=> v = 0)
<1> USE DEF Widths, Holds
<1>1. Len(b) = n
  OBVIOUS
<1>2. /\ Byte(v, 0) = IF v < 0 THEN v + 256 ELSE v
      /\ \A i \in 1 .. 3 : Byte(v, i) = IF v < 0 THEN 255 ELSE 0
  <2>1. v % 256 = IF v < 0 THEN v + 256 ELSE v
    BY DEF SmallNumber
  <2> QED BY <2>1 DEF Byte
<1>3. b[1] = Byte(v, 0)
  OBVIOUS
<1>4. CASE n = 1
  <2>1. Len(b) = 1
    BY <1>1, <1>4
  <2>2. /\ b[1] \in Int
        /\ b[1] > 127 <=> v < 0
        /\ b[1] = IF v < 0 THEN v + 256 ELSE v
    BY <1>2, <1>3 DEF SmallNumber
  <2> QED BY <2>1, <2>2 DEF Value, SmallNumber
<1>5. CASE n = 2
  <2>1. b[2] = Byte(v, 1)
    BY <1>5
  <2> QED BY <1>1, <1>2, <1>3, <1>5, <2>1 DEF Value, SmallNumber
<1>6. CASE n = 4
  <2>1. b[2] = Byte(v, 1) /\ b[4] = Byte(v, 3)
    BY <1>6
  <2> QED BY <1>1, <1>2, <1>3, <1>6, <2>1 DEF Value, SmallNumber
<1> QED BY <1>4, <1>5, <1>6

(* A function whose variable holds the verdict's bytes tells the verdict. *)
LEMMA ResultTells ==
  ASSUME NEW c \in Api, c.name \notin Lossy, NEW v \in SmallNumber,
         NEW b, Holds(b, c.width, v)
  PROVE  /\ Outcome(c, Result(c, b)) = Outcome(c, v)
         /\ c.post = "asIs" /\ c.signed => Result(c, b) = v
<1>1. TellsVerdict(c)
  BY Tells
<1>2. /\ c.width \in {1, 2, 4}
      /\ c.signed \/ (c.width = 1 /\ c.ok = "zero" /\ c.post = "asIs")
      /\ \/ c.post = "asIs"
         \/ c.post \in {"zero", "minus1"} /\ c.ok = "notNegative"
  BY <1>1 DEF TellsVerdict
<1>3. /\ c.signed => Value(b, c.signed) = v
      /\ c.width = 1 /\ ~c.signed =>
           Value(b, c.signed) >= 0 /\ (Value(b, c.signed) = 0 <=> v = 0)
  BY <1>1, <1>2, ValueOfBytes DEF TellsVerdict, Widths
<1>4. CASE c.signed
  <2>1. Value(b, c.signed) = v
    BY <1>3, <1>4
  <2>2. Result(c, b) = IF c.post = "zero" /\ v >= 0 THEN 0
                       ELSE IF c.post = "minus1" /\ v < 0 THEN -1 ELSE v
    BY <1>2, <2>1 DEF Result
  <2> QED BY <1>2, <2>2 DEF Outcome, Succeeded, SmallNumber
<1>5. CASE ~c.signed
  <2>1. /\ Value(b, c.signed) >= 0
        /\ Value(b, c.signed) = 0 <=> v = 0
    BY <1>2, <1>3, <1>5
  <2>2. Result(c, b) = Value(b, c.signed) /\ c.ok = "zero"
    BY <1>2, <1>5 DEF Result
  <2> QED BY <1>5, <2>1, <2>2 DEF Outcome, Succeeded
<1> QED BY <1>4, <1>5

(* What the refinement needs of a call: once the handler has filled the    *)
(* function's variable it holds the verdict on this call; and a descriptor *)
(* the device has given is one of its sockets until the call returns.      *)
HoldsInv ==
  phase \in {"noData", "data", "return"} /\ call.name \notin Lossy =>
    Holds(mem, call.width, verdict)
Opens(c) == c.name \in {"socket", "accept"}
LiveInv ==
  phase \notin {"idle", "asked"} /\ Opens(call) /\ verdict >= 0 =>
    verdict \in live

Answered == HoldsInv /\ LiveInv

LEMMA Layouts ==
  \A evt : HandlerWrites(evt).at \in Nat /\ HandlerWrites(evt).width \in Nat
BY DEF HandlerWrites, Writes

LEMMA EventHolds ==
  IInv /\ HandleEvent /\ call.name \notin Lossy =>
    Holds(mem', call.width, verdict)
<1> SUFFICES ASSUME IInv, HandleEvent, call.name \notin Lossy
             PROVE  Holds(mem', call.width, verdict)
  OBVIOUS
<1> DEFINE w == HandlerWrites(call.evt)
<1>1. w.at \in Nat /\ w.width \in Nat
  BY Layouts
<1>2. call.at = w.at /\ call.width \in Widths /\ call.width <= w.width
  <2>1. TellsVerdict(call)
    BY Tells DEF IInv, TypeOK
  <2> QED BY <2>1 DEF TellsVerdict, Widths
<1>3. mem' = [i \in 1 .. call.width |->
                Written(call.evt, verdict, call.at + i - 1, mem[i])]
  BY DEF HandleEvent
<1>4. \A i \in 1 .. call.width : mem'[i] = Byte(verdict, i - 1)
  <2> SUFFICES ASSUME NEW i \in 1 .. call.width
               PROVE  mem'[i] = Byte(verdict, i - 1)
    OBVIOUS
  <2>1. i \in Int /\ 1 <= i /\ i <= w.width
    BY <1>1, <1>2 DEF Widths
  <2>2. /\ w.at + i - 1 \in w.at .. w.at + w.width - 1
        /\ (w.at + i - 1) - w.at = i - 1
    BY <1>1, <2>1
  <2>3. Written(call.evt, verdict, w.at + i - 1, mem[i]) = Byte(verdict, i - 1)
    BY <2>2 DEF Written
  <2> QED BY <1>2, <1>3, <2>3
<1>5. \A i \in Nat : Byte(verdict, i) \in 0 .. 255
  <2>1. verdict \in Verdicts \cup {0}
    BY DEF IInv, TypeOK
  <2> QED BY <2>1, Bytes
<1>6. mem' \in [1 .. call.width -> 0 .. 255]
  <2>1. \A i \in 1 .. call.width : mem'[i] \in 0 .. 255
    BY <1>2, <1>4, <1>5 DEF Widths
  <2> DEFINE S == 1 .. call.width
             new(i) == Written(call.evt, verdict, call.at + i - 1, mem[i])
  <2>2. mem' = [i \in S |-> new(i)]
    BY <1>3
  <2> HIDE DEF new, S
  <2>3. mem' = [i \in S |-> mem'[i]]
    BY <2>2
  <2> QED BY <2>1, <2>3 DEF S
<1> QED BY <1>4, <1>6 DEF Holds

LEMMA StepAnswered == IInv /\ Answered /\ [Next]_vars => Answered'
<1> SUFFICES ASSUME IInv, Answered, [Next]_vars PROVE Answered'
  OBVIOUS
<1> USE DEF Answered, HoldsInv, LiveInv
<1>1. ASSUME NEW c \in Api, NEW s \in Socks, Send(c, s) PROVE Answered'
  BY <1>1 DEF Send
<1>2. ASSUME NEW c \in Api, NEW s \in Socks, NEW r \in c.refusals,
             RefuseCall(c, s, r) PROVE Answered'
  BY <1>2 DEF RefuseCall
<1>3. ASSUME NEW v \in Verdicts, DevAnswers(v) PROVE Answered'
  <2>1. phase' = "answered" /\ verdict' = v /\ call' = call
    BY <1>3 DEF DevAnswers
  <2>2. Opens(call) /\ v >= 0 => v \in live'
    BY <1>3 DEF DevAnswers, Opens
  <2> QED BY <2>1, <2>2
<1>4. CASE HandleEvent
  <2>1. UNCHANGED <<call, verdict, live>> /\ phase = "answered"
        /\ phase' \in {"noData", "return"}
    BY <1>4 DEF HandleEvent
  <2> QED BY <1>4, <2>1, EventHolds
<1>5. CASE DevSendsData \/ HandleData
  BY <1>5 DEF DevSendsData, HandleData, varVars
<1>8. CASE TakeFailure
  BY <1>8 DEF TakeFailure, varVars
<1>6. CASE ReturnCall
  BY <1>6 DEF ReturnCall
<1>7. CASE UNCHANGED vars
  BY <1>7 DEF vars, varVars
<1> QED
  BY <1>1, <1>2, <1>3, <1>4, <1>5, <1>6, <1>7, <1>8 DEF Next, Main, Dev

LEMMA AlwaysAnswered == Spec => []Answered
<1>1. CommandInit => Answered
  BY DEF CommandInit, Answered, HoldsInv, LiveInv
<1> QED BY <1>1, Inductive, StepAnswered, PTL DEF Spec

(* A function's result says of the command what the device has said. *)
LEMMA ReturnTells ==
  IInv /\ Answered /\ ReturnCall /\ call.name \notin Lossy =>
    /\ Outcome(call, ret') = Outcome(call, verdict)
    /\ call.post = "asIs" /\ call.signed => ret' = verdict
<1> SUFFICES ASSUME IInv, Answered, ReturnCall, call.name \notin Lossy
             PROVE  /\ Outcome(call, ret') = Outcome(call, verdict)
                    /\ call.post = "asIs" /\ call.signed => ret' = verdict
  OBVIOUS
<1>1. call \in Api /\ verdict \in SmallNumber
  BY DEF IInv, TypeOK, SmallNumber
<1>2. Holds(mem, call.width, verdict)
  BY DEF Answered, HoldsInv, ReturnCall
<1>3. ret' = Result(call, mem)
  BY DEF ReturnCall
<1> QED BY <1>1, <1>2, <1>3, ResultTells

(* Each step of the main program or the device is a step of RemoteCall or  *)
(* none that its caller could tell.                                        *)
LEMMA StepRemote ==
  IInv /\ Answered /\ [Next]_vars => [Remote!RemoteNext]_(Remote!remoteVars)
<1> SUFFICES ASSUME IInv, Answered, [Next]_vars
             PROVE  [Remote!RemoteNext]_(Remote!remoteVars)
  OBVIOUS
<1> USE DEF Remote!remoteVars
<1>1. call \in Api /\ call.name # "none"
  BY Tells DEF IInv, TypeOK, TellsVerdict
<1>2. \A c, x : Outcome(c, x) \in Remote!Verdict
  BY DEF Outcome, Remote!Verdict
<1>3. ASSUME NEW c \in Api, NEW s \in Socks, Send(c, s)
      PROVE  Remote!Ask(c.name)
  BY <1>3 DEF Send, Remote!Ask
<1>4. ASSUME NEW c \in Api, NEW s \in Socks, NEW r \in c.refusals,
             RefuseCall(c, s, r)
      PROVE  Remote!Refuse(c.name)
  BY <1>2, <1>4 DEF RefuseCall, Remote!Refuse
<1>5. ASSUME NEW v \in Verdicts, DevAnswers(v) PROVE Remote!Decide
  BY <1>1, <1>2, <1>5 DEF DevAnswers, Remote!Decide
<1>6. CASE TakeFailure \/ HandleEvent \/ DevSendsData \/ HandleData
  BY <1>6 DEF TakeFailure, HandleEvent, DevSendsData, HandleData
<1>7. ASSUME ReturnCall PROVE Remote!Return
  <2>1. phase = "return" /\ phase' = "idle" /\ call' = call
    BY <1>7 DEF ReturnCall
  <2>2. call.name \notin Lossy => Outcome(call, ret') = Outcome(call, verdict)
    BY <1>7, ReturnTells
  <2> QED BY <1>1, <1>2, <2>1, <2>2 DEF Remote!Return
<1>8. CASE UNCHANGED vars
  BY <1>8 DEF vars
<1> QED
  BY <1>3, <1>4, <1>5, <1>6, <1>7, <1>8 DEF Next, Main, Dev, Remote!RemoteNext

(* The driver implements RemoteCall: a function asks once, and what it     *)
(* returns is the verdict on the command it has sent, for every function   *)
(* that returns it, every width it passes through and every answer.        *)
THEOREM Implements == Spec => VerdictReturned
<1>1. CommandInit => Remote!RemoteInit
  BY DEF CommandInit, Remote!RemoteInit, Outcome, Succeeded, Read_Buffer_Size
<1> QED
  BY <1>1, StepRemote, Inductive, AlwaysAnswered, PTL
     DEF Spec, VerdictReturned, Remote!RemoteSpec

(* A descriptor a caller gets is a socket of the device and may be sent    *)
(* on; one that it has given to closesocket is refused.                    *)
THEOREM DescriptorsUsable == Spec => HandlesUsable
<1> DEFINE A == ReturnCall =>
                  /\ call.name \in {"socket", "accept"} /\ ret' >= 0
                       => ret' \in live \ inactive'
                  /\ call.name = "closesocket" => sd \in inactive'
<1>1. IInv /\ Answered /\ [Next]_vars => [A]_vars
  <2> SUFFICES ASSUME IInv, Answered, ReturnCall
               PROVE  /\ Opens(call) /\ ret' >= 0 => ret' \in live \ inactive'
                      /\ call.name = "closesocket" => sd \in inactive'
    BY DEF Opens
  <2>1. ASSUME Opens(call), ret' >= 0 PROVE ret' \in live \ inactive'
    <3>1. call.name \notin Lossy /\ call.post = "asIs" /\ call.signed
      BY <2>1, Tells DEF IInv, TypeOK, TellsVerdict, Opens, Lossy
    <3>2. ret' = verdict
      BY <3>1, ReturnTells
    <3>3. ret' \in live /\ live \subseteq Socks
      BY <2>1, <3>2 DEF Answered, LiveInv, ReturnCall, IInv, TypeOK
    <3> QED BY <2>1, <3>3 DEF ReturnCall, Mark, Opens
  <2>2. ASSUME call.name = "closesocket" PROVE sd \in inactive'
    BY <2>2 DEF ReturnCall, Mark
  <2> QED BY <2>1, <2>2
<1> QED
  BY <1>1, Inductive, AlwaysAnswered, PTL DEF Spec, HandlesUsable

============================================================================
