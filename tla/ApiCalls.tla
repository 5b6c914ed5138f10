----------------------------- MODULE ApiCalls ------------------------------
(***************************************************************************)
(* The functions of the host driver that send a command and wait for its   *)
(* event, one record for each.  Every one lays out its arguments in the    *)
(* transmit buffer, tells hci_command_send how long they are, and passes   *)
(* hci_event_handler the address of a variable whose size the handler does *)
(* not know; it returns some of the bytes that are in the variable then.   *)
(* The sizes are those of the AVR: int has 2 bytes, long 4, char is signed.*)
(***************************************************************************)
EXTENDS Integers

CONSTANTS
  Ssids,    (* lengths of an SSID: up to 32                                 *)
  Keys,     (* lengths of a key: up to 64                                   *)
  WepKeys,  (* lengths of one of the four WEP keys: 5 or 13                 *)
  Hosts,    (* lengths of a host name                                       *)
  Services, (* lengths of an mDNS service name                              *)
  Options,  (* lengths of a socket option; the code has no limit            *)
  Datas     (* lengths of data sent to a socket or a file: what fits into   *)
            (* wlan_tx_buffer behind the headers, which no function checks  *)

ASSUME LengthsAssumption ==
  /\ Ssids \subseteq 0 .. 32 /\ Keys \subseteq 0 .. 64
  /\ WepKeys \subseteq 0 .. 32
  /\ Hosts \subseteq Nat /\ Services \subseteq Nat
  /\ Options \subseteq 0 .. 200 /\ Datas \subseteq 0 .. 1477

(* Mutant: the longest that fits into a byte, without the header. *)
HostMaxByte == 254

(* HOSTNAME_MAX_LENGTH and MDNS_DEVICE_SERVICE_MAX_LENGTH *)
HostMax    == 230
ServiceMax == 32

IntBytes == 2
Garbage  == -1   \* a variable that is not initialised

(* A function: what it is called; the event it waits for; the pairs of the *)
(* number of argument bytes it lays out and the number it sends, as header *)
(* and, for data packets, data; the size of its variable and what each     *)
(* byte holds at first; which of these it returns and as what; whether it  *)
(* waits for data after the event; what it returns if it refuses to ask.   *)
Call(name, evt, args, var) ==
  [name |-> name, evt |-> evt, args |-> args, data |-> "never",
   refusals |-> {},
   size |-> var.size, init |-> var.init, at |-> var.at, width |-> var.width,
   signed |-> var.signed, post |-> var.post, ok |-> var.ok]

Var(size, init, width, ok) ==
  [size |-> size, init |-> init, at |-> 0, width |-> width,
   signed |-> TRUE, post |-> "asIs", ok |-> ok]

(* long ret = EFAIL; return ret; and signed char scRet = EFAIL. *)
EfailLong == Var(4, 255, 4, "zero")
EfailChar == Var(1, 255, 1, "zero")
GarbageLong == Var(4, Garbage, 4, "zero")

(* ret is a socket, an index or a count: not negative on success. *)
NotNegative(var) == [var EXCEPT !.ok = "notNegative"]

(* Only the k low bytes from offset a on are returned. *)
Part(var, a, k) == [var EXCEPT !.at = a, !.width = k]

Unsigned(var) == [var EXCEPT !.signed = FALSE]

(* The answer goes to a caller's structure, and void or 0 is returned. *)
Results(size) == [Var(size, Garbage, 1, "zero") EXCEPT !.post = "always0"]

Exactly(n) == {<<n, n>>}
PlusEach(n, lens) == {<<n + l, n + l>> : l \in lens}

----------------------------------------------------------------------------
(* wlan.cpp                                                                *)

SimpleLink_Init_Start ==
  Call("SimpleLink_Init_Start", "SIMPLE_LINK_START", Exactly(1), Results(0))

Read_Buffer_Size ==
  Call("Read_Buffer_Size", "READ_BUFFER_SIZE", Exactly(0), Results(0))

wlan_connect ==
  Call("wlan_connect", "WLAN_CONNECT",
       {<<28 + s + k, 29 + s + k - 1>> : s \in Ssids, k \in Keys}, EfailLong)

wlan_disconnect ==
  Call("wlan_disconnect", "WLAN_DISCONNECT", Exactly(0), EfailLong)

wlan_ioctl_set_connection_policy ==
  Call("wlan_ioctl_set_connection_policy", "SET_CONNECTION_POLICY",
       Exactly(12), EfailLong)

(* For an open network, WEP with four keys, and WPA or WPA2. *)
wlan_add_profile ==
  Call("wlan_add_profile", "ADD_PROFILE",
       PlusEach(24, Ssids)
         \cup {<<36 + s + 4 * k, 36 + s + 4 * k>> : s \in Ssids, k \in WepKeys}
         \cup {<<44 + s + k, 44 + s + k>> : s \in Ssids, k \in Keys},
       NotNegative(GarbageLong))

wlan_ioctl_del_profile ==
  Call("wlan_ioctl_del_profile", "DEL_PROFILE", Exactly(4), EfailLong)

wlan_ioctl_get_scan_results ==
  Call("wlan_ioctl_get_scan_results", "GET_SCAN_RESULTS", Exactly(4),
       Results(50))

wlan_ioctl_set_scan_params ==
  Call("wlan_ioctl_set_scan_params", "SET_SCANPARAM", Exactly(100),
       GarbageLong)

(* For TX_COMPLETE alone it tells the device nothing. *)
wlan_set_event_mask ==
  [Call("wlan_set_event_mask", "EVENT_MASK", Exactly(4), EfailLong)
     EXCEPT !.refusals = {0}]

wlan_ioctl_statusget ==
  Call("wlan_ioctl_statusget", "STATUSGET", Exactly(0), NotNegative(EfailLong))

wlan_smart_config_start ==
  Call("wlan_smart_config_start", "SIMPLE_CONFIG_START", Exactly(4), EfailLong)

wlan_smart_config_stop ==
  Call("wlan_smart_config_stop", "SIMPLE_CONFIG_STOP", Exactly(0), EfailLong)

wlan_smart_config_set_prefix ==
  [Call("wlan_smart_config_set_prefix", "SIMPLE_CONFIG_SET_PREFIX", Exactly(3),
        EfailLong) EXCEPT !.refusals = {-1}]

WlanCalls ==
  {SimpleLink_Init_Start, Read_Buffer_Size, wlan_connect, wlan_disconnect,
   wlan_ioctl_set_connection_policy, wlan_add_profile, wlan_ioctl_del_profile,
   wlan_ioctl_get_scan_results, wlan_ioctl_set_scan_params,
   wlan_set_event_mask, wlan_ioctl_statusget, wlan_smart_config_start,
   wlan_smart_config_stop, wlan_smart_config_set_prefix}

----------------------------------------------------------------------------
(* netapp.cpp                                                              *)

netapp_dhcp == Call("netapp_dhcp", "DHCP", Exactly(20), EfailChar)

(* Four timers are laid out, and room for a fifth is sent. *)
netapp_timeout_values ==
  Call("netapp_timeout_values", "SET_TIMERS", {<<16, 20>>}, EfailChar)

netapp_ping_send == Call("netapp_ping_send", "PING_SEND", Exactly(16), EfailChar)

netapp_ping_report ==
  Call("netapp_ping_report", "PING_REPORT", Exactly(0),
       [EfailChar EXCEPT !.post = "always0"])

netapp_ping_stop == Call("netapp_ping_stop", "PING_STOP", Exactly(0), EfailChar)

netapp_ipconfig == Call("netapp_ipconfig", "IPCONFIG", Exactly(0), Results(58))

netapp_arp_flush == Call("netapp_arp_flush", "ARP_FLUSH", Exactly(0), EfailChar)

netapp_set_debug_level ==
  Call("netapp_set_debug_level", "SET_DEBUG_LEVEL", Exactly(4), EfailChar)

NetappCalls ==
  {netapp_dhcp, netapp_timeout_values, netapp_ping_send, netapp_ping_report,
   netapp_ping_stop, netapp_ipconfig, netapp_arp_flush, netapp_set_debug_level}

----------------------------------------------------------------------------
(* nvmem.cpp                                                               *)

(* The device sends data after the event in any case. *)
nvmem_read ==
  [Call("nvmem_read", "NVMEM_READ", Exactly(12), Unsigned(EfailChar))
     EXCEPT !.data = "always"]

nvmem_write ==
  Call("nvmem_write", "NVMEM_WRITE", PlusEach(16, Datas), EfailLong)

(* They return the low byte of what nvmem_write and nvmem_read return. *)
nvmem_set_mac_address ==
  Call("nvmem_set_mac_address", "NVMEM_WRITE", Exactly(16 + 6),
       Unsigned(Part(EfailLong, 0, 1)))

nvmem_get_mac_address == [nvmem_read EXCEPT !.name = "nvmem_get_mac_address"]

netapp_config_mac_adrress ==
  [nvmem_set_mac_address EXCEPT !.name = "netapp_config_mac_adrress"]

nvmem_read_sp_version ==
  Call("nvmem_read_sp_version", "READ_SP_VERSION", Exactly(0),
       Unsigned(Var(5, Garbage, 1, "zero")))

(* unsigned short retval, of which the handler writes one byte. *)
nvmem_create_entry ==
  Call("nvmem_create_entry", "NVMEM_CREATE_ENTRY", Exactly(8),
       Unsigned(Var(2, Garbage, 2, "zero")))

NvmemCalls ==
  {nvmem_read, nvmem_write, nvmem_set_mac_address, nvmem_get_mac_address,
   netapp_config_mac_adrress, nvmem_read_sp_version, nvmem_create_entry}

----------------------------------------------------------------------------
(* socket.cpp                                                              *)

socket ==
  Call("socket", "SOCKET", Exactly(12),
       NotNegative(Part(EfailLong, 0, IntBytes)))

closesocket == Call("closesocket", "CLOSE_SOCKET", Exactly(4), EfailLong)

(* Mutant: the first field of the structure is returned. *)
accept_first ==
  Call("accept", "ACCEPT", Exactly(4),
       Part(Var(24, Garbage, 4, "notNegative"), 0, IntBytes))

(* tBsdReturnParams: descriptor, status and address. *)
accept ==
  Call("accept", "ACCEPT", Exactly(4),
       Part(Var(24, Garbage, 4, "notNegative"), 4, IntBytes))

bind == Call("bind", "BIND", Exactly(20), EfailLong)

listen == Call("listen", "LISTEN", Exactly(8), EfailLong)

gethostbyname ==
  [Call("gethostbyname", "GETHOSTNAME",
        {<<8 + n, 9 + n - 1>> : n \in Hosts \cap (0 .. HostMax)},
        Part(Var(8, Garbage, 4, "notNegative"), 0, IntBytes))
     EXCEPT !.refusals = {-1}]

connect == Call("connect", "CONNECT", Exactly(20), EfailLong)

(* Without a timeout its two words are sent and not laid out. *)
select ==
  Call("select", "SELECT", {<<36, 44>>, <<44, 44>>},
       [Var(16, Garbage, 4, "notNegative") EXCEPT !.post = "minus1"])

(* int ret, into which the handler writes a long. *)
setsockopt ==
  Call("setsockopt", "SETSOCKOPT", PlusEach(20, Options),
       [Var(IntBytes, Garbage, IntBytes, "notNegative") EXCEPT !.post = "zero"])

(* tBsdGetSockOptReturnParams: the option's value, then the status. *)
getsockopt ==
  Call("getsockopt", "GETSOCKOPT", Exactly(12),
       [Part(Var(5, Garbage, 4, "notNegative"), 4, 1) EXCEPT !.post = "zero"])

(* tBsdReadReturnParams: descriptor, number of bytes and flags. *)
simple_link_recv ==
  [Call("recv", "RECV", Exactly(12),
        Part(Var(12, Garbage, 4, "notNegative"), 4, IntBytes))
     EXCEPT !.data = "positive"]

recvfrom ==
  [simple_link_recv EXCEPT !.name = "recvfrom", !.evt = "RECVFROM"]

(* It returns the length it was given, or else the status byte of an       *)
(* earlier failure or -1.                                                  *)
simple_link_send ==
  [Call("send", "SEND", PlusEach(16, Datas),
        [Var(12, Garbage, 4, "notNegative") EXCEPT !.post = "always0"])
     EXCEPT !.refusals = {-1, 199}]

(* The address follows the data. *)
sendto ==
  [simple_link_send EXCEPT !.name = "sendto", !.evt = "SENDTO",
                           !.args = PlusEach(24 + 8, Datas)]

(* int ret, of which the handler writes one byte. *)
mdnsAdvertiser ==
  [Call("mdnsAdvertiser", "MDNS_ADVERTISE",
        PlusEach(12, Services \cap (0 .. ServiceMax)),
        Var(IntBytes, Garbage, IntBytes, "zero")) EXCEPT !.refusals = {-1}]

SocketCalls ==
  {socket, closesocket, accept, bind, listen, gethostbyname, connect, select,
   setsockopt, getsockopt, simple_link_recv, recvfrom, simple_link_send,
   sendto, mdnsAdvertiser}

Api == WlanCalls \cup NetappCalls \cup NvmemCalls \cup SocketCalls

============================================================================
