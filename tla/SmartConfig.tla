---------------------------- MODULE SmartConfig ----------------------------
(***************************************************************************)
(* sp_smart_config against a device that connects, loses its connection    *)
(* and gets an address when it can.  The device's asynchronous events set  *)
(* the flags of core.cpp from the interrupt handler; sp_smart_config waits *)
(* for flags, gives commands in between, and restarts the device.          *)
(***************************************************************************)
EXTENDS Integers, Sequences

CONSTANTS
  MaxCalls,   (* bound: calls of sp_smart_config                            *)
  MaxLosses,  (* bound: lost connections and failed commands                *)
  MaxEvents   (* bound: events on their way                                 *)

ASSUME BoundsAssumption == {MaxCalls, MaxLosses, MaxEvents} \subseteq Nat

VARIABLES
  pc, ret, calls,
  late,      \* 30 seconds have passed since the process was started
  ulSmartConfigFinished, ulCC3000Connected, ulCC3000DHCP,
  (* the device *)
  on,        \* it has been started
  auto,      \* its connection policy: connect to the profiles
  profile,   \* it holds a profile
  config,    \* it is acquiring one
  link,      \* "down", connected ("up") or with an address ("leased")
  events,    \* asynchronous events on their way
  losses     \* bound

mainVars == <<pc, ret, calls, late>>
flags    == <<ulSmartConfigFinished, ulCC3000Connected, ulCC3000DHCP>>
devVars  == <<on, auto, profile, config, link>>
vars == <<mainVars, flags, devVars, events, losses>>

(* What sp_wifi_init leaves: the device keeps its profiles and its policy. *)
Init ==
  /\ pc = "idle" /\ ret = 0 /\ calls = 0 /\ late = FALSE
  /\ ulSmartConfigFinished = 0 /\ ulCC3000Connected = 0 /\ ulCC3000DHCP = 0
  /\ on = TRUE /\ auto \in BOOLEAN /\ profile \in BOOLEAN
  /\ config = FALSE /\ link = "down" /\ events = <<>> /\ losses = 0

----------------------------------------------------------------------------
(* CC3000_AsyncCallback, called by the interrupt handler. *)

SetFlags(finished, connected, dhcp) ==
  /\ ulSmartConfigFinished' = finished
  /\ ulCC3000Connected' = connected
  /\ ulCC3000DHCP' = dhcp

(* Mutant: a lost connection leaves the address. *)
CallbackKeepsDhcp(e) ==
  \/ /\ e = "SIMPLE_CONFIG_DONE"
     /\ SetFlags(1, ulCC3000Connected, ulCC3000DHCP)
  \/ /\ e = "CONNECT"
     /\ SetFlags(ulSmartConfigFinished, 1, ulCC3000DHCP)
  \/ /\ e = "DISCONNECT"
     /\ SetFlags(ulSmartConfigFinished, 0, ulCC3000DHCP)
  \/ /\ e = "DHCP"
     /\ SetFlags(ulSmartConfigFinished, ulCC3000Connected, 1)
  \/ /\ e = "DHCP_FAILED"
     /\ SetFlags(ulSmartConfigFinished, ulCC3000Connected, 0)

Callback(e) ==
  \/ /\ e = "SIMPLE_CONFIG_DONE"
     /\ SetFlags(1, ulCC3000Connected, ulCC3000DHCP)
  \/ /\ e = "CONNECT"
     /\ SetFlags(ulSmartConfigFinished, 1, ulCC3000DHCP)
  \/ /\ e = "DISCONNECT"
     /\ SetFlags(ulSmartConfigFinished, 0, 0)
  \/ /\ e = "DHCP"
     /\ SetFlags(ulSmartConfigFinished, ulCC3000Connected, 1)
  \/ /\ e = "DHCP_FAILED"
     /\ SetFlags(ulSmartConfigFinished, ulCC3000Connected, 0)

HandleEvent ==
  /\ events # <<>> /\ events' = Tail(events)
  /\ Callback(Head(events))
  /\ UNCHANGED <<mainVars, devVars, losses>>

----------------------------------------------------------------------------
(* sp_smart_config. *)

Go(a, b) == pc = a /\ pc' = b

Return(r) == pc' = "idle" /\ ret' = r

Call ==
  /\ Go("idle", "disablePolicy")
  /\ calls < MaxCalls /\ calls' = calls + 1
  /\ UNCHANGED <<ret, late, flags, devVars, events, losses>>

(* A command has the device's answer, or an error ends the call.  The      *)
(* answer comes after the events that were on their way.                   *)
Command(a, b, ok) ==
  /\ pc = a /\ events = <<>> /\ UNCHANGED <<calls, flags, events>>
  /\ IF ok THEN pc' = b /\ UNCHANGED <<ret, losses>>
     ELSE Return(-1) /\ losses < MaxLosses /\ losses' = losses + 1

DisablePolicy(ok) ==
  /\ Command("disablePolicy", "deleteProfiles", ok)
  /\ auto' = (auto /\ ~ok)
  /\ UNCHANGED <<late, on, profile, config, link>>

(* The device drops its connection afterwards. *)
DeleteProfiles(ok) ==
  /\ Command("deleteProfiles", "waitDown", ok)
  /\ profile' = (profile /\ ~ok)
  /\ UNCHANGED <<late, on, auto, config, link>>

(* Mutant: does not wait. *)
WaitDownNot ==
  /\ Go("waitDown", "setPrefix")
  /\ UNCHANGED <<ret, calls, late, flags, devVars, events, losses>>

WaitDown ==
  /\ Go("waitDown", "setPrefix")
  /\ ulCC3000Connected = 0
  /\ UNCHANGED <<ret, calls, late, flags, devVars, events, losses>>

SetPrefix(ok) ==
  /\ Command("setPrefix", "startConfig", ok)
  /\ UNCHANGED <<late, devVars>>

StartConfig(ok) ==
  /\ Command("startConfig", "waitDone", ok)
  /\ config' = (config \/ ok)
  /\ late' = FALSE
  /\ UNCHANGED <<on, auto, profile, link>>

WaitDone ==
  /\ Go("waitDone", "enablePolicy")
  /\ ulSmartConfigFinished = 1
  /\ UNCHANGED <<ret, calls, late, flags, devVars, events, losses>>

TimeOut ==
  /\ pc = "waitDone" /\ ulSmartConfigFinished = 0 /\ late
  /\ Return(-1)
  /\ UNCHANGED <<calls, late, flags, devVars, events, losses>>

EnablePolicy(ok) ==
  /\ Command("enablePolicy", "stop", ok)
  /\ auto' = (auto \/ ok)
  /\ UNCHANGED <<late, on, profile, config, link>>

(* wlan_stop: what the device has not been asked for is lost. *)
Stop ==
  /\ Go("stop", "restart")
  /\ on' = FALSE /\ config' = FALSE /\ link' = "down" /\ events' = <<>>
  /\ UNCHANGED <<ret, calls, late, flags, auto, profile, losses>>

Restart ==
  /\ Go("restart", "waitUp")
  /\ on' = TRUE
  /\ UNCHANGED <<ret, calls, late, flags, auto, profile, config, link,
                 events, losses>>

(* Mutant: waits for an address or no longer. *)
WaitUpNot ==
  /\ Go("waitUp", "advertise")
  /\ UNCHANGED <<ret, calls, late, flags, devVars, events, losses>>

(* Mutant: waits for both, as the comment says. *)
WaitUpBoth ==
  /\ Go("waitUp", "advertise")
  /\ ulCC3000Connected # 0 /\ ulCC3000DHCP # 0
  /\ UNCHANGED <<ret, calls, late, flags, devVars, events, losses>>

(* One of the flags is enough. *)
WaitUp ==
  /\ Go("waitUp", "advertise")
  /\ ulCC3000Connected # 0 \/ ulCC3000DHCP # 0
  /\ UNCHANGED <<ret, calls, late, flags, devVars, events, losses>>

(* The result of mdnsAdvertiser is not looked at. *)
Advertise ==
  /\ pc = "advertise" /\ events = <<>>
  /\ Return(0)
  /\ UNCHANGED <<calls, late, flags, devVars, events, losses>>

----------------------------------------------------------------------------
(* The device. *)

Raise(e) == Len(events) < MaxEvents /\ events' = Append(events, e)

(* Any time after a reset with the policy "auto connect". *)
Associate ==
  /\ on /\ auto /\ profile /\ ~config /\ link = "down"
  /\ link' = "up" /\ Raise("CONNECT")
  /\ UNCHANGED <<mainVars, flags, on, auto, profile, config, losses>>

(* An address is assigned, or renewed. *)
Lease ==
  /\ link = "up" /\ link' = "leased" /\ Raise("DHCP")
  /\ UNCHANGED <<mainVars, flags, on, auto, profile, config, losses>>

LeaseFails ==
  /\ link # "down" /\ link' = "up" /\ Raise("DHCP_FAILED")
  /\ losses < MaxLosses /\ losses' = losses + 1
  /\ UNCHANGED <<mainVars, flags, on, auto, profile, config>>

(* It has no profile for the network any more. *)
Disassociate ==
  /\ link # "down" /\ ~profile
  /\ link' = "down" /\ Raise("DISCONNECT")
  /\ UNCHANGED <<mainVars, flags, on, auto, profile, config, losses>>

LoseNetwork ==
  /\ link # "down" /\ losses < MaxLosses /\ losses' = losses + 1
  /\ link' = "down" /\ Raise("DISCONNECT")
  /\ UNCHANGED <<mainVars, flags, on, auto, profile, config>>

(* The profile is stored before the event is raised. *)
Acquire ==
  /\ config /\ config' = FALSE
  /\ profile' = TRUE /\ Raise("SIMPLE_CONFIG_DONE")
  /\ UNCHANGED <<mainVars, flags, on, auto, link, losses>>

TimePasses ==
  /\ pc = "waitDone" /\ ~late /\ late' = TRUE
  /\ UNCHANGED <<pc, ret, calls, flags, devVars, events, losses>>

Commands(ok) ==
  \/ DisablePolicy(ok) \/ DeleteProfiles(ok) \/ SetPrefix(ok)
  \/ StartConfig(ok) \/ EnablePolicy(ok)

Main ==
  \/ \E ok \in BOOLEAN : Commands(ok)
  \/ WaitDown \/ WaitDone \/ TimeOut \/ Stop \/ Restart \/ WaitUp \/ Advertise

Next ==
  \/ Call \/ Main \/ HandleEvent \/ TimePasses
  \/ Associate \/ Lease \/ LeaseFails \/ Disassociate \/ LoseNetwork \/ Acquire

Spec == Init /\ [][Next]_vars

(* The CPU runs and takes interrupts, the clock runs, and the device does  *)
(* connect where it can and drop a connection without a profile.           *)
FairSpec ==
  Spec /\ WF_vars(Main) /\ WF_vars(HandleEvent) /\ WF_vars(TimePasses)
       /\ WF_vars(Associate) /\ WF_vars(Disassociate)

----------------------------------------------------------------------------
(* Properties.                                                             *)

(* Whatever events come and are thrown away, an address is never reported  *)
(* without a connection.                                                   *)
LeaseNeedsLink == ulCC3000DHCP = 1 => ulCC3000Connected = 1

(* The device is told to acquire a profile only when it has no connection. *)
StartsDisconnected ==
  [][\A ok \in BOOLEAN : StartConfig(ok) => link = "down"]_vars

(* When sp_smart_config returns 0 the device holds a profile and is to     *)
(* connect by itself, though the flag of an earlier call may have ended    *)
(* the wait for the process.                                               *)
SuccessHasProfile == [][Advertise => profile /\ auto]_vars

(* There are two ways for sp_smart_config not to return, and no other: the *)
(* flag of a connection that wlan_stop has ended is still set, or the wait *)
(* for the process was ended by an earlier call and there is no profile.   *)
Stuck ==
  \/ pc = "waitDown" /\ ulCC3000Connected = 1 /\ link = "down"
  \/ pc = "waitUp" /\ ~profile

CallEnds == []<>(pc = "idle" \/ Stuck)

============================================================================
