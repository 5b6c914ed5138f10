------------------------- MODULE SmartConfigProofs --------------------------
(***************************************************************************)
(* For any bounds on calls, losses and events: the flags of core.cpp do    *)
(* not contradict each other, and sp_smart_config starts the process and   *)
(* ends with success only where it may, though the flags it looks at lag   *)
(* behind the device by the events that are on their way, and events are   *)
(* thrown away when the device is stopped.                                 *)
(***************************************************************************)
EXTENDS SmartConfig, SequenceTheorems, TLAPS

Flag == {0, 1}

Events ==
  {"SIMPLE_CONFIG_DONE", "CONNECT", "DISCONNECT", "DHCP", "DHCP_FAILED"}

Places ==
  {"idle", "disablePolicy", "deleteProfiles", "waitDown", "setPrefix",
   "startConfig", "waitDone", "enablePolicy", "stop", "restart", "waitUp",
   "advertise"}

TypeOK ==
  /\ pc \in Places /\ ret \in {0, -1} /\ calls \in Nat /\ late \in BOOLEAN
  /\ ulSmartConfigFinished \in Flag
  /\ ulCC3000Connected \in Flag /\ ulCC3000DHCP \in Flag
  /\ on \in BOOLEAN /\ auto \in BOOLEAN /\ profile \in BOOLEAN
  /\ config \in BOOLEAN /\ link \in {"down", "up", "leased"}
  /\ events \in Seq(Events) /\ losses \in Nat

(* What a flag that is c becomes when the first n of the events q are      *)
(* handled: whether a connection is the last that is heard of.             *)
After(c, q, n) ==
  \/ /\ c = 1
     /\ \A k \in 1 .. n : q[k] # "DISCONNECT"
  \/ \E j \in 1 .. n :
       /\ q[j] = "CONNECT"
       /\ \A k \in j + 1 .. n : q[k] # "DISCONNECT"

(* Whether the last that the program will have heard is a connection. *)
Heard(n) == After(ulCC3000Connected, events, n)

----------------------------------------------------------------------------
(* The inductive invariant.                                                *)

FlagInv == ulCC3000DHCP = 1 => ulCC3000Connected = 1

(* An address is only announced on a connection that has been announced. *)
OrderInv ==
  \A n \in 1 .. Len(events) :
    events[n] = "DHCP" => Heard(n - 1)

(* A connection the device has, the program has or will have heard of. *)
LinkInv == link # "down" => Heard(Len(events))

(* Without its policy the device does not connect by itself. *)
Passive ==
  {"deleteProfiles", "waitDown", "setPrefix", "startConfig", "waitDone",
   "enablePolicy"}

QuietInv ==
  pc \in Passive =>
    ~auto /\ \A n \in 1 .. Len(events) : events[n] # "CONNECT"

DownInv ==
  pc \in {"setPrefix", "startConfig", "waitDone", "enablePolicy"} =>
    link = "down" /\ ulCC3000Connected = 0

(* After the process whatever tells of a connection tells of a profile. *)
Connecting ==
  \/ ulCC3000Connected = 1
  \/ link # "down"
  \/ \E n \in 1 .. Len(events) : events[n] = "CONNECT"

ProfileInv ==
  /\ pc \in {"stop", "restart", "waitUp", "advertise"} => auto
  /\ pc \in {"stop", "restart", "waitUp"} /\ Connecting => profile
  /\ pc = "advertise" => profile

IInv ==
  /\ TypeOK /\ FlagInv /\ OrderInv /\ LinkInv
  /\ QuietInv /\ DownInv /\ ProfileInv

USE BoundsAssumption

LEMMA InitInv == Init => IInv
<1> SUFFICES ASSUME Init PROVE IInv
  OBVIOUS
<1>1. TypeOK
  BY EmptySeq DEF Init, TypeOK, Flag, Places
<1>2. FlagInv /\ OrderInv /\ LinkInv
  BY EmptySeq DEF Init, FlagInv, OrderInv, LinkInv
<1>3. QuietInv /\ DownInv /\ ProfileInv
  BY DEF Init, QuietInv, DownInv, ProfileInv, Passive
<1> QED BY <1>1, <1>2, <1>3 DEF IInv

----------------------------------------------------------------------------
(* Types.                                                                  *)

LEMMA TailOfEvents ==
  ASSUME NEW q \in Seq(Events), q # <<>>
  PROVE  /\ Head(q) = q[1] /\ Head(q) \in Events /\ Tail(q) \in Seq(Events)
         /\ Len(Tail(q)) = Len(q) - 1 /\ Len(q) \in Nat \ {0}
         /\ \A n \in 1 .. Len(q) - 1 : Tail(q)[n] = q[n + 1]
BY HeadTailProperties

LEMMA AppendOfEvents ==
  ASSUME NEW q \in Seq(Events), NEW e \in Events
  PROVE  /\ Append(q, e) \in Seq(Events) /\ Len(Append(q, e)) = Len(q) + 1
         /\ Len(q) \in Nat /\ Append(q, e)[Len(q) + 1] = e
         /\ \A n \in 1 .. Len(q) : Append(q, e)[n] = q[n]
BY AppendProperties

LEMMA StepType == TypeOK /\ [Next]_vars => TypeOK'
<1> SUFFICES ASSUME TypeOK, [Next]_vars PROVE TypeOK'
  OBVIOUS
<1> USE DEF TypeOK, Flag, Places
<1>1. ASSUME HandleEvent PROVE TypeOK'
  <2>1. Tail(events) \in Seq(Events)
    BY <1>1, TailOfEvents DEF HandleEvent
  <2> QED
    BY <1>1, <2>1 DEF HandleEvent, Callback, SetFlags, mainVars, devVars
<1>2. ASSUME NEW e \in Events, Raise(e) PROVE events' \in Seq(Events)
  BY <1>2, AppendOfEvents DEF Raise
<1>3. CASE Associate
  BY <1>2, <1>3 DEF Associate, Events, mainVars, flags
<1>4. CASE Lease
  BY <1>2, <1>4 DEF Lease, Events, mainVars, flags
<1>5. CASE LeaseFails
  BY <1>2, <1>5 DEF LeaseFails, Events, mainVars, flags
<1>6. CASE Disassociate
  BY <1>2, <1>6 DEF Disassociate, Events, mainVars, flags
<1>7. CASE LoseNetwork
  BY <1>2, <1>7 DEF LoseNetwork, Events, mainVars, flags
<1>8. CASE Acquire
  BY <1>2, <1>8 DEF Acquire, Events, mainVars, flags
<1>9. ASSUME NEW ok \in BOOLEAN, Commands(ok) PROVE TypeOK'
  <2>1. CASE DisablePolicy(ok)
    BY <2>1 DEF DisablePolicy, Command, Return, flags
  <2>2. CASE DeleteProfiles(ok)
    BY <2>2 DEF DeleteProfiles, Command, Return, flags
  <2>3. CASE SetPrefix(ok)
    BY <2>3 DEF SetPrefix, Command, Return, flags, devVars
  <2>4. CASE StartConfig(ok)
    <3>1. pc' \in Places /\ ret' \in {0, -1} /\ losses' \in Nat
      BY <2>4 DEF StartConfig, Command, Return
    <3>2. config' \in BOOLEAN
      BY <2>4 DEF StartConfig
    <3> QED BY <2>4, <3>1, <3>2 DEF StartConfig, Command, flags
  <2>5. CASE EnablePolicy(ok)
    BY <2>5 DEF EnablePolicy, Command, Return, flags
  <2> QED BY <1>9, <2>1, <2>2, <2>3, <2>4, <2>5 DEF Commands
<1>10. CASE WaitDown \/ WaitDone \/ WaitUp
  BY <1>10 DEF WaitDown, WaitDone, WaitUp, Go, flags, devVars
<1>16. CASE Restart
  BY <1>16 DEF Restart, Go, flags
<1>15. CASE TimeOut \/ Advertise
  BY <1>15 DEF TimeOut, Advertise, Return, flags, devVars
<1>11. CASE Stop
  <2>1. events' \in Seq(Events)
    BY <1>11, EmptySeq DEF Stop
  <2> QED BY <1>11, <2>1 DEF Stop, Go, flags
<1>12. CASE Call
  BY <1>12 DEF Call, Go, flags, devVars
<1>13. CASE TimePasses
  BY <1>13 DEF TimePasses, flags, devVars
<1>14. CASE UNCHANGED vars
  BY <1>14 DEF vars, mainVars, flags, devVars
<1> QED
  BY <1>1, <1>3, <1>4, <1>5, <1>6, <1>7, <1>8, <1>9, <1>10, <1>11, <1>12,
     <1>13, <1>14, <1>15, <1>16 DEF Next, Main

----------------------------------------------------------------------------
(* The flags and the events that are on their way.                         *)

QueueInv == FlagInv /\ OrderInv /\ LinkInv

(* To handle the first of the events changes nothing of what the program   *)
(* will know when it has handled the others.                               *)
LEMMA HandleQueue == TypeOK /\ QueueInv /\ HandleEvent => QueueInv'
<1> SUFFICES ASSUME TypeOK, QueueInv, HandleEvent PROVE QueueInv'
  OBVIOUS
<1>1. /\ Head(events) = events[1] /\ Head(events) \in Events
      /\ Len(events') = Len(events) - 1 /\ Len(events) \in Nat \ {0}
      /\ \A n \in 1 .. Len(events) - 1 : events'[n] = events[n + 1]
  BY TailOfEvents DEF HandleEvent, TypeOK
<1>2. \A n \in 1 .. Len(events) :
        Heard(n) => After(ulCC3000Connected', events', n - 1)
  <2> SUFFICES ASSUME NEW n \in 1 .. Len(events), Heard(n)
               PROVE  After(ulCC3000Connected', events', n - 1)
    OBVIOUS
  <2>1. CASE /\ ulCC3000Connected = 1
             /\ \A k \in 1 .. n : events[k] # "DISCONNECT"
    <3>1. events[1] # "DISCONNECT"
      BY <2>1
    <3>2. ulCC3000Connected' = 1
      BY <1>1, <2>1, <3>1 DEF HandleEvent, Callback, SetFlags
    <3>3. \A k \in 1 .. n - 1 : events'[k] # "DISCONNECT"
      BY <1>1, <2>1
    <3> QED BY <3>2, <3>3 DEF Heard, After
  <2>2. ASSUME NEW j \in 1 .. n, events[j] = "CONNECT",
               \A k \in j + 1 .. n : events[k] # "DISCONNECT"
        PROVE  After(ulCC3000Connected', events', n - 1)
    <3>1. CASE j = 1
      <4>1. ulCC3000Connected' = 1
        BY <1>1, <2>2, <3>1 DEF HandleEvent, Callback, SetFlags
      <4>2. \A k \in 1 .. n - 1 : events'[k] # "DISCONNECT"
        BY <1>1, <2>2, <3>1
      <4> QED BY <4>1, <4>2 DEF Heard, After
    <3>2. CASE j # 1
      <4>1. j - 1 \in 1 .. n - 1 /\ events'[j - 1] = "CONNECT"
        BY <1>1, <2>2, <3>2
      <4>2. \A k \in (j - 1) + 1 .. n - 1 : events'[k] # "DISCONNECT"
        BY <1>1, <2>2
      <4> QED BY <4>1, <4>2 DEF Heard, After
    <3> QED BY <3>1, <3>2
  <2> QED BY <2>1, <2>2 DEF Heard, After
<1>3. FlagInv'
  <2>1. CASE events[1] = "DHCP"
    <3>1. Heard(0)
      BY <1>1, <2>1 DEF QueueInv, OrderInv
    <3>2. ulCC3000Connected = 1
      BY <3>1 DEF Heard, After
    <3> QED
      BY <1>1, <2>1, <3>2 DEF HandleEvent, Callback, SetFlags, FlagInv
  <2>2. CASE events[1] # "DHCP"
    BY <1>1, <2>2 DEF HandleEvent, Callback, SetFlags, QueueInv, FlagInv
  <2> QED BY <2>1, <2>2
<1>4. OrderInv'
  <2> SUFFICES ASSUME NEW n \in 1 .. Len(events'), events'[n] = "DHCP"
               PROVE  After(ulCC3000Connected', events', n - 1)
    BY DEF OrderInv, Heard
  <2>1. n + 1 \in 1 .. Len(events) /\ events[n + 1] = "DHCP"
    BY <1>1
  <2>2. Heard(n)
    BY <1>1, <2>1 DEF QueueInv, OrderInv
  <2> QED BY <1>1, <1>2, <2>1, <2>2
<1>5. LinkInv'
  BY <1>1, <1>2 DEF QueueInv, LinkInv, Heard, HandleEvent, devVars
<1> QED BY <1>3, <1>4, <1>5 DEF QueueInv

(* To raise an event leaves what the earlier ones come to. *)
LEMMA RaiseQueue ==
  ASSUME TypeOK, NEW e \in Events, Raise(e), UNCHANGED flags
  PROVE  /\ Len(events) \in Nat /\ Len(events') = Len(events) + 1
         /\ events'[Len(events) + 1] = e
         /\ \A n \in 1 .. Len(events) : events'[n] = events[n]
         /\ \A n \in 0 .. Len(events) :
              Heard(n) => After(ulCC3000Connected', events', n)
         /\ e # "DISCONNECT" /\ Heard(Len(events)) =>
              After(ulCC3000Connected', events', Len(events))
              /\ After(ulCC3000Connected', events', Len(events) + 1)
         /\ e = "CONNECT" =>
              After(ulCC3000Connected', events', Len(events) + 1)
<1>1. /\ Len(events) \in Nat /\ Len(events') = Len(events) + 1
      /\ events'[Len(events) + 1] = e
      /\ \A n \in 1 .. Len(events) : events'[n] = events[n]
  BY AppendOfEvents DEF Raise, TypeOK
<1>2. ASSUME NEW n \in 0 .. Len(events), Heard(n)
      PROVE  After(ulCC3000Connected', events', n)
  BY <1>1, <1>2 DEF Heard, After, flags
<1>3. ASSUME e # "DISCONNECT", Heard(Len(events))
      PROVE  After(ulCC3000Connected', events', Len(events) + 1)
  <2> DEFINE N == Len(events)
  <2>1. CASE /\ ulCC3000Connected = 1
             /\ \A k \in 1 .. N : events[k] # "DISCONNECT"
    <3>1. \A k \in 1 .. N + 1 : events'[k] # "DISCONNECT"
      BY <1>1, <1>3, <2>1
    <3> QED BY <2>1, <3>1 DEF Heard, After, flags
  <2>2. ASSUME NEW j \in 1 .. N, events[j] = "CONNECT",
               \A k \in j + 1 .. N : events[k] # "DISCONNECT"
        PROVE  After(ulCC3000Connected', events', N + 1)
    <3>1. j \in 1 .. N + 1 /\ events'[j] = "CONNECT"
      BY <1>1, <2>2
    <3>2. \A k \in j + 1 .. N + 1 : events'[k] # "DISCONNECT"
      BY <1>1, <1>3, <2>2
    <3> QED BY <3>1, <3>2 DEF Heard, After
  <2> QED BY <1>3, <2>1, <2>2 DEF Heard, After
<1>4. ASSUME e = "CONNECT"
      PROVE  After(ulCC3000Connected', events', Len(events) + 1)
  BY <1>1, <1>4 DEF Heard, After
<1> QED BY <1>1, <1>2, <1>3, <1>4

(* Every step keeps what the flags and the events are to each other. *)
LEMMA StepQueue == TypeOK /\ QueueInv /\ [Next]_vars => QueueInv'
<1> SUFFICES ASSUME TypeOK, QueueInv, [Next]_vars PROVE QueueInv'
  OBVIOUS
<1> DEFINE N == Len(events)
<1>1. ASSUME UNCHANGED <<flags, events>>, link' = link PROVE QueueInv'
  BY <1>1 DEF QueueInv, FlagInv, OrderInv, LinkInv, Heard, After, flags
<1>2. CASE HandleEvent
  BY <1>2, HandleQueue
<1>3. CASE Stop
  BY <1>3 DEF Stop, QueueInv, FlagInv, OrderInv, LinkInv, flags
<1>4. ASSUME NEW e \in Events, Raise(e), UNCHANGED flags,
             e = "DHCP" => Heard(N),
             link' # "down" => e = "CONNECT" \/ (e # "DISCONNECT" /\ Heard(N))
      PROVE  QueueInv'
  <2>1. FlagInv'
    BY <1>4 DEF QueueInv, FlagInv, flags
  <2>2. OrderInv'
    <3> SUFFICES ASSUME NEW n \in 1 .. Len(events'), events'[n] = "DHCP"
                 PROVE  Heard(n - 1)'
      BY DEF OrderInv
    <3>1. CASE n = N + 1
      BY <1>4, <3>1, RaiseQueue DEF Heard
    <3>2. CASE n # N + 1
      <4>1. n \in 1 .. N /\ events[n] = "DHCP" /\ n - 1 \in 0 .. N
        BY <1>4, <3>2, RaiseQueue
      <4>2. Heard(n - 1)
        BY <4>1 DEF QueueInv, OrderInv
      <4> QED BY <1>4, <4>1, <4>2, RaiseQueue DEF Heard
    <3> QED BY <3>1, <3>2
  <2>3. LinkInv'
    BY <1>4, RaiseQueue DEF LinkInv, Heard
  <2> QED BY <2>1, <2>2, <2>3 DEF QueueInv
<1>5. link # "down" => Heard(N)
  BY DEF QueueInv, LinkInv
<1>6. CASE Associate
  BY <1>4, <1>6 DEF Associate, Events
<1>7. CASE Lease
  BY <1>4, <1>5, <1>7 DEF Lease, Events
<1>8. CASE LeaseFails
  BY <1>4, <1>5, <1>8 DEF LeaseFails, Events
<1>9. CASE Disassociate
  BY <1>4, <1>9 DEF Disassociate, Events
<1>10. CASE LoseNetwork
  BY <1>4, <1>10 DEF LoseNetwork, Events
<1>11. CASE Acquire
  BY <1>4, <1>5, <1>11 DEF Acquire, Events
<1>12. ASSUME NEW ok \in BOOLEAN, Commands(ok) PROVE QueueInv'
  BY <1>1, <1>12 DEF Commands, DisablePolicy, DeleteProfiles, SetPrefix,
     StartConfig, EnablePolicy, Command, flags, devVars
<1>13. CASE WaitDown \/ WaitDone \/ TimeOut \/ Restart \/ WaitUp \/ Advertise
  BY <1>1, <1>13 DEF WaitDown, WaitDone, TimeOut, Restart, WaitUp, Advertise,
     flags, devVars
<1>14. CASE Call \/ TimePasses
  BY <1>1, <1>14 DEF Call, TimePasses, flags, devVars
<1>15. CASE UNCHANGED vars
  BY <1>1, <1>15 DEF vars, flags, devVars
<1> QED
  BY <1>2, <1>3, <1>6, <1>7, <1>8, <1>9, <1>10, <1>11, <1>12, <1>13, <1>14,
     <1>15 DEF Next, Main

----------------------------------------------------------------------------
(* The places of sp_smart_config.                                          *)

PlaceInv == QuietInv /\ DownInv /\ ProfileInv

(* The interrupt handler tells the program of connections that were       *)
(* already on their way.                                                   *)
LEMMA HandlePlace == TypeOK /\ QueueInv /\ PlaceInv /\ HandleEvent => PlaceInv'
<1> SUFFICES ASSUME TypeOK, QueueInv, PlaceInv, HandleEvent PROVE PlaceInv'
  OBVIOUS
<1>1. /\ Head(events) = events[1] /\ 1 \in 1 .. Len(events)
      /\ Len(events') = Len(events) - 1 /\ Len(events) \in Nat
      /\ \A n \in 1 .. Len(events') :
           n + 1 \in 1 .. Len(events) /\ events'[n] = events[n + 1]
  BY TailOfEvents DEF HandleEvent, TypeOK
<1>2. UNCHANGED <<mainVars, devVars>>
  BY DEF HandleEvent
<1>3. ulCC3000Connected' = 1 => ulCC3000Connected = 1 \/ events[1] = "CONNECT"
  BY <1>1 DEF HandleEvent, Callback, SetFlags
<1>4. ulCC3000Connected' \in Flag
  BY DEF HandleEvent, Callback, SetFlags, TypeOK, Flag
<1>5. QuietInv'
  BY <1>1, <1>2 DEF PlaceInv, QuietInv, mainVars, devVars
<1>6. DownInv'
  BY <1>1, <1>2, <1>3, <1>4
     DEF PlaceInv, DownInv, QuietInv, Passive, Flag, mainVars, devVars
<1>7. Connecting' => Connecting
  BY <1>1, <1>2, <1>3 DEF Connecting, devVars
<1>8. ProfileInv'
  BY <1>2, <1>7 DEF PlaceInv, ProfileInv, mainVars, devVars
<1> QED BY <1>5, <1>6, <1>8 DEF PlaceInv

(* The device connects by itself only with its policy and a profile. *)
LEMMA DevicePlace ==
  TypeOK /\ PlaceInv /\ (Associate \/ Lease \/ LeaseFails \/ Disassociate
                         \/ LoseNetwork \/ Acquire) => PlaceInv'
<1> SUFFICES ASSUME TypeOK, PlaceInv,
                    Associate \/ Lease \/ LeaseFails \/ Disassociate
                      \/ LoseNetwork \/ Acquire
             PROVE  PlaceInv'
  OBVIOUS
<1>1. /\ UNCHANGED <<mainVars, flags, auto>> /\ (profile => profile')
      /\ link' # "down" => link # "down" \/ (auto /\ profile)
      /\ \E e \in Events : Raise(e) /\ (e = "CONNECT" => auto /\ profile)
  BY DEF Associate, Lease, LeaseFails, Disassociate, LoseNetwork, Acquire,
     Events
<1>2. PICK e \in Events : Raise(e) /\ (e = "CONNECT" => auto /\ profile)
  BY <1>1
<1>3. /\ Len(events) \in Nat /\ Len(events') = Len(events) + 1
      /\ events'[Len(events) + 1] = e
      /\ \A n \in 1 .. Len(events) : events'[n] = events[n]
  BY <1>1, <1>2, RaiseQueue
<1>4. (\E n \in 1 .. Len(events') : events'[n] = "CONNECT") =>
        \/ \E n \in 1 .. Len(events) : events[n] = "CONNECT"
        \/ auto /\ profile
  BY <1>2, <1>3
<1>5. QuietInv'
  BY <1>1, <1>4 DEF PlaceInv, QuietInv, mainVars
<1>6. DownInv'
  BY <1>1 DEF PlaceInv, DownInv, QuietInv, Passive, mainVars, flags
<1>7. Connecting' => Connecting \/ profile
  BY <1>1, <1>4 DEF Connecting, flags
<1>8. ProfileInv'
  BY <1>1, <1>7 DEF PlaceInv, ProfileInv, mainVars
<1> QED BY <1>5, <1>6, <1>8 DEF PlaceInv

(* sp_smart_config goes on where it has what the next place needs. *)
LEMMA MainPlace ==
  TypeOK /\ QueueInv /\ PlaceInv /\ (Main \/ Call \/ TimePasses) => PlaceInv'
<1> SUFFICES ASSUME TypeOK, QueueInv, PlaceInv, Main \/ Call \/ TimePasses
             PROVE  PlaceInv'
  OBVIOUS
<1> USE DEF PlaceInv, QuietInv, DownInv, ProfileInv, Passive, TypeOK, Flag
<1>1. CASE \E ok \in BOOLEAN : DisablePolicy(ok)
  <2>1. Len(events') = 0 /\ events' = events
        /\ pc' \in {"deleteProfiles", "idle"}
        /\ (pc' = "deleteProfiles" => ~auto')
    BY <1>1, EmptySeq DEF DisablePolicy, Command, Return
  <2> QED BY <2>1
<1>2. CASE \E ok \in BOOLEAN : DeleteProfiles(ok)
  BY <1>2 DEF DeleteProfiles, Command, Return
<1>3. CASE WaitDown
  <2>1. ~Heard(Len(events))
    BY <1>3 DEF WaitDown, Go, Heard, After
  <2>2. link = "down"
    BY <2>1 DEF QueueInv, LinkInv
  <2> QED BY <1>3, <2>2 DEF WaitDown, Go, flags, devVars
<1>4. CASE \E ok \in BOOLEAN : SetPrefix(ok)
  BY <1>4 DEF SetPrefix, Command, Return, flags, devVars
<1>5. CASE \E ok \in BOOLEAN : StartConfig(ok)
  BY <1>5 DEF StartConfig, Command, Return, flags
<1>6. CASE WaitDone
  BY <1>6 DEF WaitDone, Go, flags, devVars
<1>7. CASE \E ok \in BOOLEAN : EnablePolicy(ok)
  <2>1. Len(events) = 0 /\ events' = events /\ pc = "enablePolicy"
        /\ UNCHANGED <<flags, profile, link>> /\ pc' \in {"stop", "idle"}
        /\ (pc' = "stop" => auto')
    BY <1>7, EmptySeq DEF EnablePolicy, Command, Return
  <2>2. ~Connecting'
    BY <2>1 DEF Connecting, flags
  <2> QED BY <2>1, <2>2
<1>8. CASE Stop
  <2>1. Connecting' => Connecting
    BY <1>8, EmptySeq DEF Stop, Connecting, flags
  <2> QED BY <1>8, <2>1 DEF Stop, Go
<1>9. CASE Restart
  <2>1. Connecting' => Connecting
    BY <1>9 DEF Restart, Connecting, flags
  <2> QED BY <1>9, <2>1 DEF Restart, Go
<1>10. CASE WaitUp
  <2>1. Connecting
    BY <1>10 DEF WaitUp, Go, QueueInv, FlagInv, Connecting
  <2> QED BY <1>10, <2>1 DEF WaitUp, Go, devVars
<1>11. CASE Advertise \/ TimeOut \/ Call
  BY <1>11 DEF Advertise, TimeOut, Call, Return, Go
<1>12. CASE TimePasses
  BY <1>12 DEF TimePasses, flags, devVars
<1> QED
  BY <1>1, <1>2, <1>3, <1>4, <1>5, <1>6, <1>7, <1>8, <1>9, <1>10, <1>11,
     <1>12 DEF Main, Commands

LEMMA StepInv == IInv /\ [Next]_vars => IInv'
<1> SUFFICES ASSUME IInv, [Next]_vars PROVE IInv'
  OBVIOUS
<1>1. TypeOK /\ QueueInv /\ PlaceInv
  BY DEF IInv, QueueInv, PlaceInv
<1>2. TypeOK' /\ QueueInv'
  BY <1>1, StepType, StepQueue
<1>3. PlaceInv'
  <2>1. CASE UNCHANGED vars
    BY <1>1, <2>1 DEF PlaceInv, QuietInv, DownInv, ProfileInv, Connecting,
       vars, mainVars, flags, devVars
  <2>2. CASE Next
    BY <1>1, <2>2, HandlePlace, DevicePlace, MainPlace DEF Next
  <2> QED BY <2>1, <2>2
<1> QED BY <1>2, <1>3 DEF IInv, QueueInv, PlaceInv

(* The flags follow the order of the device's events, and each place of    *)
(* sp_smart_config has what the commands before it have brought about.     *)
THEOREM Invariance == Spec => []IInv
BY InitInv, StepInv, PTL DEF Spec

----------------------------------------------------------------------------
(* Whatever events come, wait, or are thrown away by wlan_stop: the flags  *)
(* never report an address without a connection.                           *)
THEOREM AddressNeedsConnection == Spec => []LeaseNeedsLink
<1>1. IInv => LeaseNeedsLink
  BY DEF IInv, FlagInv, LeaseNeedsLink
<1> QED BY <1>1, Invariance, PTL

(* The process is only started on a device that has no connection, though  *)
(* the program knows of connections only by a flag that lags behind.       *)
THEOREM ProcessNeedsNoLink == Spec => StartsDisconnected
<1>1. IInv /\ [Next]_vars =>
        [\A ok \in BOOLEAN : StartConfig(ok) => link = "down"]_vars
  BY DEF IInv, DownInv, StartConfig, Command
<1> QED BY <1>1, Invariance, PTL DEF Spec, StartsDisconnected

(* A call that returns 0 leaves a device with a profile and the policy to  *)
(* use it, though either of two flags, possibly old ones, ends each wait.  *)
THEOREM SuccessIsLasting == Spec => SuccessHasProfile
<1>1. IInv /\ [Next]_vars => [Advertise => profile /\ auto]_vars
  BY DEF IInv, ProfileInv, Advertise
<1> QED BY <1>1, Invariance, PTL DEF Spec, SuccessHasProfile

============================================================================
