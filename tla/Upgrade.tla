------------------------------ MODULE Upgrade ------------------------------
(***************************************************************************)
(* The patch programmer: it saves the MAC address and the radio module's   *)
(* parameters, writes a new file table, which makes every file invalid,    *)
(* writes the two files back, and writes the two patches by                *)
(* nvmem_write_patch, a portion at a time.  Any access to the device's     *)
(* memory may fail, and the power at any time; then the sketch begins      *)
(* again with what the memory holds.                                       *)
(***************************************************************************)
EXTENDS Integers

CONSTANT MaxFaults   (* bound: failures of the memory and of the power      *)

ASSUME FaultsAssumption == MaxFaults \in Nat

VARIABLES
  (* the sketch *)
  pc,          \* the step of setup, do_update and loop
  mac_status,  \* status of reading the MAC address
  cMac,        \* cMacFromEeprom
  return_status,
  counter,     \* how often the RM parameters were read
  cRM,         \* cRMParamsFromEeprom
  params,      \* what pRMParams points to
  offset,      \* nvmem_write_patch: where it writes next
  (* the device *)
  mode,        \* running without patches ("bare") or with those it holds
  mac,         \* its file with the MAC address
  rm,          \* its file with the RM parameters
  stored,      \* how many bytes of the new images its patch files begin with
  faults       \* bound

ramVars == <<mac_status, cMac, return_status, counter, cRM, params, offset>>
devVars == <<mode, mac, rm, stored>>
vars == <<pc, ramVars, devVars, faults>>

----------------------------------------------------------------------------
(* A file is invalid ("none") or holds what the device was made with       *)
(* ("own"), an address with or without the multicast bit, or what happens  *)
(* to lie in the RAM at the address that a table has in the flash memory.  *)
Macs   == {"none", "own", "multicast"}
Params == {"none", "own", "ram"}

Files == {"driver", "firmware"}

(* wlan_drv_patch and fw_patch, of which only the lengths matter. *)
drv_length == 7864
fw_length  == 4616

ImageLength(f) == IF f = "driver" THEN drv_length ELSE fw_length

SP_PORTION_SIZE == 512

(* cRMdefaultParams has PROGMEM, and nvmem_write copies from the RAM. *)
Defaults == "ram"

Go(a, b) == pc = a /\ pc' = b

(* An access to the memory succeeds, or fails within the bound. *)
Access(ok) == ok \/ faults < MaxFaults
Count(ok)  == faults' = IF ok THEN faults ELSE faults + 1

Init ==
  /\ pc = "setup" /\ mac_status = -1 /\ cMac = "none"
  /\ return_status = 255 /\ counter = 0 /\ cRM = "none" /\ params = "none"
  /\ offset = 0 /\ mode = "off"
  /\ mac \in Macs /\ rm \in {"none", "own"}
  /\ stored = [f \in Files |-> 0] /\ faults = 0

----------------------------------------------------------------------------
(* sp_wifi_init starts the device with the patches it holds. *)
Setup ==
  /\ Go("setup", "restartBare")
  /\ mode' = "patched"
  /\ UNCHANGED <<ramVars, mac, rm, stored, faults>>

(* wlan_stop and wlan_start(cRequestPatch); profiles, connection policy    *)
(* and event mask are not told apart here.                                 *)
restartDriver(cRequestPatch) ==
  /\ mode' = IF cRequestPatch = 1 THEN "bare" ELSE "patched"
  /\ UNCHANGED <<mac, rm, stored>>

(* Mutant: the first restart keeps the patches. *)
RestartBarePatched ==
  /\ Go("restartBare", "readMac") /\ restartDriver(0)
  /\ UNCHANGED <<ramVars, faults>>

RestartBare ==
  /\ Go("restartBare", "readMac") /\ restartDriver(1)
  /\ UNCHANGED <<ramVars, faults>>

ReadMac ==
  /\ Go("readMac", "readRm")
  /\ \E ok \in BOOLEAN :
       /\ Access(ok) /\ Count(ok)
       /\ mac_status' = IF ok /\ mac # "none" THEN 0 ELSE -1
       /\ cMac' = IF ok THEN mac ELSE "none"
  /\ return_status' = 255 /\ counter' = 0
  /\ UNCHANGED <<cRM, params, offset, devVars>>

(* Up to three times, until it succeeds. *)
ReadRm ==
  /\ Go("readRm", "readRm")
  /\ return_status # 0 /\ counter < 3
  /\ \E ok \in BOOLEAN :
       /\ Access(ok) /\ Count(ok)
       /\ return_status' = IF ok /\ rm # "none" THEN 0 ELSE 255
       /\ cRM' = IF ok THEN rm ELSE "none"
  /\ counter' = counter + 1
  /\ UNCHANGED <<mac_status, cMac, params, offset, devVars>>

(* Mutant: the parameters read are not used. *)
ChooseDefaults ==
  /\ Go("readRm", "fatMagic")
  /\ return_status = 0 \/ counter >= 3
  /\ params' = Defaults /\ return_status' = 1
  /\ UNCHANGED <<mac_status, cMac, counter, cRM, offset, devVars, faults>>

(* The third reading counts as failed also if it has succeeded. *)
ChooseParams ==
  /\ Go("readRm", "fatMagic")
  /\ return_status = 0 \/ counter >= 3
  /\ params' = IF counter = 3 THEN Defaults ELSE cRM
  /\ return_status' = 1
  /\ UNCHANGED <<mac_status, cMac, counter, cRM, offset, devVars, faults>>

----------------------------------------------------------------------------
(* fat_write_content: the entries of files 0 to 5, then those of 6 to 11,  *)
(* all allocated and not valid; only the last status is looked at.         *)

FatMagic ==
  /\ Go("fatMagic", "fatLow")
  /\ \E ok \in BOOLEAN : Access(ok) /\ Count(ok)
  /\ UNCHANGED <<ramVars, devVars>>

FatLow ==
  /\ Go("fatLow", "fatHigh")
  /\ \E ok \in BOOLEAN :
       /\ Access(ok) /\ Count(ok)
       /\ stored' = IF ok THEN [f \in Files |-> 0] ELSE stored
  /\ UNCHANGED <<ramVars, mode, mac, rm>>

FatHigh ==
  /\ Go("fatHigh", "fatUser")
  /\ \E ok \in BOOLEAN :
       /\ Access(ok) /\ Count(ok)
       /\ mac' = (IF ok THEN "none" ELSE mac)
       /\ rm' = (IF ok THEN "none" ELSE rm)
  /\ UNCHANGED <<ramVars, mode, stored>>

FatUser ==
  /\ \E ok \in BOOLEAN :
       /\ Access(ok) /\ Count(ok)
       /\ Go("fatUser", IF ok THEN "restartFat" ELSE "fatMagic")
       /\ return_status' = IF ok THEN 0 ELSE 1
  /\ UNCHANGED <<mac_status, cMac, counter, cRM, params, offset, devVars>>

RestartFat ==
  /\ Go("restartFat", "writeRm") /\ restartDriver(1)
  /\ UNCHANGED <<ramVars, faults>>

----------------------------------------------------------------------------
(* Writing the files back; a failed write may spoil the file. *)

WriteRm ==
  /\ \E ok \in BOOLEAN :
       /\ Access(ok) /\ Count(ok)
       /\ Go("writeRm", IF ok THEN "writeMac" ELSE "writeRm")
       /\ IF ok THEN rm' = params ELSE rm' \in {rm, "none"}
  /\ UNCHANGED <<ramVars, mode, mac, stored>>

(* Mutant: goes on though the address was not written. *)
WriteMacOnce ==
  /\ Go("writeMac", "driver")
  /\ mac_status = 0 /\ cMac' = "own"
  /\ \E ok \in BOOLEAN :
       /\ Access(ok) /\ Count(ok)
       /\ IF ok THEN mac' = cMac' ELSE mac' \in {mac, "none"}
  /\ UNCHANGED <<mac_status, return_status, counter, cRM, params, offset,
                 mode, rm, stored>>

(* With the multicast bit cleared. *)
WriteMac ==
  /\ mac_status = 0 /\ cMac' = "own"
  /\ \E ok \in BOOLEAN :
       /\ Access(ok) /\ Count(ok)
       /\ Go("writeMac", IF ok THEN "driver" ELSE "writeMac")
       /\ IF ok THEN mac' = cMac' ELSE mac' \in {mac, "none"}
  /\ UNCHANGED <<mac_status, return_status, counter, cRM, params, offset,
                 mode, rm, stored>>

SkipMac ==
  /\ Go("writeMac", "driver")
  /\ mac_status # 0
  /\ UNCHANGED <<ramVars, devVars, faults>>

----------------------------------------------------------------------------
(* nvmem_write_patch(f, length, image), again and again until it returns 0.*)

After(f) == IF f = "driver" THEN "firmware" ELSE "restartPatched"

(* Mutant: the last portion is as long as the others. *)
PortionFull(f) == SP_PORTION_SIZE

(* A full portion, or the rest of the image. *)
Portion(f) ==
  IF ImageLength(f) - offset >= SP_PORTION_SIZE THEN SP_PORTION_SIZE
  ELSE ImageLength(f) - offset

(* Writing n bytes at the offset makes a longer beginning of the image if  *)
(* it joins the one that is there.                                         *)
Joined(f, n) == IF offset <= stored[f] /\ stored[f] < offset + n
                THEN offset + n ELSE stored[f]

(* Mutant: the status of a portion that is not the last is overwritten. *)
WritePortionUnchecked(f) ==
  /\ pc = f /\ offset < ImageLength(f)
  /\ \E ok \in BOOLEAN :
       /\ Access(ok) /\ Count(ok)
       /\ IF ok THEN stored' = [stored EXCEPT ![f] = Joined(f, Portion(f))]
          ELSE UNCHANGED stored
  /\ offset' = offset + Portion(f)
  /\ UNCHANGED <<pc, mac_status, cMac, return_status, counter, cRM, params,
                 mode, mac, rm>>

(* It is written, or the function returns the error and is called again;   *)
(* a failed write may spoil what it was to replace.                        *)
WritePortion(f) ==
  /\ pc = f /\ offset < ImageLength(f)
  /\ \E ok \in BOOLEAN :
       /\ Access(ok) /\ Count(ok)
       /\ IF ok
          THEN /\ stored' = [stored EXCEPT ![f] = Joined(f, Portion(f))]
               /\ offset' = offset + Portion(f)
          ELSE /\ \E n \in {stored[f], offset} :
                    stored' = [stored EXCEPT ![f] = IF n < @ THEN n ELSE @]
               /\ offset' = 0
  /\ UNCHANGED <<pc, mac_status, cMac, return_status, counter, cRM, params,
                 mode, mac, rm>>

(* It returns 0. *)
PatchWritten(f) ==
  /\ Go(f, After(f))
  /\ offset = ImageLength(f) /\ offset' = 0
  /\ UNCHANGED <<mac_status, cMac, return_status, counter, cRM, params,
                 devVars, faults>>

RestartPatched ==
  /\ Go("restartPatched", "loop") /\ restartDriver(0)
  /\ UNCHANGED <<ramVars, faults>>

(* loop reads the version and stays in one of its while (1). *)
Loop ==
  /\ \E ok \in BOOLEAN :
       /\ Access(ok) /\ Count(ok)
       /\ Go("loop", IF ok THEN "done" ELSE "failed")
  /\ UNCHANGED <<ramVars, devVars>>

(* The power fails and returns. *)
PowerFails ==
  /\ faults < MaxFaults /\ faults' = faults + 1
  /\ pc' = "setup" /\ mac_status' = -1 /\ cMac' = "none"
  /\ return_status' = 255 /\ counter' = 0 /\ cRM' = "none"
  /\ params' = "none" /\ offset' = 0 /\ mode' = "off"
  /\ UNCHANGED <<mac, rm, stored>>

Sketch ==
  \/ Setup \/ RestartBare \/ ReadMac \/ ReadRm \/ ChooseParams
  \/ FatMagic \/ FatLow \/ FatHigh \/ FatUser \/ RestartFat
  \/ WriteRm \/ WriteMac \/ SkipMac
  \/ \E f \in Files : WritePortion(f) \/ PatchWritten(f)
  \/ RestartPatched \/ Loop

Next == Sketch \/ PowerFails

Spec == Init /\ [][Next]_vars

(* The CPU runs; MaxFaults bounds the failures. *)
FairSpec == Spec /\ WF_vars(Sketch)

----------------------------------------------------------------------------
(* Properties.                                                             *)

Ended == {"loop", "done", "failed"}

TypeOK ==
  /\ pc \in {"setup", "restartBare", "readMac", "readRm", "fatMagic",
             "fatLow", "fatHigh", "fatUser", "restartFat", "writeRm",
             "writeMac", "restartPatched"} \cup Files \cup Ended
  /\ mac_status \in {0, -1} /\ cMac \in Macs /\ mac \in Macs
  /\ return_status \in {0, 1, 255} /\ counter \in 0 .. 3
  /\ cRM \in Params /\ params \in Params /\ rm \in Params
  /\ offset \in 0 .. drv_length
  /\ mode \in {"off", "bare", "patched"}
  /\ stored \in [Files -> 0 .. drv_length]
  /\ faults \in 0 .. MaxFaults

(* When the device is started with its patches again, it holds both images *)
(* from the first byte to the last, whichever portions had to be repeated  *)
(* and whenever an earlier attempt lost its power.                         *)
PatchesComplete == pc \in Ended => \A f \in Files : stored[f] = ImageLength(f)

(* The file table and the patches are only written while the device runs   *)
(* without patches, which the comment of do_update gives as the reason for *)
(* its restarts.                                                           *)
WrittenBare ==
  [][stored' # stored \/ mac' # mac \/ rm' # rm => mode = "bare"]_vars

(* An upgrade that could read the MAC address ends with this address in    *)
(* the device, without the multicast bit, though the new file table has    *)
(* made the file invalid; otherwise it prints a reminder.                  *)
MacKept == pc \in Ended /\ mac_status = 0 => mac = "own"

(* An upgrade that could read the RM parameters at the first or second     *)
(* attempt ends with these in the device.                                  *)
RmKept == pc \in Ended /\ counter < 3 => rm = cRM /\ cRM # "none"

(* The upgrade comes to its end if failures do. *)
UpgradeEnds == <>[](pc \in {"done", "failed"})

============================================================================
