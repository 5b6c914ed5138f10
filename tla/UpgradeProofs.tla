--------------------------- MODULE UpgradeProofs ---------------------------
(***************************************************************************)
(* For any number of failures: types, complete patches, writes only while  *)
(* the device runs without patches, and the two files that are kept.  The  *)
(* sketch is sequential, so each part of the invariant says what has been  *)
(* achieved from a certain step on; a loss of power returns to the first.  *)
(***************************************************************************)
EXTENDS Upgrade, TLAPS

FatSteps   == {"fatMagic", "fatLow", "fatHigh", "fatUser", "restartFat"}
MacDone    == Files \cup {"restartPatched"} \cup Ended
RmDone     == MacDone \cup {"writeMac"}

(* From the first restart to the last the device runs without patches. *)
ModeInv ==
  pc \in {"readMac", "readRm", "writeRm", "writeMac"} \cup FatSteps \cup Files
    \cup {"restartPatched"} => mode = "bare"

(* What nvmem_write_patch has written stays written until the next table. *)
PatchInv ==
  /\ pc \notin Files => offset = 0
  /\ \A f \in Files : stored[f] <= ImageLength(f)
  /\ \A f \in Files :
       pc = f => offset <= ImageLength(f) /\ offset <= stored[f]
  /\ pc \in {"firmware", "restartPatched"} \cup Ended
       => stored["driver"] = drv_length
  /\ pc \in {"restartPatched"} \cup Ended => stored["firmware"] = fw_length

MacInv == pc \in MacDone /\ mac_status = 0 => mac = "own"

(* Parameters that were read in time are chosen and then written. *)
RmInv ==
  /\ pc = "readRm" /\ return_status = 0 => cRM # "none"
  /\ pc \in FatSteps \cup {"writeRm"} \cup RmDone /\ counter < 3 => cRM # "none"
  /\ pc \in FatSteps \cup {"writeRm"} /\ counter < 3 => params = cRM
  /\ pc \in RmDone /\ counter < 3 => rm = cRM

IInv == TypeOK /\ PatchInv /\ ModeInv /\ MacInv /\ RmInv

USE FaultsAssumption

LEMMA InitIInv == Init => IInv
BY DEF Init, IInv, TypeOK, PatchInv, ModeInv, MacInv, RmInv, FatSteps, MacDone,
       RmDone, Ended, Files, Macs, Params, ImageLength, drv_length, fw_length

(* Every step keeps the types; the offset stays within the images. *)
LEMMA TypeStep ==
  TypeOK /\ PatchInv /\ [Next]_vars => TypeOK'
<1> SUFFICES ASSUME TypeOK /\ PatchInv, [Next]_vars PROVE TypeOK'
  OBVIOUS
<1> USE DEF TypeOK, Go, Access, Count, ramVars, devVars
<1>0. drv_length \in Nat
  BY DEF drv_length
<1>1. CASE Setup
  BY <1>0, <1>1 DEF Setup
<1>2. CASE RestartBare
  BY <1>0, <1>2 DEF RestartBare, restartDriver
<1>3. CASE ReadMac
  BY <1>0, <1>3 DEF ReadMac, Macs
<1>4. CASE ReadRm
  BY <1>0, <1>4 DEF ReadRm, Params, Macs
<1>5. CASE ChooseParams
  BY <1>0, <1>5 DEF ChooseParams, Defaults, Params
<1>6. CASE FatMagic
  BY <1>0, <1>6 DEF FatMagic
<1>7. CASE FatLow
  BY <1>0, <1>7 DEF FatLow
<1>8. CASE FatHigh
  BY <1>0, <1>8 DEF FatHigh, Macs, Params
<1>9. CASE FatUser
  BY <1>0, <1>9 DEF FatUser
<1>10. CASE RestartFat
  BY <1>0, <1>10 DEF RestartFat, restartDriver
<1>11. CASE WriteRm
  BY <1>0, <1>11 DEF WriteRm, Params, Macs
<1>12. CASE WriteMac
  BY <1>0, <1>12 DEF WriteMac, Macs, Files
<1>13. CASE SkipMac
  BY <1>0, <1>13 DEF SkipMac, Files
<1>14. CASE RestartPatched
  BY <1>0, <1>14 DEF RestartPatched, restartDriver, Ended
<1>15. CASE Loop
  BY <1>0, <1>15 DEF Loop, Ended
<1>16. CASE PowerFails
  BY <1>0, <1>16 DEF PowerFails, Macs, Params
<1>17. CASE \E f \in Files : WritePortion(f)
  <2>1. PICK f \in Files : WritePortion(f)
    BY <1>17
  <2>2. offset \in Nat /\ ImageLength(f) \in 0 .. drv_length
    BY DEF ImageLength, drv_length, fw_length
  <2>3. Portion(f) \in 0 .. ImageLength(f) - offset
    BY <2>1, <2>2 DEF WritePortion, Portion, SP_PORTION_SIZE
  <2>4. offset' \in 0 .. drv_length
    BY <1>0, <2>1, <2>2, <2>3 DEF WritePortion
  <2>5. Joined(f, Portion(f)) \in 0 .. drv_length
    BY <1>0, <2>1, <2>2, <2>3 DEF WritePortion, Joined
  <2>6. stored' \in [Files -> 0 .. drv_length]
    BY <1>0, <2>1, <2>2, <2>5 DEF WritePortion
  <2> QED
    BY <2>1, <2>4, <2>6 DEF WritePortion
<1>18. CASE \E f \in Files : PatchWritten(f)
  BY <1>0, <1>18 DEF PatchWritten, After, Files
<1>19. CASE UNCHANGED vars
  BY <1>19 DEF vars
<1> HIDE DEF TypeOK
<1> QED
  BY <1>1, <1>2, <1>3, <1>4, <1>5, <1>6, <1>7, <1>8, <1>9, <1>10, <1>11,
       <1>12, <1>13, <1>14, <1>15, <1>16, <1>17, <1>18, <1>19 DEF Next, Sketch

(* A portion joins the beginning that is there; the file table drops it. *)
LEMMA PatchStep ==
  TypeOK /\ PatchInv /\ [Next]_vars => PatchInv'
<1> SUFFICES ASSUME TypeOK /\ PatchInv, [Next]_vars PROVE PatchInv'
  OBVIOUS
<1>0. /\ stored["driver"] \in Nat /\ stored["firmware"] \in Nat
      /\ stored \in [Files -> Nat] /\ offset \in Nat
      /\ drv_length \in Nat /\ fw_length \in Nat
  <2>1. drv_length \in Nat /\ fw_length \in Nat
    BY DEF drv_length, fw_length
  <2> QED
    BY <2>1 DEF TypeOK, Files
<1>a. PatchInv /\ [Next]_vars
  OBVIOUS
<1> USE DEF PatchInv, Ended, ImageLength, Go,
     Access, Count, ramVars, devVars, Files
<1>1. CASE Setup
  BY <1>0, <1>a, <1>1 DEF Setup
<1>2. CASE RestartBare
  BY <1>0, <1>a, <1>2 DEF RestartBare, restartDriver
<1>3. CASE ReadMac
  BY <1>0, <1>a, <1>3 DEF ReadMac
<1>4. CASE ReadRm
  BY <1>0, <1>a, <1>4 DEF ReadRm
<1>5. CASE ChooseParams
  BY <1>0, <1>a, <1>5 DEF ChooseParams, Defaults
<1>6. CASE FatMagic
  BY <1>0, <1>a, <1>6 DEF FatMagic
<1>7. CASE FatLow
  BY <1>0, <1>a, <1>7 DEF FatLow
<1>8. CASE FatHigh
  BY <1>0, <1>a, <1>8 DEF FatHigh
<1>9. CASE FatUser
  BY <1>0, <1>a, <1>9 DEF FatUser
<1>10. CASE RestartFat
  BY <1>0, <1>a, <1>10 DEF RestartFat, restartDriver
<1>11. CASE WriteRm
  BY <1>0, <1>a, <1>11 DEF WriteRm
<1>12. CASE WriteMac
  BY <1>0, <1>a, <1>12 DEF WriteMac
<1>13. CASE SkipMac
  BY <1>0, <1>a, <1>13 DEF SkipMac
<1>14. CASE RestartPatched
  BY <1>0, <1>a, <1>14 DEF RestartPatched, restartDriver
<1>15. CASE Loop
  BY <1>0, <1>a, <1>15 DEF Loop
<1>16. CASE PowerFails
  BY <1>0, <1>a, <1>16 DEF PowerFails
<1>17. CASE \E f \in Files : WritePortion(f)
  <2>1. PICK f \in Files : WritePortion(f)
    BY <1>17
  <2>2. offset + Portion(f) <= ImageLength(f) /\ Portion(f) \in Nat
    BY <1>0, <1>a, <2>1 DEF WritePortion, Portion, SP_PORTION_SIZE
  <2>3. \/ /\ stored' = [stored EXCEPT ![f] = Joined(f, Portion(f))]
           /\ offset' = offset + Portion(f)
        \/ /\ offset' = 0
           /\ \E n \in {stored[f], offset} :
                stored' = [stored EXCEPT ![f] = IF n < @ THEN n ELSE @]
    BY <2>1 DEF WritePortion
  <2>4. offset <= stored[f]
    BY <2>1 DEF WritePortion
  <2>5. Joined(f, Portion(f)) >= offset + Portion(f)
        /\ Joined(f, Portion(f)) <= ImageLength(f)
    BY <1>0, <1>a, <2>1, <2>2, <2>4 DEF Joined
  <2>6. offset' <= stored'[f] /\ stored'[f] <= ImageLength(f)
    <3>1. CASE stored' = [stored EXCEPT ![f] = Joined(f, Portion(f))]
                 /\ offset' = offset + Portion(f)
      BY <1>0, <3>1, <2>5
    <3>2. CASE /\ offset' = 0
               /\ \E n \in {stored[f], offset} :
                    stored' = [stored EXCEPT ![f] = IF n < @ THEN n ELSE @]
      <4>1. PICK n \in {stored[f], offset} :
              stored' = [stored EXCEPT ![f] = IF n < @ THEN n ELSE @]
        BY <3>2
      <4>2. stored'[f] = IF n < stored[f] THEN n ELSE stored[f]
        BY <1>0, <4>1
      <4>3. stored[f] \in Nat /\ stored[f] <= ImageLength(f)
            /\ ImageLength(f) \in Nat
        BY <1>0, <1>a
      <4>4. n \in Nat
        BY <1>0, <4>3
      <4>5. stored'[f] \in Nat /\ stored'[f] <= stored[f]
        BY <4>2, <4>3, <4>4
      <4> HIDE DEF ImageLength
      <4> QED
        BY <3>2, <4>3, <4>5
    <3> QED
      BY <2>3, <3>1, <3>2
  <2>7. \A g \in Files : g # f => stored'[g] = stored[g]
    BY <1>0, <2>3
  <2>8. offset' <= ImageLength(f)
    BY <1>0, <2>2, <2>3
  <2>9. pc = f /\ pc' = f
    BY <2>1 DEF WritePortion
  <2>10. CASE f = "driver"
    BY <1>a, <2>6, <2>7, <2>8, <2>9, <2>10
  <2>11. CASE f = "firmware"
    BY <1>a, <2>6, <2>7, <2>8, <2>9, <2>11
  <2> QED
    BY <2>10, <2>11
<1>18. CASE \E f \in Files : PatchWritten(f)
  <2>1. CASE PatchWritten("driver")
    BY <1>0, <1>a, <2>1 DEF PatchWritten, After
  <2>2. CASE PatchWritten("firmware")
    BY <1>0, <1>a, <2>2 DEF PatchWritten, After
  <2> QED
    BY <1>18, <2>1, <2>2
<1>19. CASE UNCHANGED vars
  BY <1>19 DEF vars
<1> HIDE DEF PatchInv, Ended, Files
<1> QED
  BY <1>1, <1>2, <1>3, <1>4, <1>5, <1>6, <1>7, <1>8, <1>9, <1>10, <1>11,
       <1>12, <1>13, <1>14, <1>15, <1>16, <1>17, <1>18, <1>19 DEF Next, Sketch

(* Only Setup, restartDriver and a loss of power change the mode. *)
LEMMA ModeStep ==
  ModeInv /\ [Next]_vars => ModeInv'
<1> SUFFICES ASSUME ModeInv, [Next]_vars PROVE ModeInv'
  OBVIOUS
<1> USE DEF ModeInv, FatSteps, Ended, Go, Access, Count, ramVars, devVars,
     Files
<1>1. CASE Setup
  BY <1>1 DEF Setup
<1>2. CASE RestartBare
  BY <1>2 DEF RestartBare, restartDriver
<1>3. CASE ReadMac
  BY <1>3 DEF ReadMac
<1>4. CASE ReadRm
  BY <1>4 DEF ReadRm
<1>5. CASE ChooseParams
  BY <1>5 DEF ChooseParams, Defaults
<1>6. CASE FatMagic
  BY <1>6 DEF FatMagic
<1>7. CASE FatLow
  BY <1>7 DEF FatLow
<1>8. CASE FatHigh
  BY <1>8 DEF FatHigh
<1>9. CASE FatUser
  BY <1>9 DEF FatUser
<1>10. CASE RestartFat
  BY <1>10 DEF RestartFat, restartDriver
<1>11. CASE WriteRm
  BY <1>11 DEF WriteRm
<1>12. CASE WriteMac
  BY <1>12 DEF WriteMac
<1>13. CASE SkipMac
  BY <1>13 DEF SkipMac
<1>14. CASE RestartPatched
  BY <1>14 DEF RestartPatched, restartDriver
<1>15. CASE Loop
  BY <1>15 DEF Loop
<1>16. CASE PowerFails
  BY <1>16 DEF PowerFails
<1>17. CASE \E f \in Files : WritePortion(f)
  <2>1. PICK f \in Files : WritePortion(f)
    BY <1>17
  <2>2. CASE f = "driver"
    BY <2>1, <2>2 DEF WritePortion, Portion, Joined, SP_PORTION_SIZE
  <2>3. CASE f = "firmware"
    BY <2>1, <2>3 DEF WritePortion, Portion, Joined, SP_PORTION_SIZE
  <2> QED
    BY <2>1, <2>2, <2>3
<1>18. CASE \E f \in Files : PatchWritten(f)
  BY <1>18 DEF PatchWritten, After
<1>19. CASE UNCHANGED vars
  BY <1>19 DEF vars
<1> QED
  BY <1>1, <1>2, <1>3, <1>4, <1>5, <1>6, <1>7, <1>8, <1>9, <1>10, <1>11,
       <1>12, <1>13, <1>14, <1>15, <1>16, <1>17, <1>18, <1>19 DEF Next, Sketch

(* The file is written with the address that was read. *)
LEMMA MacStep ==
  MacInv /\ [Next]_vars => MacInv'
<1> SUFFICES ASSUME MacInv, [Next]_vars PROVE MacInv'
  OBVIOUS
<1> USE DEF MacInv, MacDone, Ended, Go, Access, Count, ramVars, devVars, Files
<1>1. CASE Setup
  BY <1>1 DEF Setup
<1>2. CASE RestartBare
  BY <1>2 DEF RestartBare, restartDriver
<1>3. CASE ReadMac
  BY <1>3 DEF ReadMac
<1>4. CASE ReadRm
  BY <1>4 DEF ReadRm
<1>5. CASE ChooseParams
  BY <1>5 DEF ChooseParams, Defaults
<1>6. CASE FatMagic
  BY <1>6 DEF FatMagic
<1>7. CASE FatLow
  BY <1>7 DEF FatLow
<1>8. CASE FatHigh
  BY <1>8 DEF FatHigh
<1>9. CASE FatUser
  BY <1>9 DEF FatUser
<1>10. CASE RestartFat
  BY <1>10 DEF RestartFat, restartDriver
<1>11. CASE WriteRm
  BY <1>11 DEF WriteRm
<1>12. CASE WriteMac
  BY <1>12 DEF WriteMac
<1>13. CASE SkipMac
  BY <1>13 DEF SkipMac
<1>14. CASE RestartPatched
  BY <1>14 DEF RestartPatched, restartDriver
<1>15. CASE Loop
  BY <1>15 DEF Loop
<1>16. CASE PowerFails
  BY <1>16 DEF PowerFails
<1>17. CASE \E f \in Files : WritePortion(f)
  <2>1. PICK f \in Files : WritePortion(f)
    BY <1>17
  <2>2. CASE f = "driver"
    BY <2>1, <2>2 DEF WritePortion, Portion, Joined, SP_PORTION_SIZE
  <2>3. CASE f = "firmware"
    BY <2>1, <2>3 DEF WritePortion, Portion, Joined, SP_PORTION_SIZE
  <2> QED
    BY <2>1, <2>2, <2>3
<1>18. CASE \E f \in Files : PatchWritten(f)
  BY <1>18 DEF PatchWritten, After
<1>19. CASE UNCHANGED vars
  BY <1>19 DEF vars
<1> QED
  BY <1>1, <1>2, <1>3, <1>4, <1>5, <1>6, <1>7, <1>8, <1>9, <1>10, <1>11,
       <1>12, <1>13, <1>14, <1>15, <1>16, <1>17, <1>18, <1>19 DEF Next, Sketch

(* After the third reading the parameters are not those read. *)
LEMMA RmStep ==
  TypeOK /\ RmInv /\ [Next]_vars => RmInv'
<1> SUFFICES ASSUME TypeOK /\ RmInv, [Next]_vars PROVE RmInv'
  OBVIOUS
<1> USE DEF TypeOK, RmInv, FatSteps, RmDone, MacDone, Ended, Go, Access,
     Count, ramVars, devVars, Files
<1>1. CASE Setup
  BY <1>1 DEF Setup
<1>2. CASE RestartBare
  BY <1>2 DEF RestartBare, restartDriver
<1>3. CASE ReadMac
  BY <1>3 DEF ReadMac
<1>4. CASE ReadRm
  BY <1>4 DEF ReadRm
<1>5. CASE ChooseParams
  BY <1>5 DEF ChooseParams, Defaults
<1>6. CASE FatMagic
  BY <1>6 DEF FatMagic
<1>7. CASE FatLow
  BY <1>7 DEF FatLow
<1>8. CASE FatHigh
  BY <1>8 DEF FatHigh
<1>9. CASE FatUser
  BY <1>9 DEF FatUser
<1>10. CASE RestartFat
  BY <1>10 DEF RestartFat, restartDriver
<1>11. CASE WriteRm
  BY <1>11 DEF WriteRm
<1>12. CASE WriteMac
  BY <1>12 DEF WriteMac
<1>13. CASE SkipMac
  BY <1>13 DEF SkipMac
<1>14. CASE RestartPatched
  BY <1>14 DEF RestartPatched, restartDriver
<1>15. CASE Loop
  BY <1>15 DEF Loop
<1>16. CASE PowerFails
  BY <1>16 DEF PowerFails
<1>17. CASE \E f \in Files : WritePortion(f)
  <2>1. PICK f \in Files : WritePortion(f)
    BY <1>17
  <2>2. CASE f = "driver"
    BY <2>1, <2>2 DEF WritePortion, Portion, Joined, SP_PORTION_SIZE
  <2>3. CASE f = "firmware"
    BY <2>1, <2>3 DEF WritePortion, Portion, Joined, SP_PORTION_SIZE
  <2> QED
    BY <2>1, <2>2, <2>3
<1>18. CASE \E f \in Files : PatchWritten(f)
  BY <1>18 DEF PatchWritten, After
<1>19. CASE UNCHANGED vars
  BY <1>19 DEF vars
<1> QED
  BY <1>1, <1>2, <1>3, <1>4, <1>5, <1>6, <1>7, <1>8, <1>9, <1>10, <1>11,
       <1>12, <1>13, <1>14, <1>15, <1>16, <1>17, <1>18, <1>19 DEF Next, Sketch

(* The inductive invariant of the upgrade. *)
LEMMA IInvInvariant == Spec => []IInv
<1>1. IInv /\ [Next]_vars => IInv'
  BY TypeStep, PatchStep, ModeStep, MacStep, RmStep DEF IInv
<1> QED
  BY InitIInv, <1>1, PTL DEF Spec

(* Types, for any number of failures and of losses of power. *)
THEOREM TypeCorrect == Spec => []TypeOK
<1>1. IInv => TypeOK
  BY DEF IInv
<1> QED
  BY IInvInvariant, <1>1, PTL

(* nvmem_write_patch and the loops around it leave no hole in a patch.     *)
THEOREM PatchesAreComplete == Spec => []PatchesComplete
<1>1. IInv => PatchesComplete
  BY DEF IInv, PatchInv, PatchesComplete, Ended, Files, ImageLength
<1> QED
  BY IInvInvariant, <1>1, PTL

(* do_update keeps a MAC address that it could read. *)
THEOREM MacIsKept == Spec => []MacKept
<1>1. IInv => MacKept
  BY DEF IInv, MacInv, MacDone, MacKept
<1> QED
  BY IInvInvariant, <1>1, PTL

(* do_update keeps the RM parameters that two attempts could read. *)
THEOREM RmIsKept == Spec => []RmKept
<1>1. IInv => RmKept
  BY DEF IInv, RmInv, RmDone, MacDone, RmKept
<1> QED
  BY IInvInvariant, <1>1, PTL

(* Nothing is written to the device while it runs its patches. *)
THEOREM WritesAreBare == Spec => WrittenBare
<1> DEFINE Bare == stored' # stored \/ mac' # mac \/ rm' # rm => mode = "bare"
<1>1. ModeInv /\ [Next]_vars => [Bare]_vars
  <2> SUFFICES ASSUME ModeInv, Next PROVE Bare
    BY DEF Next
  <2> USE DEF ModeInv, FatSteps, Files, Go, ramVars, devVars
  <2>1. CASE Setup
    BY <2>1 DEF Setup
  <2>2. CASE RestartBare
    BY <2>2 DEF RestartBare, restartDriver
  <2>3. CASE ReadMac
    BY <2>3 DEF ReadMac
  <2>4. CASE ReadRm
    BY <2>4 DEF ReadRm
  <2>5. CASE ChooseParams
    BY <2>5 DEF ChooseParams
  <2>6. CASE FatMagic
    BY <2>6 DEF FatMagic
  <2>7. CASE FatLow
    BY <2>7 DEF FatLow
  <2>8. CASE FatHigh
    BY <2>8 DEF FatHigh
  <2>9. CASE FatUser
    BY <2>9 DEF FatUser
  <2>10. CASE RestartFat
    BY <2>10 DEF RestartFat, restartDriver
  <2>11. CASE WriteRm
    BY <2>11 DEF WriteRm
  <2>12. CASE WriteMac
    BY <2>12 DEF WriteMac
  <2>13. CASE SkipMac
    BY <2>13 DEF SkipMac
  <2>14. CASE RestartPatched
    BY <2>14 DEF RestartPatched, restartDriver
  <2>15. CASE Loop
    BY <2>15 DEF Loop
  <2>16. CASE PowerFails
    BY <2>16 DEF PowerFails
  <2>17. CASE \E f \in Files : WritePortion(f) \/ PatchWritten(f)
    BY <2>17 DEF WritePortion, PatchWritten
  <2> QED
    BY <2>1, <2>2, <2>3, <2>4, <2>5, <2>6, <2>7, <2>8, <2>9, <2>10,
       <2>11, <2>12, <2>13, <2>14, <2>15, <2>16, <2>17 DEF Next, Sketch
<1>2. IInv => ModeInv
  BY DEF IInv
<1> QED
  BY IInvInvariant, <1>1, <1>2, PTL DEF Spec, WrittenBare

============================================================================
