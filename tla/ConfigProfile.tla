--------------------------- MODULE ConfigProfile ---------------------------
(***************************************************************************)
(* wlan_smart_config_process: after an encrypted Smart Config the device   *)
(* holds what the phone has sent in a file; the function reads the AES key *)
(* and this file, decrypts the network's key in place, finds out how long  *)
(* it is, and adds a profile.  The phone encrypts by the standard; what    *)
(* the function decrypts with depends on what its lookups find (see Aes).  *)
(***************************************************************************)
EXTENDS Aes

CONSTANTS
  SsidLens,   (* lengths of a network's name: 1 to 32                       *)
  KeyLens,    (* lengths of its key: 1 to 32, 0 for an open network         *)
  AesKeys,    (* keys that the phone and the device may share               *)
  Memories,   (* what the lookups of one decryption may find                *)
  Disturbed   (* blocks it may leave if that changes while it runs          *)

ASSUME LengthsAssumption ==
  SsidLens \subseteq 1 .. 32 /\ KeyLens \subseteq 0 .. 32

ASSUME KeysAssumption == AesKeys \subseteq [1 .. 16 -> Byte]

ASSUME MemoryAssumption ==
  Memories \subseteq Tables /\ Disturbed \subseteq [1 .. 16 -> Byte]

VARIABLES
  pc,           \* the step of wlan_smart_config_process
  sent,         \* what the phone has sent
  file,         \* the device's files: the AES key (12) and the message (13)
  key,          \* the AES key read
  profileArray, \* the message, of which the function decrypts a part
  keyLen,
  decKeyPtr,    \* an index of profileArray
  returnValue,  \* 0, or -1 for any error
  profiles      \* the profiles the device has been given

vars == <<pc, sent, file, key, profileArray, keyLen, decKeyPtr, returnValue,
          profiles>>

----------------------------------------------------------------------------
WLAN_SEC_UNSEC == 0
WLAN_SEC_WEP   == 1
Securities == 0 .. 3

SMART_CONFIG_PROFILE_SIZE == 67

Zeros(n) == [i \in 1 .. n |-> 0]

(* The phone's application: printable keys, in a field of 32 bytes that    *)
(* begins with the length unless the key needs them all.                   *)
PlainKey(n) == [i \in 1 .. n |-> 33 + ((7 * i + 3 * n) % 94)]
KeyField(n) ==
  IF n = 32 THEN PlainKey(n) ELSE <<n>> \o PlainKey(n) \o Zeros(31 - n)

Half(n, h) == SubSeq(KeyField(n), 16 * h - 15, 16 * h)

Message(s) ==
  <<s.ssid>> \o [i \in 1 .. s.ssid |-> 83] \o <<32, s.sec>>
    \o Cipher(Declared, Half(s.len, 1), s.aes)
    \o Cipher(Declared, Half(s.len, 2), s.aes)
    \o Zeros(SMART_CONFIG_PROFILE_SIZE - 35 - s.ssid)

(* The key was stored with aes_write_key, or this has failed. *)
Init ==
  /\ sent \in {s \in [ssid : SsidLens, sec : Securities, len : KeyLens,
                       aes : AesKeys] : s.sec = WLAN_SEC_UNSEC <=> s.len = 0}
  /\ pc = "storeKey"
  /\ file = [aes |-> <<>>, message |-> Message(sent)]
  /\ key = Zeros(16) /\ profileArray = Zeros(SMART_CONFIG_PROFILE_SIZE)
  /\ keyLen = 0 /\ decKeyPtr = 0 /\ returnValue = -1 /\ profiles = {}

Go(a, b) == pc = a /\ pc' = b

aes_write_key ==
  /\ Go("storeKey", "readKey")
  /\ \E ok \in BOOLEAN :
       file' = IF ok THEN [file EXCEPT !.aes = sent.aes] ELSE file
  /\ UNCHANGED <<sent, key, profileArray, keyLen, decKeyPtr, returnValue,
                 profiles>>

(* A file without content cannot be read. *)
aes_read_key ==
  /\ \E ok \in BOOLEAN :
       /\ ok => file.aes # <<>>
       /\ Go("readKey", IF ok THEN "readMessage" ELSE "done")
       /\ returnValue' = (IF ok THEN 0 ELSE -1)
       /\ key' = IF ok THEN file.aes ELSE key
  /\ UNCHANGED <<sent, file, profileArray, keyLen, decKeyPtr, profiles>>

ReadMessage ==
  /\ \E ok \in BOOLEAN :
       /\ Go("readMessage", IF ok THEN "decrypt" ELSE "done")
       /\ returnValue' = (IF ok THEN 0 ELSE -1)
       /\ profileArray' = IF ok THEN file.message ELSE profileArray
  /\ UNCHANGED <<sent, file, key, keyLen, decKeyPtr, profiles>>

----------------------------------------------------------------------------
(* profileArray[i] of the code, whose indices begin with 0. *)
At(i) == profileArray[i + 1]

ssidLen == At(0)

(* What a decryption may make of the 16 bytes from index i on, and the     *)
(* array with a block in their place.                                      *)
Plains(i) ==
  {aes_decrypt(m, SubSeq(profileArray, i + 1, i + 16), key) : m \in Memories}
    \cup Disturbed

With(i, block) ==
  SubSeq(profileArray, 1, i) \o block
    \o SubSeq(profileArray, i + 17, SMART_CONFIG_PROFILE_SIZE)

DecryptFirst ==
  /\ Go("decrypt", "decryptRest")
  /\ decKeyPtr' = ssidLen + 3
  /\ \E block \in Plains(decKeyPtr') : profileArray' = With(decKeyPtr', block)
  /\ UNCHANGED <<sent, file, key, keyLen, returnValue, profiles>>

DecryptRest ==
  /\ Go("decryptRest", "findKey")
  /\ IF At(ssidLen + 1) > 16
     THEN \E block \in Plains(decKeyPtr + 16) :
            profileArray' = With(decKeyPtr + 16, block)
     ELSE profileArray' = profileArray
  /\ UNCHANGED <<sent, file, key, keyLen, decKeyPtr, returnValue, profiles>>

(* Mutant: the first byte is always the length. *)
FindKeyByLength ==
  /\ Go("findKey", "addProfile")
  /\ keyLen' = At(decKeyPtr) /\ decKeyPtr' = decKeyPtr + 1
  /\ UNCHANGED <<sent, file, key, profileArray, returnValue, profiles>>

(* A key of 32 bytes leaves no room for the length, and one of 31 none for *)
(* a zero at the end.                                                      *)
FindKey ==
  /\ Go("findKey", "addProfile")
  /\ LET whole == At(decKeyPtr + 31) # 0 /\ At(decKeyPtr) # 31 IN
       /\ keyLen' = IF whole THEN 32 ELSE At(decKeyPtr)
       /\ decKeyPtr' = IF whole THEN decKeyPtr ELSE decKeyPtr + 1
  /\ UNCHANGED <<sent, file, key, profileArray, returnValue, profiles>>

(* What wlan_add_profile is given; the first of the four keys of WEP.  A   *)
(* length that is no key's takes it on behind the array, which is left out.*)
Profile ==
  LET sec == At(ssidLen + 2)
      last == IF decKeyPtr + keyLen <= SMART_CONFIG_PROFILE_SIZE
              THEN decKeyPtr + keyLen ELSE SMART_CONFIG_PROFILE_SIZE
  IN [ssid |-> SubSeq(profileArray, 2, ssidLen + 1), sec |-> sec,
      key  |-> IF sec = WLAN_SEC_UNSEC THEN <<>>
               ELSE SubSeq(profileArray, decKeyPtr + 1, last)]

(* On success the index of the profile is returned, here 0. *)
AddProfile ==
  /\ Go("addProfile", "done")
  /\ At(ssidLen + 2) \in Securities
  /\ \E ok \in BOOLEAN :
       /\ profiles' = IF ok THEN profiles \cup {Profile} ELSE profiles
       /\ returnValue' = IF ok THEN 0 ELSE -1
  /\ UNCHANGED <<sent, file, key, profileArray, keyLen, decKeyPtr>>

Next ==
  \/ aes_write_key \/ aes_read_key \/ ReadMessage
  \/ DecryptFirst \/ DecryptRest \/ FindKey \/ AddProfile

Spec == Init /\ [][Next]_vars

----------------------------------------------------------------------------
(* Properties.                                                             *)

(* The key's field as the decryptions have left it. *)
Field == SubSeq(profileArray, ssidLen + 4, ssidLen + 35)

(* Whatever the lookups found: the profile is for the network the phone    *)
(* has named, with the security it has sent, and with no key if the        *)
(* network is open; and its key is the phone's, of whatever length, if the *)
(* two decryptions have left what the phone put into the field, though the *)
(* length shares the field with the key.                                   *)
ProfileFromField ==
  \A p \in profiles :
    /\ Len(p.ssid) = sent.ssid /\ p.sec = sent.sec
    /\ sent.sec = WLAN_SEC_UNSEC => p.key = <<>>
    /\ Field = KeyField(sent.len) => p.key = PlainKey(sent.len)

(* Whatever content the lookups find, aes_encrypt is the standard's cipher *)
(* with that content for tables, and aes_decrypt is the inverse of it if   *)
(* the inverse table's content is the inverse of the other's: the AES of   *)
(* the phone, once the lookups find the tables that are declared.          *)
RoundsAreStandard ==
  pc = "decrypt" =>
    \A m \in Memories, h \in 1 .. 2 :
      LET block == Half(sent.len, h)
          code  == Cipher(m, block, sent.aes)
      IN  /\ aes_encrypt(m, block, sent.aes) = code
          /\ Undoes(m) => aes_decrypt(m, code, sent.aes) = block

============================================================================
