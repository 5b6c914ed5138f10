-------------------------------- MODULE Aes --------------------------------
(***************************************************************************)
(* security.cpp: AES-128 of one block of 16 bytes, as the code computes    *)
(* it, and beside it the standard's definition of the cipher, by which the *)
(* phone's application encrypts.                                           *)
(*                                                                         *)
(* The code's tables are PROGMEM and it indexes them as data.  On AVR a    *)
(* lookup therefore finds not the table but the data memory at the table's *)
(* address in flash: registers and variables of any content.  Everything   *)
(* here has what the lookups find as its first argument m; Declared is     *)
(* what the source declares, and what they find where flash is mapped.     *)
(***************************************************************************)
EXTENDS Integers, SequencesExt

Byte == 0 .. 255

(* Exclusive or, from a table for half bytes. *)
XorBits(a, b) == (a + b) % 2

XorTable ==
  [p \in (0 .. 15) \X (0 .. 15) |->
     LET bit(x, k) == (x \div k) % 2
         at(k) == k * XorBits(bit(p[1], k), bit(p[2], k))
     IN  at(1) + at(2) + at(4) + at(8)]

Xor(a, b) ==
  16 * XorTable[<<a \div 16, b \div 16>>] + XorTable[<<a % 16, b % 16>>]

(* The word and the block with these bytes. *)
Word(B(_))  == <<B(1), B(2), B(3), B(4)>>
Block(B(_)) == <<B(1), B(2), B(3), B(4), B(5), B(6), B(7), B(8), B(9), B(10),
                 B(11), B(12), B(13), B(14), B(15), B(16)>>

XorWords(v, w)  == Word(LAMBDA i : Xor(v[i], w[i]))
XorBlocks(s, t) == Block(LAMBDA i : Xor(s[i], t[i]))

----------------------------------------------------------------------------
(* The tables, from index 0 on. *)

SboxRows == <<
   99, 124, 119, 123, 242, 107, 111, 197,  48,   1, 103,  43, 254, 215, 171, 118,
  202, 130, 201, 125, 250,  89,  71, 240, 173, 212, 162, 175, 156, 164, 114, 192,
  183, 253, 147,  38,  54,  63, 247, 204,  52, 165, 229, 241, 113, 216,  49,  21,
    4, 199,  35, 195,  24, 150,   5, 154,   7,  18, 128, 226, 235,  39, 178, 117,
    9, 131,  44,  26,  27, 110,  90, 160,  82,  59, 214, 179,  41, 227,  47, 132,
   83, 209,   0, 237,  32, 252, 177,  91, 106, 203, 190,  57,  74,  76,  88, 207,
  208, 239, 170, 251,  67,  77,  51, 133,  69, 249,   2, 127,  80,  60, 159, 168,
   81, 163,  64, 143, 146, 157,  56, 245, 188, 182, 218,  33,  16, 255, 243, 210,
  205,  12,  19, 236,  95, 151,  68,  23, 196, 167, 126,  61, 100,  93,  25, 115,
   96, 129,  79, 220,  34,  42, 144, 136,  70, 238, 184,  20, 222,  94,  11, 219,
  224,  50,  58,  10,  73,   6,  36,  92, 194, 211, 172,  98, 145, 149, 228, 121,
  231, 200,  55, 109, 141, 213,  78, 169, 108,  86, 244, 234, 101, 122, 174,   8,
  186, 120,  37,  46,  28, 166, 180, 198, 232, 221, 116,  31,  75, 189, 139, 138,
  112,  62, 181, 102,  72,   3, 246,  14,  97,  53,  87, 185, 134, 193,  29, 158,
  225, 248, 152,  17, 105, 217, 142, 148, 155,  30, 135, 233, 206,  85,  40, 223,
  140, 161, 137,  13, 191, 230,  66, 104,  65, 153,  45,  15, 176,  84, 187,  22>>

RsboxRows == <<
   82,   9, 106, 213,  48,  54, 165,  56, 191,  64, 163, 158, 129, 243, 215, 251,
  124, 227,  57, 130, 155,  47, 255, 135,  52, 142,  67,  68, 196, 222, 233, 203,
   84, 123, 148,  50, 166, 194,  35,  61, 238,  76, 149,  11,  66, 250, 195,  78,
    8,  46, 161, 102,  40, 217,  36, 178, 118,  91, 162,  73, 109, 139, 209,  37,
  114, 248, 246, 100, 134, 104, 152,  22, 212, 164,  92, 204,  93, 101, 182, 146,
  108, 112,  72,  80, 253, 237, 185, 218,  94,  21,  70,  87, 167, 141, 157, 132,
  144, 216, 171,   0, 140, 188, 211,  10, 247, 228,  88,   5, 184, 179,  69,   6,
  208,  44,  30, 143, 202,  63,  15,   2, 193, 175, 189,   3,   1,  19, 138, 107,
   58, 145,  17,  65,  79, 103, 220, 234, 151, 242, 207, 206, 240, 180, 230, 115,
  150, 172, 116,  34, 231, 173,  53, 133, 226, 249,  55, 232,  28, 117, 223, 110,
   71, 241,  26, 113,  29,  41, 197, 137, 111, 183,  98,  14, 170,  24, 190,  27,
  252,  86,  62,  75, 198, 210, 121,  32, 154, 219, 192, 254, 120, 205,  90, 244,
   31, 221, 168,  51, 136,   7, 199,  49, 177,  18,  16,  89,  39, 128, 236,  95,
   96,  81, 127, 169,  25, 181,  74,  13,  45, 229, 122, 159, 147, 201, 156, 239,
  160, 224,  59,  77, 174,  42, 245, 176, 200, 235, 187,  60, 131,  83, 153,  97,
   23,  43,   4, 126, 186, 119, 214,  38, 225, 105,  20,  99,  85,  33,  12, 125>>

(* What lookups can find, and what they were meant to. *)
Tables ==
  [sbox : [Byte -> Byte], rsbox : [Byte -> Byte], rcon : [1 .. 10 -> Byte]]

Declared ==
  [sbox  |-> [v \in Byte |-> SboxRows[v + 1]],
   rsbox |-> [v \in Byte |-> RsboxRows[v + 1]],
   rcon  |-> <<1, 2, 4, 8, 16, 32, 64, 128, 27, 54>>]

(* The inverse table's content is the inverse of the other's. *)
Undoes(m) == \A v \in Byte : m.rsbox[m.sbox[v]] = v

(* The next round's key from the round's. *)
NextKey(m, k, rcon) ==
  LET g  == <<Xor(m.sbox[k[14]], rcon), m.sbox[k[15]], m.sbox[k[16]],
              m.sbox[k[13]]>>
      w1 == XorWords(g, SubSeq(k, 1, 4))
      w2 == XorWords(w1, SubSeq(k, 5, 8))
      w3 == XorWords(w2, SubSeq(k, 9, 12))
      w4 == XorWords(w3, SubSeq(k, 13, 16))
  IN  w1 \o w2 \o w3 \o w4

(* What the nine rounds alike, or all ten, make of s: F(s, r) is round r. *)
NineRounds(F(_, _), s) ==
  F(F(F(F(F(F(F(F(F(s, 1), 2), 3), 4), 5), 6), 7), 8), 9)
TenRounds(F(_, _), s) == F(NineRounds(F, s), 10)

(* The 11 round keys, which the code has in one array. *)
MoreKeys(m, keys, r) == Append(keys, NextKey(m, keys[r], m.rcon[r]))

expandKey(m, key) == TenRounds(LAMBDA keys, r : MoreKeys(m, keys, r), <<key>>)

galois_mul2(v) == IF v > 127 THEN Xor((2 * v) % 256, 27) ELSE 2 * v

(* The byte that row r of a column takes from the column r to the right,   *)
(* or in the inverse from the column r to the left.                        *)
Row(i) == (i - 1) % 4
Col(i) == (i - 1) \div 4
ShiftFrom(i)   == 4 * ((Col(i) + Row(i)) % 4) + Row(i) + 1
UnshiftFrom(i) == 4 * ((Col(i) + 4 - Row(i)) % 4) + Row(i) + 1

SubShift(m, s, k) ==
  LET t == XorBlocks(s, k) IN Block(LAMBDA i : m.sbox[t[ShiftFrom(i)]])

UnshiftSub(m, s, k) ==
  Block(LAMBDA i : Xor(m.rsbox[s[UnshiftFrom(i)]], k[i]))

(* Byte j of the column that i belongs to, counted on from i. *)
Below(s, i, j) == s[4 * Col(i) + ((Row(i) + j) % 4) + 1]

mixcolums(s) ==
  Block(LAMBDA i :
     LET all == Xor(Xor(s[i], Below(s, i, 1)), Xor(Below(s, i, 2), Below(s, i, 3)))
     IN  Xor(Xor(s[i], galois_mul2(Xor(s[i], Below(s, i, 1)))), all))

barreto(s) ==
  Block(LAMBDA i :
     Xor(s[i], galois_mul2(galois_mul2(Xor(s[i], Below(s, i, 2))))))

(* Mutant: the last round mixes the columns too. *)
aes_encr_mixed(m, state, keys) ==
  XorBlocks(TenRounds(LAMBDA s, r : mixcolums(SubShift(m, s, keys[r])), state),
            keys[11])

aes_encr(m, state, keys) ==
  LET nine == NineRounds(LAMBDA s, r : mixcolums(SubShift(m, s, keys[r])), state)
  IN  XorBlocks(SubShift(m, nine, keys[10]), keys[11])

aes_decr(m, state, keys) ==
  NineRounds(LAMBDA s, r : UnshiftSub(m, mixcolums(barreto(s)), keys[10 - r]),
             UnshiftSub(m, XorBlocks(state, keys[11]), keys[10]))

aes_encrypt(m, state, key) == aes_encr(m, state, expandKey(m, key))
aes_decrypt(m, state, key) == aes_decr(m, state, expandKey(m, key))

----------------------------------------------------------------------------
(* The standard: multiplication of polynomials modulo x^8+x^4+x^3+x+1, the *)
(* S-box as inversion and an affine map, MixColumns as a matrix.  Its      *)
(* cipher too is defined for any content m of the tables, and is AES for   *)
(* the one that the next assumption describes.                             *)

Times2(v) == IF v < 128 THEN 2 * v ELSE Xor(2 * v - 256, 27)

(* a times v: the sum of the multiples of v by the powers in a. *)
Times(a, v) ==
  LET bit(n) == IF (a \div 2^(8 - n)) % 2 = 1 THEN v ELSE 0
  IN  FoldLeft(LAMBDA t, n : Xor(Times2(t), bit(n)), 0, [n \in 1 .. 8 |-> n])

Rotated(v, n) == ((v * 2^n) % 256) + ((v * 2^n) \div 256)

Unaffine(s) == Xor(Xor(Rotated(s, 1), Rotated(s, 3)), Xor(Rotated(s, 6), 5))

(* The tables declared are the standard's: sbox is inversion followed by   *)
(* the affine map, rsbox its inverse.                                      *)
ASSUME TablesAreStandard ==
  /\ Undoes(Declared)
  /\ \A v \in Byte :
       LET u == Unaffine(Declared.sbox[v])
       IN  IF v = 0 THEN u = 0 ELSE Times(u, v) = 1

SubRot(m, w) == Word(LAMBDA j : m.sbox[w[(j % 4) + 1]])

(* The key schedule, whose words of one round are sums of those of the    *)
(* round before: temp, temp + w1, temp + w1 + w2 and so on.               *)
RoundWords(m, w, r) ==
  LET t    == SubRot(m, w[4])
      temp == <<Xor(t[1], m.rcon[r]), t[2], t[3], t[4]>>
      a    == XorWords(w[1], temp)
      b    == XorWords(w[2], a)
      c    == XorWords(w[3], b)
  IN  <<a, b, c, XorWords(w[4], c)>>

MoreWords(m, ws, r) == Append(ws, RoundWords(m, ws[r], r))

Schedule(m, key) ==
  TenRounds(LAMBDA ws, r : MoreWords(m, ws, r),
            <<Word(LAMBDA n : SubSeq(key, 4 * n - 3, 4 * n))>>)

MixColumns(s) ==
  Block(LAMBDA i :
     LET a == Times2(s[i])
         b == Xor(Times2(Below(s, i, 1)), Below(s, i, 1))
     IN  Xor(Xor(a, b), Xor(Below(s, i, 2), Below(s, i, 3))))

SubBytes(m, s) == Block(LAMBDA i : m.sbox[s[i]])
ShiftRows(s)   == Block(LAMBDA i : s[((i - 1 + 4 * Row(i)) % 16) + 1])

RoundKey(w) == w[1] \o w[2] \o w[3] \o w[4]

Cipher(m, block, key) ==
  LET ws == Schedule(m, key)
      nine == NineRounds(LAMBDA s, r :
                XorBlocks(MixColumns(ShiftRows(SubBytes(m, s))),
                          RoundKey(ws[r + 1])),
                XorBlocks(block, RoundKey(ws[1])))
  IN  XorBlocks(ShiftRows(SubBytes(m, nine)), RoundKey(ws[11]))

(* The example of the standard's appendix B. *)
ASSUME CipherIsStandard ==
  Cipher(Declared,
         <<50, 67, 246, 168, 136, 90, 48, 141, 49, 49, 152, 162, 224, 55, 7, 52>>,
         <<43, 126, 21, 22, 40, 174, 210, 166, 171, 247, 21, 136, 9, 207, 79, 60>>)
  = <<57, 37, 132, 29, 2, 220, 9, 251, 220, 17, 133, 151, 25, 106, 11, 50>>

============================================================================
