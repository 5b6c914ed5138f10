------------------------ MODULE ConfigProfileProofs ------------------------
(***************************************************************************)
(* The rounds of security.cpp are those of AES-128, for every block, every *)
(* key and every content that its lookups may find in place of its tables; *)
(* and wlan_smart_config_process takes from the field it has decrypted the *)
(* key that the phone put there, for every name and length of the key.     *)
(*                                                                         *)
(* The first part goes from bits to bytes, words, columns, rounds and the  *)
(* whole cipher.  The second follows the positions of profileArray: what   *)
(* a decryption in place leaves alone, whatever it makes of its block, and *)
(* where the key begins that shares its field with a length.               *)
(***************************************************************************)
EXTENDS ConfigProfile, SequenceTheorems, TLAPS

----------------------------------------------------------------------------
(* Sequences.                                                              *)

LEMMA Fill ==
  ASSUME NEW n \in Nat, NEW b \in Byte
  PROVE  LET f == [i \in 1 .. n |-> b] IN
         f \in Seq(Byte) /\ Len(f) = n /\ \A i \in 1 .. n : f[i] = b
OBVIOUS

LEMMA One ==
  ASSUME NEW b \in Byte
  PROVE  <<b>> \in Seq(Byte) /\ Len(<<b>>) = 1 /\ <<b>>[1] = b
OBVIOUS

(* c is a, of n bytes, and then b, of m. *)
Joins(c, a, n, b, m) ==
  /\ c \in Seq(Byte) /\ Len(c) = n + m
  /\ \A i \in 1 .. n : c[i] = a[i]
  /\ \A i \in 1 .. m : c[n + i] = b[i]

LEMMA Join ==
  ASSUME NEW a \in Seq(Byte), NEW b \in Seq(Byte)
  PROVE  Joins(a \o b, a, Len(a), b, Len(b))
<1>0. Len(a) \in Nat /\ Len(b) \in Nat
  OBVIOUS
<1>1. /\ a \o b \in Seq(Byte) /\ Len(a \o b) = Len(a) + Len(b)
      /\ \A i \in 1 .. Len(a) + Len(b) :
           (a \o b)[i] = IF i <= Len(a) THEN a[i] ELSE b[i - Len(a)]
  BY ConcatProperties
<1>2. ASSUME NEW i \in 1 .. Len(a)  PROVE (a \o b)[i] = a[i]
  <2>1. i \in 1 .. Len(a) + Len(b) /\ i <= Len(a)
    BY <1>0
  <2> QED BY <1>1, <2>1
<1>3. ASSUME NEW i \in 1 .. Len(b)  PROVE (a \o b)[Len(a) + i] = b[i]
  <2>1. /\ Len(a) + i \in 1 .. Len(a) + Len(b) /\ ~(Len(a) + i <= Len(a))
        /\ (Len(a) + i) - Len(a) = i
    BY <1>0
  <2>2. (a \o b)[Len(a) + i] = b[(Len(a) + i) - Len(a)]
    BY <1>1, <2>1
  <2> QED BY <2>1, <2>2
<1> QED BY <1>1, <1>2, <1>3 DEF Joins

(* c is the part of a from n to m. *)
Cuts(c, a, n, m) ==
  /\ c \in Seq(Byte) /\ Len(c) = m - n + 1
  /\ \A k \in n .. m : c[k - n + 1] = a[k]

LEMMA Cut ==
  ASSUME NEW a \in Seq(Byte), NEW n \in Nat, NEW m \in Nat,
         1 <= n, n <= m + 1, m <= Len(a)
  PROVE  Cuts(SubSeq(a, n, m), a, n, m)
<1>1. /\ Len(a) \in Nat /\ n \in Int /\ m \in Int
      /\ \A i \in n .. m : a[i] \in Byte
  BY ElementOfSeq
<1>2. /\ SubSeq(a, n, m) \in Seq(Byte)
      /\ Len(SubSeq(a, n, m)) = m - n + 1
      /\ \A i \in 1 .. m - n + 1 : SubSeq(a, n, m)[i] = a[n + i - 1]
  BY <1>1, SubSeqProperties
<1>3. ASSUME NEW k \in n .. m  PROVE SubSeq(a, n, m)[k - n + 1] = a[k]
  <2>1. k - n + 1 \in 1 .. m - n + 1 /\ n + (k - n + 1) - 1 = k
    BY <1>1
  <2> QED BY <1>2, <2>1
<1> QED BY <1>2, <1>3 DEF Cuts

----------------------------------------------------------------------------
(* Bytes and their bits: Xor is the sum without carries.                  *)

Bit == {0, 1}
Bits == [0 .. 7 -> Bit]
Val(b) == b[0] + 2 * b[1] + 4 * b[2] + 8 * b[3]
            + 16 * b[4] + 32 * b[5] + 64 * b[6] + 128 * b[7]
Nibble(a, b, c, d) == a + 2 * b + 4 * c + 8 * d
Plus(b, c) == [i \in 0 .. 7 |-> XorBits(b[i], c[i])]

(* A half byte's bits are those it is made of. *)
LEMMA NibbleBits ==
  ASSUME NEW a \in Bit, NEW b \in Bit, NEW c \in Bit, NEW d \in Bit
  PROVE  LET n == Nibble(a, b, c, d) IN
         /\ n \in 0 .. 15
         /\ (n \div 1) % 2 = a /\ (n \div 2) % 2 = b
         /\ (n \div 4) % 2 = c /\ (n \div 8) % 2 = d
BY DEF Nibble, Bit

NibbleXors(a, b, c, d, e, f, g, h) ==
  XorTable[<<Nibble(a, b, c, d), Nibble(e, f, g, h)>>] =
    Nibble(XorBits(a, e), XorBits(b, f), XorBits(c, g), XorBits(d, h))

(* XorTable works bit by bit. *)
LEMMA NibbleXor ==
  ASSUME NEW a \in Bit, NEW b \in Bit, NEW c \in Bit, NEW d \in Bit,
         NEW e \in Bit, NEW f \in Bit, NEW g \in Bit, NEW h \in Bit
  PROVE  NibbleXors(a, b, c, d, e, f, g, h)
<1> DEFINE m == Nibble(a, b, c, d)
           n == Nibble(e, f, g, h)
           p == <<m, n>>
<1>1. /\ m \in 0 .. 15 /\ (m \div 1) % 2 = a /\ (m \div 2) % 2 = b
      /\ (m \div 4) % 2 = c /\ (m \div 8) % 2 = d
  BY NibbleBits
<1>2. /\ n \in 0 .. 15 /\ (n \div 1) % 2 = e /\ (n \div 2) % 2 = f
      /\ (n \div 4) % 2 = g /\ (n \div 8) % 2 = h
  BY NibbleBits
<1> HIDE DEF m, n
<1>3. p \in (0 .. 15) \X (0 .. 15) /\ p[1] = m /\ p[2] = n
  BY <1>1, <1>2
<1>4. \A x, y \in Bit : XorBits(x, y) \in Bit
  BY DEF XorBits, Bit
<1> HIDE DEF p
<1>5. XorTable[p] = 1 * XorBits(a, e) + 2 * XorBits(b, f)
                      + 4 * XorBits(c, g) + 8 * XorBits(d, h)
  BY <1>1, <1>2, <1>3, Zenon DEF XorTable
<1>6. XorTable[p] = Nibble(XorBits(a, e), XorBits(b, f),
                           XorBits(c, g), XorBits(d, h))
  BY <1>4, <1>5 DEF Nibble, Bit
<1> QED BY <1>6 DEF NibbleXors, p, m, n

(* A byte is two half bytes. *)
LEMMA ByteHalves ==
  ASSUME NEW b \in Bits
  PROVE  /\ Val(b) \in Byte
         /\ Val(b) \div 16 = Nibble(b[4], b[5], b[6], b[7])
         /\ Val(b) % 16 = Nibble(b[0], b[1], b[2], b[3])
<1>1. \A i \in 0 .. 7 : b[i] \in {0, 1}
  BY DEF Bits, Bit
<1> DEFINE b0 == b[0]
           b1 == b[1]
           b2 == b[2]
           b3 == b[3]
           b4 == b[4]
           b5 == b[5]
           b6 == b[6]
           b7 == b[7]
<1>2. /\ b0 \in {0,1} /\ b1 \in {0,1} /\ b2 \in {0,1} /\ b3 \in {0,1}
     /\ b4 \in {0,1} /\ b5 \in {0,1} /\ b6 \in {0,1} /\ b7 \in {0,1}
  BY <1>1
<1>3. Val(b) = b0 + 2 * b1 + 4 * b2 + 8 * b3
                 + 16 * b4 + 32 * b5 + 64 * b6 + 128 * b7
  BY DEF Val
<1> HIDE DEF b0, b1, b2, b3, b4, b5, b6, b7
<1>4. /\ Val(b) \in 0 .. 255
         /\ Val(b) \div 16 = b4 + 2 * b5 + 4 * b6 + 8 * b7
         /\ Val(b) % 16 = b0 + 2 * b1 + 4 * b2 + 8 * b3
  BY <1>2, <1>3
<1> QED BY <1>4 DEF Nibble, b0, b1, b2, b3, b4, b5, b6, b7, Byte

(* The sum of bits, place by place, is bits. *)
LEMMA PlusBits ==
  ASSUME NEW b \in Bits, NEW c \in Bits
  PROVE  /\ Plus(b, c) \in Bits
         /\ \A i \in 0 .. 7 : Plus(b, c)[i] = XorBits(b[i], c[i])
<1>1. \A x, y \in Bit : XorBits(x, y) \in Bit
  BY DEF XorBits, Bit
<1> QED BY <1>1 DEF Plus, Bits

(* Xor of bytes is the sum of their bits. *)
LEMMA XorVal ==
  ASSUME NEW b \in Bits, NEW c \in Bits
  PROVE  Xor(Val(b), Val(c)) = Val(Plus(b, c))
<1> DEFINE d == Plus(b, c)
<1>1. d \in Bits /\ \A i \in 0 .. 7 : d[i] = XorBits(b[i], c[i])
  BY PlusBits
<1>2. /\ b[0] \in Bit /\ b[1] \in Bit /\ b[2] \in Bit /\ b[3] \in Bit
      /\ b[4] \in Bit /\ b[5] \in Bit /\ b[6] \in Bit /\ b[7] \in Bit
      /\ c[0] \in Bit /\ c[1] \in Bit /\ c[2] \in Bit /\ c[3] \in Bit
      /\ c[4] \in Bit /\ c[5] \in Bit /\ c[6] \in Bit /\ c[7] \in Bit
  BY DEF Bits
<1> HIDE DEF d
<1>3. XorTable[<<Val(b) % 16, Val(c) % 16>>] = Nibble(d[0], d[1], d[2], d[3])
  <2>1. XorTable[<<Nibble(b[0], b[1], b[2], b[3]),
                   Nibble(c[0], c[1], c[2], c[3])>>]
          = Nibble(XorBits(b[0], c[0]), XorBits(b[1], c[1]),
                   XorBits(b[2], c[2]), XorBits(b[3], c[3]))
    <3>1. NibbleXors(b[0], b[1], b[2], b[3], c[0], c[1], c[2], c[3])
      BY <1>2, NibbleXor, Zenon
    <3> QED BY <3>1, Zenon DEF NibbleXors
  <2>2. /\ Val(b) % 16 = Nibble(b[0], b[1], b[2], b[3])
        /\ Val(c) % 16 = Nibble(c[0], c[1], c[2], c[3])
    BY ByteHalves
  <2>3. /\ d[0] = XorBits(b[0], c[0]) /\ d[1] = XorBits(b[1], c[1])
        /\ d[2] = XorBits(b[2], c[2]) /\ d[3] = XorBits(b[3], c[3])
    BY <1>1
  <2> QED BY <2>1, <2>2, <2>3, Zenon
<1>4. XorTable[<<Val(b) \div 16, Val(c) \div 16>>] = Nibble(d[4], d[5], d[6], d[7])
  <2>1. XorTable[<<Nibble(b[4], b[5], b[6], b[7]),
                   Nibble(c[4], c[5], c[6], c[7])>>]
          = Nibble(XorBits(b[4], c[4]), XorBits(b[5], c[5]),
                   XorBits(b[6], c[6]), XorBits(b[7], c[7]))
    <3>1. NibbleXors(b[4], b[5], b[6], b[7], c[4], c[5], c[6], c[7])
      BY <1>2, NibbleXor, Zenon
    <3> QED BY <3>1, Zenon DEF NibbleXors
  <2>2. /\ Val(b) \div 16 = Nibble(b[4], b[5], b[6], b[7])
        /\ Val(c) \div 16 = Nibble(c[4], c[5], c[6], c[7])
    BY ByteHalves
  <2>3. /\ d[4] = XorBits(b[4], c[4]) /\ d[5] = XorBits(b[5], c[5])
        /\ d[6] = XorBits(b[6], c[6]) /\ d[7] = XorBits(b[7], c[7])
    BY <1>1
  <2> QED BY <2>1, <2>2, <2>3, Zenon
<1>5. \A i \in 0 .. 7 : d[i] \in Int
  BY <1>1 DEF Bits, Bit
<1>6. 16 * Nibble(d[4], d[5], d[6], d[7]) + Nibble(d[0], d[1], d[2], d[3]) = Val(d)
  BY <1>5 DEF Nibble, Val
<1> QED BY <1>3, <1>4, <1>6 DEF Xor, d

(* Every byte is made of bits. *)
LEMMA HasBits ==
  ASSUME NEW v \in Byte
  PROVE  \E b \in Bits : v = Val(b)
<1> DEFINE b == [i \in 0 .. 7 |->
                   CASE i = 0 -> v % 2           [] i = 1 -> (v \div 2) % 2
                     [] i = 2 -> (v \div 4) % 2  [] i = 3 -> (v \div 8) % 2
                     [] i = 4 -> (v \div 16) % 2 [] i = 5 -> (v \div 32) % 2
                     [] i = 6 -> (v \div 64) % 2 [] i = 7 -> (v \div 128) % 2]
<1>1. \A i \in 0 .. 7 : b[i] \in Bit
  BY DEF Byte, Bit
<1>2. b \in Bits
  BY <1>1 DEF Bits
<1>3. v = Val(b)
  BY DEF Val, Byte
<1> QED BY <1>2, <1>3


(* Bits that agree in every place are the same. *)
LEMMA SameBits ==
  ASSUME NEW b \in Bits, NEW c \in Bits, \A i \in 0 .. 7 : b[i] = c[i]
  PROVE  b = c
BY DEF Bits

(* Exclusive or makes bytes of bytes, *)
LEMMA XorClosed ==
  ASSUME NEW a \in Byte, NEW b \in Byte
  PROVE  Xor(a, b) \in Byte
<1>1. PICK x \in Bits : a = Val(x)  BY HasBits
<1>2. PICK y \in Bits : b = Val(y)  BY HasBits
<1>3. Xor(a, b) = Val(Plus(x, y)) /\ Plus(x, y) \in Bits
  BY <1>1, <1>2, XorVal, PlusBits
<1> QED BY <1>3, ByteHalves

(* commutes, *)
LEMMA XorComm ==
  ASSUME NEW a \in Byte, NEW b \in Byte
  PROVE  Xor(a, b) = Xor(b, a)
<1>1. PICK x \in Bits : a = Val(x)  BY HasBits
<1>2. PICK y \in Bits : b = Val(y)  BY HasBits
<1>3. Xor(a, b) = Val(Plus(x, y)) /\ Xor(b, a) = Val(Plus(y, x))
  BY <1>1, <1>2, XorVal
<1>4. Plus(x, y) = Plus(y, x)
  BY DEF Plus, XorBits, Bits, Bit
<1> QED BY <1>3, <1>4

(* is associative, *)
LEMMA XorAssoc ==
  ASSUME NEW a \in Byte, NEW b \in Byte, NEW c \in Byte
  PROVE  Xor(Xor(a, b), c) = Xor(a, Xor(b, c))
<1>1. PICK x \in Bits : a = Val(x)  BY HasBits
<1>2. PICK y \in Bits : b = Val(y)  BY HasBits
<1>3. PICK z \in Bits : c = Val(z)  BY HasBits
<1>4. Xor(Xor(a, b), c) = Val(Plus(Plus(x, y), z))
  BY <1>1, <1>2, <1>3, XorVal, PlusBits
<1>5. Xor(a, Xor(b, c)) = Val(Plus(x, Plus(y, z)))
  BY <1>1, <1>2, <1>3, XorVal, PlusBits
<1>6. Plus(Plus(x, y), z) = Plus(x, Plus(y, z))
  <2>1. ASSUME NEW i \in 0 .. 7
        PROVE  Plus(Plus(x, y), z)[i] = Plus(x, Plus(y, z))[i]
    <3>1. x[i] \in Bit /\ y[i] \in Bit /\ z[i] \in Bit
      BY DEF Bits
    <3>2. XorBits(XorBits(x[i], y[i]), z[i]) = XorBits(x[i], XorBits(y[i], z[i]))
      BY <3>1 DEF XorBits, Bit
    <3> QED BY <3>2, PlusBits
  <2> QED BY <2>1, PlusBits, SameBits
<1> QED BY <1>4, <1>5, <1>6

(* is its own inverse, *)
LEMMA XorSelf ==
  ASSUME NEW a \in Byte
  PROVE  Xor(a, a) = 0
<1>1. PICK x \in Bits : a = Val(x)  BY HasBits
<1>2. Xor(a, a) = Val(Plus(x, x))
  BY <1>1, XorVal
<1>3. \A i \in 0 .. 7 : Plus(x, x)[i] = 0
  BY DEF Plus, XorBits, Bits, Bit
<1> QED BY <1>2, <1>3 DEF Val

(* and leaves a byte alone with 0. *)
LEMMA XorZero ==
  ASSUME NEW a \in Byte
  PROVE  Xor(a, 0) = a
<1>1. PICK x \in Bits : a = Val(x)  BY HasBits
<1>2. PICK y \in Bits : 0 = Val(y)  BY HasBits DEF Byte
<1>3. \A i \in 0 .. 7 : y[i] = 0
  <2>1. \A i \in 0 .. 7 : y[i] \in {0, 1}
    BY DEF Bits, Bit
  <2>2. y[0] \in {0, 1} /\ y[1] \in {0, 1} /\ y[2] \in {0, 1} /\ y[3] \in {0, 1}
      /\ y[4] \in {0, 1} /\ y[5] \in {0, 1} /\ y[6] \in {0, 1} /\ y[7] \in {0, 1}
    BY <2>1
  <2>3. /\ y[0] = 0 /\ y[1] = 0 /\ y[2] = 0 /\ y[3] = 0
        /\ y[4] = 0 /\ y[5] = 0 /\ y[6] = 0 /\ y[7] = 0
    BY <2>2, <1>2 DEF Val
  <2> QED BY <2>3
<1>4. Plus(x, y) = x
  <2>1. \A i \in 0 .. 7 : Plus(x, y)[i] = x[i]
    BY <1>3 DEF Plus, XorBits, Bits, Bit
  <2> QED BY <2>1, PlusBits, SameBits
<1> QED BY <1>1, <1>2, <1>4, XorVal

----------------------------------------------------------------------------
(* galois_mul2: a byte times x, modulo the polynomial 27. *)

Twice(b) ==
  [i \in 0 .. 7 |-> IF i = 0 THEN b[7]
                    ELSE IF i \in {1, 3, 4} THEN XorBits(b[i - 1], b[7])
                    ELSE b[i - 1]]

(* Doubling keeps bits, *)
LEMMA TwiceBits ==
  ASSUME NEW b \in Bits
  PROVE  Twice(b) \in Bits
<1>1. \A x, y \in Bit : XorBits(x, y) \in Bit
  BY DEF XorBits, Bit
<1> QED BY <1>1 DEF Twice, Bits

Mask == [i \in 0 .. 7 |-> IF i \in {0, 1, 3, 4} THEN 1 ELSE 0]

(* and is what galois_mul2 does to a byte. *)
LEMMA MulVal ==
  ASSUME NEW b \in Bits
  PROVE  galois_mul2(Val(b)) = Val(Twice(b))
<1> DEFINE c == [i \in 0 .. 7 |-> IF i = 0 THEN 0 ELSE b[i - 1]]
<1>1. b[0] \in {0, 1} /\ b[1] \in {0, 1} /\ b[2] \in {0, 1} /\ b[3] \in {0, 1}
      /\ b[4] \in {0, 1} /\ b[5] \in {0, 1} /\ b[6] \in {0, 1} /\ b[7] \in {0, 1}
  BY DEF Bits, Bit
<1>2. c \in Bits /\ Mask \in Bits
  BY DEF Bits, Bit, Mask
<1>3. Val(Mask) = 27
  BY DEF Val, Mask
<1>4. /\ Val(b) > 127 <=> b[7] = 1
      /\ (2 * Val(b)) % 256 = Val(c)
      /\ b[7] = 0 => 2 * Val(b) = Val(c)
  BY <1>1 DEF Val
<1>5. CASE b[7] = 1
  <2>1. Twice(b) = Plus(c, Mask)
    <3>1. ASSUME NEW i \in 0 .. 7  PROVE Twice(b)[i] = Plus(c, Mask)[i]
      BY <1>5, <1>1 DEF Twice, Plus, Mask, XorBits
    <3> QED BY <3>1, <1>2, TwiceBits, PlusBits, SameBits
  <2> QED BY <2>1, <1>2, <1>3, <1>4, <1>5, XorVal DEF galois_mul2
<1>6. CASE b[7] = 0
  <2>1. Twice(b) = c
    <3>1. ASSUME NEW i \in 0 .. 7  PROVE Twice(b)[i] = c[i]
      BY <1>6, <1>1 DEF Twice, XorBits
    <3> QED BY <3>1, <1>2, TwiceBits, SameBits
  <2> QED BY <2>1, <1>4, <1>6 DEF galois_mul2
<1> QED BY <1>1, <1>5, <1>6

(* galois_mul2 makes bytes of bytes, *)
LEMMA MulClosed ==
  ASSUME NEW a \in Byte
  PROVE  galois_mul2(a) \in Byte
BY HasBits, MulVal, TwiceBits, ByteHalves

(* and is additive: what mixcolums and barreto rely on. *)
LEMMA MulAdd ==
  ASSUME NEW a \in Byte, NEW b \in Byte
  PROVE  galois_mul2(Xor(a, b)) = Xor(galois_mul2(a), galois_mul2(b))
<1>1. PICK x \in Bits : a = Val(x)  BY HasBits
<1>2. PICK y \in Bits : b = Val(y)  BY HasBits
<1>3. galois_mul2(Xor(a, b)) = Val(Twice(Plus(x, y)))
  BY <1>1, <1>2, XorVal, PlusBits, MulVal
<1>4. Xor(galois_mul2(a), galois_mul2(b)) = Val(Plus(Twice(x), Twice(y)))
  BY <1>1, <1>2, XorVal, TwiceBits, MulVal
<1>5. Twice(Plus(x, y)) = Plus(Twice(x), Twice(y))
  <2>1. ASSUME NEW i \in 0 .. 7
        PROVE Twice(Plus(x, y))[i] = Plus(Twice(x), Twice(y))[i]
    <3>1. /\ x[7] \in Bit /\ y[7] \in Bit
          /\ i # 0 => x[i - 1] \in Bit /\ y[i - 1] \in Bit
      BY DEF Bits
    <3>2. \A p, q, r, s \in Bit :
            XorBits(XorBits(p, q), XorBits(r, s))
              = XorBits(XorBits(p, r), XorBits(q, s))
      BY DEF XorBits, Bit
    <3> QED BY <3>1, <3>2 DEF Twice, Plus
  <2> QED BY <2>1, PlusBits, TwiceBits, SameBits
<1> QED BY <1>3, <1>4, <1>5

----------------------------------------------------------------------------
(* Words and blocks.                                                      *)

Bytes4 == [1 .. 4 -> Byte]
Bytes16 == [1 .. 16 -> Byte]

(* Words can be added, in either order. *)
LEMMA XorWordsClosed ==
  ASSUME NEW v \in Bytes4, NEW w \in Bytes4
  PROVE  XorWords(v, w) \in Bytes4 /\ XorWords(v, w) = XorWords(w, v)
<1>1. /\ v[1] \in Byte /\ v[2] \in Byte /\ v[3] \in Byte /\ v[4] \in Byte
      /\ w[1] \in Byte /\ w[2] \in Byte /\ w[3] \in Byte /\ w[4] \in Byte
  BY DEF Bytes4
<1>2. XorWords(v, w) = <<Xor(v[1], w[1]), Xor(v[2], w[2]),
                         Xor(v[3], w[3]), Xor(v[4], w[4])>>
  BY DEF XorWords, Word
<1>3. XorWords(w, v) = <<Xor(w[1], v[1]), Xor(w[2], v[2]),
                         Xor(w[3], v[3]), Xor(w[4], v[4])>>
  BY DEF XorWords, Word
<1>4. /\ Xor(v[1], w[1]) \in Byte /\ Xor(v[2], w[2]) \in Byte
      /\ Xor(v[3], w[3]) \in Byte /\ Xor(v[4], w[4]) \in Byte
  BY <1>1, XorClosed
<1>5. /\ Xor(v[1], w[1]) = Xor(w[1], v[1]) /\ Xor(v[2], w[2]) = Xor(w[2], v[2])
      /\ Xor(v[3], w[3]) = Xor(w[3], v[3]) /\ Xor(v[4], w[4]) = Xor(w[4], v[4])
  BY <1>1, XorComm
<1>6. XorWords(v, w) \in Bytes4
  BY <1>2, <1>4 DEF Bytes4
<1> QED BY <1>2, <1>3, <1>5, <1>6, Zenon

(* Words and blocks are the sequences of 4 and of 16 bytes. *)
LEMMA WordIsSeq ==
  ASSUME NEW w
  PROVE  w \in Bytes4 <=> w \in Seq(Byte) /\ Len(w) = 4
<1>1. ASSUME w \in Bytes4  PROVE w \in Seq(Byte) /\ Len(w) = 4
  <2>1. w \in [1 .. 4 -> Byte]
    BY <1>1 DEF Bytes4
  <2>2. w \in Seq(Byte)
    BY <2>1, SeqDef
  <2> QED BY <2>1, <2>2, LenProperties
<1>2. ASSUME w \in Seq(Byte), Len(w) = 4  PROVE w \in Bytes4
  BY <1>2, LenProperties DEF Bytes4
<1> QED BY <1>1, <1>2

(* Words with the same bytes are the same. *)
LEMMA WordsEqual ==
  ASSUME NEW v \in Bytes4, NEW w \in Bytes4, \A i \in 1 .. 4 : v[i] = w[i]
  PROVE  v = w
BY DEF Bytes4

LEMMA BlockIsSeq ==
  ASSUME NEW k
  PROVE  k \in Bytes16 <=> k \in Seq(Byte) /\ Len(k) = 16
<1>1. ASSUME k \in Bytes16  PROVE k \in Seq(Byte) /\ Len(k) = 16
  <2>1. k \in [1 .. 16 -> Byte]
    BY <1>1 DEF Bytes16
  <2>2. k \in Seq(Byte)
    BY <2>1, SeqDef
  <2> QED BY <2>1, <2>2, LenProperties
<1>2. ASSUME k \in Seq(Byte), Len(k) = 16  PROVE k \in Bytes16
  BY <1>2, LenProperties DEF Bytes16
<1> QED BY <1>1, <1>2

(* k is the four words a, b, c and d. *)
Joined(k, a, b, c, d) ==
  /\ k \in Seq(Byte) /\ Len(k) = 16
  /\ \A i \in 1 .. 4 :
       k[i] = a[i] /\ k[4 + i] = b[i] /\ k[8 + i] = c[i] /\ k[12 + i] = d[i]

(* The four words determine the block. *)
LEMMA JoinedOnce ==
  ASSUME NEW k, NEW l, NEW a, NEW b, NEW c, NEW d,
         Joined(k, a, b, c, d), Joined(l, a, b, c, d)
  PROVE  k = l
<1>1. ASSUME NEW i \in 1 .. 16  PROVE k[i] = l[i]
  <2>1. \E j \in 1 .. 4 : i = j \/ i = 4 + j \/ i = 8 + j \/ i = 12 + j
    <3>1. i \in 1 .. 4 \/ i - 4 \in 1 .. 4 \/ i - 8 \in 1 .. 4 \/ i - 12 \in 1 .. 4
      OBVIOUS
    <3>2. i = 4 + (i - 4) /\ i = 8 + (i - 8) /\ i = 12 + (i - 12)
      OBVIOUS
    <3> QED BY <3>1, <3>2
  <2> QED BY <2>1 DEF Joined
<1> QED BY <1>1, SeqEqual DEF Joined

(* Joined words make a block, *)
LEMMA Joining ==
  ASSUME NEW a \in Bytes4, NEW b \in Bytes4, NEW c \in Bytes4, NEW d \in Bytes4
  PROVE  Joined(a \o b \o c \o d, a, b, c, d)
<1>1. /\ a \in Seq(Byte) /\ Len(a) = 4 /\ b \in Seq(Byte) /\ Len(b) = 4
      /\ c \in Seq(Byte) /\ Len(c) = 4 /\ d \in Seq(Byte) /\ Len(d) = 4
  BY WordIsSeq
<1> DEFINE x == a \o b
           y == x \o c
           k == y \o d
<1> HIDE DEF x, y, k
<1>2. /\ x \in Seq(Byte) /\ Len(x) = 8
      /\ \A i \in 1 .. 4 : x[i] = a[i] /\ x[4 + i] = b[i]
  <2>1. Joins(x, a, Len(a), b, Len(b))
    BY <1>1, Join, Zenon DEF x
  <2>2. Joins(x, a, 4, b, 4)
    BY <2>1, <1>1, Zenon
  <2> QED BY <2>2 DEF Joins
<1>3. /\ y \in Seq(Byte) /\ Len(y) = 12
      /\ \A i \in 1 .. 8 : y[i] = x[i]
      /\ \A i \in 1 .. 4 : y[8 + i] = c[i]
  <2>1. Joins(y, x, Len(x), c, Len(c))
    BY <1>1, <1>2, Join, Zenon DEF y
  <2>2. Joins(y, x, 8, c, 4)
    BY <2>1, <1>1, <1>2, Zenon
  <2> QED BY <2>2 DEF Joins
<1>4. /\ k \in Seq(Byte) /\ Len(k) = 16
      /\ \A i \in 1 .. 12 : k[i] = y[i]
      /\ \A i \in 1 .. 4 : k[12 + i] = d[i]
  <2>1. Joins(k, y, Len(y), d, Len(d))
    BY <1>1, <1>3, Join, Zenon DEF k
  <2>2. Joins(k, y, 12, d, 4)
    BY <2>1, <1>1, <1>3, Zenon
  <2> QED BY <2>2 DEF Joins
<1>5. Joined(k, a, b, c, d)
  <2> SUFFICES ASSUME NEW i \in 1 .. 4
               PROVE  /\ k[i] = a[i] /\ k[4 + i] = b[i]
                      /\ k[8 + i] = c[i] /\ k[12 + i] = d[i]
    BY <1>4 DEF Joined
  <2>1. i \in 1 .. 8 /\ 4 + i \in 1 .. 8 /\ i \in 1 .. 12 /\ 4 + i \in 1 .. 12
        /\ 8 + i \in 1 .. 12
    OBVIOUS
  <2> QED BY <2>1, <1>2, <1>3, <1>4
<1> QED BY <1>5 DEF k, y, x

(* a block is made of its four words, *)
LEMMA Splitting ==
  ASSUME NEW k \in Bytes16
  PROVE  /\ SubSeq(k, 1, 4) \in Bytes4 /\ SubSeq(k, 5, 8) \in Bytes4
         /\ SubSeq(k, 9, 12) \in Bytes4 /\ SubSeq(k, 13, 16) \in Bytes4
         /\ Joined(k, SubSeq(k, 1, 4), SubSeq(k, 5, 8),
                      SubSeq(k, 9, 12), SubSeq(k, 13, 16))
<1>1. k \in Seq(Byte) /\ Len(k) = 16
  BY BlockIsSeq
<1> DEFINE a == SubSeq(k, 1, 4)
           b == SubSeq(k, 5, 8)
           c == SubSeq(k, 9, 12)
           d == SubSeq(k, 13, 16)
<1>2. /\ Cuts(a, k, 1, 4) /\ Cuts(b, k, 5, 8) /\ Cuts(c, k, 9, 12)
      /\ Cuts(d, k, 13, 16)
  <2>1. /\ 1 \in Nat /\ 4 \in Nat /\ 1 <= 1 /\ 1 <= 4 + 1 /\ 4 <= 16
        /\ 5 \in Nat /\ 8 \in Nat /\ 1 <= 5 /\ 5 <= 8 + 1 /\ 8 <= 16
        /\ 9 \in Nat /\ 12 \in Nat /\ 1 <= 9 /\ 9 <= 12 + 1 /\ 12 <= 16
        /\ 13 \in Nat /\ 16 \in Nat /\ 1 <= 13 /\ 13 <= 16 + 1 /\ 16 <= 16
    OBVIOUS
  <2>2. Cuts(a, k, 1, 4)
    BY <1>1, <2>1, Cut, Zenon
  <2>3. Cuts(b, k, 5, 8)
    BY <1>1, <2>1, Cut, Zenon
  <2>4. Cuts(c, k, 9, 12)
    BY <1>1, <2>1, Cut, Zenon
  <2>5. Cuts(d, k, 13, 16)
    BY <1>1, <2>1, Cut, Zenon
  <2> QED BY <2>2, <2>3, <2>4, <2>5
<1> HIDE DEF a, b, c, d
<1>3. a \in Bytes4 /\ b \in Bytes4 /\ c \in Bytes4 /\ d \in Bytes4
  BY <1>2, WordIsSeq DEF Cuts
<1>4. Joined(k, a, b, c, d)
  <2> SUFFICES ASSUME NEW i \in 1 .. 4
               PROVE  /\ k[i] = a[i] /\ k[4 + i] = b[i]
                      /\ k[8 + i] = c[i] /\ k[12 + i] = d[i]
    BY <1>1 DEF Joined
  <2>1. /\ i \in 1 .. 4 /\ (i - 1) + 1 = i
        /\ 4 + i \in 5 .. 8 /\ ((4 + i) - 5) + 1 = i
        /\ 8 + i \in 9 .. 12 /\ ((8 + i) - 9) + 1 = i
        /\ 12 + i \in 13 .. 16 /\ ((12 + i) - 13) + 1 = i
    OBVIOUS
  <2>2. /\ a[(i - 1) + 1] = k[i] /\ b[((4 + i) - 5) + 1] = k[4 + i]
        /\ c[((8 + i) - 9) + 1] = k[8 + i] /\ d[((12 + i) - 13) + 1] = k[12 + i]
    BY <2>1, <1>2 DEF Cuts
  <2> QED BY <2>1, <2>2
<1> QED BY <1>3, <1>4 DEF a, b, c, d

(* and they are those that were joined. *)
LEMMA PartsOfJoined ==
  ASSUME NEW a \in Bytes4, NEW b \in Bytes4, NEW c \in Bytes4, NEW d \in Bytes4,
         NEW k, Joined(k, a, b, c, d)
  PROVE  /\ SubSeq(k, 1, 4) = a /\ SubSeq(k, 5, 8) = b
         /\ SubSeq(k, 9, 12) = c /\ SubSeq(k, 13, 16) = d
<1>1. /\ a \in Seq(Byte) /\ Len(a) = 4 /\ b \in Seq(Byte) /\ Len(b) = 4
      /\ c \in Seq(Byte) /\ Len(c) = 4 /\ d \in Seq(Byte) /\ Len(d) = 4
  BY WordIsSeq
<1>2. k \in Bytes16
  BY BlockIsSeq DEF Joined
<1> DEFINE e == SubSeq(k, 1, 4)
           f == SubSeq(k, 5, 8)
           g == SubSeq(k, 9, 12)
           h == SubSeq(k, 13, 16)
<1>3. /\ e \in Bytes4 /\ f \in Bytes4 /\ g \in Bytes4 /\ h \in Bytes4
      /\ Joined(k, e, f, g, h)
  BY <1>2, Splitting
<1> HIDE DEF e, f, g, h
<1>4. /\ e \in Seq(Byte) /\ Len(e) = 4 /\ f \in Seq(Byte) /\ Len(f) = 4
      /\ g \in Seq(Byte) /\ Len(g) = 4 /\ h \in Seq(Byte) /\ Len(h) = 4
  BY <1>3, WordIsSeq
<1>5. \A i \in 1 .. 4 : e[i] = a[i] /\ f[i] = b[i] /\ g[i] = c[i] /\ h[i] = d[i]
  BY <1>3 DEF Joined
<1>6. e = a /\ f = b /\ g = c /\ h = d
  BY <1>3, <1>5, WordsEqual
<1> QED BY <1>6 DEF e, f, g, h

----------------------------------------------------------------------------
(* The key schedule.                                                      *)

WordsOf(k) ==
  <<SubSeq(k, 1, 4), SubSeq(k, 5, 8), SubSeq(k, 9, 12), SubSeq(k, 13, 16)>>

(* Lookups find bytes. *)
LEMMA SboxByte ==
  ASSUME NEW tab \in Tables,
         NEW v \in Byte
  PROVE  tab.sbox[v] \in Byte
BY DEF Tables

(* The standard's round key is the block its words are from. *)
LEMMA RoundKeyOf ==
  ASSUME NEW k \in Bytes16
  PROVE  RoundKey(WordsOf(k)) = k
<1> DEFINE a == SubSeq(k, 1, 4)
           b == SubSeq(k, 5, 8)
           c == SubSeq(k, 9, 12)
           d == SubSeq(k, 13, 16)
<1>1. /\ a \in Bytes4 /\ b \in Bytes4 /\ c \in Bytes4 /\ d \in Bytes4
      /\ Joined(k, a, b, c, d)
  BY Splitting
<1>2. WordsOf(k) = <<a, b, c, d>>
  BY DEF WordsOf
<1> HIDE DEF a, b, c, d
<1>3. RoundKey(WordsOf(k)) = a \o b \o c \o d
  BY <1>2 DEF RoundKey
<1>4. Joined(a \o b \o c \o d, a, b, c, d)
  BY <1>1, Joining
<1> QED BY <1>1, <1>3, <1>4, JoinedOnce

(* A turn of expandKey's loop makes the standard's next four words. *)
LEMMA NextWords ==
  ASSUME NEW tab \in Tables,
         NEW k \in Bytes16, NEW r \in 1 .. 10
  PROVE  /\ NextKey(tab, k, tab.rcon[r]) \in Bytes16
         /\ RoundWords(tab, WordsOf(k), r) = WordsOf(NextKey(tab, k, tab.rcon[r]))
<1> DEFINE a == SubSeq(k, 1, 4)
           b == SubSeq(k, 5, 8)
           c == SubSeq(k, 9, 12)
           d == SubSeq(k, 13, 16)
           g == <<Xor(tab.sbox[k[14]], tab.rcon[r]), tab.sbox[k[15]], tab.sbox[k[16]],
                  tab.sbox[k[13]]>>
           w1 == XorWords(g, a)
           w2 == XorWords(w1, b)
           w3 == XorWords(w2, c)
           w4 == XorWords(w3, d)
           n == NextKey(tab, k, tab.rcon[r])
           t == SubRot(tab, d)
           temp == <<Xor(t[1], tab.rcon[r]), t[2], t[3], t[4]>>
           x1 == XorWords(a, temp)
           x2 == XorWords(b, x1)
           x3 == XorWords(c, x2)
           x4 == XorWords(d, x3)
<1>1. /\ a \in Bytes4 /\ b \in Bytes4 /\ c \in Bytes4 /\ d \in Bytes4
      /\ Joined(k, a, b, c, d)
  BY Splitting
<1>2. n = w1 \o w2 \o w3 \o w4
  BY Zenon DEF NextKey
<1>3. WordsOf(k) = <<a, b, c, d>>
  BY DEF WordsOf
<1>4. RoundWords(tab, WordsOf(k), r) = <<x1, x2, x3, x4>>
  <2> DEFINE w == WordsOf(k)
  <2>1. w[1] = a /\ w[2] = b /\ w[3] = c /\ w[4] = d
    BY <1>3
  <2> HIDE DEF a, b, c, d, w
  <2>2. RoundWords(tab, w, r) = <<x1, x2, x3, x4>>
    BY <2>1, Zenon DEF RoundWords
  <2> QED BY <2>2 DEF w
<1> HIDE DEF a, b, c, d, n
<1>5. g = temp
  <2>1. d[1] = k[13] /\ d[2] = k[14] /\ d[3] = k[15] /\ d[4] = k[16]
    BY <1>1 DEF Joined
  <2>2. t = <<tab.sbox[k[14]], tab.sbox[k[15]], tab.sbox[k[16]], tab.sbox[k[13]]>>
    BY <2>1 DEF SubRot, Word
  <2> HIDE DEF t
  <2> QED BY <2>2
<1>6. g \in Bytes4
  <2>1. k[13] \in Byte /\ k[14] \in Byte /\ k[15] \in Byte /\ k[16] \in Byte
    BY DEF Bytes16
  <2>2. tab.rcon[r] \in Byte
    BY DEF Tables
  <2>3. /\ tab.sbox[k[13]] \in Byte /\ tab.sbox[k[14]] \in Byte
        /\ tab.sbox[k[15]] \in Byte /\ tab.sbox[k[16]] \in Byte
    BY <2>1, SboxByte
  <2>4. Xor(tab.sbox[k[14]], tab.rcon[r]) \in Byte
    BY <2>2, <2>3, XorClosed
  <2> QED BY <2>3, <2>4 DEF Bytes4
<1> HIDE DEF g, temp
<1>7. w1 \in Bytes4 /\ x1 = w1
  BY <1>1, <1>5, <1>6, XorWordsClosed
<1> HIDE DEF w1, x1
<1>8. w2 \in Bytes4 /\ x2 = w2
  BY <1>1, <1>7, XorWordsClosed
<1> HIDE DEF w2, x2
<1>9. w3 \in Bytes4 /\ x3 = w3
  BY <1>1, <1>8, XorWordsClosed
<1> HIDE DEF w3, x3
<1>10. w4 \in Bytes4 /\ x4 = w4
  BY <1>1, <1>9, XorWordsClosed
<1> HIDE DEF w4, x4
<1>11. Joined(n, w1, w2, w3, w4)
  BY <1>2, <1>7, <1>8, <1>9, <1>10, Joining
<1>12. n \in Bytes16
  BY <1>11, BlockIsSeq DEF Joined
<1>13. WordsOf(n) = <<w1, w2, w3, w4>>
  BY <1>7, <1>8, <1>9, <1>10, <1>11, PartsOfJoined DEF WordsOf
<1> QED BY <1>4, <1>7, <1>8, <1>9, <1>10, <1>12, <1>13 DEF n

(* The first n round keys: keys of the code, ws of the standard. *)
Agree(keys, ws, n) ==
  /\ keys \in Seq(Bytes16) /\ Len(keys) = n
  /\ ws \in Seq({WordsOf(k) : k \in Bytes16}) /\ Len(ws) = n
  /\ \A j \in 1 .. n : ws[j] = WordsOf(keys[j])

(* The first round keys are the key itself, *)
LEMMA FirstAgree ==
  ASSUME NEW k \in Bytes16
  PROVE  Agree(<<k>>, <<WordsOf(k)>>, 1)
<1> DEFINE S == {WordsOf(l) : l \in Bytes16}
           w == WordsOf(k)
<1>1. w \in S
  OBVIOUS
<1> HIDE DEF S, w
<1>2. /\ <<k>> \in Seq(Bytes16) /\ Len(<<k>>) = 1 /\ <<k>>[1] = k
      /\ <<w>> \in Seq(S) /\ Len(<<w>>) = 1 /\ <<w>>[1] = w
  BY <1>1
<1>3. \A j \in 1 .. 1 : <<w>>[j] = WordsOf(<<k>>[j])
  BY <1>2 DEF w
<1> QED BY <1>2, <1>3 DEF Agree, S, w

(* each turn adds the same key to both, *)
LEMMA MoreAgree ==
  ASSUME NEW tab \in Tables,
         NEW keys, NEW ws, NEW n \in 1 .. 10, Agree(keys, ws, n)
  PROVE  Agree(MoreKeys(tab, keys, n), MoreWords(tab, ws, n), n + 1)
<1> DEFINE S == {WordsOf(l) : l \in Bytes16}
           k == NextKey(tab, keys[n], tab.rcon[n])
           w == RoundWords(tab, ws[n], n)
<1>1. /\ keys \in Seq(Bytes16) /\ Len(keys) = n
      /\ ws \in Seq(S) /\ Len(ws) = n
      /\ \A j \in 1 .. n : ws[j] = WordsOf(keys[j])
  BY DEF Agree
<1>2. keys[n] \in Bytes16 /\ ws[n] = WordsOf(keys[n])
  BY <1>1, ElementOfSeq
<1>3. k \in Bytes16 /\ w = WordsOf(k)
  BY <1>2, NextWords
<1>4. w \in S
  BY <1>3
<1> HIDE DEF S, k, w
<1>5. /\ Append(keys, k) \in Seq(Bytes16) /\ Len(Append(keys, k)) = n + 1
      /\ Append(keys, k)[n + 1] = k
      /\ \A j \in 1 .. n : Append(keys, k)[j] = keys[j]
  BY <1>1, <1>3, AppendProperties
<1>6. /\ Append(ws, w) \in Seq(S) /\ Len(Append(ws, w)) = n + 1
      /\ Append(ws, w)[n + 1] = w
      /\ \A j \in 1 .. n : Append(ws, w)[j] = ws[j]
  BY <1>1, <1>4, AppendProperties
<1>7. ASSUME NEW j \in 1 .. n + 1
      PROVE  Append(ws, w)[j] = WordsOf(Append(keys, k)[j])
  <2>1. j \in 1 .. n \/ j = n + 1
    OBVIOUS
  <2> QED BY <2>1, <1>1, <1>3, <1>5, <1>6
<1>8. Agree(Append(keys, k), Append(ws, w), n + 1)
  BY <1>5, <1>6, <1>7 DEF Agree, S
<1> QED BY <1>8, Zenon DEF MoreKeys, MoreWords, k, w

(* and so all eleven are the same, *)
LEMMA AllAgree ==
  ASSUME NEW tab \in Tables,
         NEW k \in Bytes16
  PROVE  Agree(expandKey(tab, k), Schedule(tab, k), 11)
<1> DEFINE k0 == <<k>>
           k1 == MoreKeys(tab, k0, 1)
           k2 == MoreKeys(tab, k1, 2)
           k3 == MoreKeys(tab, k2, 3)
           k4 == MoreKeys(tab, k3, 4)
           k5 == MoreKeys(tab, k4, 5)
           k6 == MoreKeys(tab, k5, 6)
           k7 == MoreKeys(tab, k6, 7)
           k8 == MoreKeys(tab, k7, 8)
           k9 == MoreKeys(tab, k8, 9)
           k10 == MoreKeys(tab, k9, 10)
           w0 == <<WordsOf(k)>>
           w1 == MoreWords(tab, w0, 1)
           w2 == MoreWords(tab, w1, 2)
           w3 == MoreWords(tab, w2, 3)
           w4 == MoreWords(tab, w3, 4)
           w5 == MoreWords(tab, w4, 5)
           w6 == MoreWords(tab, w5, 6)
           w7 == MoreWords(tab, w6, 7)
           w8 == MoreWords(tab, w7, 8)
           w9 == MoreWords(tab, w8, 9)
           w10 == MoreWords(tab, w9, 10)
<1>1. expandKey(tab, k) = k10
  BY Zenon DEF expandKey, TenRounds, NineRounds
<1>2. Schedule(tab, k) = w10
  <2>1. Word(LAMBDA n : SubSeq(k, 4 * n - 3, 4 * n)) = WordsOf(k)
    BY DEF Word, WordsOf
  <2> QED BY <2>1, Zenon DEF Schedule, TenRounds, NineRounds
<1> HIDE DEF k0, k1, k2, k3, k4, k5, k6, k7, k8, k9, k10,
             w0, w1, w2, w3, w4, w5, w6, w7, w8, w9, w10
<1>3. ASSUME NEW keys, NEW ws, NEW n \in 1 .. 10, NEW m, m = n + 1,
             Agree(keys, ws, n)
      PROVE  Agree(MoreKeys(tab, keys, n), MoreWords(tab, ws, n), m)
  BY <1>3, MoreAgree
<1>4. Agree(k0, w0, 1)
  BY FirstAgree DEF k0, w0
<1>5. /\ 1 \in 1 .. 10 /\ 2 \in 1 .. 10 /\ 3 \in 1 .. 10 /\ 4 \in 1 .. 10
      /\ 5 \in 1 .. 10 /\ 6 \in 1 .. 10 /\ 7 \in 1 .. 10 /\ 8 \in 1 .. 10
      /\ 9 \in 1 .. 10 /\ 10 \in 1 .. 10
      /\ 2 = 1 + 1 /\ 3 = 2 + 1 /\ 4 = 3 + 1 /\ 5 = 4 + 1 /\ 6 = 5 + 1
      /\ 7 = 6 + 1 /\ 8 = 7 + 1 /\ 9 = 8 + 1 /\ 10 = 9 + 1 /\ 11 = 10 + 1
  OBVIOUS
<1>6. Agree(k1, w1, 2) /\ Agree(k2, w2, 3) /\ Agree(k3, w3, 4)
  BY <1>3, <1>4, <1>5 DEF k1, k2, k3, w1, w2, w3
<1>7. Agree(k4, w4, 5) /\ Agree(k5, w5, 6) /\ Agree(k6, w6, 7)
  BY <1>3, <1>5, <1>6 DEF k4, k5, k6, w4, w5, w6
<1>8. Agree(k7, w7, 8) /\ Agree(k8, w8, 9) /\ Agree(k9, w9, 10)
  BY <1>3, <1>5, <1>7 DEF k7, k8, k9, w7, w8, w9
<1>9. Agree(k10, w10, 11)
  BY <1>3, <1>5, <1>8 DEF k10, w10
<1> QED BY <1>1, <1>2, <1>9

(* blocks that both name in the same way. *)
LEMMA RoundKeys ==
  ASSUME NEW tab \in Tables,
         NEW k \in Bytes16, NEW r \in 1 .. 11
  PROVE  /\ expandKey(tab, k)[r] \in Bytes16
         /\ RoundKey(Schedule(tab, k)[r]) = expandKey(tab, k)[r]
<1> DEFINE K == expandKey(tab, k)
           W == Schedule(tab, k)
<1>1. Agree(K, W, 11)
  BY AllAgree
<1> HIDE DEF K, W
<1>2. K[r] \in Bytes16 /\ W[r] = WordsOf(K[r])
  BY <1>1, ElementOfSeq DEF Agree
<1>3. RoundKey(W[r]) = K[r]
  BY <1>2, RoundKeyOf
<1> QED BY <1>2, <1>3 DEF K, W

----------------------------------------------------------------------------
(* The steps of a round.                                                  *)

(* Blocks with the same bytes are the same. *)
LEMMA BlocksEqual ==
  ASSUME NEW s \in Bytes16, NEW t \in Bytes16, \A i \in 1 .. 16 : s[i] = t[i]
  PROVE  s = t
BY DEF Bytes16

(* s has at i what f has. *)
LEMMA Listed ==
  ASSUME NEW f \in [1 .. 16 -> Byte],
         NEW s, s = <<f[1], f[2], f[3], f[4], f[5], f[6], f[7], f[8], f[9], f[10],
                      f[11], f[12], f[13], f[14], f[15], f[16]>>
  PROVE  s = f
OBVIOUS

(* The code's and the standard's way to say where ShiftRows takes a byte  *)
(* from, and that the inverse puts it back.                              *)
LEMMA Places ==
  ASSUME NEW i \in 1 .. 16
  PROVE  /\ ShiftFrom(i) \in 1 .. 16 /\ UnshiftFrom(i) \in 1 .. 16
         /\ ShiftFrom(UnshiftFrom(i)) = i
         /\ ((i - 1 + 4 * Row(i)) % 16) + 1 = ShiftFrom(i)
BY DEF ShiftFrom, UnshiftFrom, Row, Col

(* What each step of a round makes of byte i. *)
LEMMA XorBlocksAt ==
  ASSUME NEW s \in Bytes16, NEW t \in Bytes16
  PROVE  /\ XorBlocks(s, t) \in Bytes16
         /\ \A i \in 1 .. 16 : XorBlocks(s, t)[i] = Xor(s[i], t[i])
<1> DEFINE f == [i \in 1 .. 16 |-> Xor(s[i], t[i])]
<1>1. f \in [1 .. 16 -> Byte]
  BY XorClosed DEF Bytes16
<1>2. XorBlocks(s, t) = Block(LAMBDA i : Xor(s[i], t[i]))
  BY Zenon DEF XorBlocks
<1>3. Block(LAMBDA i : Xor(s[i], t[i])) =
        <<f[1], f[2], f[3], f[4], f[5], f[6], f[7], f[8], f[9], f[10],
          f[11], f[12], f[13], f[14], f[15], f[16]>>
  BY SMT DEF Block
<1>4. \A i \in 1 .. 16 : f[i] = Xor(s[i], t[i])
  OBVIOUS
<1> HIDE DEF f
<1>5. XorBlocks(s, t) = f
  BY <1>1, <1>2, <1>3, Listed
<1> QED BY <1>1, <1>4, <1>5 DEF Bytes16

LEMMA SubShiftAt ==
  ASSUME NEW tab \in Tables,
         NEW s \in Bytes16, NEW k \in Bytes16
  PROVE  /\ SubShift(tab, s, k) \in Bytes16
         /\ \A i \in 1 .. 16 :
              SubShift(tab, s, k)[i] = tab.sbox[Xor(s[ShiftFrom(i)], k[ShiftFrom(i)])]
<1> DEFINE t == XorBlocks(s, k)
           f == [i \in 1 .. 16 |-> tab.sbox[t[ShiftFrom(i)]]]
<1>1. t \in Bytes16 /\ \A i \in 1 .. 16 : t[i] = Xor(s[i], k[i])
  BY XorBlocksAt
<1>2. SubShift(tab, s, k) = Block(LAMBDA i : tab.sbox[t[ShiftFrom(i)]])
  BY Zenon DEF SubShift
<1> HIDE DEF t
<1>3. f \in [1 .. 16 -> Byte]
  BY <1>1, SboxByte, Places DEF Bytes16
<1>4. Block(LAMBDA i : tab.sbox[t[ShiftFrom(i)]]) =
        <<f[1], f[2], f[3], f[4], f[5], f[6], f[7], f[8], f[9], f[10],
          f[11], f[12], f[13], f[14], f[15], f[16]>>
  BY SMT DEF Block
<1>5. \A i \in 1 .. 16 : f[i] = tab.sbox[Xor(s[ShiftFrom(i)], k[ShiftFrom(i)])]
  BY <1>1, Places
<1> HIDE DEF f
<1>6. SubShift(tab, s, k) = f
  BY <1>2, <1>3, <1>4, Listed
<1> QED BY <1>3, <1>5, <1>6 DEF Bytes16

LEMMA RsboxByte ==
  ASSUME NEW tab \in Tables,
         NEW v \in Byte
  PROVE  tab.rsbox[v] \in Byte
BY DEF Tables

LEMMA UnshiftSubAt ==
  ASSUME NEW tab \in Tables,
         NEW s \in Bytes16, NEW k \in Bytes16
  PROVE  /\ UnshiftSub(tab, s, k) \in Bytes16
         /\ \A i \in 1 .. 16 :
              UnshiftSub(tab, s, k)[i] = Xor(tab.rsbox[s[UnshiftFrom(i)]], k[i])
<1> DEFINE f == [i \in 1 .. 16 |-> Xor(tab.rsbox[s[UnshiftFrom(i)]], k[i])]
<1>1. f \in [1 .. 16 -> Byte]
  BY XorClosed, RsboxByte, Places DEF Bytes16
<1>2. UnshiftSub(tab, s, k) = Block(LAMBDA i : Xor(tab.rsbox[s[UnshiftFrom(i)]], k[i]))
  BY Zenon DEF UnshiftSub
<1>3. Block(LAMBDA i : Xor(tab.rsbox[s[UnshiftFrom(i)]], k[i])) =
        <<f[1], f[2], f[3], f[4], f[5], f[6], f[7], f[8], f[9], f[10],
          f[11], f[12], f[13], f[14], f[15], f[16]>>
  BY SMT DEF Block
<1>4. \A i \in 1 .. 16 : f[i] = Xor(tab.rsbox[s[UnshiftFrom(i)]], k[i])
  OBVIOUS
<1> HIDE DEF f
<1>5. UnshiftSub(tab, s, k) = f
  BY <1>1, <1>2, <1>3, Listed
<1> QED BY <1>1, <1>4, <1>5 DEF Bytes16

(* The inverse step of aes_decr takes back the step of aes_encr. *)
LEMMA Undone ==
  ASSUME NEW tab \in Tables, Undoes(tab),
         NEW s \in Bytes16, NEW k \in Bytes16
  PROVE  UnshiftSub(tab, SubShift(tab, s, k), k) = s
<1> DEFINE t == SubShift(tab, s, k)
           u == UnshiftSub(tab, t, k)
<1>1. /\ t \in Bytes16
      /\ \A i \in 1 .. 16 : t[i] = tab.sbox[Xor(s[ShiftFrom(i)], k[ShiftFrom(i)])]
  BY SubShiftAt
<1> HIDE DEF t
<1>2. /\ u \in Bytes16
      /\ \A i \in 1 .. 16 : u[i] = Xor(tab.rsbox[t[UnshiftFrom(i)]], k[i])
  BY <1>1, UnshiftSubAt
<1> HIDE DEF u
<1>3. ASSUME NEW i \in 1 .. 16  PROVE u[i] = s[i]
  <2>1. s[i] \in Byte /\ k[i] \in Byte
    BY DEF Bytes16
  <2>2. u[i] = Xor(tab.rsbox[tab.sbox[Xor(s[i], k[i])]], k[i])
    BY <1>1, <1>2, Places
  <2>3. tab.rsbox[tab.sbox[Xor(s[i], k[i])]] = Xor(s[i], k[i])
    BY <2>1, XorClosed, Zenon DEF Undoes
  <2>4. Xor(Xor(s[i], k[i]), k[i]) = Xor(s[i], Xor(k[i], k[i]))
    BY <2>1, XorAssoc
  <2> QED BY <2>1, <2>2, <2>3, <2>4, XorSelf, XorZero
<1>4. u = s
  BY <1>2, <1>3, BlocksEqual
<1> QED BY <1>4 DEF u, t

----------------------------------------------------------------------------
(* The columns.                                                           *)

(* A column from one of its bytes on: what mixcolums and barreto make of it. *)
Sum(a, b, c, d)   == Xor(Xor(a, b), Xor(c, d))
Mixed(a, b, c, d) == Xor(Xor(a, galois_mul2(Xor(a, b))), Sum(a, b, c, d))
Barreto(a, c)     == Xor(a, galois_mul2(galois_mul2(Xor(a, c))))

(* Sums of four can be regrouped, *)
LEMMA XorSwap ==
  ASSUME NEW a \in Byte, NEW b \in Byte, NEW c \in Byte, NEW d \in Byte
  PROVE  Xor(Xor(a, b), Xor(c, d)) = Xor(Xor(a, c), Xor(b, d))
<1>1. /\ Xor(a, b) \in Byte /\ Xor(a, c) \in Byte /\ Xor(c, d) \in Byte
      /\ Xor(b, d) \in Byte /\ Xor(b, c) \in Byte /\ Xor(c, b) \in Byte
  BY XorClosed
<1>2. Xor(Xor(a, b), Xor(c, d)) = Xor(a, Xor(b, Xor(c, d)))
  BY <1>1, XorAssoc
<1>3. Xor(b, Xor(c, d)) = Xor(Xor(b, c), d)
  BY XorAssoc
<1>4. Xor(b, c) = Xor(c, b)
  BY XorComm
<1>5. Xor(Xor(c, b), d) = Xor(c, Xor(b, d))
  BY XorAssoc
<1>6. Xor(a, Xor(c, Xor(b, d))) = Xor(Xor(a, c), Xor(b, d))
  BY <1>1, XorAssoc
<1> QED BY <1>2, <1>3, <1>4, <1>5, <1>6

(* and what occurs twice cancels out. *)
LEMMA XorCancel ==
  ASSUME NEW a \in Byte, NEW b \in Byte, NEW c \in Byte
  PROVE  /\ Xor(Xor(a, c), Xor(b, c)) = Xor(a, b)
         /\ Xor(Xor(a, b), b) = a
         /\ Xor(0, a) = a
<1>0. 0 \in Byte
  BY DEF Byte
<1>1. Xor(a, b) \in Byte
  BY XorClosed
<1>2. Xor(Xor(a, c), Xor(b, c)) = Xor(Xor(a, b), Xor(c, c))
  BY XorSwap
<1>3. Xor(Xor(a, b), b) = Xor(a, Xor(b, b))
  BY XorAssoc
<1>4. Xor(0, a) = Xor(a, 0)
  BY <1>0, XorComm
<1> QED BY <1>1, <1>2, <1>3, <1>4, XorSelf, XorZero

(* The sum of a column is the same from each of its bytes on. *)
LEMMA SumClosed ==
  ASSUME NEW a \in Byte, NEW b \in Byte, NEW c \in Byte, NEW d \in Byte
  PROVE  /\ Sum(a, b, c, d) \in Byte
         /\ Sum(b, c, d, a) = Sum(a, b, c, d)
<1>1. /\ Xor(a, b) \in Byte /\ Xor(c, d) \in Byte
      /\ Xor(b, c) \in Byte /\ Xor(d, a) \in Byte
  BY XorClosed
<1>2. Xor(Xor(b, c), Xor(d, a)) = Xor(Xor(d, a), Xor(b, c))
  BY <1>1, XorComm
<1>3. Xor(d, a) = Xor(a, d) /\ Xor(d, c) = Xor(c, d)
  BY XorComm
<1>4. Xor(Xor(a, d), Xor(b, c)) = Xor(Xor(a, b), Xor(d, c))
  BY XorSwap
<1> QED BY <1>1, <1>2, <1>3, <1>4, XorClosed DEF Sum

(* Columns of bytes are made into bytes. *)
LEMMA MixedClosed ==
  ASSUME NEW a \in Byte, NEW b \in Byte, NEW c \in Byte, NEW d \in Byte
  PROVE  Mixed(a, b, c, d) \in Byte /\ Barreto(a, c) \in Byte
BY XorClosed, MulClosed, SumClosed DEF Mixed, Barreto

(* Of the mixed column, what neighbours and what opposites differ by. *)
LEMMA Differences ==
  ASSUME NEW a \in Byte, NEW b \in Byte, NEW c \in Byte, NEW d \in Byte
  PROVE  /\ Xor(Mixed(a, b, c, d), Mixed(b, c, d, a))
              = Xor(Xor(a, b), galois_mul2(Xor(a, c)))
         /\ Xor(Mixed(a, b, c, d), Mixed(c, d, a, b))
              = Xor(Xor(a, c), galois_mul2(Sum(a, b, c, d)))
<1> DEFINE s == Sum(a, b, c, d)
           x == galois_mul2(Xor(a, b))
           y == galois_mul2(Xor(b, c))
           z == galois_mul2(Xor(c, d))
<1>1. s \in Byte /\ Sum(b, c, d, a) = s /\ Sum(c, d, a, b) = s
  BY SumClosed
<1>2. /\ Xor(a, b) \in Byte /\ Xor(b, c) \in Byte
      /\ Xor(c, d) \in Byte /\ Xor(c, b) \in Byte
  BY XorClosed
<1>3. x \in Byte /\ y \in Byte /\ z \in Byte
  BY <1>2, MulClosed
<1>4. Xor(x, y) = galois_mul2(Xor(a, c))
  <2>1. Xor(x, y) = galois_mul2(Xor(Xor(a, b), Xor(b, c)))
    BY <1>2, MulAdd
  <2>2. Xor(b, c) = Xor(c, b)
    BY XorComm
  <2>3. Xor(Xor(a, b), Xor(c, b)) = Xor(a, c)
    BY XorCancel
  <2> QED BY <2>1, <2>2, <2>3
<1>5. Xor(x, z) = galois_mul2(s)
  BY <1>2, MulAdd DEF Sum
<1>6. /\ Mixed(a, b, c, d) = Xor(Xor(a, x), s)
      /\ Mixed(b, c, d, a) = Xor(Xor(b, y), s)
      /\ Mixed(c, d, a, b) = Xor(Xor(c, z), s)
  BY <1>1 DEF Mixed
<1> HIDE DEF s, x, y, z
<1>7. Xor(a, x) \in Byte /\ Xor(b, y) \in Byte /\ Xor(c, z) \in Byte
  BY <1>3, XorClosed
<1>8. /\ Xor(Xor(Xor(a, x), s), Xor(Xor(b, y), s)) = Xor(Xor(a, x), Xor(b, y))
      /\ Xor(Xor(Xor(a, x), s), Xor(Xor(c, z), s)) = Xor(Xor(a, x), Xor(c, z))
  BY <1>1, <1>7, XorCancel
<1>9. /\ Xor(Xor(a, x), Xor(b, y)) = Xor(Xor(a, b), Xor(x, y))
      /\ Xor(Xor(a, x), Xor(c, z)) = Xor(Xor(a, c), Xor(x, z))
  BY <1>3, XorSwap
<1> QED BY <1>4, <1>5, <1>6, <1>8, <1>9 DEF s

(* The matrix of mixcolums has the order four, and barreto is its square. *)
LEMMA Unmixed ==
  ASSUME NEW a \in Byte, NEW b \in Byte, NEW c \in Byte, NEW d \in Byte
  PROVE  LET p == Mixed(a, b, c, d)
             q == Mixed(b, c, d, a)
             r == Mixed(c, d, a, b)
             t == Mixed(d, a, b, c)
         IN  Mixed(Barreto(p, r), Barreto(q, t),
                   Barreto(r, p), Barreto(t, q)) = a
<1> DEFINE p == Mixed(a, b, c, d)
           q == Mixed(b, c, d, a)
           r == Mixed(c, d, a, b)
           t == Mixed(d, a, b, c)
           s == Sum(a, b, c, d)
           g(v) == galois_mul2(v)
           e == g(g(Xor(p, r)))
           f == g(g(Xor(q, t)))
<1>1. s \in Byte /\ Sum(b, c, d, a) = s
  BY SumClosed
<1>2. /\ p \in Byte /\ q \in Byte /\ r \in Byte /\ t \in Byte
  BY MixedClosed
<1>3. /\ Xor(a, b) \in Byte /\ Xor(a, c) \in Byte /\ Xor(b, d) \in Byte
      /\ Xor(c, d) \in Byte
      /\ g(Xor(a, b)) \in Byte /\ g(Xor(a, c)) \in Byte
      /\ g(s) \in Byte /\ g(g(s)) \in Byte /\ g(g(g(s))) \in Byte
      /\ g(g(Xor(a, c))) \in Byte
  BY <1>1, XorClosed, MulClosed
<1>4. /\ Xor(p, q) = Xor(Xor(a, b), g(Xor(a, c)))
      /\ Xor(p, r) = Xor(Xor(a, c), g(s))
      /\ Xor(q, t) = Xor(Xor(b, d), g(s))
      /\ Xor(r, t) = Xor(Xor(c, d), g(Xor(c, a)))
  BY <1>1, Differences
<1>5. /\ Xor(p, r) \in Byte /\ Xor(q, t) \in Byte
      /\ Xor(r, p) = Xor(p, r) /\ Xor(t, q) = Xor(q, t)
  BY <1>2, XorClosed, XorComm
<1>6. e \in Byte /\ f \in Byte
  BY <1>5, MulClosed
<1>7. /\ Barreto(p, r) = Xor(p, e) /\ Barreto(q, t) = Xor(q, f)
      /\ Barreto(r, p) = Xor(r, e) /\ Barreto(t, q) = Xor(t, f)
  BY <1>5 DEF Barreto
<1> DEFINE x == g(Xor(a, b))
           y == g(g(Xor(a, c)))
           z == g(g(g(s)))
<1>8. /\ x \in Byte /\ y \in Byte /\ z \in Byte
      /\ Xor(x, s) \in Byte /\ Xor(y, z) \in Byte /\ Xor(a, x) \in Byte
  BY <1>1, <1>3, XorClosed
<1>9. e = Xor(y, z)
  <2>1. g(Xor(p, r)) = Xor(g(Xor(a, c)), g(g(s)))
    BY <1>3, <1>4, MulAdd
  <2> QED BY <1>3, <2>1, MulAdd
<1>10. Xor(e, f) = g(g(s))
  <2>1. Xor(e, f) = g(Xor(g(Xor(p, r)), g(Xor(q, t))))
    BY <1>5, MulAdd, MulClosed
  <2>2. Xor(g(Xor(p, r)), g(Xor(q, t))) = g(Xor(Xor(p, r), Xor(q, t)))
    BY <1>5, MulAdd
  <2>3. Xor(Xor(p, r), Xor(q, t)) = Xor(Xor(a, c), Xor(b, d))
    BY <1>3, <1>4, XorCancel
  <2>4. Xor(Xor(a, c), Xor(b, d)) = s
    BY XorSwap DEF Sum
  <2> QED BY <2>1, <2>2, <2>3, <2>4
<1>11. g(Xor(p, q)) = Xor(x, y)
  BY <1>3, <1>4, MulAdd
<1>12. Sum(p, q, r, t) = s
  <2>1. Xor(c, a) = Xor(a, c)
    BY XorComm
  <2>2. Xor(Xor(p, q), Xor(r, t)) = Xor(Xor(a, b), Xor(c, d))
    BY <1>3, <1>4, <2>1, XorCancel
  <2> QED BY <2>2 DEF Sum
<1>13. p = Xor(a, Xor(x, s))
  <2>1. p = Xor(Xor(a, x), s)
    BY DEF Mixed
  <2> QED BY <1>1, <1>8, <2>1, XorAssoc
<1> HIDE DEF p, q, r, t, s, g, e, f, x, y, z
<1> DEFINE v0 == Xor(p, e)
           v1 == Xor(q, f)
           v2 == Xor(r, e)
           v3 == Xor(t, f)
<1>14. Xor(p, q) \in Byte /\ Xor(r, t) \in Byte /\ Xor(e, f) \in Byte
  BY <1>2, <1>6, XorClosed
<1>15. /\ Xor(v0, v1) = Xor(Xor(p, q), Xor(e, f))
       /\ Xor(v2, v3) = Xor(Xor(r, t), Xor(e, f))
  BY <1>2, <1>6, XorSwap
<1>16. Sum(v0, v1, v2, v3) = s
  <2>1. Xor(Xor(v0, v1), Xor(v2, v3)) = Xor(Xor(p, q), Xor(r, t))
    BY <1>14, <1>15, XorCancel
  <2> QED BY <1>12, <2>1 DEF Sum
<1>17. g(Xor(v0, v1)) = Xor(x, Xor(y, z))
  <2>1. g(Xor(v0, v1)) = Xor(g(Xor(p, q)), g(Xor(e, f)))
    BY <1>14, <1>15, MulAdd DEF g
  <2>2. g(Xor(e, f)) = z
    BY <1>10 DEF z
  <2>3. Xor(Xor(x, y), z) = Xor(x, Xor(y, z))
    BY <1>8, XorAssoc
  <2> QED BY <1>11, <2>1, <2>2, <2>3
<1>18. Xor(v0, g(Xor(v0, v1))) = Xor(p, x)
  BY <1>2, <1>8, <1>9, <1>17, XorCancel
<1>19. Mixed(v0, v1, v2, v3) = Xor(Xor(p, x), s)
  BY <1>16, <1>18 DEF Mixed, g
<1>20. Xor(Xor(p, x), s) = Xor(p, Xor(x, s))
  BY <1>1, <1>2, <1>8, XorAssoc
<1>21. Xor(p, Xor(x, s)) = a
  BY <1>8, <1>13, XorCancel
<1>22. Mixed(Barreto(p, r), Barreto(q, t), Barreto(r, p), Barreto(t, q)) = a
  BY <1>7, <1>19, <1>20, <1>21
<1> QED BY <1>22 DEF p, q, r, t

(* The index Below reads. *)
BelowAt(i, j) == 4 * Col(i) + ((Row(i) + j) % 4) + 1

(* Going down a column of four comes back to where it began. *)
LEMMA BelowPlaces ==
  ASSUME NEW i \in 1 .. 16
  PROVE  /\ BelowAt(i, 1) \in 1 .. 16 /\ BelowAt(i, 2) \in 1 .. 16
         /\ BelowAt(i, 3) \in 1 .. 16
         /\ BelowAt(BelowAt(i, 1), 1) = BelowAt(i, 2)
         /\ BelowAt(BelowAt(i, 1), 2) = BelowAt(i, 3)
         /\ BelowAt(BelowAt(i, 1), 3) = i
         /\ BelowAt(BelowAt(i, 2), 1) = BelowAt(i, 3)
         /\ BelowAt(BelowAt(i, 2), 2) = i
         /\ BelowAt(BelowAt(i, 2), 3) = BelowAt(i, 1)
         /\ BelowAt(BelowAt(i, 3), 1) = i
         /\ BelowAt(BelowAt(i, 3), 2) = BelowAt(i, 1)
         /\ BelowAt(BelowAt(i, 3), 3) = BelowAt(i, 2)
BY DEF BelowAt, Row, Col

(* Below is the byte at BelowAt. *)
LEMMA BelowByte ==
  ASSUME NEW s \in Bytes16, NEW i \in 1 .. 16
  PROVE  /\ s[i] \in Byte /\ Below(s, i, 1) \in Byte
         /\ Below(s, i, 2) \in Byte /\ Below(s, i, 3) \in Byte
         /\ Below(s, i, 1) = s[BelowAt(i, 1)]
         /\ Below(s, i, 2) = s[BelowAt(i, 2)]
         /\ Below(s, i, 3) = s[BelowAt(i, 3)]
<1>1. /\ Below(s, i, 1) = s[BelowAt(i, 1)]
      /\ Below(s, i, 2) = s[BelowAt(i, 2)]
      /\ Below(s, i, 3) = s[BelowAt(i, 3)]
  BY Zenon DEF Below, BelowAt
<1> QED BY <1>1, BelowPlaces DEF Bytes16

Column(s, i) == Mixed(s[i], Below(s, i, 1), Below(s, i, 2), Below(s, i, 3))

(* What mixcolums and barreto make of byte i. *)
LEMMA MixcolumsAt ==
  ASSUME NEW s \in Bytes16
  PROVE  /\ mixcolums(s) \in Bytes16
         /\ \A i \in 1 .. 16 : mixcolums(s)[i] = Column(s, i)
<1> DEFINE f == [i \in 1 .. 16 |-> Column(s, i)]
<1>1. f \in [1 .. 16 -> Byte]
  BY BelowByte, MixedClosed DEF Column
<1>2. mixcolums(s) = Block(LAMBDA i : Column(s, i))
  BY Zenon DEF mixcolums, Column, Mixed, Sum
<1>3. Block(LAMBDA i : Column(s, i)) =
        <<f[1], f[2], f[3], f[4], f[5], f[6], f[7], f[8], f[9], f[10],
          f[11], f[12], f[13], f[14], f[15], f[16]>>
  BY SMT DEF Block
<1>4. \A i \in 1 .. 16 : f[i] = Column(s, i)
  OBVIOUS
<1> HIDE DEF f
<1>5. mixcolums(s) = f
  BY <1>1, <1>2, <1>3, Listed
<1> QED BY <1>1, <1>4, <1>5 DEF Bytes16

LEMMA BarretoAt ==
  ASSUME NEW s \in Bytes16
  PROVE  /\ barreto(s) \in Bytes16
         /\ \A i \in 1 .. 16 : barreto(s)[i] = Barreto(s[i], Below(s, i, 2))
<1> DEFINE f == [i \in 1 .. 16 |-> Barreto(s[i], Below(s, i, 2))]
<1>1. f \in [1 .. 16 -> Byte]
  BY BelowByte, MixedClosed
<1>2. barreto(s) = Block(LAMBDA i : Barreto(s[i], Below(s, i, 2)))
  BY Zenon DEF barreto, Barreto
<1>3. Block(LAMBDA i : Barreto(s[i], Below(s, i, 2))) =
        <<f[1], f[2], f[3], f[4], f[5], f[6], f[7], f[8], f[9], f[10],
          f[11], f[12], f[13], f[14], f[15], f[16]>>
  BY SMT DEF Block
<1>4. \A i \in 1 .. 16 : f[i] = Barreto(s[i], Below(s, i, 2))
  OBVIOUS
<1> HIDE DEF f
<1>5. barreto(s) = f
  BY <1>1, <1>2, <1>3, Listed
<1> QED BY <1>1, <1>4, <1>5 DEF Bytes16

(* aes_decr's barreto and mixcolums take back aes_encr's mixcolums. *)
LEMMA MixUndone ==
  ASSUME NEW s \in Bytes16
  PROVE  mixcolums(barreto(mixcolums(s))) = s
<1> DEFINE m == mixcolums(s)
           b == barreto(m)
           u == mixcolums(b)
<1>1. m \in Bytes16 /\ \A i \in 1 .. 16 : m[i] = Column(s, i)
  BY MixcolumsAt
<1> HIDE DEF m
<1>2. b \in Bytes16 /\ \A i \in 1 .. 16 : b[i] = Barreto(m[i], Below(m, i, 2))
  BY <1>1, BarretoAt
<1> HIDE DEF b
<1>3. u \in Bytes16 /\ \A i \in 1 .. 16 : u[i] = Column(b, i)
  BY <1>2, MixcolumsAt
<1> HIDE DEF u
<1>4. ASSUME NEW i \in 1 .. 16  PROVE u[i] = s[i]
  <2> DEFINE i1 == BelowAt(i, 1)
             i2 == BelowAt(i, 2)
             i3 == BelowAt(i, 3)
             w == s[i]
             x == s[i1]
             y == s[i2]
             z == s[i3]
             p == Mixed(w, x, y, z)
             q == Mixed(x, y, z, w)
             r == Mixed(y, z, w, x)
             t == Mixed(z, w, x, y)
  <2>1. /\ i1 \in 1 .. 16 /\ i2 \in 1 .. 16 /\ i3 \in 1 .. 16
        /\ BelowAt(i1, 1) = i2 /\ BelowAt(i1, 2) = i3 /\ BelowAt(i1, 3) = i
        /\ BelowAt(i2, 1) = i3 /\ BelowAt(i2, 2) = i /\ BelowAt(i2, 3) = i1
        /\ BelowAt(i3, 1) = i /\ BelowAt(i3, 2) = i1 /\ BelowAt(i3, 3) = i2
    BY BelowPlaces
  <2> HIDE DEF i1, i2, i3
  <2>2. m[i] = p /\ m[i1] = q /\ m[i2] = r /\ m[i3] = t
    BY <1>1, <2>1, BelowByte DEF Column, i1, i2, i3
  <2>3. /\ b[i] = Barreto(p, r) /\ b[i1] = Barreto(q, t)
        /\ b[i2] = Barreto(r, p) /\ b[i3] = Barreto(t, q)
    BY <1>1, <1>2, <2>1, <2>2, BelowByte DEF i1, i2, i3
  <2>4. u[i] = Mixed(Barreto(p, r), Barreto(q, t), Barreto(r, p), Barreto(t, q))
    BY <1>2, <1>3, <2>3, BelowByte DEF Column, i1, i2, i3
  <2>5. w \in Byte /\ x \in Byte /\ y \in Byte /\ z \in Byte
    BY <2>1 DEF Bytes16
  <2> QED BY <2>4, <2>5, Unmixed
<1>5. u = s
  BY <1>3, <1>4, BlocksEqual
<1> QED BY <1>5 DEF u, b, m

(* galois_mul2 is the standard's doubling. *)
LEMMA Times2Same ==
  ASSUME NEW v \in Byte
  PROVE  Times2(v) = galois_mul2(v)
<1>1. CASE v < 128
  <2>1. ~(v > 127)
    BY <1>1 DEF Byte
  <2> QED BY <1>1, <2>1 DEF Times2, galois_mul2
<1>2. CASE ~(v < 128)
  <2>1. v > 127 /\ 2 * v - 256 = (2 * v) % 256
    BY <1>2 DEF Byte
  <2> QED BY <1>2, <2>1 DEF Times2, galois_mul2
<1> QED BY <1>1, <1>2

(* The code's sum for a byte is the row of the standard's matrix, *)
LEMMA MixedByMatrix ==
  ASSUME NEW a \in Byte, NEW b \in Byte, NEW c \in Byte, NEW d \in Byte
  PROVE  Mixed(a, b, c, d)
           = Xor(Xor(Times2(a), Xor(Times2(b), b)), Xor(c, d))
<1> DEFINE x == galois_mul2(a)
           y == galois_mul2(b)
           e == Xor(c, d)
<1>1. Times2(a) = x /\ Times2(b) = y
  BY Times2Same
<1>2. galois_mul2(Xor(a, b)) = Xor(x, y)
  BY MulAdd
<1>3. x \in Byte /\ y \in Byte
  BY MulClosed
<1>4. e \in Byte
  BY XorClosed
<1>5. Mixed(a, b, c, d) = Xor(Xor(a, Xor(x, y)), Xor(Xor(a, b), e))
  BY <1>2 DEF Mixed, Sum
<1> HIDE DEF x, y, e
<1>6. /\ Xor(x, y) \in Byte /\ Xor(a, b) \in Byte
      /\ Xor(b, e) \in Byte /\ Xor(y, b) \in Byte
  BY <1>3, <1>4, XorClosed
<1>7. /\ Xor(a, Xor(x, y)) = Xor(Xor(x, y), a)
      /\ Xor(Xor(a, b), e) = Xor(Xor(b, e), a)
  <2>1. Xor(Xor(a, b), e) = Xor(a, Xor(b, e))
    BY <1>4, XorAssoc
  <2> QED BY <1>6, <2>1, XorComm
<1>8. Xor(Xor(Xor(x, y), a), Xor(Xor(b, e), a)) = Xor(Xor(x, y), Xor(b, e))
  BY <1>6, XorCancel
<1>9. Xor(Xor(x, y), Xor(b, e)) = Xor(Xor(x, Xor(y, b)), e)
  <2>1. Xor(Xor(x, y), Xor(b, e)) = Xor(Xor(Xor(x, y), b), e)
    BY <1>4, <1>6, XorAssoc
  <2>2. Xor(Xor(x, y), b) = Xor(x, Xor(y, b))
    BY <1>3, XorAssoc
  <2> QED BY <2>1, <2>2
<1> QED BY <1>1, <1>5, <1>7, <1>8, <1>9 DEF e

(* so that mixcolums is the standard's MixColumns. *)
LEMMA MixColumnsSame ==
  ASSUME NEW s \in Bytes16
  PROVE  MixColumns(s) = mixcolums(s)
<1> DEFINE B(i) ==
             Xor(Xor(Times2(s[i]), Xor(Times2(Below(s, i, 1)), Below(s, i, 1))),
                 Xor(Below(s, i, 2), Below(s, i, 3)))
<1>1. MixColumns(s) = Block(LAMBDA i : B(i))
  BY Zenon DEF MixColumns
<1>2. ASSUME NEW i \in 1 .. 16  PROVE B(i) = Column(s, i)
  <2> DEFINE a == s[i]
             b == Below(s, i, 1)
             c == Below(s, i, 2)
             d == Below(s, i, 3)
  <2>1. a \in Byte /\ b \in Byte /\ c \in Byte /\ d \in Byte
    BY BelowByte
  <2> HIDE DEF a, b, c, d
  <2>2. Mixed(a, b, c, d) = Xor(Xor(Times2(a), Xor(Times2(b), b)), Xor(c, d))
    BY <2>1, MixedByMatrix
  <2> QED BY <2>2, Zenon DEF Column, a, b, c, d
<1> HIDE DEF B
<1>3. Block(LAMBDA i : B(i)) = Block(LAMBDA i : Column(s, i))
  BY <1>2, SMT DEF Block
<1>4. mixcolums(s) = Block(LAMBDA i : Column(s, i))
  BY Zenon DEF mixcolums, Column, Mixed, Sum
<1> QED BY <1>1, <1>3, <1>4

(* The code adds the round key, looks up and shifts in one step. *)
LEMMA ShiftedSame ==
  ASSUME NEW tab \in Tables,
         NEW s \in Bytes16, NEW k \in Bytes16
  PROVE  ShiftRows(SubBytes(tab, XorBlocks(s, k))) = SubShift(tab, s, k)
<1> DEFINE t == XorBlocks(s, k)
           e == SubBytes(tab, t)
           h == ShiftRows(e)
<1>1. \A i \in 1 .. 16 : e[i] = tab.sbox[t[i]]
  BY SMT DEF SubBytes, Block
<1> HIDE DEF t, e
<1>2. h = Block(LAMBDA i : e[((i - 1 + 4 * Row(i)) % 16) + 1])
  BY Zenon DEF ShiftRows
<1>3. SubShift(tab, s, k) = Block(LAMBDA i : tab.sbox[t[ShiftFrom(i)]])
  BY Zenon DEF SubShift, t
<1> DEFINE B(i) == e[((i - 1 + 4 * Row(i)) % 16) + 1]
           C(i) == tab.sbox[t[ShiftFrom(i)]]
<1>4. \A i \in 1 .. 16 : B(i) = C(i)
  BY <1>1, Places
<1>5. h = Block(LAMBDA i : B(i)) /\ SubShift(tab, s, k) = Block(LAMBDA i : C(i))
  BY <1>2, <1>3, Zenon
<1> HIDE DEF B, C, h
<1>6. Block(LAMBDA i : B(i)) = Block(LAMBDA i : C(i))
  BY <1>4, SMT DEF Block
<1> QED BY <1>5, <1>6 DEF h, e, t

----------------------------------------------------------------------------
(* The rounds.                                                            *)

(* A round of the code and of the standard, and the inverse of the code's. *)
CodeRound(tab, s, k)  == mixcolums(SubShift(tab, s, k))
CipherRound(tab, s, k) == XorBlocks(MixColumns(ShiftRows(SubBytes(tab, s))), k)
UndoRound(tab, s, k)  == UnshiftSub(tab, mixcolums(barreto(s)), k)

(* Rounds keep blocks, *)
LEMMA RoundClosed ==
  ASSUME NEW tab \in Tables,
         NEW s \in Bytes16, NEW k \in Bytes16
  PROVE  CodeRound(tab, s, k) \in Bytes16
<1>1. SubShift(tab, s, k) \in Bytes16
  BY SubShiftAt
<1> QED BY <1>1, MixcolumsAt DEF CodeRound

(* the code's round with a key before it is the standard's with one after it, *)
LEMMA RoundsAgree ==
  ASSUME NEW tab \in Tables,
         NEW s \in Bytes16, NEW k \in Bytes16, NEW l,
         NEW t, t = XorBlocks(s, k)
  PROVE  CipherRound(tab, t, l) = XorBlocks(CodeRound(tab, s, k), l)
<1>1. SubShift(tab, s, k) \in Bytes16
  BY SubShiftAt
<1>2. ShiftRows(SubBytes(tab, t)) = SubShift(tab, s, k)
  BY ShiftedSame
<1>3. MixColumns(SubShift(tab, s, k)) = mixcolums(SubShift(tab, s, k))
  BY <1>1, MixColumnsSame
<1> QED BY <1>2, <1>3, Zenon DEF CipherRound, CodeRound

(* and a round of aes_decr takes back one of aes_encr. *)
LEMMA RoundUndone ==
  ASSUME NEW tab \in Tables, Undoes(tab),
         NEW s \in Bytes16, NEW k \in Bytes16
  PROVE  UndoRound(tab, CodeRound(tab, s, k), k) = s
<1>1. SubShift(tab, s, k) \in Bytes16
  BY SubShiftAt
<1>2. mixcolums(barreto(mixcolums(SubShift(tab, s, k)))) = SubShift(tab, s, k)
  BY <1>1, MixUndone
<1>3. UnshiftSub(tab, SubShift(tab, s, k), k) = s
  BY Undone
<1> QED BY <1>2, <1>3, Zenon DEF UndoRound, CodeRound

(* The block after n rounds: code is what the code has, std the standard. *)
Reached(code, std, keys, n) ==
  code \in Bytes16 /\ std = XorBlocks(code, keys[n])

(* Each round keeps that relation between the two. *)
LEMMA ReachedNext ==
  ASSUME NEW tab \in Tables,
         NEW keys, \A j \in 1 .. 11 : keys[j] \in Bytes16,
         NEW n \in 1 .. 10, NEW m, m = n + 1,
         NEW s, NEW t, Reached(s, t, keys, n)
  PROVE  Reached(CodeRound(tab, s, keys[n]), CipherRound(tab, t, keys[m]), keys, m)
<1>1. keys[n] \in Bytes16
  OBVIOUS
<1>2. s \in Bytes16 /\ t = XorBlocks(s, keys[n])
  BY Zenon DEF Reached
<1>3. CodeRound(tab, s, keys[n]) \in Bytes16
  BY <1>1, <1>2, RoundClosed
<1>4. CipherRound(tab, t, keys[m]) = XorBlocks(CodeRound(tab, s, keys[n]), keys[m])
  BY <1>1, <1>2, RoundsAgree
<1> QED BY <1>3, <1>4, Zenon DEF Reached

(* The last round, which does not mix the columns, and the first of aes_decr. *)
LEMMA LastRounds ==
  ASSUME NEW tab \in Tables,
         NEW s \in Bytes16, NEW k \in Bytes16, NEW l \in Bytes16, NEW t,
         t = XorBlocks(s, k)
  PROVE  LET code == XorBlocks(SubShift(tab, s, k), l) IN
         /\ code \in Bytes16
         /\ XorBlocks(ShiftRows(SubBytes(tab, t)), l) = code
         /\ Undoes(tab) => UnshiftSub(tab, XorBlocks(code, l), k) = s
<1> DEFINE u == SubShift(tab, s, k)
           code == XorBlocks(u, l)
           v == XorBlocks(code, l)
<1>1. u \in Bytes16
  BY SubShiftAt
<1>2. ShiftRows(SubBytes(tab, t)) = u
  BY ShiftedSame
<1>3. Undoes(tab) => UnshiftSub(tab, u, k) = s
  BY Undone
<1> HIDE DEF u
<1>4. code \in Bytes16 /\ \A i \in 1 .. 16 : code[i] = Xor(u[i], l[i])
  BY <1>1, XorBlocksAt
<1> HIDE DEF code
<1>5. v \in Bytes16 /\ \A i \in 1 .. 16 : v[i] = Xor(code[i], l[i])
  BY <1>4, XorBlocksAt
<1> HIDE DEF v
<1>6. ASSUME NEW i \in 1 .. 16  PROVE v[i] = u[i]
  <2>1. u[i] \in Byte /\ l[i] \in Byte
    BY <1>1 DEF Bytes16
  <2> QED BY <2>1, <1>4, <1>5, XorCancel
<1>7. v = u
  BY <1>1, <1>5, <1>6, BlocksEqual
<1> QED BY <1>2, <1>3, <1>4, <1>7, Zenon DEF v, code, u

(* A round of aes_decr keeps blocks. *)
LEMMA UndoClosed ==
  ASSUME NEW tab \in Tables, NEW s \in Bytes16, NEW k \in Bytes16
  PROVE  UndoRound(tab, s, k) \in Bytes16
<1>1. barreto(s) \in Bytes16
  BY BarretoAt
<1>2. mixcolums(barreto(s)) \in Bytes16
  BY <1>1, MixcolumsAt
<1> QED BY <1>2, UnshiftSubAt DEF UndoRound

(* Whatever the lookups find, what is decrypted is a block. *)
LEMMA DecryptedBlock ==
  ASSUME NEW tab \in Tables, NEW block \in Bytes16, NEW k \in Bytes16
  PROVE  aes_decrypt(tab, block, k) \in Bytes16
<1> DEFINE K == expandKey(tab, k)
           u9 == UnshiftSub(tab, XorBlocks(block, K[11]), K[10])
           u8 == UndoRound(tab, u9, K[9])
           u7 == UndoRound(tab, u8, K[8])
           u6 == UndoRound(tab, u7, K[7])
           u5 == UndoRound(tab, u6, K[6])
           u4 == UndoRound(tab, u5, K[5])
           u3 == UndoRound(tab, u4, K[4])
           u2 == UndoRound(tab, u3, K[3])
           u1 == UndoRound(tab, u2, K[2])
           u0 == UndoRound(tab, u1, K[1])
<1>1. \A r \in 1 .. 11 : K[r] \in Bytes16
  BY RoundKeys
<1>2. /\ 10 - 1 = 9 /\ 10 - 2 = 8 /\ 10 - 3 = 7 /\ 10 - 4 = 6 /\ 10 - 5 = 5
      /\ 10 - 6 = 4 /\ 10 - 7 = 3 /\ 10 - 8 = 2 /\ 10 - 9 = 1
  OBVIOUS
<1> HIDE DEF K
<1>3. /\ K[1] \in Bytes16 /\ K[2] \in Bytes16 /\ K[3] \in Bytes16
      /\ K[4] \in Bytes16 /\ K[5] \in Bytes16 /\ K[6] \in Bytes16
      /\ K[7] \in Bytes16 /\ K[8] \in Bytes16 /\ K[9] \in Bytes16
      /\ K[10] \in Bytes16 /\ K[11] \in Bytes16
  BY <1>1
<1>4. aes_decrypt(tab, block, k) = u0
  BY <1>2, Zenon DEF aes_decrypt, aes_decr, NineRounds, UndoRound, K
<1>5. XorBlocks(block, K[11]) \in Bytes16
  BY <1>3, XorBlocksAt
<1>6. u9 \in Bytes16
  BY <1>3, <1>5, UnshiftSubAt
<1> HIDE DEF u9, u8, u7, u6, u5, u4, u3, u2, u1, u0
<1>7. u8 \in Bytes16 /\ u7 \in Bytes16 /\ u6 \in Bytes16
  BY <1>3, <1>6, UndoClosed DEF u8, u7, u6
<1>8. u5 \in Bytes16 /\ u4 \in Bytes16 /\ u3 \in Bytes16
  BY <1>3, <1>7, UndoClosed DEF u5, u4, u3
<1>9. u2 \in Bytes16 /\ u1 \in Bytes16 /\ u0 \in Bytes16
  BY <1>3, <1>8, UndoClosed DEF u2, u1, u0
<1> QED BY <1>4, <1>9

(* The rounds of security.cpp are those of AES-128, for every block, every   *)
(* key of 16 bytes and every content that its lookups find: grouped as it    *)
(* has the steps, aes_encrypt computes the standard's cipher with this       *)
(* content for tables, and aes_decrypt gives back what was encrypted if the  *)
(* contents undo each other, as those of the tables declared do.             *)
THEOREM AesIsStandard ==
  ASSUME NEW tab \in Tables,
         NEW block \in [1 .. 16 -> Byte], NEW k \in [1 .. 16 -> Byte]
  PROVE  /\ aes_encrypt(tab, block, k) = Cipher(tab, block, k)
         /\ Cipher(tab, block, k) \in [1 .. 16 -> Byte]
         /\ Undoes(tab) => aes_decrypt(tab, Cipher(tab, block, k), k) = block
<1> DEFINE K == expandKey(tab, k)
           W == Schedule(tab, k)
<1>1. block \in Bytes16 /\ k \in Bytes16
  BY DEF Bytes16
<1>2. \A r \in 1 .. 11 : K[r] \in Bytes16 /\ RoundKey(W[r]) = K[r]
  BY <1>1, RoundKeys
<1>3. /\ 1 \in 1 .. 10 /\ 2 \in 1 .. 10 /\ 3 \in 1 .. 10 /\ 4 \in 1 .. 10
      /\ 5 \in 1 .. 10 /\ 6 \in 1 .. 10 /\ 7 \in 1 .. 10 /\ 8 \in 1 .. 10
      /\ 9 \in 1 .. 10 /\ 10 \in 1 .. 10
      /\ 2 = 1 + 1 /\ 3 = 2 + 1 /\ 4 = 3 + 1 /\ 5 = 4 + 1 /\ 6 = 5 + 1
      /\ 7 = 6 + 1 /\ 8 = 7 + 1 /\ 9 = 8 + 1 /\ 10 = 9 + 1 /\ 11 = 10 + 1
      /\ 10 - 1 = 9 /\ 10 - 2 = 8 /\ 10 - 3 = 7 /\ 10 - 4 = 6 /\ 10 - 5 = 5
      /\ 10 - 6 = 4 /\ 10 - 7 = 3 /\ 10 - 8 = 2 /\ 10 - 9 = 1
  OBVIOUS
<1>4. /\ K[1] \in Bytes16 /\ K[2] \in Bytes16 /\ K[3] \in Bytes16
      /\ K[4] \in Bytes16 /\ K[5] \in Bytes16 /\ K[6] \in Bytes16
      /\ K[7] \in Bytes16 /\ K[8] \in Bytes16 /\ K[9] \in Bytes16
      /\ K[10] \in Bytes16 /\ K[11] \in Bytes16
      /\ RoundKey(W[1]) = K[1] /\ RoundKey(W[2]) = K[2] /\ RoundKey(W[3]) = K[3]
      /\ RoundKey(W[4]) = K[4] /\ RoundKey(W[5]) = K[5] /\ RoundKey(W[6]) = K[6]
      /\ RoundKey(W[7]) = K[7] /\ RoundKey(W[8]) = K[8] /\ RoundKey(W[9]) = K[9]
      /\ RoundKey(W[10]) = K[10] /\ RoundKey(W[11]) = K[11]
  BY <1>2
<1> DEFINE s1 == CodeRound(tab, block, K[1])
           s2 == CodeRound(tab, s1, K[2])
           s3 == CodeRound(tab, s2, K[3])
           s4 == CodeRound(tab, s3, K[4])
           s5 == CodeRound(tab, s4, K[5])
           s6 == CodeRound(tab, s5, K[6])
           s7 == CodeRound(tab, s6, K[7])
           s8 == CodeRound(tab, s7, K[8])
           s9 == CodeRound(tab, s8, K[9])
           t0 == XorBlocks(block, K[1])
           t1 == CipherRound(tab, t0, K[2])
           t2 == CipherRound(tab, t1, K[3])
           t3 == CipherRound(tab, t2, K[4])
           t4 == CipherRound(tab, t3, K[5])
           t5 == CipherRound(tab, t4, K[6])
           t6 == CipherRound(tab, t5, K[7])
           t7 == CipherRound(tab, t6, K[8])
           t8 == CipherRound(tab, t7, K[9])
           t9 == CipherRound(tab, t8, K[10])
           code == XorBlocks(SubShift(tab, s9, K[10]), K[11])
           u9 == UnshiftSub(tab, XorBlocks(code, K[11]), K[10])
           u8 == UndoRound(tab, u9, K[9])
           u7 == UndoRound(tab, u8, K[8])
           u6 == UndoRound(tab, u7, K[7])
           u5 == UndoRound(tab, u6, K[6])
           u4 == UndoRound(tab, u5, K[5])
           u3 == UndoRound(tab, u4, K[4])
           u2 == UndoRound(tab, u3, K[3])
           u1 == UndoRound(tab, u2, K[2])
           u0 == UndoRound(tab, u1, K[1])
<1> HIDE DEF K, W
<1>5. aes_encrypt(tab, block, k) = code
  BY Zenon DEF aes_encrypt, aes_encr, NineRounds, CodeRound, K
<1>6. Cipher(tab, block, k) = XorBlocks(ShiftRows(SubBytes(tab, t9)), K[11])
  BY <1>3, <1>4, Zenon DEF Cipher, NineRounds, CipherRound, W
<1>7. aes_decrypt(tab, code, k) = u0
  <2> HIDE DEF code
  <2> QED BY <1>3, Zenon DEF aes_decrypt, aes_decr, NineRounds, UndoRound, K
<1> HIDE DEF s1, s2, s3, s4, s5, s6, s7, s8, s9,
             t0, t1, t2, t3, t4, t5, t6, t7, t8, t9, code,
             u0, u1, u2, u3, u4, u5, u6, u7, u8, u9
<1>8. Reached(block, t0, K, 1)
  BY <1>1 DEF Reached, t0
<1>9. Reached(s1, t1, K, 2)
  BY <1>2, <1>3, <1>8, ReachedNext DEF s1, t1
<1>10. Reached(s2, t2, K, 3)
  BY <1>2, <1>3, <1>9, ReachedNext DEF s2, t2
<1>11. Reached(s3, t3, K, 4)
  BY <1>2, <1>3, <1>10, ReachedNext DEF s3, t3
<1>12. Reached(s4, t4, K, 5)
  BY <1>2, <1>3, <1>11, ReachedNext DEF s4, t4
<1>13. Reached(s5, t5, K, 6)
  BY <1>2, <1>3, <1>12, ReachedNext DEF s5, t5
<1>14. Reached(s6, t6, K, 7)
  BY <1>2, <1>3, <1>13, ReachedNext DEF s6, t6
<1>15. Reached(s7, t7, K, 8)
  BY <1>2, <1>3, <1>14, ReachedNext DEF s7, t7
<1>16. Reached(s8, t8, K, 9)
  BY <1>2, <1>3, <1>15, ReachedNext DEF s8, t8
<1>17. Reached(s9, t9, K, 10)
  BY <1>2, <1>3, <1>16, ReachedNext DEF s9, t9
<1>18. /\ code \in Bytes16 /\ XorBlocks(ShiftRows(SubBytes(tab, t9)), K[11]) = code
       /\ Undoes(tab) => u9 = s9
  BY <1>4, <1>17, LastRounds DEF Reached, code, u9
<1>19. /\ s1 \in Bytes16 /\ s2 \in Bytes16 /\ s3 \in Bytes16 /\ s4 \in Bytes16
       /\ s5 \in Bytes16 /\ s6 \in Bytes16 /\ s7 \in Bytes16 /\ s8 \in Bytes16
  BY <1>9, <1>10, <1>11, <1>12, <1>13, <1>14, <1>15, <1>16, Zenon DEF Reached
<1>20. ASSUME Undoes(tab)  PROVE u0 = block
  <2>1. u8 = s8 /\ u7 = s7 /\ u6 = s6
    BY <1>4, <1>18, <1>19, <1>20, RoundUndone DEF u8, u7, u6, s9, s8, s7
  <2>2. u5 = s5 /\ u4 = s4 /\ u3 = s3
    BY <1>4, <1>19, <1>20, <2>1, RoundUndone DEF u5, u4, u3, s6, s5, s4
  <2> QED BY <1>1, <1>4, <1>19, <1>20, <2>2, RoundUndone
       DEF u2, u1, u0, s3, s2, s1
<1> QED BY <1>5, <1>6, <1>7, <1>18, <1>20, Zenon DEF Bytes16

(* The tables declared are such a content. *)
LEMMA DeclaredTables == Declared \in Tables /\ Undoes(Declared)
<1>1. \A v \in Byte : SboxRows[v + 1] \in Byte /\ RsboxRows[v + 1] \in Byte
  BY DEF SboxRows, RsboxRows, Byte
<1>2. <<1, 2, 4, 8, 16, 32, 64, 128, 27, 54>> \in [1 .. 10 -> Byte]
  BY DEF Byte
<1> QED BY <1>1, <1>2, TablesAreStandard DEF Declared, Tables

----------------------------------------------------------------------------
(* wlan_smart_config_process.                                             *)

Size == SMART_CONFIG_PROFILE_SIZE

Sent ==
  {s \in [ssid : SsidLens, sec : Securities, len : KeyLens, aes : AesKeys] :
     s.sec = WLAN_SEC_UNSEC <=> s.len = 0}

Encrypted(s, h) == Cipher(Declared, Half(s.len, h), s.aes)

(* The array a has the name, the length of the key's field and the security *)
(* of s; the field may hold anything.                                       *)
Named(a, s) ==
  /\ a \in Seq(Byte) /\ Len(a) = Size
  /\ a[1] = s.ssid /\ a[s.ssid + 2] = 32 /\ a[s.ssid + 3] = s.sec

----------------------------------------------------------------------------
(* The inductive invariant.                                                *)

FileInv ==
  /\ sent \in Sent
  /\ file \in {[aes |-> a, message |-> Message(sent)] : a \in {<<>>, sent.aes}}

KeyInv ==
  pc \in {"readMessage", "decrypt", "decryptRest"} => key = sent.aes

ArrayInv ==
  /\ pc \in {"decrypt", "decryptRest", "findKey", "addProfile"} =>
       Named(profileArray, sent)
  /\ pc \in {"decryptRest", "findKey"} => decKeyPtr = sent.ssid + 3

FoundInv ==
  pc = "addProfile" /\ Field = KeyField(sent.len) =>
    /\ keyLen = sent.len
    /\ decKeyPtr = sent.ssid + (IF sent.len = 32 THEN 3 ELSE 4)

IInv ==
  /\ FileInv /\ KeyInv /\ ArrayInv /\ FoundInv
  /\ pc # "done" => profiles = {}
  /\ ProfileFromField

----------------------------------------------------------------------------
(* The message.                                                           *)

USE LengthsAssumption

(* The phone's key: printable bytes, none of which is 31 or 0. *)
LEMMA PlainKeyBytes ==
  ASSUME NEW n \in 0 .. 32
  PROVE  /\ PlainKey(n) \in Seq(Byte) /\ Len(PlainKey(n)) = n
         /\ \A i \in 1 .. n : PlainKey(n)[i] \in 33 .. 126
<1>1. \A i \in 1 .. n : (7 * i + 3 * n) % 94 \in 0 .. 93
  OBVIOUS
<1>2. \A i \in 1 .. n : 33 + ((7 * i + 3 * n) % 94) \in 33 .. 126
  BY <1>1
<1>3. \A i \in 1 .. n : PlainKey(n)[i] \in 33 .. 126
  BY <1>2 DEF PlainKey
<1>4. PlainKey(n) \in [1 .. n -> Byte]
  BY <1>2 DEF PlainKey, Byte
<1>5. PlainKey(n) \in Seq(Byte) /\ Len(PlainKey(n)) = n
  BY <1>4
<1> QED BY <1>3, <1>5

(* The field holds the key, after its length if there is room for it. *)
LEMMA KeyFieldBytes ==
  ASSUME NEW n \in 0 .. 32
  PROVE  /\ KeyField(n) \in Seq(Byte) /\ Len(KeyField(n)) = 32
         /\ n = 32 => \A i \in 1 .. 32 : KeyField(n)[i] = PlainKey(n)[i]
         /\ n # 32 =>
              /\ KeyField(n)[1] = n
              /\ \A i \in 1 .. n : KeyField(n)[i + 1] = PlainKey(n)[i]
              /\ n < 31 => KeyField(n)[32] = 0
<1>1. CASE n = 32
  BY <1>1, PlainKeyBytes DEF KeyField
<1>2. CASE n # 32
  <2> DEFINE p == PlainKey(n)
             z == Zeros(31 - n)
             q == <<n>> \o p
  <2>1. p \in Seq(Byte) /\ Len(p) = n
    BY PlainKeyBytes
  <2>2. n \in Byte /\ 0 \in Byte /\ 31 - n \in Nat
    BY <1>2 DEF Byte
  <2>3. z \in Seq(Byte) /\ Len(z) = 31 - n /\ \A i \in 1 .. 31 - n : z[i] = 0
    BY <2>2, Fill DEF Zeros
  <2> HIDE DEF p, z
  <2>4. <<n>> \in Seq(Byte) /\ Len(<<n>>) = 1 /\ <<n>>[1] = n
    BY <2>2, One
  <2>5. /\ q \in Seq(Byte) /\ Len(q) = 1 + n
        /\ q[1] = n /\ \A i \in 1 .. n : q[i + 1] = p[i]
    BY <2>1, <2>4, ConcatProperties
  <2> HIDE DEF q
  <2>6. /\ q \o z \in Seq(Byte) /\ Len(q \o z) = 32
        /\ \A i \in 1 .. 1 + n : (q \o z)[i] = q[i]
        /\ \A i \in 1 .. 31 - n : (q \o z)[1 + n + i] = z[i]
    BY <2>2, <2>3, <2>5, ConcatProperties
  <2>7. KeyField(n) = q \o z
    BY <1>2 DEF KeyField, p, q, z
  <2>8. (q \o z)[1] = n /\ \A i \in 1 .. n : (q \o z)[i + 1] = p[i]
    BY <2>5, <2>6
  <2>9. n < 31 => (q \o z)[32] = 0
    BY <2>3, <2>6
  <2> QED BY <1>2, <2>6, <2>7, <2>8, <2>9 DEF p
<1> QED BY <1>1, <1>2

LEMMA Halves ==
  ASSUME NEW n \in 0 .. 32
  PROVE  Half(n, 1) \in Bytes16 /\ Half(n, 2) \in Bytes16
<1>1. \A i \in 1 .. 32 : KeyField(n)[i] \in Byte
  BY KeyFieldBytes, ElementOfSeq
<1>2. Half(n, 1) = SubSeq(KeyField(n), 1, 16)
      /\ Half(n, 2) = SubSeq(KeyField(n), 17, 32)
  <2>1. 16 * 1 - 15 = 1 /\ 16 * 1 = 16 /\ 16 * 2 - 15 = 17 /\ 16 * 2 = 32
    OBVIOUS
  <2> QED BY <2>1, Zenon DEF Half
<1>3. /\ SubSeq(KeyField(n), 1, 16) \in Seq(Byte)
      /\ Len(SubSeq(KeyField(n), 1, 16)) = 16
      /\ SubSeq(KeyField(n), 17, 32) \in Seq(Byte)
      /\ Len(SubSeq(KeyField(n), 17, 32)) = 16
  BY <1>1, SubSeqProperties
<1> QED BY <1>2, <1>3, BlockIsSeq

LEMMA SentFields ==
  ASSUME NEW s \in Sent
  PROVE  /\ s.ssid \in 1 .. 32 /\ s.sec \in 0 .. 3 /\ s.aes \in AesKeys
         /\ s.len \in KeyLens /\ s.len \in 0 .. 32
         /\ s.sec = WLAN_SEC_UNSEC <=> s.len = 0
BY DEF Sent, Securities

(* The encrypted halves are blocks. *)
LEMMA EncryptedBlocks ==
  ASSUME NEW s \in Sent, NEW h \in 1 .. 2
  PROVE  /\ Half(s.len, h) \in [1 .. 16 -> Byte] /\ s.aes \in [1 .. 16 -> Byte]
         /\ Encrypted(s, h) \in Bytes16
<1>1. s.len \in 0 .. 32 /\ s.aes \in [1 .. 16 -> Byte]
  BY SentFields, KeysAssumption
<1>2. Half(s.len, h) \in [1 .. 16 -> Byte]
  BY <1>1, Halves DEF Bytes16
<1> QED BY <1>1, <1>2, AesIsStandard, DeclaredTables, Zenon
       DEF Encrypted, Bytes16

(* What the phone sends has the name, the field's length and the security. *)
LEMMA MessageNamed ==
  ASSUME NEW s \in Sent
  PROVE  Named(Message(s), s)
<1> DEFINE m == s.ssid
           name == [i \in 1 .. m |-> 83]
           x == Encrypted(s, 1)
           y == Encrypted(s, 2)
           rest == Zeros(Size - 35 - m)
           a1 == <<m>> \o name
           a2 == a1 \o <<32, s.sec>>
           a3 == a2 \o x
           a4 == a3 \o y
           a5 == a4 \o rest
<1>1. m \in 1 .. 32 /\ m \in Nat /\ m \in Byte /\ s.sec \in Byte
  BY SentFields DEF Byte
<1>2. x \in Seq(Byte) /\ Len(x) = 16 /\ y \in Seq(Byte) /\ Len(y) = 16
  BY EncryptedBlocks, BlockIsSeq
<1>3. name \in Seq(Byte) /\ Len(name) = m
  BY <1>1 DEF Byte
<1>4. rest \in Seq(Byte) /\ Len(rest) = 32 - m
  <2>1. Size - 35 - m \in Nat /\ Size - 35 - m = 32 - m /\ 0 \in Byte
    BY <1>1 DEF Size, SMART_CONFIG_PROFILE_SIZE, Byte
  <2> QED BY <2>1, Fill DEF Zeros
<1>5. <<m>> \in Seq(Byte) /\ Len(<<m>>) = 1 /\ <<m>>[1] = m
  BY <1>1
<1>6. /\ <<32, s.sec>> \in Seq(Byte) /\ Len(<<32, s.sec>>) = 2
      /\ <<32, s.sec>>[1] = 32 /\ <<32, s.sec>>[2] = s.sec
  BY <1>1 DEF Byte
<1>7. Message(s) = a5
  BY DEF Message, Encrypted, Size
<1> HIDE DEF name, x, y, rest, m
<1>8. Joins(a1, <<m>>, 1, name, m)
  BY <1>3, <1>5, Join, Zenon
<1>9. a1 \in Seq(Byte) /\ Len(a1) = m + 1 /\ a1[1] = m
  BY <1>1, <1>5, <1>8 DEF Joins
<1> HIDE DEF a1
<1>10. Joins(a2, a1, m + 1, <<32, s.sec>>, 2)
  BY <1>6, <1>9, Join, Zenon
<1>11. a2 \in Seq(Byte) /\ Len(a2) = m + 3
  BY <1>1, <1>10 DEF Joins
<1> HIDE DEF a2
<1>12. Joins(a3, a2, m + 3, x, 16)
  BY <1>2, <1>11, Join, Zenon
<1>13. a3 \in Seq(Byte) /\ Len(a3) = m + 19
  BY <1>1, <1>12 DEF Joins
<1> HIDE DEF a3
<1>14. Joins(a4, a3, m + 19, y, 16)
  BY <1>2, <1>13, Join, Zenon
<1>15. a4 \in Seq(Byte) /\ Len(a4) = m + 35
  BY <1>1, <1>14 DEF Joins
<1> HIDE DEF a4
<1>16. Joins(a5, a4, m + 35, rest, 32 - m)
  BY <1>4, <1>15, Join, Zenon
<1>17. a5 \in Seq(Byte) /\ Len(a5) = Size
  BY <1>1, <1>16 DEF Joins, Size, SMART_CONFIG_PROFILE_SIZE
<1> HIDE DEF a5
<1>18. ASSUME NEW i \in 1 .. m + 3  PROVE a5[i] = a2[i]
  <2>1. i \in 1 .. m + 35 /\ i \in 1 .. m + 19
    BY <1>1
  <2> QED BY <2>1, <1>12, <1>14, <1>16, Zenon DEF Joins
<1>19. a5[1] = m
  <2>1. 1 \in 1 .. m + 3 /\ 1 \in 1 .. m + 1
    BY <1>1
  <2>2. a5[1] = a2[1]
    BY <2>1, <1>18, Zenon
  <2>3. a2[1] = a1[1]
    BY <2>1, <1>10, Zenon DEF Joins
  <2> QED BY <2>2, <2>3, <1>9, Zenon
<1>20. a5[m + 2] = 32 /\ a5[m + 3] = s.sec
  <2>1. /\ (m + 1) + 1 \in 1 .. m + 3 /\ (m + 1) + 2 \in 1 .. m + 3
        /\ 1 \in 1 .. 2 /\ 2 \in 1 .. 2
    BY <1>1
  <2>2. a5[(m + 1) + 1] = 32 /\ a5[(m + 1) + 2] = s.sec
    BY <2>1, <1>6, <1>10, <1>18, Zenon DEF Joins
  <2>3. (m + 1) + 1 = m + 2 /\ (m + 1) + 2 = m + 3
    BY <1>1
  <2> QED BY <2>2, <2>3, Zenon
<1> QED BY <1>7, <1>17, <1>19, <1>20, Zenon DEF Named, m

(* Decrypting in place changes sixteen bytes and no other. *)
LEMMA WithBytes ==
  ASSUME profileArray \in Seq(Byte), Len(profileArray) = Size,
         NEW i \in 1 .. 51, NEW b \in Bytes16
  PROVE  /\ With(i, b) \in Seq(Byte) /\ Len(With(i, b)) = Size
         /\ \A k \in 1 .. i : With(i, b)[k] = profileArray[k]
         /\ \A k \in 1 .. 16 : With(i, b)[i + k] = b[k]
         /\ \A k \in i + 17 .. Size : With(i, b)[k] = profileArray[k]
<1> DEFINE a == profileArray
           x == SubSeq(a, 1, i)
           y == SubSeq(a, i + 17, 67)
           d == With(i, b)
<1>1. a \in Seq(Byte) /\ Len(a) = 67 /\ Size = 67
  BY DEF Size, SMART_CONFIG_PROFILE_SIZE
<1>2. d = (x \o b) \o y
  BY DEF With, SMART_CONFIG_PROFILE_SIZE
<1> HIDE DEF a, d
<1>3. /\ x \in Seq(Byte) /\ Len(x) = i
      /\ \A k \in 1 .. i : x[k - 1 + 1] = a[k]
  <2>1. /\ 1 \in Nat /\ i \in Nat /\ 1 <= 1 /\ 1 <= i + 1 /\ i <= Len(a)
        /\ i - 1 + 1 = i
    BY <1>1
  <2>2. Cuts(x, a, 1, i)
    BY <1>1, <2>1, Cut, Zenon
  <2> QED BY <2>1, <2>2, Zenon DEF Cuts
<1>4. /\ y \in Seq(Byte) /\ Len(y) = 51 - i
      /\ \A k \in i + 17 .. 67 : y[k - (i + 17) + 1] = a[k]
  <2>1. /\ i + 17 \in Nat /\ 67 \in Nat /\ 1 <= i + 17 /\ i + 17 <= 67 + 1
        /\ 67 <= Len(a) /\ 67 - (i + 17) + 1 = 51 - i
    BY <1>1
  <2>2. Cuts(y, a, i + 17, 67)
    BY <1>1, <2>1, Cut, Zenon
  <2> QED BY <2>1, <2>2, Zenon DEF Cuts
<1> HIDE DEF x, y
<1>5. b \in Seq(Byte) /\ Len(b) = 16
  BY BlockIsSeq
<1>6. Joins(x \o b, x, i, b, 16)
  BY <1>3, <1>5, Join, Zenon
<1>7. x \o b \in Seq(Byte) /\ Len(x \o b) = i + 16
  BY <1>6, Zenon DEF Joins
<1>8. Joins(d, x \o b, i + 16, y, 51 - i)
  BY <1>2, <1>4, <1>7, Join, Zenon
<1>9. ASSUME NEW k \in 1 .. i  PROVE d[k] = a[k]
  <2>1. k \in 1 .. i + 16 /\ k - 1 + 1 = k
    OBVIOUS
  <2>2. d[k] = x[k]
    BY <2>1, <1>6, <1>8, Zenon DEF Joins
  <2>3. x[k - 1 + 1] = a[k]
    BY <1>3, Zenon
  <2> QED BY <2>1, <2>2, <2>3, Zenon
<1>10. ASSUME NEW k \in 1 .. 16  PROVE d[i + k] = b[k]
  <2>1. i + k \in 1 .. i + 16
    OBVIOUS
  <2> QED BY <2>1, <1>6, <1>8, Zenon DEF Joins
<1>11. ASSUME NEW k \in i + 17 .. 67  PROVE d[k] = a[k]
  <2>1. /\ k - (i + 17) + 1 \in 1 .. 51 - i
        /\ (i + 16) + (k - (i + 17) + 1) = k
    OBVIOUS
  <2>2. d[(i + 16) + (k - (i + 17) + 1)] = y[k - (i + 17) + 1]
    BY <2>1, <1>8, Zenon DEF Joins
  <2> QED BY <2>1, <2>2, <1>4, Zenon
<1>12. d \in Seq(Byte) /\ Len(d) = 67
  <2>1. (i + 16) + (51 - i) = 67
    OBVIOUS
  <2> QED BY <2>1, <1>8, Zenon DEF Joins
<1> QED BY <1>1, <1>9, <1>10, <1>11, <1>12, Zenon DEF a, d

(* Whatever a decryption's lookups find, it makes a block. *)
LEMMA PlainBlocks ==
  ASSUME profileArray \in Seq(Byte), Len(profileArray) = Size,
         key \in [1 .. 16 -> Byte], NEW i \in 1 .. 51, NEW b \in Plains(i)
  PROVE  b \in Bytes16
<1> DEFINE x == SubSeq(profileArray, i + 1, i + 16)
<1>1. x \in Bytes16
  <2>1. /\ i + 1 \in Nat /\ i + 16 \in Nat /\ 1 <= i + 1 /\ i + 1 <= i + 16 + 1
        /\ i + 16 <= Len(profileArray) /\ (i + 16) - (i + 1) + 1 = 16
    BY DEF Size, SMART_CONFIG_PROFILE_SIZE
  <2>2. Cuts(x, profileArray, i + 1, i + 16)
    BY <2>1, Cut, Zenon
  <2>3. x \in Seq(Byte) /\ Len(x) = 16
    BY <2>1, <2>2, Zenon DEF Cuts
  <2> QED BY <2>3, BlockIsSeq
<1> HIDE DEF x
<1>2. \A m \in Memories : m \in Tables
  BY MemoryAssumption
<1>3. \A m \in Memories : aes_decrypt(m, x, key) \in Bytes16
  BY <1>1, <1>2, DecryptedBlock DEF Bytes16
<1>4. b \in {aes_decrypt(m, x, key) : m \in Memories} \cup Disturbed
  BY Zenon DEF Plains, x
<1> QED BY <1>3, <1>4, MemoryAssumption DEF Bytes16

(* In place of the key's field it leaves the name and the security. *)
LEMMA StillNamed ==
  ASSUME sent \in Sent, key = sent.aes, Named(profileArray, sent),
         NEW i \in {sent.ssid + 3, sent.ssid + 19}, NEW b \in Plains(i)
  PROVE  Named(With(i, b), sent)
<1>1. sent.ssid \in 1 .. 32 /\ i \in 1 .. 51
  BY SentFields
<1>2. profileArray \in Seq(Byte) /\ Len(profileArray) = Size
  BY DEF Named
<1>3. key \in [1 .. 16 -> Byte]
  BY SentFields, KeysAssumption
<1>4. b \in Bytes16
  BY <1>1, <1>2, <1>3, PlainBlocks
<1> DEFINE d == With(i, b)
<1>5. /\ d \in Seq(Byte) /\ Len(d) = Size
      /\ \A k \in 1 .. i : d[k] = profileArray[k]
  BY <1>1, <1>2, <1>4, WithBytes, Zenon
<1>6. 1 \in 1 .. i /\ sent.ssid + 2 \in 1 .. i /\ sent.ssid + 3 \in 1 .. i
  BY <1>1
<1> HIDE DEF d
<1>7. Named(d, sent)
  BY <1>5, <1>6, Zenon DEF Named
<1> QED BY <1>7 DEF d

(* The bytes behind the array's head are the length of the name and, behind *)
(* the name, the length of the field and the security.                      *)
LEMMA NameAndSecurity ==
  ASSUME sent \in Sent, Named(profileArray, sent)
  PROVE  ssidLen = sent.ssid /\ At(ssidLen + 2) = sent.sec
<1>1. 0 + 1 = 1 /\ (sent.ssid + 2) + 1 = sent.ssid + 3
  BY SentFields
<1>2. ssidLen = sent.ssid
  BY <1>1, Zenon DEF ssidLen, At, Named
<1> QED BY <1>1, <1>2, Zenon DEF At, Named

(* Where the field lies in the array. *)
LEMMA FieldInPlace ==
  ASSUME sent \in Sent, Named(profileArray, sent),
         Field = KeyField(sent.len), NEW k \in 1 .. 32
  PROVE  profileArray[sent.ssid + 3 + k] = KeyField(sent.len)[k]
<1> DEFINE n == sent.ssid + 4
           m == sent.ssid + 35
<1>1. /\ n \in Nat /\ m \in Nat /\ 1 <= n /\ n <= m + 1 /\ m <= 67
      /\ n - 1 + k \in n .. m /\ (n - 1 + k) - n + 1 = k
      /\ n - 1 + k = sent.ssid + 3 + k
  BY SentFields
<1>2. profileArray \in Seq(Byte) /\ Len(profileArray) = 67
  BY DEF Named, Size, SMART_CONFIG_PROFILE_SIZE
<1>3. Field = SubSeq(profileArray, n, m)
  BY NameAndSecurity DEF Field
<1> HIDE DEF n, m
<1>4. Cuts(Field, profileArray, n, m)
  BY <1>1, <1>2, <1>3, Cut
<1>5. Field[(n - 1 + k) - n + 1] = profileArray[n - 1 + k]
  BY <1>1, <1>4, Zenon DEF Cuts
<1> QED BY <1>1, <1>5, Zenon

(* The length is found, and the place where the key begins. *)
LEMMA FoundBytes ==
  ASSUME sent \in Sent, Named(profileArray, sent),
         Field = KeyField(sent.len), decKeyPtr = sent.ssid + 3
  PROVE  (At(decKeyPtr + 31) # 0 /\ At(decKeyPtr) # 31 <=> sent.len = 32)
         /\ (sent.len # 32 => At(decKeyPtr) = sent.len)
<1> DEFINE n == sent.len
<1>1. sent.ssid \in 1 .. 32 /\ n \in 0 .. 32
  BY SentFields
<1>2. At(decKeyPtr) = KeyField(n)[1] /\ At(decKeyPtr + 31) = KeyField(n)[32]
  <2>1. /\ decKeyPtr + 1 = sent.ssid + 3 + 1
        /\ (decKeyPtr + 31) + 1 = sent.ssid + 3 + 32
        /\ 1 \in 1 .. 32 /\ 32 \in 1 .. 32
    BY <1>1
  <2> QED BY <2>1, FieldInPlace, Zenon DEF At
<1> HIDE DEF n
<1>3. CASE n = 32
  <2>1. PlainKey(n)[1] \in 33 .. 126 /\ PlainKey(n)[32] \in 33 .. 126
    <3>1. 1 \in 1 .. n /\ 32 \in 1 .. n
      BY <1>3
    <3> QED BY <3>1, <1>1, PlainKeyBytes, Zenon
  <2>2. KeyField(n)[1] = PlainKey(n)[1] /\ KeyField(n)[32] = PlainKey(n)[32]
    BY <1>3, KeyFieldBytes
  <2> QED BY <2>1, <2>2, <1>2, <1>3 DEF n
<1>4. CASE n # 32
  <2>1. KeyField(n)[1] = n /\ (n < 31 => KeyField(n)[32] = 0)
    BY <1>1, <1>4, KeyFieldBytes
  <2> QED BY <2>1, <1>1, <1>2, <1>4 DEF n
<1> QED BY <1>3, <1>4

(* The profile has the name and the security sent, no key for an open      *)
(* network, and the key sent if the field is what was sent.                  *)
LEMMA ProfileIsSent ==
  ASSUME sent \in Sent, Named(profileArray, sent), pc = "addProfile", FoundInv
  PROVE  /\ Len(Profile.ssid) = sent.ssid /\ Profile.sec = sent.sec
         /\ sent.sec = WLAN_SEC_UNSEC => Profile.key = <<>>
         /\ Field = KeyField(sent.len) => Profile.key = PlainKey(sent.len)
<1> DEFINE n == sent.len
           p == decKeyPtr
           last == IF p + keyLen <= SMART_CONFIG_PROFILE_SIZE
                   THEN p + keyLen ELSE SMART_CONFIG_PROFILE_SIZE
           y == SubSeq(profileArray, p + 1, last)
           x == SubSeq(profileArray, p + 1, p + n)
           name == SubSeq(profileArray, 2, sent.ssid + 1)
<1>1. /\ sent.ssid \in 1 .. 32 /\ n \in 0 .. 32 /\ sent.sec \in 0 .. 3
      /\ sent.sec = WLAN_SEC_UNSEC <=> n = 0
  BY SentFields
<1>2. profileArray \in Seq(Byte) /\ Len(profileArray) = 67
  BY DEF Named, Size, SMART_CONFIG_PROFILE_SIZE
<1>3. ssidLen = sent.ssid /\ At(ssidLen + 2) = sent.sec
  BY NameAndSecurity
<1>4. Len(name) = sent.ssid
  <2>1. /\ 2 \in Nat /\ sent.ssid + 1 \in Nat /\ 1 <= 2
        /\ 2 <= (sent.ssid + 1) + 1 /\ sent.ssid + 1 <= 67
        /\ (sent.ssid + 1) - 2 + 1 = sent.ssid
    BY <1>1
  <2>2. Cuts(name, profileArray, 2, sent.ssid + 1)
    <3>1. sent.ssid + 1 <= Len(profileArray)
      BY <2>1, <1>2, Zenon
    <3> QED BY <2>1, <3>1, <1>2, Cut, Zenon
  <2> QED BY <2>1, <2>2, Zenon DEF Cuts
<1>5. ASSUME Field = KeyField(n)  PROVE y = PlainKey(n)
  <2>0. keyLen = n /\ p = sent.ssid + (IF n = 32 THEN 3 ELSE 4)
    BY <1>5 DEF FoundInv
  <2>1. /\ p + 1 \in Nat /\ p + n \in Nat /\ 1 <= p + 1 /\ p + 1 <= (p + n) + 1
        /\ p + n <= 67 /\ (p + n) - (p + 1) + 1 = n
    BY <1>1, <2>0
  <2>2. Cuts(x, profileArray, p + 1, p + n)
    <3>1. p + n <= Len(profileArray)
      BY <2>1, <1>2, Zenon
    <3> QED BY <2>1, <3>1, <1>2, Cut, Zenon
  <2>6. y = x
    BY <1>2, <2>0, <2>1 DEF SMART_CONFIG_PROFILE_SIZE
  <2> HIDE DEF x, y, n, p
  <2>3. x \in Seq(Byte) /\ Len(x) = n
    BY <2>1, <2>2, Zenon DEF Cuts
  <2>4. PlainKey(n) \in Seq(Byte) /\ Len(PlainKey(n)) = n
    BY <1>1, PlainKeyBytes, Zenon
  <2>5. ASSUME NEW j \in 1 .. n  PROVE x[j] = PlainKey(n)[j]
    <3>1. p + j \in p + 1 .. p + n /\ (p + j) - (p + 1) + 1 = j
      BY <1>1, <2>0
    <3>2. x[(p + j) - (p + 1) + 1] = profileArray[p + j]
      BY <3>1, <2>2, Zenon DEF Cuts
    <3>3. CASE n = 32
      <4>1. p + j = sent.ssid + 3 + j /\ j \in 1 .. 32
        BY <1>1, <2>0, <3>3
      <4>2. profileArray[p + j] = KeyField(n)[j]
        BY <4>1, <1>5, FieldInPlace, Zenon DEF n
      <4>3. KeyField(n)[j] = PlainKey(n)[j]
        BY <1>1, <3>3, <4>1, KeyFieldBytes, Zenon
      <4> QED BY <3>1, <3>2, <4>2, <4>3, Zenon
    <3>4. CASE n # 32
      <4>1. p + j = sent.ssid + 3 + (j + 1) /\ j + 1 \in 1 .. 32
        BY <1>1, <2>0, <3>4
      <4>2. profileArray[p + j] = KeyField(n)[j + 1]
        BY <4>1, <1>5, FieldInPlace, Zenon DEF n
      <4>3. KeyField(n)[j + 1] = PlainKey(n)[j]
        BY <1>1, <3>4, KeyFieldBytes, Zenon
      <4> QED BY <3>1, <3>2, <4>2, <4>3, Zenon
    <3> QED BY <3>3, <3>4
  <2> QED BY <2>3, <2>4, <2>5, <2>6, SeqEqual, Zenon
<1>6. n = 0 => PlainKey(n) = <<>>
  <2>1. ASSUME n = 0  PROVE PlainKey(n) = <<>>
    <3>1. PlainKey(n) \in Seq(Byte) /\ Len(PlainKey(n)) = 0
      BY <1>1, <2>1, PlainKeyBytes
    <3> QED BY <3>1, EmptySeq
  <2> QED BY <2>1
<1>7. /\ Profile.ssid = name /\ Profile.sec = sent.sec
      /\ Profile.key = IF sent.sec = WLAN_SEC_UNSEC THEN <<>> ELSE y
  BY <1>3 DEF Profile
<1> HIDE DEF n, y, name
<1> QED BY <1>1, <1>4, <1>5, <1>6, <1>7 DEF n

----------------------------------------------------------------------------
(* The invariant is inductive.                                             *)

(* Before the profile is added there is none. *)
LEMMA NoneYet ==
  ASSUME IInv, pc # "done", UNCHANGED profiles
  PROVE  (pc' # "done" => profiles' = {}) /\ ProfileFromField'
BY DEF IInv, ProfileFromField

LEMMA InitInv == Init => IInv
BY DEF Init, IInv, FileInv, KeyInv, ArrayInv, FoundInv, Sent, ProfileFromField

(* The key is stored, or not. *)
LEMMA StepStored ==
  IInv /\ aes_write_key => IInv'
<1> SUFFICES ASSUME IInv, aes_write_key  PROVE IInv'
  OBVIOUS
<1>1. (pc' # "done" => profiles' = {}) /\ ProfileFromField'
  BY NoneYet DEF aes_write_key, Go
<1>2. FileInv'
  BY DEF IInv, FileInv, aes_write_key
<1>3. KeyInv' /\ ArrayInv' /\ FoundInv'
  BY DEF KeyInv, ArrayInv, FoundInv, aes_write_key, Go
<1> QED BY <1>1, <1>2, <1>3 DEF IInv

LEMMA StepKeyRead ==
  IInv /\ aes_read_key => IInv'
<1> SUFFICES ASSUME IInv, aes_read_key  PROVE IInv'
  OBVIOUS
<1>1. (pc' # "done" => profiles' = {}) /\ ProfileFromField'
  BY NoneYet DEF aes_read_key, Go
<1>2. FileInv' /\ KeyInv'
  BY DEF IInv, FileInv, KeyInv, aes_read_key, Go
<1>3. ArrayInv' /\ FoundInv'
  BY DEF ArrayInv, FoundInv, aes_read_key, Go
<1> QED BY <1>1, <1>2, <1>3 DEF IInv

LEMMA StepMessageRead ==
  IInv /\ ReadMessage => IInv'
<1> SUFFICES ASSUME IInv, ReadMessage  PROVE IInv'
  OBVIOUS
<1>1. (pc' # "done" => profiles' = {}) /\ ProfileFromField'
  BY NoneYet DEF ReadMessage, Go
<1>2. FileInv' /\ KeyInv' /\ FoundInv'
  BY DEF IInv, FileInv, KeyInv, FoundInv, ReadMessage, Go
<1>3. ArrayInv'
  <2>1. Named(file.message, sent)
    BY MessageNamed DEF IInv, FileInv
  <2> QED BY <2>1 DEF ArrayInv, Named, ReadMessage, Go
<1> QED BY <1>1, <1>2, <1>3 DEF IInv

LEMMA StepFirst ==
  IInv /\ DecryptFirst => IInv'
<1> SUFFICES ASSUME IInv, DecryptFirst  PROVE IInv'
  OBVIOUS
<1>1. /\ pc = "decrypt" /\ pc' = "decryptRest" /\ decKeyPtr' = ssidLen + 3
      /\ \E b \in Plains(decKeyPtr') : profileArray' = With(decKeyPtr', b)
      /\ UNCHANGED <<sent, file, key, keyLen, returnValue, profiles>>
  BY DEF DecryptFirst, Go
<1>2. sent \in Sent /\ key = sent.aes /\ Named(profileArray, sent)
  BY <1>1 DEF IInv, FileInv, KeyInv, ArrayInv
<1>3. decKeyPtr' = sent.ssid + 3
  BY <1>1, <1>2, NameAndSecurity
<1>4. Named(profileArray', sent)
  BY <1>1, <1>2, <1>3, StillNamed
<1>5. FileInv' /\ KeyInv' /\ FoundInv'
  BY <1>1, <1>2 DEF IInv, FileInv, KeyInv, FoundInv
<1>6. ArrayInv'
  BY <1>1, <1>3, <1>4 DEF ArrayInv, Named
<1>7. (pc' # "done" => profiles' = {}) /\ ProfileFromField'
  BY <1>1, NoneYet
<1> QED BY <1>5, <1>6, <1>7 DEF IInv

LEMMA StepRest ==
  IInv /\ DecryptRest => IInv'
<1> SUFFICES ASSUME IInv, DecryptRest  PROVE IInv'
  OBVIOUS
<1>1. /\ pc = "decryptRest" /\ pc' = "findKey"
      /\ \/ \E b \in Plains(decKeyPtr + 16) :
              profileArray' = With(decKeyPtr + 16, b)
         \/ profileArray' = profileArray
      /\ UNCHANGED <<sent, file, key, keyLen, decKeyPtr, returnValue, profiles>>
  BY DEF DecryptRest, Go
<1>2. /\ sent \in Sent /\ key = sent.aes /\ decKeyPtr = sent.ssid + 3
      /\ Named(profileArray, sent)
  BY <1>1 DEF IInv, FileInv, KeyInv, ArrayInv
<1>3. decKeyPtr + 16 = sent.ssid + 19
  BY <1>2, SentFields
<1>4. Named(profileArray', sent)
  BY <1>1, <1>2, <1>3, StillNamed
<1>5. FileInv' /\ KeyInv' /\ FoundInv'
  BY <1>1, <1>2 DEF IInv, FileInv, KeyInv, FoundInv
<1>6. ArrayInv'
  BY <1>1, <1>2, <1>4 DEF ArrayInv, Named
<1>7. (pc' # "done" => profiles' = {}) /\ ProfileFromField'
  BY <1>1, NoneYet
<1> QED BY <1>5, <1>6, <1>7 DEF IInv

LEMMA StepFind ==
  IInv /\ FindKey => IInv'
<1> SUFFICES ASSUME IInv, FindKey  PROVE IInv'
  OBVIOUS
<1> DEFINE whole == At(decKeyPtr + 31) # 0 /\ At(decKeyPtr) # 31
<1>1. /\ pc = "findKey" /\ pc' = "addProfile"
      /\ keyLen' = IF whole THEN 32 ELSE At(decKeyPtr)
      /\ decKeyPtr' = IF whole THEN decKeyPtr ELSE decKeyPtr + 1
      /\ UNCHANGED <<sent, file, key, profileArray, returnValue, profiles>>
  BY DEF FindKey, Go
<1>2. sent \in Sent /\ decKeyPtr = sent.ssid + 3 /\ Named(profileArray, sent)
  BY <1>1 DEF IInv, FileInv, ArrayInv
<1>3. Field = KeyField(sent.len) =>
        /\ whole <=> sent.len = 32
        /\ sent.len # 32 => At(decKeyPtr) = sent.len
  BY <1>2, FoundBytes, Zenon
<1> HIDE DEF whole
<1>4. FileInv' /\ KeyInv'
  BY <1>1, <1>2 DEF IInv, FileInv, KeyInv
<1>5. ArrayInv'
  BY <1>1, <1>2 DEF ArrayInv, Named
<1>6. FoundInv'
  <2>1. sent.ssid \in 1 .. 32
    BY <1>2, SentFields
  <2>2. Field' = Field
    BY <1>1 DEF Field, ssidLen, At
  <2> QED BY <2>1, <2>2, <1>1, <1>2, <1>3 DEF FoundInv
<1>7. (pc' # "done" => profiles' = {}) /\ ProfileFromField'
  BY <1>1, NoneYet
<1> QED BY <1>4, <1>5, <1>6, <1>7 DEF IInv

LEMMA StepAdd ==
  IInv /\ AddProfile => IInv'
<1> SUFFICES ASSUME IInv, AddProfile  PROVE IInv'
  OBVIOUS
<1>1. /\ pc = "addProfile" /\ pc' = "done"
      /\ profiles' \in {profiles, profiles \cup {Profile}}
      /\ UNCHANGED <<sent, file, key, profileArray, keyLen, decKeyPtr>>
  BY DEF AddProfile, Go
<1>2. sent \in Sent /\ Named(profileArray, sent) /\ FoundInv /\ profiles = {}
  BY <1>1 DEF IInv, FileInv, ArrayInv
<1>3. /\ Len(Profile.ssid) = sent.ssid /\ Profile.sec = sent.sec
      /\ sent.sec = WLAN_SEC_UNSEC => Profile.key = <<>>
      /\ Field = KeyField(sent.len) => Profile.key = PlainKey(sent.len)
  BY <1>1, <1>2, ProfileIsSent, Zenon
<1>4. ProfileFromField'
  <2>1. Field' = Field
    BY <1>1 DEF Field, ssidLen, At
  <2>2. \A q \in profiles' : q = Profile
    BY <1>1, <1>2
  <2> QED BY <2>1, <2>2, <1>1, <1>3, Zenon DEF ProfileFromField
<1>5. FileInv' /\ KeyInv' /\ ArrayInv' /\ FoundInv'
  BY <1>1 DEF IInv, FileInv, KeyInv, ArrayInv, FoundInv
<1> QED BY <1>1, <1>4, <1>5 DEF IInv

LEMMA StepInv == IInv /\ [Next]_vars => IInv'
<1> SUFFICES ASSUME IInv, [Next]_vars  PROVE IInv'
  OBVIOUS
<1>1. CASE aes_write_key  BY <1>1, StepStored
<1>2. CASE aes_read_key   BY <1>2, StepKeyRead
<1>3. CASE ReadMessage    BY <1>3, StepMessageRead
<1>4. CASE DecryptFirst   BY <1>4, StepFirst
<1>5. CASE DecryptRest    BY <1>5, StepRest
<1>6. CASE FindKey        BY <1>6, StepFind
<1>7. CASE AddProfile     BY <1>7, StepAdd
<1>8. CASE UNCHANGED vars
  BY <1>8 DEF vars, IInv, FileInv, KeyInv, ArrayInv, Named, FoundInv, Field,
     ssidLen, At, ProfileFromField
<1> QED BY <1>1, <1>2, <1>3, <1>4, <1>5, <1>6, <1>7, <1>8 DEF Next

LEMMA Invariance == Spec => []IInv
<1>1. IInv /\ [Next]_vars => IInv'
  BY StepInv
<1> QED BY <1>1, InitInv, PTL DEF Spec

(* For names and keys of every length from 1 or 0 to 32, every AES key and  *)
(* whatever the lookups of wlan_smart_config_process find: the profile is   *)
(* for the network named, with its security, without a key if it is open,   *)
(* and with the key sent, where this fills its field and where it does not, *)
(* if the field has been decrypted to what was sent.                        *)
THEOREM ProfileFollowsField == Spec => []ProfileFromField
<1>1. IInv => ProfileFromField
  BY DEF IInv
<1> QED BY <1>1, Invariance, PTL

(* For every message, key and content of the tables that the lookups find,  *)
(* aes_encrypt makes of the key's field what the standard makes of it with  *)
(* this content, and aes_decrypt takes it back if the content lets it.      *)
THEOREM RoundsOfStandard == Spec => []RoundsAreStandard
<1>1. IInv => RoundsAreStandard
  <2> SUFFICES ASSUME IInv, NEW m \in Memories, NEW h \in 1 .. 2
               PROVE  LET block == Half(sent.len, h)
                          code  == Cipher(m, block, sent.aes)
                      IN  /\ aes_encrypt(m, block, sent.aes) = code
                          /\ Undoes(m) =>
                               aes_decrypt(m, code, sent.aes) = block
    BY DEF RoundsAreStandard
  <2>1. sent \in Sent /\ m \in Tables
    BY MemoryAssumption DEF IInv, FileInv
  <2>2. /\ Half(sent.len, h) \in [1 .. 16 -> Byte]
        /\ sent.aes \in [1 .. 16 -> Byte]
    BY <2>1, EncryptedBlocks
  <2> QED BY <2>1, <2>2, AesIsStandard
<1> QED BY <1>1, Invariance, PTL

============================================================================
