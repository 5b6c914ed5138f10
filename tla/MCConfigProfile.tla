-------------------------- MODULE MCConfigProfile --------------------------
(* ConfigProfile with keys around the field's limits of 16, 31 and 32, and *)
(* with lookups that find the tables, or else other memory: one byte over  *)
(* and over, contents that are each other's inverse, or changing contents  *)
(* that leave a field which begins with a length that is no key's.         *)
EXTENDS ConfigProfile

MCAesKeys ==
  {<<43, 126, 21, 22, 40, 174, 210, 166, 171, 247, 21, 136, 9, 207, 79, 60>>,
   [i \in 1 .. 16 |-> 255]}

MCMemories ==
  {Declared,
   [sbox |-> [v \in Byte |-> 7], rsbox |-> [v \in Byte |-> 0],
    rcon |-> [r \in 1 .. 10 |-> 85]],
   [sbox |-> [v \in Byte |-> (v + 3) % 256],
    rsbox |-> [v \in Byte |-> (v + 253) % 256],
    rcon |-> [r \in 1 .. 10 |-> 0]]}

MCDisturbed == {[i \in 1 .. 16 |-> IF i = 1 THEN b ELSE 0] : b \in {31, 200}}

============================================================================
