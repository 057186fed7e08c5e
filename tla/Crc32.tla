-------------------------------- MODULE Crc32 --------------------------------
(***************************************************************************)
(* The class CRC32 of common/hash-library.  A word is the set of its bits  *)
(* that are one, so that exclusive or is the symmetric difference.         *)
(***************************************************************************)
EXTENDS Integers, Sequences

Xor(v, w) == (v \ w) \cup (w \ v)
ShiftRight(w, n) == {b - n : b \in {x \in w : x >= n}}
ShiftLeft(w, n) == {b + n : b \in w}
Not(w) == (0..31) \ w
Byte(w, k) == ShiftRight(w, 8 * k) \cap (0..7)   \* (w >> 8k) & 0xFF
BitsOf(byte) == {b \in 0..7 : (byte \div 2^b) % 2 = 1}

\* 0xEDB88320
Polynomial == {5, 8, 9, 15, 19, 20, 21, 23, 24, 26, 27, 29, 30, 31}

\* (crc >> 1) ^ ((crc & 1) * Polynomial), eight times.
EightShifts(w) ==
  LET crc[j \in 0..8] ==
        IF j = 0 THEN w
        ELSE Xor(ShiftRight(crc[j - 1], 1), IF 0 \in crc[j - 1] THEN Polynomial ELSE {})
  IN  crc[8]

\* The tables, by the generator that is given with them.
Lookup0 == [i \in SUBSET (0..7) |-> EightShifts(i)]
LookupAfter(last) == [i \in DOMAIN last |-> Xor(ShiftRight(last[i], 8), Lookup0[Byte(last[i], 0)])]
Lookup1 == LookupAfter(Lookup0)
Lookup2 == LookupAfter(Lookup1)
Lookup3 == LookupAfter(Lookup2)
Lookup4 == LookupAfter(Lookup3)
Lookup5 == LookupAfter(Lookup4)
Lookup6 == LookupAfter(Lookup5)
Lookup7 == LookupAfter(Lookup6)

\* Four bytes of memory read as a little-endian word.
Word(data, at) ==
  UNION {ShiftLeft(BitsOf(data[at + k]), 8 * k) : k \in 0..3}

\* Slicing by eight.
EightBytes(crc, data, at) ==
  LET one == Xor(Word(data, at), crc)
      two == Word(data, at + 4)
  IN  Xor(Xor(Xor(Lookup7[Byte(one, 0)], Lookup6[Byte(one, 1)]),
              Xor(Lookup5[Byte(one, 2)], Lookup4[Byte(one, 3)])),
          Xor(Xor(Lookup3[Byte(two, 0)], Lookup2[Byte(two, 1)]),
              Xor(Lookup1[Byte(two, 2)], Lookup0[Byte(two, 3)])))

OneByte(crc, byte) ==
  Xor(ShiftRight(crc, 8), Lookup0[Xor(Byte(crc, 0), BitsOf(byte))])

CrcReset == {}

\* add(): eight bytes at a time, then the remaining ones; m_hash is the complement.
CrcAdd(m_hash, data) ==
  LET eights == Len(data) \div 8
      steps == eights + (Len(data) % 8)
      crc[n \in 0..steps] ==
        IF n = 0 THEN Not(m_hash)
        ELSE IF n <= eights THEN EightBytes(crc[n - 1], data, 8 * (n - 1) + 1)
        ELSE OneByte(crc[n - 1], data[7 * eights + n])
  IN  Not(crc[steps])

\* The CRC of a message by its definition, one bit of the message after the other.
CrcReference(m) ==
  LET crc[n \in 0..Len(m)] ==
        IF n = 0 THEN 0..31 ELSE EightShifts(Xor(crc[n - 1], BitsOf(m[n])))
  IN  Not(crc[Len(m)])
=============================================================================
