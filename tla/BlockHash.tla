----------------------------- MODULE BlockHash -----------------------------
(***************************************************************************)
(* The block digests of common/hash-library: MD5, SHA1 and SHA256, which   *)
(* append the length of the message, and the sponges Keccak and SHA3.  The *)
(* five classes have the same methods, in the same words but for the block *)
(* size and the padding, which are the fields of a class here.             *)
(*                                                                         *)
(* The compression function is left uninterpreted: m_hash is the sequence  *)
(* of the blocks it has been given since reset(), and a digest is the      *)
(* sequence that getHash() ends with.  Two digests are equal here exactly  *)
(* if the same blocks have been compressed in the same order.              *)
(***************************************************************************)
EXTENDS Integers, Sequences

\* mark: the first byte of the padding.
MD5 == [name |-> "MD5", blockSize |-> 64, sponge |-> FALSE, bigEndian |-> FALSE, mark |-> 128]

SHA1 == [name |-> "SHA1", blockSize |-> 64, sponge |-> FALSE, bigEndian |-> TRUE, mark |-> 128]

SHA256 == [name |-> "SHA256", blockSize |-> 64, sponge |-> FALSE, bigEndian |-> TRUE, mark |-> 128]

Rate(bits) == 200 - 2 * (bits \div 8)

Keccak(bits) ==
  [name |-> "Keccak", blockSize |-> Rate(bits), sponge |-> TRUE, bigEndian |-> FALSE, mark |-> 1]

SHA3(bits) ==
  [name |-> "SHA3", blockSize |-> Rate(bits), sponge |-> TRUE, bigEndian |-> FALSE, mark |-> 6]

Junk == -1   \* a byte of the buffer that has never been written

\* What the constructor leaves of an object: m_buffer is not initialised.
New(c) == [hash |-> <<>>, numBytes |-> 0, bufferSize |-> 0,
           buffer |-> [i \in 1..c.blockSize |-> Junk]]

Reset(c, o) == [o EXCEPT !.hash = <<>>, !.numBytes = 0, !.bufferSize = 0]

ProcessBlock(o, block) == [o EXCEPT !.hash = Append(@, block)]

\* Bytes copied into the buffer behind those that are there.
Fill(o, bytes) ==
  [o EXCEPT !.buffer = [i \in DOMAIN @ |->
                          IF i - o.bufferSize \in DOMAIN bytes THEN bytes[i - o.bufferSize] ELSE @[i]],
            !.bufferSize = @ + Len(bytes)]

\* Mutant of Flush: the bytes are not counted.
FlushUncounted(c, o) ==
  IF o.bufferSize = c.blockSize
    THEN [ProcessBlock(o, o.buffer) EXCEPT !.bufferSize = 0]
    ELSE o

\* A full buffer is compressed.
Flush(c, o) ==
  IF o.bufferSize = c.blockSize
    THEN [ProcessBlock(o, o.buffer) EXCEPT !.numBytes = @ + c.blockSize, !.bufferSize = 0]
    ELSE o

\* Mutant of Add: a last whole block stays in the buffer.
AddLazily(c, o, data) ==
  LET room == c.blockSize - o.bufferSize
      taken == IF o.bufferSize = 0 THEN 0 ELSE IF Len(data) < room THEN Len(data) ELSE room
      topped == Flush(c, Fill(o, SubSeq(data, 1, taken)))
      whole == (Len(data) - taken - 1) \div c.blockSize
      Block(k) == SubSeq(data, taken + (k - 1) * c.blockSize + 1, taken + k * c.blockSize)
      absorbed == [topped EXCEPT !.hash = @ \o [k \in 1..whole |-> Block(k)],
                                 !.numBytes = @ + whole * c.blockSize]
  IN  IF taken = Len(data) THEN topped
      ELSE Fill(absorbed, SubSeq(data, taken + whole * c.blockSize + 1, Len(data)))

\* add(): top up a buffer that has been begun, compress whole blocks where they
\* are, keep the rest.
Add(c, o, data) ==
  LET room == c.blockSize - o.bufferSize
      taken == IF o.bufferSize = 0 THEN 0 ELSE IF Len(data) < room THEN Len(data) ELSE room
      topped == Flush(c, Fill(o, SubSeq(data, 1, taken)))
      whole == (Len(data) - taken) \div c.blockSize
      Block(k) == SubSeq(data, taken + (k - 1) * c.blockSize + 1, taken + k * c.blockSize)
      absorbed == [topped EXCEPT !.hash = @ \o [k \in 1..whole |-> Block(k)],
                                 !.numBytes = @ + whole * c.blockSize]
  IN  IF taken = Len(data) THEN topped
      ELSE Fill(absorbed, SubSeq(data, taken + whole * c.blockSize + 1, Len(data)))
-----------------------------------------------------------------------------
\* Byte number k, from the least significant, of a 64-bit count: of its lower or of
\* its upper half.
ByteOf(bits, k) ==
  LET half == IF k > 3 THEN (bits \div 65536) \div 65536 ELSE bits
  IN  (half \div 256^(k % 4)) % 256

LengthByte(c, bits, k) == ByteOf(bits, IF c.bigEndian THEN 8 - k ELSE k - 1)

\* Mutant of PaddedLength: off by one byte.
PaddedLengthLate(bufferSize) ==
  LET bits == bufferSize * 8 + 1
      lower11Bits == bits % 512
  IN  (bits + (IF lower11Bits <= 456 THEN 448 ELSE 512 + 448) - lower11Bits) \div 8

\* The bytes before the length: one bit and zeros up to 448 modulo 512 bits.
PaddedLength(bufferSize) ==
  LET bits == bufferSize * 8 + 1
      lower11Bits == bits % 512
  IN  (bits + (IF lower11Bits <= 448 THEN 448 ELSE 512 + 448) - lower11Bits) \div 8

\* processBuffer() of MD5, SHA1 and SHA256.  The padding ends with the length,
\* in m_buffer or, if there is no room for it, in a second block.
PadWithLength(c, o) ==
  LET paddedLength == PaddedLength(o.bufferSize)
      msgBits == 8 * (o.numBytes + o.bufferSize)
      Padded(i) == CASE i <= o.bufferSize -> o.buffer[i]
                     [] i = o.bufferSize + 1 -> c.mark
                     [] i \in (o.bufferSize + 2)..paddedLength -> 0
                     [] OTHER -> LengthByte(c, msgBits, i - paddedLength)
      first == [o EXCEPT !.buffer = [i \in 1..c.blockSize |-> Padded(i)]]
      extra == [i \in 1..c.blockSize |-> Padded(c.blockSize + i)]
  IN  IF paddedLength > c.blockSize
        THEN ProcessBlock(ProcessBlock(first, first.buffer), extra)
        ELSE ProcessBlock(first, first.buffer)

\* processBuffer() of Keccak and SHA3: the mark, zeros, and a bit in the last byte,
\* which may be the byte of the mark.
PadSponge(c, o) ==
  LET Padded(i) == IF i <= o.bufferSize THEN o.buffer[i]
                   ELSE (IF i = o.bufferSize + 1 THEN c.mark ELSE 0)
                      + (IF i = c.blockSize THEN 128 ELSE 0)
      padded == [o EXCEPT !.buffer = [i \in 1..c.blockSize |-> Padded(i)]]
  IN  ProcessBlock(padded, padded.buffer)

ProcessBuffer(c, o) == IF c.sponge THEN PadSponge(c, o) ELSE PadWithLength(c, o)

\* getHash(): its value, and the object it leaves: m_hash is restored, the padding
\* stays in m_buffer.
Digest(c, o) == ProcessBuffer(c, o).hash

AfterGetHash(c, o) == [ProcessBuffer(c, o) EXCEPT !.hash = o.hash]

=============================================================================
