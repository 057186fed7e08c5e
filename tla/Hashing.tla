------------------------------- MODULE Hashing -------------------------------
(***************************************************************************)
(* One object of a class of common/hash-library and whatever calls its     *)
(* user makes: add() of pieces of any size, getHash() in between, reset(), *)
(* the call operator, and the program digest, which reads a file in        *)
(* pieces.  hash_credentials makes its own object.                         *)
(***************************************************************************)
EXTENDS BlockHash, Crc32

CONSTANTS
  Variants,   \* bound: the sizes in bits of the sponges, of 224, 256, 384 and 512
  ReadSize,   \* bound: BufferSize of digest, 144*7*1024 in the code
  Salts,      \* some of the values of generate_random_salt
  Texts       \* for every class, the messages, files and passphrases it is given

ASSUME VariantsAssumption == Variants \subseteq {224, 256, 384, 512}
ASSUME ReadSizeAssumption == ReadSize \in Nat \ {0}
ASSUME SaltsAssumption == \A salt \in Salts : salt \in Seq(0..255) /\ Len(salt) = 8

\* blockSize: what add() takes at a time.
CRC32 == [name |-> "CRC32", blockSize |-> 8]

Classes ==
  {CRC32, MD5, SHA1, SHA256} \cup {Keccak(b) : b \in Variants} \cup {SHA3(b) : b \in Variants}

ASSUME TextsAssumption == \A c \in Classes : Texts[c] \subseteq Seq(0..255)

VARIABLES
  class,    \* the class of the object
  obj,      \* the object
  msg,      \* history: the bytes added since reset()
  result    \* <<m, digest>>: what a call that has just returned gave for m

hashVars == <<class, obj, msg, result>>

None == <<>>
-----------------------------------------------------------------------------
\* The methods, of either kind of class.
Constructed(c) == IF c = CRC32 THEN CrcReset ELSE New(c)
ResetOf(c, o) == IF c = CRC32 THEN CrcReset ELSE Reset(c, o)
Added(c, o, data) == IF c = CRC32 THEN CrcAdd(o, data) ELSE Add(c, o, data)
HashOf(c, o) == IF c = CRC32 THEN o ELSE Digest(c, o)
AfterHash(c, o) == IF c = CRC32 THEN o ELSE AfterGetHash(c, o)

\* The next piece is any bytes with which the message so far becomes text.
AddPiece(text) ==
  LET data == SubSeq(text, Len(msg) + 1, Len(text))
  IN  /\ Len(msg) <= Len(text)
      /\ text = msg \o data
      /\ obj' = Added(class, obj, data)
      /\ msg' = text
      /\ result' = None

GetHash ==
  /\ result' = <<msg, HashOf(class, obj)>>
  /\ obj' = AfterHash(class, obj)
  /\ UNCHANGED msg

ResetObject ==
  /\ obj' = ResetOf(class, obj)
  /\ msg' = <<>>
  /\ result' = None

\* operator(): reset, add, getHash.
CallOperator(data) ==
  LET added == Added(class, ResetOf(class, obj), data)
  IN  /\ msg' = data
      /\ result' = <<data, HashOf(class, added)>>
      /\ obj' = AfterHash(class, added)

Methods ==
  \/ \E text \in Texts[class] : AddPiece(text) \/ CallOperator(text)
  \/ GetHash \/ ResetObject

\* The classes one by one.  Their methods read alike; what differs is in the
\* record of the class.
Crc32Methods == class = CRC32 /\ Methods
Md5Methods == class = MD5 /\ Methods
Sha1Methods == class = SHA1 /\ Methods
Sha256Methods == class = SHA256 /\ Methods
KeccakMethods == class.name = "Keccak" /\ Methods
Sha3Methods == class.name = "SHA3" /\ Methods
-----------------------------------------------------------------------------
\* The pieces in which digest reads a file: full buffers, and a last one that is
\* shorter or empty, after which the stream has failed.
Reads(file) ==
  [k \in 1..(Len(file) \div ReadSize + 1) |->
     SubSeq(file, (k - 1) * ReadSize + 1,
            IF k * ReadSize < Len(file) THEN k * ReadSize ELSE Len(file))]

\* The main loop of digest for one of its objects.
AddAll(c, o, pieces) ==
  LET after[k \in 0..Len(pieces)] ==
        IF k = 0 THEN o ELSE Added(c, after[k - 1], pieces[k])
  IN  after[Len(pieces)]

DigestFile(file) ==
  LET read == AddAll(class, Constructed(class), Reads(file))
  IN  /\ class \in {CRC32, MD5, SHA1, SHA256, Keccak(256), SHA3(256)}
      /\ obj' = AfterHash(class, read)
      /\ msg' = file
      /\ result' = <<file, HashOf(class, read)>>

Colon == 58

\* hash_credentials: "{passphrase}:{salt}" to a new SHA256.
HashCredentials(passphrase) ==
  /\ class = SHA256
  /\ \E salt \in Salts :
       LET text == passphrase \o <<Colon>> \o salt
       IN  result' = <<text, Digest(SHA256, Add(SHA256, Reset(SHA256, New(SHA256)), text))>>
  /\ UNCHANGED <<obj, msg>>
-----------------------------------------------------------------------------
HashInit ==
  /\ class \in Classes
  /\ obj = Constructed(class)
  /\ msg = <<>>
  /\ result = None

HashNext ==
  /\ \/ Crc32Methods \/ Md5Methods \/ Sha1Methods \/ Sha256Methods
     \/ KeccakMethods \/ Sha3Methods
     \/ \E text \in Texts[class] : DigestFile(text) \/ HashCredentials(text)
  /\ UNCHANGED class

HashSpec == HashInit /\ [][HashNext]_hashVars
-----------------------------------------------------------------------------
(***************************************************************************)
(* Properties.                                                             *)
(***************************************************************************)
\* Every variable has its type; the buffer of a block digest is never full
\* between two calls, so that there is always room for the first byte of padding.
HashTypeOK ==
  /\ class \in Classes
  /\ msg \in Seq(0..255)
  /\ IF class = CRC32 THEN obj \subseteq 0..31
     ELSE /\ obj.bufferSize \in 0..(class.blockSize - 1)
          /\ obj.numBytes \in Nat
          /\ obj.buffer \in [1..class.blockSize -> {Junk} \cup 0..255]
          /\ obj.hash \in Seq([1..class.blockSize -> 0..255])

\* The object is a function of the bytes added since reset(), however they were
\* cut into pieces and whatever hashes were asked for in between: the blocks
\* compressed are the message's, in order, the buffer holds the rest, and
\* m_numBytes counts the compressed bytes.  The CRC agrees with the bitwise one.
Absorbed ==
  IF class = CRC32 THEN obj = CrcReference(msg)
  ELSE LET b == class.blockSize
           whole == Len(obj.hash)
       IN  /\ Len(msg) = whole * b + obj.bufferSize
           /\ obj.numBytes = whole * b
           /\ \A k \in 1..whole, i \in 1..b : obj.hash[k][i] = msg[(k - 1) * b + i]
           /\ \A i \in 1..obj.bufferSize : obj.buffer[i] = msg[whole * b + i]

\* The padded message of RFC 1321 and FIPS 180 (the length in the last eight
\* bytes of a block), and of the sponges (10*1), cut into blocks.
Padded(c, m) ==
  LET b == c.blockSize
      n == Len(m)
      total == b * ((n + (IF c.sponge THEN 0 ELSE 8)) \div b + 1)
      At(j) == IF j <= n THEN m[j]
               ELSE IF j = n + 1 /\ j = total THEN c.mark + 128
               ELSE IF j = n + 1 THEN c.mark
               ELSE IF c.sponge THEN (IF j = total THEN 128 ELSE 0)
               ELSE IF j <= total - 8 THEN 0
               ELSE LengthByte(c, 8 * n, j - (total - 8))
  IN  [k \in 1..(total \div b) |-> [i \in 1..b |-> At((k - 1) * b + i)]]

Reference(c, m) == IF c = CRC32 THEN CrcReference(m) ELSE Padded(c, m)

\* Every digest the library returns, from getHash, the call operator, the program
\* digest or hash_credentials, is that of the padded message: a length on either
\* side of a block's end, earlier calls of getHash that left padding in m_buffer,
\* and bytes never written make no difference.
DigestsRight == result # None => result[2] = Reference(class, result[1])
=============================================================================
