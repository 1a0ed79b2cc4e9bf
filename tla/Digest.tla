------------------------------- MODULE Digest -------------------------------
(***************************************************************************)
(* src/md5.c, src/sha1.c and src/sha256.c, what they do before the bits:   *)
(* a message that comes in pieces is cut into blocks, padded and closed    *)
(* with its length.  sha1 and sha256 do this alike.  A block has Block     *)
(* places of a byte, 64 in the code, but for the last eight, which hold    *)
(* the length and are one place here.  What is done to a block is not told *)
(* apart: the digest is the sequence of the blocks.                        *)
(*                                                                         *)
(* A definition named X_Y is a slip one could make in X; the specification *)
(* does not use it.                                                        *)
(***************************************************************************)
EXTENDS Integers, SequencesExt

CONSTANTS Block,      \* the places of a block
          Low,        \* the values of a word of 32 bits
          Word,       \* the values of UINT4: Low, or its square where a long has 64 bits
          Bytes, Pieces,
          MaxMsg      \* a bound on the message

\* Like 64 and 2^32: a word counts whole blocks.
DigestAssumption == /\ Block \in Nat \ {0, 1} /\ 0 \notin Bytes
                    /\ Low % (8 * Block) = 0 /\ Word \in {Low, Low * Low}

VARIABLES alg,        \* "md5" or "sha"
          buf,        \* in of MD5_CTX, data of SHA1_CTX and SHA256_CTX
          i,          \* MD5_CTX: the bits so far, in two words
          datalen,    \* the SHA contexts: the bytes in data
          bitlen,     \*    and the bits in the blocks before
          blocks,     \* what has been transformed
          msg,        \* history: the message
          done        \* has it been closed?

digestVars == <<alg, buf, i, datalen, bitlen, blocks, msg, done>>

\* MD5Init, sha1_init and sha256_init; the buffer holds what the memory held.
Init == /\ alg \in {"md5", "sha"}
        /\ buf \in {[k \in 1 .. Block |-> b] : b \in Bytes}
        /\ i = <<0, 0>> /\ datalen = 0 /\ bitlen = 0
        /\ blocks = <<>> /\ msg = <<>> /\ done = FALSE

\* One byte more goes into a context c of buf, place and blocks.
Filled(c, byte) ==
    LET b == [c.buf EXCEPT ![c.at + 1] = byte]
    IN  IF c.at + 1 = Block THEN [buf |-> b, at |-> 0, blocks |-> c.blocks \o b]
        ELSE [buf |-> b, at |-> c.at + 1, blocks |-> c.blocks]
Fed(c, bytes) == FoldLeft(Filled, c, bytes)

\* The words after more bytes: a carry where the first wraps, and what of the new
\* bits is beyond 32.
Counted(bytes) ==
    LET low == i[1] + ((8 * bytes) % Word)
    IN  <<low % Word, (i[2] + (low \div Word) + ((8 * bytes) \div Low)) % Word>>

mdi == (i[1] \div 8) % Block

MD5Update(piece) ==
    LET c == Fed([buf |-> buf, at |-> mdi, blocks |-> blocks], piece)
    IN  /\ alg = "md5" /\ ~done /\ Len(msg) + Len(piece) <= MaxMsg
        /\ buf' = c.buf /\ blocks' = c.blocks /\ i' = Counted(Len(piece))
        /\ msg' = msg \o piece
        /\ UNCHANGED <<alg, datalen, bitlen, done>>

Zeros(n) == [k \in 1 .. n |-> 0]
PADDING(n) == <<128>> \o Zeros(n - 1)

\* The words are saved before the padding is counted too.
MD5Final ==
    LET padLen == IF mdi < Block - 1 THEN Block - 1 - mdi ELSE 2 * Block - 1 - mdi
        c == Fed([buf |-> buf, at |-> mdi, blocks |-> blocks], PADDING(padLen))
    IN  /\ alg = "md5" /\ ~done
        /\ buf' = c.buf /\ i' = Counted(padLen)
        /\ blocks' = c.blocks \o [c.buf EXCEPT ![Block] = i[1] + Low * i[2]]
        /\ done' = TRUE
        /\ UNCHANGED <<alg, datalen, bitlen, msg>>

\* sha1_update and sha256_update; bitlen has 64 bits, which no message fills.
sha_update(piece) ==
    LET c == Fed([buf |-> buf, at |-> datalen, blocks |-> blocks], piece)
    IN  /\ alg = "sha" /\ ~done /\ Len(msg) + Len(piece) <= MaxMsg
        /\ buf' = c.buf /\ blocks' = c.blocks /\ datalen' = c.at
        /\ bitlen' = bitlen + 8 * (Len(c.blocks) - Len(blocks))
        /\ msg' = msg \o piece
        /\ UNCHANGED <<alg, i, done>>

\* The buffer from datalen on, with the padding up to a place.
PaddedTo(n) == [k \in 1 .. Block |-> IF k = datalen + 1 THEN 128
                                     ELSE IF k \in datalen + 2 .. n THEN 0 ELSE buf[k]]

\* Where the padding leaves no room for the length another block follows, cleared.
Closing_NotCleared ==
    IF datalen < Block - 1 THEN [before |-> <<>>, last |-> PaddedTo(Block - 1)]
    ELSE [before |-> PaddedTo(Block), last |-> PaddedTo(Block)]
Closing ==
    IF datalen < Block - 1 THEN [before |-> <<>>, last |-> PaddedTo(Block - 1)]
    ELSE [before |-> PaddedTo(Block), last |-> Zeros(Block)]

\* sha1_final and sha256_final.
sha_final ==
    /\ alg = "sha" /\ ~done
    /\ bitlen' = bitlen + 8 * datalen
    /\ buf' = [Closing.last EXCEPT ![Block] = bitlen']
    /\ blocks' = blocks \o Closing.before \o buf'
    /\ done' = TRUE
    /\ UNCHANGED <<alg, i, datalen, msg>>

Next == \/ \E p \in Pieces : MD5Update(p) \/ sha_update(p)
        \/ MD5Final \/ sha_final

Spec == Init /\ [][Next]_digestVars
-----------------------------------------------------------------------------
\* The message, a one bit, as many zeros as bring the length to the end of a
\* block, and the length: RFC 1321 and FIPS 180.
Padded(m) ==
    LET zeros == CHOOSE z \in 0 .. Block - 1 : (Len(m) + 1 + z) % Block = Block - 1
    IN  m \o <<128>> \o Zeros(zeros) \o <<8 * Len(m)>>

\* However a message is cut into pieces, and whatever the buffer held before, what
\* has been transformed is the message so far, and in the end the message padded.
BlocksSpellMessage ==
    IF done THEN blocks = Padded(msg)
    ELSE blocks = SubSeq(msg, 1, Len(msg) - (Len(msg) % Block))

\* md5.h calls UINT4 "a 32 bit type", and says of i: "number of _bits_ handled mod
\* 2^64".  So the two words spell the number of bits of the message.
CountsBits == alg = "md5" /\ ~done => /\ i[1] < Low /\ i[2] < Low
                                      /\ i[1] + Low * i[2] = (8 * Len(msg)) % (Low * Low)
=============================================================================
