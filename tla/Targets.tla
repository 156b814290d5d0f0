------------------------------- MODULE Targets -------------------------------
(***************************************************************************)
(* Hashes, difficulties and targets: CheckHashDifficulty                   *)
(* (stratum/difficulty.go), compact targets (dsha256/calc_target.go) and   *)
(* the target of a job (util/util.go).                                     *)
(*                                                                         *)
(* The code works on 32 bytes and on words of 64 bits; here a hash has     *)
(* four words of WordLen digits to the base Byte, and every power of two   *)
(* of the code is one of Byte or Half.  Shifts and masks are \div and %.   *)
(***************************************************************************)
EXTENDS Integers, Sequences, Functions

CONSTANTS
    Byte,               \* 256
    WordLen,            \* bytes in a word (8)
    Half,               \* half a word (2^32)
    ZeroBytes,          \* leading zero bytes of maxTarget (4)
    TargetLen           \* bytes of a target that a job is sent with (4)

HashLen == 4 * WordLen

\* A shift by n bytes.
Power[n \in 0 .. HashLen] == IF n = 0 THEN 1 ELSE Byte * Power[n - 1]

ASSUME TargetsAssumption ==
    /\ Byte \in Nat /\ Byte >= 2
    /\ WordLen \in Nat \ {0}
    /\ Half \in Nat \ {0} /\ Half * Half = Power[WordLen]
    /\ ZeroBytes \in 0 .. HashLen - 1 /\ TargetLen \in 1 .. HashLen

Word == Half * Half
Words == 0 .. Word - 1
Hashes == [1 .. HashLen -> 0 .. Byte - 1]

LittleEndian(bytes) ==
    SumFunction([n \in DOMAIN bytes |-> bytes[n] * Power[n - 1]])
BigEndian(bytes) ==
    SumFunction([n \in DOMAIN bytes |-> bytes[n] * Power[Len(bytes) - n]])

-----------------------------------------------------------------------------
(* Is hash * difficulty below 2^256?                                         *)

Hi(v) == v \div Half            \* >> 32
Lo(v) == v % Half               \* & 0xffffffff

\* The product of two words, from those of their halves.  mid << 32 drops the
\* upper half of mid, which goes to hi.
Mul128(x, y) ==
    LET hihi == Hi(x) * Hi(y)
        lolo == Lo(x) * Lo(y)
        lohi == Lo(x) * Hi(y)
        hilo == Hi(x) * Lo(y)
        mid == Hi(lolo) + Lo(lohi) + Lo(hilo)
    IN  [lo |-> Lo(mid) * Half + Lo(lolo),
         hi |-> (hihi + Hi(lohi) + Hi(hilo) + Hi(mid)) % Word]

\* Mutant: a carry that meets a word full of ones is lost.
CarryStops(cur, low, carry) == (cur + low) % Word < cur

\* Whether cur + low + carry overflows, told from cur + low in 64 bits.
Carry(cur, low, carry) ==
    LET sum == (cur + low) % Word
    IN  sum < cur \/ (carry /\ sum = Word - 1)

\* The four words of a hash, the least significant one first.
Meets(w, diff) ==
    LET p == [k \in 1 .. 4 |-> Mul128(w[k], diff)]
        carry2 == Carry(p[1].hi, p[2].lo, FALSE)
        carry3 == Carry(p[2].hi, p[3].lo, carry2)
    IN  /\ p[4].hi = 0
        /\ ~Carry(p[3].hi, p[4].lo, carry3)

Uint64(hash, k) == LittleEndian(SubSeq(hash, WordLen * (k - 1) + 1,
                                       WordLen * k))

CheckHashDifficulty(hash, diff) ==
    Meets([k \in 1 .. 4 |-> Uint64(hash, k)], diff)

-----------------------------------------------------------------------------
(* Targets.  A division by a difficulty of 0 panics.                         *)

MaxTarget == Power[HashLen - ZeroBytes] - 1
DiffToTarget(diff) == MaxTarget \div diff

\* len(b.Bytes()): a number has no leading zero bytes.
ByteCount(v) ==
    CHOOSE n \in 0 .. HashLen : v < Power[n] /\ (n = 0 \/ v >= Power[n - 1])

\* 0x00800000, the top bit of the three bytes of the mantissa.
SignBit == Power[3] \div 2

\* Mutant: the mantissa keeps the sign bit.
GetCompactSigned(v) ==
    LET size == ByteCount(v)
    IN  [size |-> size,
         mantissa |-> IF size <= 3 THEN v * Power[3 - size]
                      ELSE v \div Power[size - 3]]

\* A target in 32 bits: size << 24 | mantissa.
GetCompact(v) ==
    LET size == ByteCount(v)
        mantissa == IF size <= 3 THEN v * Power[3 - size]
                    ELSE v \div Power[size - 3]
    IN  IF mantissa >= SignBit
        THEN [size |-> size + 1, mantissa |-> mantissa \div Byte]
        ELSE [size |-> size, mantissa |-> mantissa]

SetCompact(c) ==
    LET word == c.mantissa % SignBit
        v == IF c.size <= 3 THEN word \div Power[3 - c.size]
             ELSE word * Power[c.size - 3]
    IN  IF c.mantissa >= SignBit THEN -v ELSE v

\* GetTargetHex: the first bytes of (2^256 - 1) / diff.  The bytes are sent
\* the other way round, for a reader of little-endian numbers.
JobTarget(diff) ==
    ((Power[HashLen] - 1) \div diff) \div Power[HashLen - TargetLen]

\* What a miner compares with it: the last bytes of the hash.
WithinJobTarget(hash, target) ==
    LittleEndian(SubSeq(hash, HashLen - TargetLen + 1, HashLen)) < target
=============================================================================
