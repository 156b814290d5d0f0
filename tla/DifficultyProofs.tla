-------------------------- MODULE DifficultyProofs --------------------------
(***************************************************************************)
(* Proofs about Targets.tla, for words and hashes of every width:          *)
(*  - the product of two words made from those of their halves is exact,   *)
(*    and CheckHashDifficulty accepts a hash exactly when it times the     *)
(*    difficulty is below 2^256, although it adds the partial products     *)
(*    with carries only;                                                   *)
(*  - a hash within the target of a job passes that check;                 *)
(*  - SetCompact undoes GetCompact but for less than one part in Precision.*)
(*                                                                         *)
(* Proofs about Difficulty.tla, for any configurations, number of pushes,  *)
(* clock and rate: a difficulty stays in the port's range, a session that  *)
(* prepares its first job undisturbed never meets the difficulty 0 that it *)
(* begins with, every verdict on a share is the one its number calls for,  *)
(* and a share within the target of its job, of the header that goes with  *)
(* that target, is not refused.                                            *)
(***************************************************************************)
EXTENDS Difficulty, Sums, SequenceTheorems

-----------------------------------------------------------------------------
(* Targets: arithmetic.                                                      *)

LEMMA HalfType == Half \in Nat /\ Half > 0 /\ Word \in Nat /\ Word > 0
<1>1. Half \in Nat /\ Half > 0
  BY TargetsAssumption
<1>2. \A h \in Nat : h > 0 => h * h \in Nat /\ h * h > 0
  OBVIOUS
<1> QED
  BY <1>1, <1>2 DEF Word

LEMMA DivMod ==
  ASSUME NEW a \in Nat, NEW h \in Nat, h > 0
  PROVE  /\ a \div h \in Nat /\ a % h \in 0 .. h - 1
         /\ a = h * (a \div h) + (a % h)
<1>1. a \div h >= 0 /\ a \div h \in Int
  OBVIOUS
<1>2. a % h \in 0 .. h - 1
  OBVIOUS
<1>3. \A n, m \in Int : m > 0 => n = m * (n \div m) + (n % m)
  BY Z3
<1> QED
  BY <1>1, <1>2, <1>3

LEMMA Distribute ==
  ASSUME NEW a \in Int, NEW b \in Int, NEW c \in Int
  PROVE  a * (b + c) = a * b + a * c
OBVIOUS

LEMMA TimesType ==
  ASSUME NEW a \in Nat, NEW b \in Nat
  PROVE  a * b \in Nat
OBVIOUS

LEMMA TimesMonotone ==
  ASSUME NEW a \in Nat, NEW b \in Int, NEW c \in Int, b <= c
  PROVE  a * b <= a * c
OBVIOUS

-----------------------------------------------------------------------------
(* The product of two words.                                                 *)

\* A sum of products, from the halves of its factors.
LEMMA ProductOfHalves ==
  ASSUME NEW h \in Nat, NEW a \in Nat, NEW b \in Nat, NEW c \in Nat,
         NEW d \in Nat
  PROVE  (h * a + b) * (h * c + d) =
            (h * h) * (a * c) + h * (b * c) + h * (a * d) + b * d
<1>1. (h * a + b) * (h * c + d) = (h * a + b) * (h * c) + (h * a + b) * d
  BY Distribute, TimesType
<1>2. (h * a + b) * d = h * (a * d) + b * d
  OBVIOUS
<1>3. (h * a + b) * (h * c) = (h * h) * (a * c) + h * (b * c)
  OBVIOUS
<1> QED
  BY <1>1, <1>2, <1>3

\* mul128 in numbers of any size: what is carried from the middle is not lost.
LEMMA MiddleCarries ==
  ASSUME NEW h \in Nat, h > 0, NEW lolo \in Nat, NEW lohi \in Nat,
         NEW hilo \in Nat, NEW hihi \in Nat, NEW mid \in Nat,
         mid = (lolo \div h) + (lohi % h) + (hilo % h)
  PROVE  ((mid % h) * h + (lolo % h)) +
            (h * h) * (hihi + (lohi \div h) + (hilo \div h) + (mid \div h))
         = (h * h) * hihi + h * lohi + h * hilo + lolo
<1> DEFINE a == lolo \div h    b == lolo % h
           c == lohi \div h    d == lohi % h
           e == hilo \div h    f == hilo % h
           p == mid \div h     q == mid % h
<1>1. /\ a \in Nat /\ b \in Nat /\ lolo = h * a + b
      /\ c \in Nat /\ d \in Nat /\ lohi = h * c + d
      /\ e \in Nat /\ f \in Nat /\ hilo = h * e + f
      /\ p \in Nat /\ q \in Nat /\ mid = h * p + q
  BY DivMod
<1>2. mid = a + d + f
  OBVIOUS
<1> HIDE DEF a, b, c, d, e, f, p, q
<1>3. h * lohi = (h * h) * c + h * d
  BY <1>1
<1>4. h * hilo = (h * h) * e + h * f
  BY <1>1
<1>5. h * mid = (h * h) * p + h * q
  BY <1>1
<1>6. h * mid = h * a + h * d + h * f
  BY <1>1, <1>2
<1>7. (h * h) * (hihi + c + e + p) =
         (h * h) * hihi + (h * h) * c + (h * h) * e + (h * h) * p
  BY <1>1
<1>8. q * h + b + (h * h) * (hihi + c + e + p)
        = (h * h) * hihi + h * lohi + h * hilo + lolo
  <2> DEFINE hh == h * h
  <2>1. /\ hh * hihi \in Int /\ hh * c \in Int /\ hh * e \in Int
        /\ hh * p \in Int /\ h * d \in Int /\ h * f \in Int /\ h * a \in Int
        /\ h * q \in Int /\ q * h = h * q
    BY <1>1
  <2> QED
    BY <1>1, <1>3, <1>4, <1>5, <1>6, <1>7, <2>1
<1> QED
  BY <1>8 DEF a, b, c, d, e, f, p, q

\* A number of two words whose value is below Word * Word has a high word.
LEMMA HighWord ==
  ASSUME NEW w \in Nat, w > 0, NEW lo \in Nat, NEW hi \in Nat,
         NEW v \in Nat, lo + w * hi = v, v < w * w
  PROVE  hi < w
<1> SUFFICES ASSUME hi >= w PROVE FALSE
  OBVIOUS
<1>1. w * hi >= w * w
  BY TimesMonotone
<1>2. w * hi \in Nat /\ w * w \in Nat
  BY TimesType
<1> QED
  BY <1>1, <1>2

LEMMA ProductOfWords ==
  ASSUME NEW w \in Nat, w > 0, NEW x \in 0 .. w - 1, NEW y \in 0 .. w - 1
  PROVE  x * y \in Nat /\ x * y < w * w
<1>1. x * y <= x * w
  BY TimesMonotone
<1>2. w * x <= w * (w - 1)
  BY TimesMonotone
<1>3. w * (w - 1) = w * w - w
  OBVIOUS
<1>4. x * w = w * x /\ x * y \in Nat /\ w * x \in Nat /\ w * w \in Nat
  BY TimesType
<1> QED
  BY <1>1, <1>2, <1>3, <1>4

\* mul128 loses nothing: the 64 bits that mid << 32 drops come back in hi, and
\* hi does not overflow (stratum/difficulty.go:19-33).
THEOREM Mul128IsExact ==
  ASSUME NEW x \in Words, NEW y \in Words
  PROVE  /\ Mul128(x, y).lo \in Words /\ Mul128(x, y).hi \in Words
         /\ Mul128(x, y).lo + Word * Mul128(x, y).hi = x * y
<1> DEFINE hihi == Hi(x) * Hi(y)
           lolo == Lo(x) * Lo(y)
           lohi == Lo(x) * Hi(y)
           hilo == Hi(x) * Lo(y)
           mid == Hi(lolo) + Lo(lohi) + Lo(hilo)
           low == Lo(mid) * Half + Lo(lolo)
           high == hihi + Hi(lohi) + Hi(hilo) + Hi(mid)
<1>1. /\ Mul128(x, y).lo = low
      /\ Mul128(x, y).hi = high % Word
  BY DEF Mul128
<1>2. \A v \in Nat : /\ Hi(v) \in Nat /\ Lo(v) \in 0 .. Half - 1
                     /\ v = Half * Hi(v) + Lo(v)
  BY HalfType, DivMod DEF Hi, Lo
<1>3. x \in Nat /\ y \in Nat
  BY DEF Words
<1>4. /\ hihi \in Nat /\ lolo \in Nat /\ lohi \in Nat /\ hilo \in Nat
      /\ mid \in Nat
  <2>1. /\ Hi(x) \in Nat /\ Lo(x) \in Nat /\ Hi(y) \in Nat /\ Lo(y) \in Nat
    BY <1>2, <1>3
  <2>2. /\ hihi \in Nat /\ lolo \in Nat /\ lohi \in Nat /\ hilo \in Nat
    BY <2>1, TimesType
  <2>3. Hi(lolo) \in Nat /\ Lo(lohi) \in Nat /\ Lo(hilo) \in Nat
    BY <1>2, <2>2
  <2> QED
    BY <2>2, <2>3
<1>5. low + Word * high = x * y
  <2>1. low + Word * high = Word * hihi + Half * lohi + Half * hilo + lolo
    <3> HIDE DEF hihi, lolo, lohi, hilo
    <3> QED
      BY <1>4, HalfType, MiddleCarries DEF Word, Hi, Lo
  <2>2. x * y = Word * hihi + Half * lohi + Half * hilo + lolo
    <3>1. /\ x = Half * Hi(x) + Lo(x) /\ y = Half * Hi(y) + Lo(y)
          /\ Hi(x) \in Nat /\ Lo(x) \in Nat /\ Hi(y) \in Nat /\ Lo(y) \in Nat
      BY <1>2, <1>3
    <3>2. (Half * Hi(x) + Lo(x)) * (Half * Hi(y) + Lo(y)) =
             (Half * Half) * (Hi(x) * Hi(y)) + Half * (Lo(x) * Hi(y)) +
                Half * (Hi(x) * Lo(y)) + Lo(x) * Lo(y)
      BY <3>1, HalfType, ProductOfHalves
    <3> QED
      BY <3>1, <3>2 DEF Word
  <2> QED
    BY <2>1, <2>2
<1>6. low \in Words
  <2>1. Lo(mid) \in 0 .. Half - 1 /\ Lo(lolo) \in 0 .. Half - 1
    BY <1>2, <1>4
  <2>2. Half * Lo(mid) <= Half * (Half - 1)
    BY <2>1, HalfType, TimesMonotone
  <2>3. Half * (Half - 1) = Half * Half - Half
    BY HalfType
  <2>4. /\ Half * Lo(mid) \in Nat /\ Lo(mid) * Half = Half * Lo(mid)
        /\ Half * Half \in Nat
    BY <2>1, HalfType, TimesType
  <2> QED
    BY <2>1, <2>2, <2>3, <2>4, HalfType DEF Words, Word
<1>7. high \in Nat
  BY <1>2, <1>4
<1>8. high < Word
  <2>1. x * y \in Nat /\ x * y < Word * Word
    BY ProductOfWords, HalfType DEF Words
  <2>2. low \in Nat
    BY <1>6 DEF Words
  <2> HIDE DEF low, high
  <2> QED
    BY <1>5, <1>7, <2>1, <2>2, HighWord, HalfType
<1>9. high % Word = high
  <2> HIDE DEF high
  <2> QED
    BY <1>7, <1>8, HalfType, DivMod
<1> HIDE DEF low, high
<1> QED
  BY <1>1, <1>5, <1>6, <1>7, <1>8, <1>9, HalfType DEF Words

-----------------------------------------------------------------------------
(* The sum of the four products.                                             *)

Bit(b) == IF b THEN 1 ELSE 0

\* A carry is told from the sum without it.
LEMMA CarryIs ==
  ASSUME NEW cur \in Words, NEW low \in Words, NEW carry \in BOOLEAN
  PROVE  /\ Carry(cur, low, carry) \in BOOLEAN
         /\ Carry(cur, low, carry) <=> cur + low + Bit(carry) >= Word
<1> DEFINE sum == (cur + low) % Word
<1>1. cur \in Nat /\ low \in Nat /\ cur < Word /\ low < Word
  BY HalfType DEF Words
<1>2. sum = IF cur + low >= Word THEN cur + low - Word ELSE cur + low
  <2>1. /\ cur + low \in Nat
        /\ sum \in 0 .. Word - 1
        /\ cur + low = Word * ((cur + low) \div Word) + sum
        /\ (cur + low) \div Word \in Nat
    BY <1>1, HalfType, DivMod
  <2>2. (cur + low) \div Word \in {0, 1}
    <3> DEFINE q == (cur + low) \div Word
    <3> HIDE DEF q
    <3>1. SUFFICES ASSUME q >= 2 PROVE FALSE
      BY <2>1 DEF q
    <3>2. q \in Nat
      BY <2>1 DEF q
    <3>3. Word * 2 <= Word * q
      BY <3>1, <3>2, HalfType, TimesMonotone
    <3>4. Word * q \in Nat
      BY <3>2, HalfType, TimesType
    <3> QED
      BY <1>1, <2>1, <3>3, <3>4, HalfType DEF q
  <2> QED
    BY <1>1, <2>1, <2>2, HalfType
<1> HIDE DEF sum
<1> QED
  BY <1>1, <1>2, HalfType DEF Carry, Bit, sum

LEMMA CarrySplits ==
  ASSUME NEW cur \in Words, NEW low \in Words, NEW carry \in BOOLEAN
  PROVE  \E rest \in Words :
            cur + low + Bit(carry) = rest + Word * Bit(Carry(cur, low, carry))
<1>1. cur \in Nat /\ low \in Nat /\ cur < Word /\ low < Word
  BY HalfType DEF Words
<1>2. CASE cur + low + Bit(carry) >= Word
  <2>1. Word * Bit(Carry(cur, low, carry)) = Word
    BY <1>2, CarryIs, HalfType DEF Bit
  <2>2. cur + low + Bit(carry) - Word \in Words
    BY <1>1, <1>2, HalfType DEF Words, Bit
  <2> QED
    BY <1>1, <2>1, <2>2, HalfType DEF Words, Bit
<1>3. CASE ~(cur + low + Bit(carry) >= Word)
  <2>1. Word * Bit(Carry(cur, low, carry)) = 0
    BY <1>3, CarryIs, HalfType DEF Bit
  <2>2. cur + low + Bit(carry) \in Words
    BY <1>1, <1>3, HalfType DEF Words, Bit
  <2> QED
    BY <2>1, <2>2, <1>1 DEF Words, Bit
<1> QED
  BY <1>2, <1>3

\* A digit does not decide a comparison with a multiple of the base.
LEMMA DropDigit ==
  ASSUME NEW w \in Nat, w > 0, NEW digit \in 0 .. w - 1, NEW r \in Nat,
         NEW n \in Nat
  PROVE  digit + w * r < w * n <=> r < n
<1>1. w * r \in Nat /\ w * n \in Nat
  BY TimesType
<1>2. CASE r < n
  <2>1. w * (r + 1) <= w * n
    BY <1>2, TimesMonotone
  <2>2. w * (r + 1) = w * r + w
    OBVIOUS
  <2> QED
    BY <1>1, <1>2, <2>1, <2>2
<1>3. CASE r >= n
  <2>1. w * n <= w * r
    BY <1>3, TimesMonotone
  <2> QED
    BY <1>1, <1>3, <2>1
<1> QED
  BY <1>2, <1>3

\* The number that four words stand for, and 2^256.
Value(w) == w[1] + Word * (w[2] + Word * (w[3] + Word * w[4]))
TwoTo256 == Word * (Word * (Word * Word))

\* CheckHashDifficulty accepts a hash exactly when hash * difficulty is below
\* 2^256 (stratum/difficulty.go:70), whatever the width of a word: no carry from
\* one product into the next is lost.
THEOREM CheckIsExact ==
  ASSUME NEW w \in [1 .. 4 -> Words], NEW diff \in Words
  PROVE  Meets(w, diff) <=> Value(w) * diff < TwoTo256
<1> DEFINE l(k) == Mul128(w[k], diff).lo
           h(k) == Mul128(w[k], diff).hi
           c2 == Carry(h(1), l(2), FALSE)
           c3 == Carry(h(2), l(3), c2)
           c4 == Carry(h(3), l(4), c3)
<1>1. Meets(w, diff) <=> h(4) = 0 /\ ~c4
  BY DEF Meets
<1>2. \A k \in 1 .. 4 : /\ l(k) \in Words /\ h(k) \in Words
                        /\ l(k) + Word * h(k) = w[k] * diff
  BY Mul128IsExact
<1> HIDE DEF l, h
<1>words. /\ l(1) \in Words /\ l(2) \in Words /\ l(3) \in Words /\ l(4) \in Words
      /\ h(1) \in Words /\ h(2) \in Words /\ h(3) \in Words /\ h(4) \in Words
  BY <1>2
<1>products. /\ l(1) + Word * h(1) = w[1] * diff /\ l(2) + Word * h(2) = w[2] * diff
      /\ l(3) + Word * h(3) = w[3] * diff /\ l(4) + Word * h(4) = w[4] * diff
  BY <1>2
<1>3. c2 \in BOOLEAN /\ c3 \in BOOLEAN /\ c4 \in BOOLEAN
  <2>1. c2 \in BOOLEAN
    BY <1>words, CarryIs
  <2> HIDE DEF c2
  <2>2. c3 \in BOOLEAN
    BY <1>words, <2>1, CarryIs
  <2> HIDE DEF c3
  <2> QED
    BY <1>words, <2>1, <2>2, CarryIs
<1>4. PICK r2 \in Words : h(1) + l(2) = r2 + Word * Bit(c2)
  <2>1. \E rest \in Words :
            h(1) + l(2) + Bit(FALSE) = rest + Word * Bit(c2)
    BY <1>words, CarrySplits
  <2>2. h(1) + l(2) + Bit(FALSE) = h(1) + l(2)
    BY <1>2, HalfType DEF Bit, Words
  <2> QED
    BY <2>1, <2>2
<1>5. PICK r3 \in Words : h(2) + l(3) + Bit(c2) = r3 + Word * Bit(c3)
  <2> HIDE DEF c2
  <2> QED
    BY <1>words, <1>3, CarrySplits
<1>6. PICK r4 \in Words : h(3) + l(4) + Bit(c3) = r4 + Word * Bit(c4)
  <2> HIDE DEF c3
  <2> QED
    BY <1>words, <1>3, CarrySplits
<1>7. Bit(c2) \in Nat /\ Bit(c3) \in Nat /\ Bit(c4) \in Nat
  BY DEF Bit
<1> HIDE DEF c2, c3, c4
<1>8. \A x \in Words : x \in Nat /\ x \in 0 .. Word - 1
  BY HalfType DEF Words
<1> DEFINE C == h(3) + l(4) + Word * h(4)
           B == h(2) + l(3) + Word * C
           A == h(1) + l(2) + Word * B
<1>9. A \in Nat /\ B \in Nat /\ C \in Nat
  <2>1. \A k \in 1 .. 4 : l(k) \in Nat /\ h(k) \in Nat
    BY <1>2, <1>8
  <2>2. C \in Nat
    BY <2>1, HalfType
  <2> HIDE DEF C
  <2>3. B \in Nat
    BY <2>1, <2>2, HalfType
  <2> HIDE DEF B
  <2> QED
    BY <2>1, <2>2, <2>3, HalfType
<1>10. Value(w) * diff = l(1) + Word * A
  <2>1. /\ w[1] \in Nat /\ w[2] \in Nat /\ w[3] \in Nat /\ w[4] \in Nat
        /\ l(1) \in Nat /\ l(2) \in Nat /\ l(3) \in Nat /\ l(4) \in Nat
        /\ h(1) \in Nat /\ h(2) \in Nat /\ h(3) \in Nat /\ h(4) \in Nat
        /\ diff \in Nat
    BY <1>words, <1>8
  <2> DEFINE y4 == w[4]
             p4 == l(4) + Word * h(4)
             y3 == w[3] + Word * y4
             p3 == l(3) + Word * (h(3) + p4)
             y2 == w[2] + Word * y3
             p2 == l(2) + Word * (h(2) + p3)
  <2>2. y4 \in Nat /\ p4 \in Nat /\ y4 * diff = p4
    BY <1>products, <2>1, HalfType
  <2>3. h(3) + p4 = C
    BY <2>1, HalfType
  <2> DEFINE y1 == w[1] + Word * y2
             p1 == l(1) + Word * (h(1) + p2)
  <2>4. Value(w) = y1
    BY DEF Value
  <2> HIDE DEF y4, p4
  <2>5. y3 \in Nat /\ p3 \in Nat
    BY <2>1, <2>2, HalfType
  <2>6. y3 * diff = p3
    <3>1. y3 * diff = w[3] * diff + Word * (y4 * diff)
      BY <2>1, <2>2, HalfType DEF y3
    <3>2. Word * (h(3) + p4) = Word * h(3) + Word * p4
      BY <2>1, <2>2, HalfType, Distribute
    <3>3. Word * h(3) \in Nat /\ Word * p4 \in Nat
      BY <2>1, <2>2, HalfType, TimesType
    <3>4. Word * (y4 * diff) = Word * p4
      BY <2>2, Zenon
    <3> QED
      BY <1>products, <2>1, <3>1, <3>2, <3>3, <3>4 DEF p3
  <2>7. h(2) + p3 = B
    BY <1>9, <2>1, <2>3, HalfType
  <2> HIDE DEF y3, p3
  <2>8. y2 \in Nat /\ p2 \in Nat
    BY <2>1, <2>5, HalfType
  <2>9. y2 * diff = p2
    <3>1. y2 * diff = w[2] * diff + Word * (y3 * diff)
      BY <2>1, <2>5, <2>6, HalfType DEF y2
    <3>2. Word * (h(2) + p3) = Word * h(2) + Word * p3
      BY <2>1, <2>5, <2>6, HalfType, Distribute
    <3>3. Word * h(2) \in Nat /\ Word * p3 \in Nat
      BY <2>1, <2>5, <2>6, HalfType, TimesType
    <3>4. Word * (y3 * diff) = Word * p3
      BY <2>6, Zenon
    <3> QED
      BY <1>products, <2>1, <3>1, <3>2, <3>3, <3>4 DEF p2
  <2>10. h(1) + p2 = A
    <3> HIDE DEF B
    <3> QED
      BY <1>9, <2>1, <2>7, HalfType
  <2> HIDE DEF y2, p2
  <2>11. y1 * diff = p1
    <3>1. y1 * diff = w[1] * diff + Word * (y2 * diff)
      BY <2>1, <2>8, <2>9, HalfType DEF y1
    <3>2. Word * (h(1) + p2) = Word * h(1) + Word * p2
      BY <2>1, <2>8, <2>9, HalfType, Distribute
    <3>3. Word * h(1) \in Nat /\ Word * p2 \in Nat
      BY <2>1, <2>8, <2>9, HalfType, TimesType
    <3>4. Word * (y2 * diff) = Word * p2
      BY <2>9, Zenon
    <3> QED
      BY <1>products, <2>1, <3>1, <3>2, <3>3, <3>4 DEF p1
  <2> QED
    BY <2>4, <2>10, <2>11
<1>11. A = r2 + Word * (Bit(c2) + B)
  <2> HIDE DEF B
  <2>1. Word * (Bit(c2) + B) = Word * Bit(c2) + Word * B
    BY <1>7, <1>9, HalfType, Distribute
  <2>2. Word * Bit(c2) \in Nat /\ Word * B \in Nat
    BY <1>7, <1>9, HalfType, TimesType
  <2> QED
    BY <1>2, <1>4, <1>8, <2>1, <2>2
<1>12. Bit(c2) + B = r3 + Word * (Bit(c3) + C)
  <2> HIDE DEF C
  <2>1. Word * (Bit(c3) + C) = Word * Bit(c3) + Word * C
    BY <1>7, <1>9, HalfType, Distribute
  <2>2. Word * Bit(c3) \in Nat /\ Word * C \in Nat
    BY <1>7, <1>9, HalfType, TimesType
  <2> QED
    BY <1>2, <1>5, <1>7, <1>8, <2>1, <2>2
<1>13. Bit(c3) + C = r4 + Word * (Bit(c4) + h(4))
  <2>1. h(4) \in Nat
    BY <1>2, <1>8
  <2>2. Word * (Bit(c4) + h(4)) = Word * Bit(c4) + Word * h(4)
    BY <1>7, <2>1, HalfType, Distribute
  <2>3. Word * Bit(c4) \in Nat /\ Word * h(4) \in Nat
    BY <1>7, <2>1, HalfType, TimesType
  <2> QED
    BY <1>2, <1>6, <1>7, <1>8, <2>2, <2>3
<1> HIDE DEF A, B, C
<1>14. Word * Word \in Nat /\ Word * (Word * Word) \in Nat
  BY HalfType, TimesType
<1>15. Value(w) * diff < TwoTo256 <=> A < Word * (Word * Word)
  BY <1>words, <1>8, <1>9, <1>10, <1>14, HalfType, DropDigit DEF TwoTo256
<1>16. A < Word * (Word * Word) <=> Bit(c2) + B < Word * Word
  <2>1. Bit(c2) + B \in Nat
    BY <1>7, <1>9
  <2> QED
    BY <1>8, <1>11, <1>14, <2>1, HalfType, DropDigit
<1>17. Bit(c2) + B < Word * Word <=> Bit(c3) + C < Word
  <2>1. Bit(c3) + C \in Nat
    BY <1>7, <1>9
  <2> QED
    BY <1>8, <1>12, <2>1, HalfType, DropDigit
<1>18. Bit(c3) + C < Word <=> Bit(c4) + h(4) < 1
  <2>1. Bit(c4) + h(4) \in Nat
    BY <1>2, <1>7, <1>8
  <2>2. Word * 1 = Word
    BY HalfType
  <2>3. r4 + Word * (Bit(c4) + h(4)) < Word * 1 <=> Bit(c4) + h(4) < 1
    BY <1>8, <2>1, HalfType, DropDigit
  <2> QED
    BY <1>13, <2>2, <2>3
<1>19. Bit(c4) + h(4) < 1 <=> h(4) = 0 /\ ~c4
  BY <1>2, <1>3, <1>8 DEF Bit
<1> QED
  BY <1>1, <1>15, <1>16, <1>17, <1>18, <1>19

-----------------------------------------------------------------------------
(* Targets: the powers of Byte.                                              *)

Digits == 0 .. Byte - 1

LEMMA Lengths ==
  /\ Byte \in Nat /\ Byte >= 2
  /\ WordLen \in Nat /\ WordLen >= 1
  /\ HashLen \in Nat /\ HashLen = 4 * WordLen
  /\ ZeroBytes \in 0 .. HashLen - 1 /\ TargetLen \in 1 .. HashLen
  /\ Word = Power[WordLen]
BY TargetsAssumption DEF HashLen, Word

LEMMA PowerIs ==
  /\ Power[0] = 1
  /\ \A n \in 1 .. HashLen : Power[n] = Byte * Power[n - 1]
<1> DEFINE IsPower(h, k) == h = [n \in 0 .. k |->
                                    IF n = 0 THEN 1 ELSE Byte * h[n - 1]]
           G == {k \in 0 .. HashLen : \E h : IsPower(h, k)}
<1>1. HashLen \in Nat
  BY Lengths
<1>2. 0 \in G
  <2>1. IsPower([n \in 0 .. 0 |-> 1], 0)
    OBVIOUS
  <2>2. \E h : IsPower(h, 0)
    BY <2>1, Zenon
  <2>3. 0 \in 0 .. HashLen
    BY <1>1
  <2> QED
    BY <2>2, <2>3, Zenon
<1>3. ASSUME NEW k \in 0 .. HashLen, k # HashLen, k \in G
      PROVE  k + 1 \in G
  <2>1. PICK h : IsPower(h, k)
    BY <1>3
  <2> DEFINE g == [n \in 0 .. k + 1 |->
                      IF n = k + 1 THEN Byte * h[k] ELSE h[n]]
  <2>2. g = [n \in 0 .. k + 1 |-> IF n = 0 THEN 1 ELSE Byte * g[n - 1]]
    <3>1. ASSUME NEW n \in 0 .. k + 1
          PROVE  g[n] = IF n = 0 THEN 1 ELSE Byte * g[n - 1]
      <4>1. CASE n = k + 1
        <5>1. n # 0 /\ n - 1 = k /\ k \in 0 .. k + 1 /\ k # k + 1
          BY <4>1, <1>1
        <5> QED
          BY <4>1, <5>1
      <4>2. CASE n # k + 1
        <5>1. n \in 0 .. k
          BY <4>2, <1>1
        <5>2. h[n] = IF n = 0 THEN 1 ELSE Byte * h[n - 1]
          BY <2>1, <5>1, Zenon
        <5>3. g[n] = h[n]
          BY <4>2
        <5>4. n # 0 => g[n - 1] = h[n - 1]
          BY <5>1, <1>1
        <5> QED
          BY <5>2, <5>3, <5>4
      <4> QED
        BY <4>1, <4>2
    <3>2. g = [n \in 0 .. k + 1 |-> g[n]]
      OBVIOUS
    <3> HIDE DEF g
    <3> QED
      BY <3>1, <3>2
  <2>3. k + 1 \in 0 .. HashLen
    BY <1>1, <1>3
  <2> HIDE DEF g
  <2> QED
    BY <2>2, <2>3
<1>4. \E h : IsPower(h, HashLen)
  <2>1. \A k \in 0 .. HashLen : k # HashLen /\ k \in G => k + 1 \in G
    BY <1>3
  <2> HIDE DEF G
  <2>2. \A k \in 0 .. HashLen : k \in G
    BY <1>1, <1>2, <2>1, UpToInduction
  <2>3. HashLen \in G
    BY <1>1, <2>2
  <2> QED
    BY <2>3, Zenon DEF G
<1>5. Power = [n \in 0 .. HashLen |-> IF n = 0 THEN 1 ELSE Byte * Power[n - 1]]
  BY <1>4, Zenon DEF Power
<1>6. 0 \in 0 .. HashLen
  BY <1>1
<1>7. \A n \in 1 .. HashLen : n \in 0 .. HashLen /\ n # 0
  BY <1>1
<1>8. \A n \in 0 .. HashLen :
        Power[n] = IF n = 0 THEN 1 ELSE Byte * Power[n - 1]
  BY <1>5, Zenon
<1> QED
  BY <1>6, <1>7, <1>8

LEMMA PowerType == \A n \in 0 .. HashLen : Power[n] \in Nat /\ Power[n] >= 1
<1> DEFINE G == {k \in 0 .. HashLen : Power[k] \in Nat /\ Power[k] >= 1}
<1>1. HashLen \in Nat /\ 0 \in G
  BY Lengths, PowerIs
<1>2. ASSUME NEW k \in 0 .. HashLen, k # HashLen, k \in G
      PROVE  k + 1 \in G
  <2>1. k + 1 \in 1 .. HashLen /\ k + 1 \in 0 .. HashLen /\ k + 1 - 1 = k
    BY <1>1, <1>2
  <2>2. Power[k + 1] = Byte * Power[k]
    BY <2>1, PowerIs
  <2> QED
    BY <1>2, <2>1, <2>2, Lengths
<1>3. \A k \in 0 .. HashLen : k # HashLen /\ k \in G => k + 1 \in G
  BY <1>2
<1> HIDE DEF G
<1>4. \A k \in 0 .. HashLen : k \in G
  BY <1>1, <1>3, UpToInduction
<1> QED
  BY <1>4 DEF G

\* Shifts add up.
LEMMA PowerAdds ==
  ASSUME NEW a \in Nat, NEW b \in Nat, a + b <= HashLen
  PROVE  Power[a + b] = Power[a] * Power[b]
<1> DEFINE G == {k \in 0 .. b : Power[a + k] = Power[a] * Power[k]}
<1>1. /\ HashLen \in Nat /\ a \in 0 .. HashLen
      /\ Power[a] \in Nat
  BY Lengths, PowerType
<1>2. 0 \in G
  BY <1>1, PowerIs
<1>3. ASSUME NEW k \in 0 .. b, k # b, k \in G
      PROVE  k + 1 \in G
  <2>1. /\ k + 1 \in 1 .. HashLen /\ k + 1 - 1 = k /\ k \in 0 .. HashLen
        /\ a + (k + 1) \in 1 .. HashLen /\ a + (k + 1) - 1 = a + k
        /\ k + 1 \in 0 .. b
    BY <1>1, <1>3
  <2>2. Power[k + 1] = Byte * Power[k]
    BY <2>1, PowerIs
  <2>3. Power[a + (k + 1)] = Byte * Power[a + k]
    BY <2>1, PowerIs
  <2>4. Power[a + k] = Power[a] * Power[k] /\ Power[k] \in Nat
    BY <1>3, <2>1, PowerType
  <2>5. Byte * (Power[a] * Power[k]) = Power[a] * (Byte * Power[k])
    BY <1>1, <2>4, Lengths
  <2> QED
    BY <2>1, <2>2, <2>3, <2>4, <2>5
<1>4. \A k \in 0 .. b : k # b /\ k \in G => k + 1 \in G
  BY <1>3
<1>5. b \in 0 .. b
  OBVIOUS
<1> HIDE DEF G
<1>6. \A k \in 0 .. b : k \in G
  BY <1>2, <1>4, UpToInduction
<1> QED
  BY <1>5, <1>6 DEF G

\* The longer shift is the larger.
LEMMA PowerMonotone ==
  ASSUME NEW a \in Nat, NEW b \in Nat, a <= b, b <= HashLen
  PROVE  Power[a] <= Power[b]
<1>1. b - a \in Nat /\ a + (b - a) = b
  OBVIOUS
<1>2. Power[b] = Power[a] * Power[b - a]
  BY <1>1, PowerAdds
<1>3. a \in 0 .. HashLen /\ b - a \in 0 .. HashLen
  BY Lengths
<1>4. Power[a] \in Nat /\ Power[b - a] \in Nat /\ Power[b - a] >= 1
  BY <1>3, PowerType
<1>5. Power[a] * 1 <= Power[a] * Power[b - a]
  BY <1>4, TimesMonotone
<1> QED
  BY <1>2, <1>4, <1>5

-----------------------------------------------------------------------------
(* The number that bytes stand for.                                          *)

LEMMA PrefixSum ==
  ASSUME NEW n \in Nat, NEW f, \A i \in 1 .. n + 1 : f[i] \in Int
  PROVE  SumFunctionOnSet(f, 1 .. n + 1) =
            f[n + 1] + SumFunctionOnSet(f, 1 .. n)
<1>1. IsFiniteSet(1 .. n + 1) /\ n + 1 \in 1 .. n + 1
  BY FS_Interval
<1>2. (1 .. n + 1) \ {n + 1} = 1 .. n
  OBVIOUS
<1>3. SumFunctionOnSet(f, 1 .. n + 1) =
        f[n + 1] + SumFunctionOnSet(f, (1 .. n + 1) \ {n + 1})
  BY <1>1, SumRemove
<1> QED
  BY <1>2, <1>3, Zenon

Weighted(bytes) == [n \in DOMAIN bytes |-> bytes[n] * Power[n - 1]]

LEMMA WeightedType ==
  ASSUME NEW n \in Nat, n <= HashLen, NEW bytes \in [1 .. n -> Digits]
  PROVE  /\ \A i \in 1 .. n : /\ Weighted(bytes)[i] = bytes[i] * Power[i - 1]
                              /\ Weighted(bytes)[i] \in Nat
         /\ LittleEndian(bytes) = SumFunctionOnSet(Weighted(bytes), 1 .. n)
<1>1. DOMAIN bytes = 1 .. n
  OBVIOUS
<1>2. ASSUME NEW i \in 1 .. n
      PROVE  /\ Weighted(bytes)[i] = bytes[i] * Power[i - 1]
             /\ Weighted(bytes)[i] \in Nat
  <2>1. Weighted(bytes)[i] = bytes[i] * Power[i - 1]
    BY <1>1 DEF Weighted
  <2>2. i - 1 \in 0 .. HashLen
    BY Lengths
  <2>3. bytes[i] \in Nat /\ Power[i - 1] \in Nat
    BY <2>2, PowerType, Lengths DEF Digits
  <2> QED
    BY <2>1, <2>3, TimesType
<1>3. DOMAIN Weighted(bytes) = 1 .. n
  BY <1>1 DEF Weighted
<1>4. LittleEndian(bytes) = SumFunction(Weighted(bytes))
  BY DEF LittleEndian, Weighted
<1> QED
  BY <1>2, <1>3, <1>4, Zenon DEF SumFunction

LEMMA RoomForDigit ==
  ASSUME NEW b \in Int, NEW p \in Int, NEW d \in Int
  PROVE  p * (b - 1 - d) = b * p - p - d * p
OBVIOUS

\* Bytes stand for less than the power of their number.
LEMMA LittleEndianType ==
  ASSUME NEW n \in Nat, n <= HashLen, NEW bytes \in [1 .. n -> Digits]
  PROVE  LittleEndian(bytes) \in Nat /\ LittleEndian(bytes) < Power[n]
<1> DEFINE f == Weighted(bytes)
           S(k) == SumFunctionOnSet(f, 1 .. k)
           G == {k \in 0 .. n : S(k) \in Nat /\ S(k) < Power[k]}
<1>1. \A i \in 1 .. n : f[i] = bytes[i] * Power[i - 1] /\ f[i] \in Nat
  BY WeightedType
<1>2. LittleEndian(bytes) = S(n)
  BY WeightedType
<1> HIDE DEF f
<1>3. 0 \in G
  <2>1. 1 .. 0 = {}
    OBVIOUS
  <2>2. S(0) = 0
    BY <2>1, SumEmpty, Zenon
  <2> QED
    BY <2>2, PowerIs
<1>4. ASSUME NEW k \in 0 .. n, k # n, k \in G
      PROVE  k + 1 \in G
  <2>1. /\ k \in Nat /\ k + 1 \in 1 .. n /\ k + 1 \in 0 .. n
        /\ k + 1 \in 1 .. HashLen /\ k + 1 - 1 = k /\ k \in 0 .. HashLen
    BY <1>4, Lengths
  <2>2. \A i \in 1 .. k + 1 : i \in 1 .. n
    BY <2>1
  <2>3. \A i \in 1 .. k + 1 : f[i] \in Int
    BY <1>1, <2>2
  <2>4. S(k + 1) = f[k + 1] + S(k)
    BY <2>1, <2>3, PrefixSum
  <2>5. f[k + 1] = bytes[k + 1] * Power[k] /\ f[k + 1] \in Nat
    BY <1>1, <2>1
  <2>6. Power[k + 1] = Byte * Power[k] /\ Power[k] \in Nat
    BY <2>1, PowerIs, PowerType
  <2>7. S(k) \in Nat /\ S(k) < Power[k]
    BY <1>4
  <2> HIDE DEF S
  <2>8. bytes[k + 1] \in Nat /\ Byte - 1 - bytes[k + 1] \in Nat
    BY <2>1, Lengths DEF Digits
  <2>9. Power[k] * (Byte - 1 - bytes[k + 1]) \in Nat
    BY <2>6, <2>8, TimesType
  <2>10. Power[k] * (Byte - 1 - bytes[k + 1]) =
            Byte * Power[k] - Power[k] - bytes[k + 1] * Power[k]
    <3>1. Byte \in Int /\ Power[k] \in Int /\ bytes[k + 1] \in Int
      BY <2>6, <2>8, Lengths
    <3> QED
      BY <3>1, RoomForDigit, Zenon
  <2>11. Byte * Power[k] \in Nat
    BY <2>6, Lengths, TimesType
  <2> QED
    BY <2>1, <2>4, <2>5, <2>6, <2>7, <2>9, <2>10, <2>11
<1>5. \A k \in 0 .. n : k # n /\ k \in G => k + 1 \in G
  BY <1>4
<1>6. n \in 0 .. n
  OBVIOUS
<1> HIDE DEF G
<1>7. \A k \in 0 .. n : k \in G
  BY <1>3, <1>5, UpToInduction
<1> QED
  BY <1>2, <1>6, <1>7 DEF G

\* Bytes in two parts stand for the first and the shifted second.
LEMMA LittleEndianSplits ==
  ASSUME NEW a \in Nat, NEW b \in Nat, a + b <= HashLen,
         NEW bytes \in [1 .. a + b -> Digits],
         NEW lo \in [1 .. a -> Digits], NEW hi \in [1 .. b -> Digits],
         \A i \in 1 .. a : lo[i] = bytes[i],
         \A i \in 1 .. b : hi[i] = bytes[a + i]
  PROVE  LittleEndian(bytes) = LittleEndian(lo) + Power[a] * LittleEndian(hi)
<1> DEFINE f == Weighted(bytes)
           g == Weighted(lo)
           h == Weighted(hi)
           S(k) == SumFunctionOnSet(f, 1 .. a + k)
           H(k) == SumFunctionOnSet(h, 1 .. k)
           G == {k \in 0 .. b : H(k) \in Nat /\ S(k) = S(0) + Power[a] * H(k)}
<1>0. a + b \in Nat /\ a <= HashLen /\ b <= HashLen
  BY Lengths
<1>1. /\ \A i \in 1 .. a + b : f[i] = bytes[i] * Power[i - 1] /\ f[i] \in Nat
      /\ LittleEndian(bytes) = S(b)
  BY <1>0, WeightedType
<1>2. /\ \A i \in 1 .. a : g[i] = lo[i] * Power[i - 1] /\ g[i] \in Nat
      /\ LittleEndian(lo) = SumFunctionOnSet(g, 1 .. a)
  BY <1>0, WeightedType
<1>3. /\ \A i \in 1 .. b : h[i] = hi[i] * Power[i - 1] /\ h[i] \in Nat
      /\ LittleEndian(hi) = H(b)
  BY <1>0, WeightedType
<1> HIDE DEF f, g, h
<1>types. /\ \A i \in 1 .. a + b : f[i] \in Int
          /\ \A i \in 1 .. a : g[i] \in Int
          /\ \A i \in 1 .. b : h[i] \in Int
  <2>1. \A i : i \in Nat => i \in Int
    OBVIOUS
  <2> QED
    BY <1>1, <1>2, <1>3, <2>1, Zenon
<1>4. S(0) = LittleEndian(lo) /\ S(0) \in Nat
  <2>1. a + 0 = a /\ IsFiniteSet(1 .. a)
    BY FS_Interval
  <2>2. \A i \in 1 .. a : i \in 1 .. a + b
    OBVIOUS
  <2>3. \A i \in 1 .. a : g[i] \in Int /\ f[i] = g[i]
    <3>1. \A i \in 1 .. a : lo[i] = bytes[i]
      OBVIOUS
    <3>2. \A i \in 1 .. a : /\ f[i] = bytes[i] * Power[i - 1]
                           /\ g[i] = lo[i] * Power[i - 1]
      BY <1>1, <1>2, <2>2, Zenon
    <3> QED
      BY <1>types, <3>1, <3>2, Zenon
  <2>4. SumFunctionOnSet(f, 1 .. a) = SumFunctionOnSet(g, 1 .. a)
    BY <2>1, <2>3, SumSame, Zenon
  <2>5. SumFunctionOnSet(g, 1 .. a) \in Nat
    BY <1>2, <2>1, SumNat
  <2> QED
    BY <1>2, <2>1, <2>4, <2>5
<1>5. a \in 0 .. HashLen /\ Power[a] \in Nat
  BY Lengths, PowerType
<1>6. 0 \in G
  <2>1. 1 .. 0 = {}
    OBVIOUS
  <2>2. H(0) = 0
    BY <2>1, SumEmpty, Zenon
  <2>3. Power[a] * 0 = 0
    BY <1>5
  <2> HIDE DEF S, H
  <2> QED
    BY <1>4, <2>2, <2>3
<1>7. ASSUME NEW k \in 0 .. b, k # b, k \in G
      PROVE  k + 1 \in G
  <2>1. /\ k \in Nat /\ a + k \in Nat /\ k + 1 \in 1 .. b /\ k + 1 \in 0 .. b
        /\ a + (k + 1) = a + k + 1 /\ a + k + 1 \in 1 .. a + b
        /\ k \in 0 .. HashLen /\ k + 1 - 1 = k /\ a + k + 1 - 1 = a + k
    BY <1>7, Lengths
  <2>2. \A i \in 1 .. a + k + 1 : i \in 1 .. a + b
    BY <2>1
  <2>3. \A i \in 1 .. k + 1 : i \in 1 .. b
    BY <2>1
  <2>4. SumFunctionOnSet(f, 1 .. a + k + 1) =
            f[a + k + 1] + SumFunctionOnSet(f, 1 .. a + k)
    <3>1. \A i \in 1 .. a + k + 1 : f[i] \in Int
      BY <1>types, <2>2, Zenon
    <3> QED
      BY <2>1, <3>1, PrefixSum, Zenon
  <2>5. H(k + 1) = h[k + 1] + H(k)
    <3>1. \A i \in 1 .. k + 1 : h[i] \in Int
      BY <1>types, <2>3, Zenon
    <3> QED
      BY <2>1, <3>1, PrefixSum, Zenon
  <2>6. S(k + 1) = f[a + k + 1] + S(k)
    BY <2>1, <2>4, Zenon
  <2>7. /\ f[a + k + 1] = bytes[a + k + 1] * Power[a + k]
        /\ h[k + 1] = hi[k + 1] * Power[k] /\ h[k + 1] \in Nat
    BY <1>1, <1>3, <2>1
  <2>8. hi[k + 1] = bytes[a + k + 1] /\ hi[k + 1] \in Nat
    BY <2>1, Lengths DEF Digits
  <2>9. Power[a + k] = Power[a] * Power[k] /\ Power[k] \in Nat
    <3>1. a + k <= HashLen
      BY <2>1, <1>0, Lengths
    <3> QED
      BY <2>1, <3>1, PowerAdds, PowerType
  <2>10. H(k) \in Nat /\ S(k) = S(0) + Power[a] * H(k)
    BY <1>7
  <2> HIDE DEF S, H
  <2>11. H(k + 1) \in Nat
    BY <2>5, <2>7, <2>10
  <2>12. f[a + k + 1] = Power[a] * h[k + 1]
    <3>1. \A p, q, d \in Int : d * (p * q) = p * (d * q)
      OBVIOUS
    <3>2. hi[k + 1] * (Power[a] * Power[k]) = Power[a] * (hi[k + 1] * Power[k])
      BY <3>1, <1>5, <2>8, <2>9
    <3> QED
      BY <3>2, <2>7, <2>8, <2>9
  <2>13. Power[a] * (h[k + 1] + H(k)) = Power[a] * h[k + 1] + Power[a] * H(k)
    BY <1>5, <2>7, <2>10, Distribute
  <2>14. Power[a] * h[k + 1] \in Nat /\ Power[a] * H(k) \in Nat
    BY <1>5, <2>7, <2>10, TimesType
  <2>15. S(k + 1) = S(0) + Power[a] * H(k + 1)
    BY <1>4, <2>5, <2>6, <2>10, <2>12, <2>13, <2>14
  <2> QED
    BY <2>1, <2>11, <2>15
<1>8. \A k \in 0 .. b : k # b /\ k \in G => k + 1 \in G
  BY <1>7
<1>9. b \in 0 .. b
  OBVIOUS
<1> HIDE DEF G
<1>10. \A k \in 0 .. b : k \in G
  BY <1>6, <1>8, UpToInduction
<1>11. S(b) = S(0) + Power[a] * H(b)
  BY <1>9, <1>10 DEF G
<1> QED
  BY <1>1, <1>3, <1>4, <1>11

-----------------------------------------------------------------------------
(* The words of a hash.                                                      *)

\* n bytes of a hash from the one after a.
LEMMA PartIs ==
  ASSUME NEW hash \in Hashes, NEW a \in Nat, NEW n \in Nat, a + n <= HashLen
  PROVE  LET part == SubSeq(hash, a + 1, a + n)
         IN  /\ part \in [1 .. n -> Digits]
             /\ \A i \in 1 .. n : part[i] = hash[a + i]
<1> DEFINE part == SubSeq(hash, a + 1, a + n)
<1>1. ASSUME NEW i \in a + 1 .. a + n
      PROVE  hash[i] \in Digits
  <2>1. i \in 1 .. HashLen
    BY Lengths
  <2> QED
    BY <2>1 DEF Hashes, Digits
<1>2. a + 1 \in Int /\ a + n \in Int
  OBVIOUS
<1>3. /\ part \in Seq(Digits)
      /\ Len(part) = IF a + 1 <= a + n THEN a + n - (a + 1) + 1 ELSE 0
      /\ \A i \in 1 .. a + n - (a + 1) + 1 : part[i] = hash[a + 1 + i - 1]
  BY <1>1, <1>2, SubSeqProperties
<1> HIDE DEF part
<1>4. a + n - (a + 1) + 1 = n /\ (a + 1 <= a + n \/ n = 0)
  OBVIOUS
<1>5. Len(part) = n
  BY <1>3, <1>4
<1>6. part \in [1 .. n -> Digits]
  BY <1>3, <1>5, LenProperties
<1>7. ASSUME NEW i \in 1 .. n
      PROVE  part[i] = hash[a + i]
  <2>1. a + 1 + i - 1 = a + i
    OBVIOUS
  <2>2. part[i] = hash[a + 1 + i - 1]
    BY <1>3, <1>4
  <2> QED
    BY <2>1, <2>2, Zenon
<1> QED
  BY <1>6, <1>7 DEF part

\* The number of the bytes from the one after a to b.
Number(hash, a, b) == LittleEndian(SubSeq(hash, a + 1, b))

LEMMA NumberSplits ==
  ASSUME NEW hash \in Hashes, NEW a \in Nat, NEW n \in Nat, NEW m \in Nat,
         a + n + m <= HashLen
  PROVE  Number(hash, a, a + n + m) =
            Number(hash, a, a + n) + Power[n] * Number(hash, a + n, a + n + m)
<1> DEFINE all == SubSeq(hash, a + 1, a + (n + m))
           lo == SubSeq(hash, a + 1, a + n)
           hi == SubSeq(hash, (a + n) + 1, (a + n) + m)
<1>1. /\ a + (n + m) = a + n + m /\ a + (n + m) <= HashLen
      /\ a + n <= HashLen /\ n + m <= HashLen /\ a + n \in Nat /\ n + m \in Nat
  BY Lengths
<1>2. all \in [1 .. n + m -> Digits] /\ \A i \in 1 .. n + m : all[i] = hash[a + i]
  BY <1>1, PartIs
<1>3. lo \in [1 .. n -> Digits] /\ \A i \in 1 .. n : lo[i] = hash[a + i]
  BY <1>1, PartIs
<1>4. hi \in [1 .. m -> Digits] /\ \A i \in 1 .. m : hi[i] = hash[a + n + i]
  BY <1>1, PartIs
<1>5. /\ Number(hash, a, a + n + m) = LittleEndian(all)
      /\ Number(hash, a, a + n) = LittleEndian(lo)
      /\ Number(hash, a + n, a + n + m) = LittleEndian(hi)
  BY <1>1, Zenon DEF Number
<1> HIDE DEF all, lo, hi
<1>6. ASSUME NEW i \in 1 .. n PROVE lo[i] = all[i]
  <2>1. i \in 1 .. n + m
    OBVIOUS
  <2> QED
    BY <1>2, <1>3, <2>1, Zenon
<1>7. ASSUME NEW i \in 1 .. m PROVE hi[i] = all[n + i]
  <2>1. n + i \in 1 .. n + m /\ a + (n + i) = a + n + i
    OBVIOUS
  <2>2. all[n + i] = hash[a + (n + i)]
    BY <1>2, <2>1, Zenon
  <2> QED
    BY <1>4, <2>1, <2>2, Zenon
<1>8. LittleEndian(all) = LittleEndian(lo) + Power[n] * LittleEndian(hi)
  BY <1>1, <1>2, <1>3, <1>4, <1>6, <1>7, LittleEndianSplits
<1> QED
  BY <1>5, <1>8, Zenon

LEMMA NumberType ==
  ASSUME NEW hash \in Hashes, NEW a \in Nat, NEW n \in Nat, a + n <= HashLen
  PROVE  Number(hash, a, a + n) \in Nat /\ Number(hash, a, a + n) < Power[n]
<1>1. n <= HashLen
  BY Lengths
<1>2. SubSeq(hash, a + 1, a + n) \in [1 .. n -> Digits]
  BY PartIs
<1> QED
  BY <1>1, <1>2, LittleEndianType DEF Number

LEMMA SameBytes ==
  ASSUME NEW n \in Nat, NEW f \in [1 .. n -> Digits],
         NEW g \in [1 .. n -> Digits], \A i \in 1 .. n : f[i] = g[i]
  PROVE  f = g
OBVIOUS

LEMMA NumberOfHash ==
  ASSUME NEW hash \in Hashes
  PROVE  LittleEndian(hash) = Number(hash, 0, HashLen)
<1>1. 0 + HashLen = HashLen /\ HashLen \in Nat
  BY Lengths
<1>2. /\ SubSeq(hash, 0 + 1, HashLen) \in [1 .. HashLen -> Digits]
      /\ \A i \in 1 .. HashLen : SubSeq(hash, 0 + 1, HashLen)[i] = hash[0 + i]
  <2>1. 0 + HashLen <= HashLen /\ 0 \in Nat
    BY <1>1
  <2>2. /\ SubSeq(hash, 0 + 1, 0 + HashLen) \in [1 .. HashLen -> Digits]
        /\ \A i \in 1 .. HashLen :
                SubSeq(hash, 0 + 1, 0 + HashLen)[i] = hash[0 + i]
    BY <1>1, <2>1, PartIs
  <2> QED
    BY <1>1, <2>2, Zenon
<1>3. \A i \in 1 .. HashLen : 0 + i = i
  OBVIOUS
<1>4. \A i \in 1 .. HashLen : SubSeq(hash, 0 + 1, HashLen)[i] = hash[i]
  BY <1>2, <1>3, Zenon
<1>5. hash \in [1 .. HashLen -> Digits]
  BY DEF Hashes, Digits
<1> DEFINE part == SubSeq(hash, 0 + 1, HashLen)
<1>6. part \in [1 .. HashLen -> Digits] /\ \A i \in 1 .. HashLen : part[i] = hash[i]
  BY <1>2, <1>4, Zenon
<1> HIDE DEF part
<1>7. part = hash
  BY <1>1, <1>5, <1>6, SameBytes
<1> QED
  BY <1>7, Zenon DEF part, Number

\* CheckHashDifficulty takes the words that the bytes stand for.
LEMMA WordsOfHash ==
  ASSUME NEW hash \in Hashes
  PROVE  LET w == [k \in 1 .. 4 |-> Uint64(hash, k)]
         IN  /\ w \in [1 .. 4 -> Words]
             /\ Value(w) = LittleEndian(hash)
<1> DEFINE L == WordLen
           w == [k \in 1 .. 4 |-> Uint64(hash, k)]
           n1 == Number(hash, 0, L)
           n2 == Number(hash, L, L + L)
           n3 == Number(hash, L + L, L + L + L)
           n4 == Number(hash, L + L + L, L + L + L + L)
           r2 == Number(hash, L, HashLen)
           r3 == Number(hash, L + L, HashLen)
<1>1. /\ L \in Nat /\ HashLen = L + L + L + L /\ HashLen \in Nat
      /\ Word = Power[L] /\ Word \in Nat
      /\ L + L \in Nat /\ L + L + L \in Nat /\ L + L + L + L \in Nat
  BY Lengths, HalfType
<1>2. /\ L * (1 - 1) = 0 /\ L * 1 = L
      /\ L * (2 - 1) = L /\ L * 2 = L + L
      /\ L * (3 - 1) = L + L /\ L * 3 = L + L + L
      /\ L * (4 - 1) = L + L + L /\ L * 4 = L + L + L + L
  BY <1>1
<1>3. /\ w[1] = Uint64(hash, 1) /\ w[2] = Uint64(hash, 2)
      /\ w[3] = Uint64(hash, 3) /\ w[4] = Uint64(hash, 4)
  OBVIOUS
<1>4. w[1] = n1 /\ w[2] = n2 /\ w[3] = n3 /\ w[4] = n4
  BY <1>2, <1>3, Zenon DEF Uint64, Number
<1>5. LittleEndian(hash) = Number(hash, 0, HashLen)
  BY NumberOfHash
<1>6. Number(hash, 0, HashLen) = n1 + Power[L] * r2
  <2>1. 0 + L + (L + L + L) = HashLen /\ 0 + L = L /\ 0 \in Nat
    BY <1>1
  <2>2. Number(hash, 0, 0 + L + (L + L + L)) = Number(hash, 0, 0 + L)
            + Power[L] * Number(hash, 0 + L, 0 + L + (L + L + L))
    <3>1. 0 + L + (L + L + L) <= HashLen
      BY <1>1
    <3>2. 0 \in Nat /\ L \in Nat /\ L + L + L \in Nat
      BY <1>1
    <3> HIDE DEF L
    <3> QED
      BY <3>1, <3>2, NumberSplits, Zenon
  <2> QED
    BY <2>1, <2>2, Zenon
<1>7. r2 = n2 + Power[L] * r3
  <2>1. L + L + (L + L) = HashLen
    BY <1>1
  <2>2. L + L + (L + L) <= HashLen
    BY <1>1
  <2>3. Number(hash, L, L + L + (L + L)) = Number(hash, L, L + L)
            + Power[L] * Number(hash, L + L, L + L + (L + L))
    <3>1. L \in Nat /\ L + L \in Nat
      BY <1>1
    <3> HIDE DEF L
    <3> QED
      BY <2>2, <3>1, NumberSplits, Zenon
  <2> QED
    BY <2>1, <2>3, Zenon
<1>8. r3 = n3 + Power[L] * n4
  <2>1. L + L + L + L = HashLen
    BY <1>1
  <2>2. L + L + L + L <= HashLen
    BY <1>1
  <2>3. Number(hash, L + L, L + L + L + L) = Number(hash, L + L, L + L + L)
            + Power[L] * Number(hash, L + L + L, L + L + L + L)
    <3>1. L \in Nat /\ L + L \in Nat
      BY <1>1
    <3> HIDE DEF L
    <3> QED
      BY <2>2, <3>1, NumberSplits, Zenon
  <2> QED
    BY <2>1, <2>3, Zenon
<1>9. n1 \in Words /\ n2 \in Words /\ n3 \in Words /\ n4 \in Words
  <2>1. ASSUME NEW a \in Nat, a + L <= HashLen
        PROVE  Number(hash, a, a + L) \in Words
    <3>1. Number(hash, a, a + L) \in Nat /\ Number(hash, a, a + L) < Power[L]
      BY <1>1, <2>1, NumberType
    <3> QED
      BY <1>1, <3>1 DEF Words
  <2>2. 0 \in Nat /\ 0 + L = L /\ 0 + L <= HashLen /\ L + L <= HashLen
        /\ L + L + L <= HashLen /\ L + L + L + L <= HashLen
    BY <1>1
  <2>3. n1 \in Words
    BY <2>1, <2>2
  <2>4. n2 \in Words /\ n3 \in Words /\ n4 \in Words
    BY <1>1, <2>1, <2>2, Zenon
  <2> QED
    BY <2>3, <2>4
<1> HIDE DEF n1, n2, n3, n4, r2, r3
<1>10. w \in [1 .. 4 -> Words]
  <2>1. \A k \in 1 .. 4 : k \in {1, 2, 3, 4}
    OBVIOUS
  <2>2. \A k \in 1 .. 4 : w[k] \in Words
    <3> HIDE DEF w
    <3> QED
      BY <1>4, <1>9, <2>1
  <2>3. \A k \in 1 .. 4 : Uint64(hash, k) \in Words
    BY <2>2
  <2> QED
    BY <2>3, Zenon
<1>11. Value(w) = n1 + Word * (n2 + Word * (n3 + Word * n4))
  BY <1>4, Zenon DEF Value
<1>12. LittleEndian(hash) = n1 + Word * (n2 + Word * (n3 + Word * n4))
  BY <1>1, <1>5, <1>6, <1>7, <1>8, Zenon
<1> QED
  BY <1>10, <1>11, <1>12

\* CheckHashDifficulty compares the number that the hash stands for.
THEOREM CheckOfHash ==
  ASSUME NEW hash \in Hashes, NEW diff \in Words
  PROVE  CheckHashDifficulty(hash, diff)
            <=> LittleEndian(hash) * diff < Power[HashLen]
<1> DEFINE w == [k \in 1 .. 4 |-> Uint64(hash, k)]
<1>1. w \in [1 .. 4 -> Words] /\ Value(w) = LittleEndian(hash)
  BY WordsOfHash
<1>2. CheckHashDifficulty(hash, diff) <=> Meets(w, diff)
  BY DEF CheckHashDifficulty
<1> HIDE DEF w
<1>3. Meets(w, diff) <=> Value(w) * diff < TwoTo256
  BY <1>1, CheckIsExact
<1>4. TwoTo256 = Power[HashLen]
  <2> DEFINE L == WordLen
  <2>1. L \in Nat /\ HashLen = L + (L + (L + L)) /\ Word = Power[L]
    BY Lengths
  <2>2. L + L \in Nat /\ L + (L + L) \in Nat
        /\ L + L <= HashLen /\ L + (L + L) <= HashLen
        /\ L + (L + (L + L)) <= HashLen
    BY <2>1
  <2>3. Power[L + L] = Power[L] * Power[L]
    BY <2>1, <2>2, PowerAdds
  <2>4. Power[L + (L + L)] = Power[L] * Power[L + L]
    BY <2>1, <2>2, PowerAdds
  <2>5. Power[L + (L + (L + L))] = Power[L] * Power[L + (L + L)]
    BY <2>1, <2>2, PowerAdds
  <2> QED
    BY <2>1, <2>3, <2>4, <2>5, Zenon DEF TwoTo256
<1> QED
  BY <1>1, <1>2, <1>3, <1>4, Zenon

-----------------------------------------------------------------------------
(* The target of a job.                                                      *)

LEMMA DivideBy ==
  ASSUME NEW a \in Nat, NEW h \in Nat, h > 0
  PROVE  a \div h \in Nat /\ h * (a \div h) <= a /\ a < h * (a \div h) + h
<1>1. a \div h \in Nat /\ a % h \in 0 .. h - 1 /\ a = h * (a \div h) + (a % h)
  BY DivMod
<1>2. h * (a \div h) \in Nat
  BY <1>1, TimesType
<1> QED
  BY <1>1, <1>2

\* A hash that is within the target of a job passes the check by the
\* difficulty the target was made from (util/util.go:47): cutting the target to
\* its first bytes only makes it harder.
THEOREM JobTargetPasses ==
  ASSUME NEW hash \in Hashes, NEW diff \in Words, diff # 0,
         WithinJobTarget(hash, JobTarget(diff))
  PROVE  CheckHashDifficulty(hash, diff)
<1> DEFINE k == HashLen - TargetLen
           lo == Number(hash, 0, k)
           hi == Number(hash, k, HashLen)
           q == (Power[HashLen] - 1) \div diff
           t == q \div Power[k]
<1>1. /\ k \in Nat /\ k \in 0 .. HashLen /\ TargetLen \in Nat
      /\ k + TargetLen = HashLen /\ HashLen \in Nat /\ HashLen \in 0 .. HashLen
      /\ 0 + k + TargetLen = HashLen /\ 0 + k = k
      /\ k + 1 = HashLen - TargetLen + 1
  BY Lengths
<1> HIDE DEF k
<1>2. /\ Power[k] \in Nat /\ Power[k] > 0
      /\ Power[HashLen] \in Nat /\ Power[HashLen] - 1 \in Nat
  BY <1>1, PowerType
<1>3. diff \in Nat /\ diff > 0
  BY HalfType DEF Words
<1>4. LittleEndian(hash) = lo + Power[k] * hi
  <2>1. 0 + k + TargetLen <= HashLen /\ 0 \in Nat
    BY <1>1
  <2>2. Number(hash, 0, 0 + k + TargetLen) = Number(hash, 0, 0 + k)
            + Power[k] * Number(hash, 0 + k, 0 + k + TargetLen)
    BY <1>1, <2>1, NumberSplits
  <2>3. LittleEndian(hash) = Number(hash, 0, HashLen)
    BY NumberOfHash
  <2> QED
    BY <1>1, <2>2, <2>3, Zenon
<1>5. lo \in Nat /\ lo < Power[k]
  <2>1. 0 \in Nat /\ 0 + k <= HashLen
    BY <1>1
  <2>2. Number(hash, 0, 0 + k) \in Nat /\ Number(hash, 0, 0 + k) < Power[k]
    BY <1>1, <2>1, NumberType
  <2> QED
    BY <1>1, <2>2, Zenon
<1>6. hi \in Nat
  <2>1. k + TargetLen <= HashLen
    BY <1>1
  <2>2. Number(hash, k, k + TargetLen) \in Nat
    BY <1>1, <2>1, NumberType
  <2> QED
    BY <1>1, <2>2, Zenon
<1>7. hi < t
  <2>1. JobTarget(diff) = t
    BY Zenon DEF JobTarget, k
  <2>2. LittleEndian(SubSeq(hash, HashLen - TargetLen + 1, HashLen)) = hi
    BY <1>1, Zenon DEF Number, k
  <2> QED
    BY <2>1, <2>2, Zenon DEF WithinJobTarget
<1>8. q \in Nat /\ diff * q <= Power[HashLen] - 1
  BY <1>2, <1>3, DivideBy
<1> HIDE DEF q
<1>9. t \in Nat /\ Power[k] * t <= q
  BY <1>2, <1>8, DivideBy
<1> HIDE DEF lo, hi, t
<1>10. LittleEndian(hash) <= q
  <2>1. Power[k] * (hi + 1) <= Power[k] * t
    BY <1>2, <1>6, <1>7, <1>9, TimesMonotone
  <2>2. Power[k] * (hi + 1) = Power[k] * hi + Power[k] * 1 /\ Power[k] * 1 = Power[k]
    BY <1>2, <1>6, Distribute
  <2>3. Power[k] * hi \in Nat /\ Power[k] * t \in Nat
    BY <1>2, <1>6, <1>9, TimesType
  <2> QED
    BY <1>2, <1>4, <1>5, <1>8, <1>9, <2>1, <2>2, <2>3
<1>11. LittleEndian(hash) \in Nat
  <2>1. Power[k] * hi \in Nat
    BY <1>2, <1>6, TimesType
  <2> QED
    BY <1>4, <1>5, <2>1
<1>12. LittleEndian(hash) * diff < Power[HashLen]
  <2>1. diff * LittleEndian(hash) <= diff * q
    BY <1>3, <1>8, <1>10, <1>11, TimesMonotone
  <2>2. diff * LittleEndian(hash) = LittleEndian(hash) * diff
    BY <1>3, <1>11
  <2>3. diff * LittleEndian(hash) \in Nat /\ diff * q \in Nat
    BY <1>3, <1>8, <1>11, TimesType
  <2> QED
    BY <1>2, <1>8, <2>1, <2>2, <2>3
<1> QED
  BY <1>12, CheckOfHash

-----------------------------------------------------------------------------
(* Compact targets.                                                          *)

\* A shift there and back.
LEMMA ExactDivision ==
  ASSUME NEW x \in Nat, NEW p \in Nat, p > 0
  PROVE  (x * p) \div p = x
<1> DEFINE q == (x * p) \div p
<1>1. x * p \in Nat
  BY TimesType
<1>2. q \in Nat /\ p * q <= x * p /\ x * p < p * q + p
  BY <1>1, DivideBy
<1> HIDE DEF q
<1>3. p * q \in Nat /\ p * x = x * p /\ p * (q + 1) = p * q + p
  BY <1>2, TimesType
<1>4. q <= x
  <2>1. SUFFICES ASSUME x + 1 <= q PROVE FALSE
    BY <1>2
  <2>2. p * (x + 1) <= p * q /\ p * (x + 1) = p * x + p
    BY <1>2, <2>1, TimesMonotone
  <2> QED
    BY <1>1, <1>2, <1>3, <2>2
<1>5. x <= q
  <2>1. SUFFICES ASSUME q + 1 <= x PROVE FALSE
    BY <1>2
  <2>2. p * (q + 1) <= p * x
    BY <1>2, <2>1, TimesMonotone
  <2> QED
    BY <1>1, <1>2, <1>3, <2>2
<1> QED
  BY <1>2, <1>4, <1>5 DEF q

\* What is less than a product has less than the factor for its quotient, and
\* what is not has no less.
LEMMA QuotientBelow ==
  ASSUME NEW n \in Nat, NEW p \in Nat, p > 0, NEW m \in Nat
  PROVE  /\ n < p * m => n \div p < m
         /\ n >= p * m => n \div p >= m
<1> DEFINE q == n \div p
<1>1. q \in Nat /\ p * q <= n /\ n < p * q + p
  BY DivideBy
<1> HIDE DEF q
<1>2. p * q \in Nat /\ p * m \in Nat /\ p * (q + 1) = p * q + p
  BY <1>1, TimesType
<1>3. m <= q => p * m <= p * q
  BY <1>1, TimesMonotone
<1>4. q + 1 <= m => p * (q + 1) <= p * m
  BY <1>1, TimesMonotone
<1> QED
  BY <1>1, <1>2, <1>3, <1>4 DEF q

LEMMA ThreeBytes ==
  /\ HashLen >= 4
  /\ Power[1] = Byte /\ Power[2] = Byte * Byte /\ Power[3] = Byte * Power[2]
  /\ Power[2] \in Nat /\ Power[3] \in Nat /\ Power[2] >= Byte
<1>1. HashLen >= 4
  BY Lengths
<1>2. 1 \in 1 .. HashLen /\ 2 \in 1 .. HashLen /\ 3 \in 1 .. HashLen
  BY <1>1, Lengths
<1>3. Power[1] = Byte * Power[1 - 1] /\ Power[2] = Byte * Power[2 - 1]
      /\ Power[3] = Byte * Power[3 - 1]
  BY <1>2, PowerIs
<1>4. 1 - 1 = 0 /\ 2 - 1 = 1 /\ 3 - 1 = 2
  OBVIOUS
<1>5. Power[1] = Byte * Power[0] /\ Power[2] = Byte * Power[1]
      /\ Power[3] = Byte * Power[2]
  BY <1>3, <1>4, Zenon
<1>6. Power[1] = Byte
  BY <1>5, PowerIs, Lengths
<1>7. Byte * Byte \in Nat /\ Byte * Byte >= Byte
  <2>1. Byte * 1 <= Byte * Byte /\ Byte * 1 = Byte
    BY Lengths, TimesMonotone
  <2> QED
    BY <2>1, Lengths, TimesType
<1>8. Power[2] \in Nat /\ Power[2] >= Byte /\ Power[2] = Byte * Byte
  BY <1>5, <1>6, <1>7
<1>9. Power[3] \in Nat
  BY <1>5, <1>8, Lengths, TimesType
<1> QED
  BY <1>1, <1>5, <1>6, <1>8, <1>9

LEMMA SignBitIs ==
  /\ SignBit \in Nat /\ SignBit > 0 /\ Power[3] <= 2 * SignBit + 1
  /\ Power[2] <= SignBit /\ SignBit <= Byte * Power[2]
  /\ Precision \in Nat /\ Precision > 0
  /\ Byte * Precision <= SignBit /\ Precision <= Power[2]
<1>1. /\ SignBit \in Nat /\ 2 * SignBit <= Power[3]
      /\ Power[3] < 2 * SignBit + 2
  BY ThreeBytes, DivideBy DEF SignBit
<1>2. Power[2] * 2 <= Power[2] * Byte /\ Power[2] * Byte = Byte * Power[2]
  BY ThreeBytes, Lengths, TimesMonotone
<1>3. Power[2] <= SignBit /\ SignBit <= Byte * Power[2] /\ SignBit > 0
  BY <1>1, <1>2, ThreeBytes, Lengths
<1>4. Precision \in Nat /\ Byte * Precision <= SignBit
  BY <1>1, Lengths, DivideBy DEF Precision
<1>5. Precision > 0
  <2>1. SignBit >= Byte * 1
    <3>1. Byte * 1 = Byte
      BY Lengths
    <3> QED
      BY <1>1, <1>3, <3>1, ThreeBytes, Lengths
  <2>2. SignBit \div Byte >= 1
    BY <1>1, <2>1, Lengths, QuotientBelow
  <2> QED
    BY <1>4, <2>2 DEF Precision
<1>6. Precision <= Power[2]
  <2>1. SUFFICES ASSUME Power[2] + 1 <= Precision PROVE FALSE
    BY <1>4, ThreeBytes
  <2>2. Byte * (Power[2] + 1) <= Byte * Precision
    BY <1>4, <2>1, Lengths, ThreeBytes, TimesMonotone
  <2>3. Byte * (Power[2] + 1) = Byte * Power[2] + Byte
    BY Lengths, ThreeBytes
  <2>4. Byte * Precision \in Nat /\ Byte * Power[2] \in Nat
    BY <1>4, Lengths, ThreeBytes, TimesType
  <2> QED
    BY <1>1, <1>3, <1>4, <2>2, <2>3, <2>4, Lengths
<1> QED
  BY <1>1, <1>3, <1>4, <1>5, <1>6, ThreeBytes

\* A number below 2^256 has a number of bytes.
LEMMA ByteCountIs ==
  ASSUME NEW v \in Nat, v < Power[HashLen]
  PROVE  LET s == ByteCount(v)
         IN  /\ s \in 0 .. HashLen /\ v < Power[s]
             /\ s = 0 \/ v >= Power[s - 1]
<1> DEFINE Fits(n) == v < Power[n] /\ (n = 0 \/ v >= Power[n - 1])
           G == {k \in 0 .. HashLen :
                    v < Power[k] => \E n \in 0 .. HashLen : Fits(n)}
<1>1. HashLen \in Nat /\ 0 \in 0 .. HashLen
  BY Lengths
<1>2. 0 \in G
  BY <1>1
<1>3. ASSUME NEW k \in 0 .. HashLen, k # HashLen, k \in G
      PROVE  k + 1 \in G
  <2>1. k + 1 \in 0 .. HashLen /\ k + 1 - 1 = k
    BY <1>1, <1>3
  <2>2. Power[k] \in Nat
    BY PowerType
  <2>3. CASE v < Power[k]
    BY <1>3, <2>1, <2>3
  <2>4. CASE v >= Power[k]
    <3>1. v < Power[k + 1] => Fits(k + 1)
      BY <2>1, <2>4
    <3> HIDE DEF Fits
    <3> QED
      BY <2>1, <3>1
  <2> QED
    BY <2>2, <2>3, <2>4
<1>4. \A k \in 0 .. HashLen : k # HashLen /\ k \in G => k + 1 \in G
  BY <1>3
<1>5. HashLen \in 0 .. HashLen
  BY <1>1
<1>6. \A k \in 0 .. HashLen : k \in G
  <2> HIDE DEF G
  <2> QED
    BY <1>1, <1>2, <1>4, UpToInduction
<1>7. \E n \in 0 .. HashLen : Fits(n)
  <2>1. HashLen \in G
    BY <1>5, <1>6, Zenon
  <2> HIDE DEF Fits
  <2> QED
    BY <2>1
<1>8. ByteCount(v) \in 0 .. HashLen /\ Fits(ByteCount(v))
  BY <1>7, Zenon DEF ByteCount
<1> QED
  BY <1>8

\* A number t that is less than u below v is nearly v, when u is a small part
\* of v.
LEMMA NearlyAll ==
  ASSUME NEW v \in Nat, NEW t \in Nat, NEW u \in Nat, NEW p \in Nat, p > 0,
         t = v \/ (v < t + u /\ u * p <= v)
  PROVE  (t + 1) * p > v * (p - 1)
<1>1. v * (p - 1) = v * p - v /\ (t + 1) * p = t * p + p
      /\ v * p \in Nat /\ t * p \in Nat /\ u * p \in Nat
  BY TimesType
<1>2. CASE t = v
  BY <1>1, <1>2
<1>3. CASE v < t + u /\ u * p <= v
  <2>1. p * (v + 1) <= p * (t + u)
    BY <1>3, TimesMonotone
  <2>2. p * (v + 1) = v * p + p /\ p * (t + u) = t * p + u * p
    OBVIOUS
  <2> QED
    BY <1>1, <1>3, <2>1, <2>2
<1> QED
  BY <1>2, <1>3

\* A mantissa whose sign bit is clear is shifted into its place.
LEMMA SetCompactIs ==
  ASSUME NEW n \in Int, NEW w \in Nat, w < SignBit
  PROVE  SetCompact([size |-> n, mantissa |-> w])
           = IF n <= 3 THEN w \div Power[3 - n] ELSE w * Power[n - 3]
<1>1. w % SignBit = w /\ ~(w >= SignBit)
  BY SignBitIs
<1> QED
  BY <1>1 DEF SetCompact

\* SetCompact undoes GetCompact but for the bytes that the mantissa drops: the
\* target comes out positive, no larger, and larger by less than one part in
\* Precision when it is made of the next number.
THEOREM CompactTarget ==
  ASSUME NEW v \in Nat, v < Power[HashLen]
  PROVE  LET t == SetCompact(GetCompact(v))
         IN  t \in Nat /\ t <= v /\ (t + 1) * Precision > v * (Precision - 1)
<1> DEFINE s == ByteCount(v)
           m == IF s <= 3 THEN v * Power[3 - s] ELSE v \div Power[s - 3]
           c == GetCompact(v)
           t == SetCompact(c)
<1> SUFFICES t \in Nat /\ t <= v /\ (t + 1) * Precision > v * (Precision - 1)
  OBVIOUS
<1>1. s \in 0 .. HashLen /\ v < Power[s] /\ (s = 0 \/ v >= Power[s - 1])
  BY ByteCountIs
<1>2. c = IF m >= SignBit THEN [size |-> s + 1, mantissa |-> m \div Byte]
          ELSE [size |-> s, mantissa |-> m]
  BY DEF GetCompact
<1>3. t = SetCompact(c)
  OBVIOUS
<1> HIDE DEF s, c, t
<1>4. m \in Nat /\ m < Power[3]
  <2>1. CASE s <= 3
    <3>1. 3 - s \in 0 .. HashLen /\ 3 - s \in Nat /\ s \in Nat
          /\ s + (3 - s) = 3 /\ s + (3 - s) <= HashLen
      BY <1>1, <2>1, ThreeBytes, Lengths
    <3>2. Power[3] = Power[s] * Power[3 - s]
      BY <3>1, PowerAdds
    <3>3. Power[3 - s] \in Nat /\ Power[3 - s] > 0 /\ Power[s] \in Nat
      BY <1>1, <3>1, PowerType
    <3>4. Power[3 - s] * (v + 1) <= Power[3 - s] * Power[s]
      BY <1>1, <3>3, TimesMonotone
    <3>5. /\ Power[3 - s] * (v + 1) = v * Power[3 - s] + Power[3 - s]
          /\ Power[3 - s] * Power[s] = Power[s] * Power[3 - s]
          /\ v * Power[3 - s] \in Nat
      BY <3>3, TimesType
    <3>6. m = v * Power[3 - s]
      BY <2>1
    <3> HIDE DEF m
    <3> QED
      BY <3>2, <3>3, <3>4, <3>5, <3>6, ThreeBytes
  <2>2. CASE s > 3
    <3>1. s - 3 \in 0 .. HashLen /\ s - 3 \in Nat /\ s - 3 + 3 = s
          /\ s - 3 + 3 <= HashLen /\ ~(s <= 3)
      BY <1>1, <2>2, ThreeBytes, Lengths
    <3>2. Power[s] = Power[s - 3] * Power[3]
      <4>1. Power[s - 3 + 3] = Power[s - 3] * Power[3]
        BY <3>1, PowerAdds
      <4> QED
        BY <3>1, <4>1, Zenon
    <3>3. Power[s - 3] \in Nat /\ Power[s - 3] > 0
      BY <3>1, PowerType
    <3>4. m = v \div Power[s - 3]
      BY <3>1
    <3> HIDE DEF m
    <3>5. m \in Nat
      BY <3>3, <3>4, DivideBy
    <3>6. m < Power[3]
      BY <1>1, <3>2, <3>3, <3>4, QuotientBelow, ThreeBytes
    <3> QED
      BY <3>5, <3>6
  <2> QED
    BY <1>1, <2>1, <2>2
<1> DEFINE w == m \div Byte
<1>5. w \in Nat /\ Byte * w \in Nat /\ Byte * w <= m /\ m < Byte * w + Byte
      /\ w < SignBit
  <2> HIDE DEF m
  <2>1. w \in Nat /\ Byte * w <= m /\ m < Byte * w + Byte
    BY <1>4, Lengths, DivideBy
  <2>2. w < Power[2]
    BY <1>4, Lengths, ThreeBytes, QuotientBelow
  <2>3. Byte * w \in Nat
    BY <2>1, Lengths, TimesType
  <2> QED
    BY <2>1, <2>2, <2>3, ThreeBytes, SignBitIs
\* The mantissa never has its sign bit set.
<1>6. CASE m < SignBit
  <2>1. c = [size |-> s, mantissa |-> m]
    <3>1. ~(m >= SignBit)
      BY <1>4, <1>6, SignBitIs
    <3> QED
      BY <1>2, <3>1
  <2>2. t = IF s <= 3 THEN m \div Power[3 - s] ELSE m * Power[s - 3]
    <3> HIDE DEF m
    <3>1. s \in Int
      BY <1>1, Lengths
    <3> QED
      BY <1>3, <1>4, <1>6, <2>1, <3>1, SetCompactIs, Zenon
  <2>3. CASE s <= 3
    <3>1. 3 - s \in 0 .. HashLen
      BY <1>1, <2>3, ThreeBytes, Lengths
    <3>2. Power[3 - s] \in Nat /\ Power[3 - s] > 0
      BY <3>1, PowerType
    <3>3. t = (v * Power[3 - s]) \div Power[3 - s]
      BY <2>2, <2>3
    <3>4. t = v
      BY <3>2, <3>3, ExactDivision
    <3> QED
      BY <3>4, NearlyAll, SignBitIs
  <2>4. CASE s > 3
    <3> DEFINE u == Power[s - 3]
    <3>1. s - 3 \in 0 .. HashLen /\ s - 3 \in Nat /\ ~(s <= 3) /\ s # 0
          /\ s - 3 + 2 = s - 1 /\ s - 3 + 2 <= HashLen
      BY <1>1, <2>4, ThreeBytes, Lengths
    <3>2. u \in Nat /\ u > 0
      BY <3>1, PowerType
    <3>3. Power[s - 1] = u * Power[2]
      <4>1. Power[s - 3 + 2] = Power[s - 3] * Power[2]
        BY <3>1, PowerAdds
      <4> QED
        BY <3>1, <4>1, Zenon
    <3>4. t = m * u /\ m = v \div u
      BY <2>2, <3>1
    <3> HIDE DEF m, u
    <3>5. u * m <= v /\ v < u * m + u /\ m * u = u * m /\ u * m \in Nat
      BY <1>4, <3>2, <3>4, DivideBy, TimesType
    <3>6. u * Precision <= v
      <4>1. u * Precision <= u * Power[2]
        BY <3>2, SignBitIs, ThreeBytes, TimesMonotone
      <4>2. u * Precision \in Nat /\ u * Power[2] \in Nat
        BY <3>2, SignBitIs, ThreeBytes, TimesType
      <4> QED
        BY <1>1, <3>1, <3>3, <4>1, <4>2
    <3>7. t \in Nat /\ t <= v /\ v < t + u
      BY <3>2, <3>4, <3>5
    <3> QED
      BY <3>2, <3>6, <3>7, NearlyAll, SignBitIs
  <2> QED
    BY <1>1, <2>3, <2>4
<1>7. CASE m >= SignBit
  <2> DEFINE k == s + 1
  <2>0. k \in Int /\ k = s + 1
    BY <1>1, Lengths
  <2> HIDE DEF k
  <2>1. c = [size |-> k, mantissa |-> w]
    BY <1>2, <1>7, <2>0
  <2>2. t = IF k <= 3 THEN w \div Power[3 - k]
            ELSE w * Power[k - 3]
    <3> HIDE DEF m, w
    <3> QED
      BY <1>3, <1>5, <2>0, <2>1, SetCompactIs, Zenon
  <2>3. CASE s <= 2
    <3> DEFINE p == Power[3 - k]
    <3>1. 3 - k \in 0 .. HashLen /\ 3 - s \in 1 .. HashLen /\ s <= 3
          /\ 3 - s - 1 = 3 - k /\ k <= 3
      BY <1>1, <2>0, <2>3, ThreeBytes, Lengths
    <3>2. p \in Nat /\ p > 0 /\ Power[3 - s] = Byte * p
      <4>1. Power[3 - s] = Byte * Power[3 - s - 1]
        BY <3>1, PowerIs
      <4>2. Power[3 - s] = Byte * p
        BY <3>1, <4>1, Zenon
      <4> QED
        BY <3>1, <4>2, PowerType
    <3>3. m = v * Power[3 - s] /\ t = w \div p
      BY <2>2, <3>1
    <3> HIDE DEF p, m
    <3>4. v * p \in Nat /\ m = (v * p) * Byte
      BY <3>2, <3>3, Lengths, TimesType
    <3>5. w = v * p
      BY <3>4, Lengths, ExactDivision
    <3>6. t = v
      <4> HIDE DEF w
      <4> QED
        BY <3>2, <3>3, <3>5, ExactDivision
    <3> QED
      BY <3>6, NearlyAll, SignBitIs
  <2>4. CASE s >= 3
    <3> DEFINE p == Power[s - 3]
               u == Power[k - 3]
    <3>1. /\ s - 3 \in 0 .. HashLen /\ ~(k <= 3)
          /\ k - 3 \in 1 .. HashLen /\ k - 3 - 1 = s - 3
          /\ s # 0
      BY <1>1, <2>0, <2>4, ThreeBytes, Lengths
    <3>2. p \in Nat /\ p > 0 /\ u = Byte * p
      <4>1. Power[k - 3] = Byte * Power[k - 3 - 1]
        <5> HIDE DEF m, w, p, u
        <5>1. k - 3 \in 1 .. HashLen
          BY <3>1
        <5>2. \A n \in 1 .. HashLen : Power[n] = Byte * Power[n - 1]
          BY PowerIs
        <5> QED
          BY <5>1, <5>2, Zenon
      <4>2. u = Byte * p
        BY <3>1, <4>1, Zenon
      <4> QED
        BY <3>1, <4>2, PowerType
    <3>3. t = w * u
      BY <2>2, <3>1
    <3>4. p * m <= v /\ v < p * m + p
      <4>1. CASE s = 3
        <5>1. p = 1 /\ Power[3 - s] = 1
          <6>1. s - 3 = 0 /\ 3 - s = 0
            BY <4>1
          <6> QED
            BY <6>1, PowerIs, Zenon
        <5>2. m = v * 1
          BY <4>1, <5>1
        <5> HIDE DEF m, p
        <5> QED
          BY <5>1, <5>2
      <4>2. CASE s # 3
        <5>1. ~(s <= 3)
          BY <1>1, <2>4, <4>2
        <5>2. m = v \div p
          BY <5>1
        <5> HIDE DEF m, p
        <5> QED
          BY <3>2, <5>2, DivideBy
      <4> QED
        BY <4>1, <4>2
    <3> HIDE DEF m, w, p, u
    <3>5. t = p * (Byte * w) /\ p * m \in Nat /\ t \in Nat /\ u \in Nat
      BY <1>4, <1>5, <3>2, <3>3, Lengths, TimesType
    <3>6. t <= v
      <4>1. p * (Byte * w) <= p * m
        BY <1>4, <1>5, <3>2, TimesMonotone
      <4> QED
        BY <3>4, <3>5, <4>1
    <3>7. v < t + u
      <4>1. p * (m + 1) <= p * (Byte * w + Byte)
        BY <1>4, <1>5, <3>2, Lengths, TimesMonotone
      <4>2. p * (m + 1) = p * m + p
            /\ p * (Byte * w + Byte) = p * (Byte * w) + p * Byte
            /\ p * Byte = Byte * p
        BY <1>4, <1>5, <3>2, Lengths
      <4> QED
        BY <3>2, <3>4, <3>5, <4>1, <4>2
    <3>8. u * Precision <= v
      <4>1. p * (Byte * Precision) <= p * m
        <5>1. Byte * Precision <= m /\ Byte * Precision \in Nat
          BY <1>4, <1>7, SignBitIs, Lengths, TimesType
        <5> QED
          BY <1>4, <3>2, <5>1, TimesMonotone
      <4>2. u * Precision = p * (Byte * Precision)
        BY <3>2, SignBitIs, Lengths
      <4>3. u * Precision \in Nat
        BY <3>5, SignBitIs, TimesType
      <4> QED
        BY <3>4, <3>5, <4>1, <4>2, <4>3
    <3> QED
      BY <3>5, <3>6, <3>7, <3>8, NearlyAll, SignBitIs
  <2> QED
    BY <1>1, <2>3, <2>4
<1> QED
  BY <1>4, <1>6, <1>7, SignBitIs

-----------------------------------------------------------------------------
(* The verdict on a share.                                                   *)

LEMMA BigEndianType ==
  ASSUME NEW hash \in Hashes
  PROVE  BigEndian(hash) \in Nat
<1> DEFINE f == [n \in DOMAIN hash |-> hash[n] * Power[Len(hash) - n]]
<1>1. DOMAIN hash = 1 .. HashLen /\ HashLen \in Nat /\ Len(hash) = HashLen
  BY Lengths DEF Hashes
<1>2. ASSUME NEW n \in 1 .. HashLen PROVE f[n] \in Nat
  <2>1. hash[n] \in Nat
    BY Lengths DEF Hashes
  <2>2. HashLen - n \in 0 .. HashLen
    BY <1>1
  <2>3. Power[HashLen - n] \in Nat
    BY <2>2, PowerType
  <2>4. f[n] = hash[n] * Power[HashLen - n]
    BY <1>1
  <2> QED
    BY <2>1, <2>3, <2>4, TimesType
<1>3. IsFiniteSet(1 .. HashLen)
  BY <1>1, FS_Interval
<1>4. DOMAIN f = 1 .. HashLen
  BY <1>1
<1>5. BigEndian(hash) = SumFunctionOnSet(f, 1 .. HashLen)
  BY <1>4 DEF BigEndian, SumFunction
<1> HIDE DEF f
<1> QED
  BY <1>2, <1>3, <1>5, SumNat

LEMMA MaxTargetType ==
  MaxTarget \in Nat /\ MaxTarget < Power[HashLen] /\ Power[HashLen] \in Nat
<1> DEFINE a == HashLen - ZeroBytes
<1>1. a \in Nat /\ a \in 0 .. HashLen /\ HashLen \in Nat /\ HashLen \in 0 .. HashLen
      /\ a <= HashLen
  BY Lengths
<1>2. Power[a] \in Nat /\ Power[a] >= 1 /\ Power[HashLen] \in Nat
      /\ Power[a] <= Power[HashLen]
  <2> HIDE DEF a
  <2> QED
    BY <1>1, PowerType, PowerMonotone
<1> QED
  BY <1>2 DEF MaxTarget

LEMMA TargetType ==
  ASSUME NEW diff \in Nat, diff # 0
  PROVE  DiffToTarget(diff) \in Nat /\ DiffToTarget(diff) < Power[HashLen]
<1> DEFINE q == MaxTarget \div diff
<1>3. MaxTarget \in Nat /\ MaxTarget < Power[HashLen] /\ Power[HashLen] \in Nat
  BY MaxTargetType
<1>4. q \in Nat /\ diff * q <= MaxTarget
  BY <1>3, DivideBy
<1> HIDE DEF q
<1>5. q * 1 <= q * diff /\ q * diff = diff * q /\ q * 1 = q /\ q * diff \in Nat
  BY <1>4, TimesMonotone, TimesType
<1> QED
  BY <1>3, <1>4, <1>5 DEF DiffToTarget, q

\* Compact targets.
Compacts == [size : Nat, mantissa : Nat]

LEMMA CompactType ==
  ASSUME NEW v \in Nat, v < Power[HashLen]
  PROVE  GetCompact(v) \in Compacts
<1> DEFINE s == ByteCount(v)
           m == IF s <= 3 THEN v * Power[3 - s] ELSE v \div Power[s - 3]
<1>1. s \in Nat /\ s \in 0 .. HashLen /\ HashLen \in Nat /\ HashLen >= 4
  BY ByteCountIs, Lengths
<1>2. m \in Nat
  <2> HIDE DEF s
  <2>1. CASE s <= 3
    <3>1. 3 - s \in 0 .. HashLen
      BY <1>1, <2>1
    <3>2. Power[3 - s] \in Nat
      BY <3>1, PowerType
    <3> QED
      BY <2>1, <3>2, TimesType
  <2>2. CASE ~(s <= 3)
    <3>1. s - 3 \in 0 .. HashLen
      BY <1>1, <2>2
    <3>2. Power[s - 3] \in Nat /\ Power[s - 3] >= 1
      BY <3>1, PowerType
    <3> QED
      BY <2>2, <3>2, DivideBy
  <2> QED
    BY <2>1, <2>2
<1>3. GetCompact(v) = IF m >= SignBit
                      THEN [size |-> s + 1, mantissa |-> m \div Byte]
                      ELSE [size |-> s, mantissa |-> m]
  BY DEF GetCompact
<1> HIDE DEF s, m
<1>4. m \div Byte \in Nat
  BY <1>2, TargetsAssumption, DivideBy
<1> QED
  BY <1>1, <1>2, <1>3, <1>4 DEF Compacts

\* The reversed number is compared with the target but for the mantissa of
\* the compact form (stratum/miner.go:359-368).
LEMMA BlockIsWithinTarget ==
  ASSUME NEW hash \in Hashes, NEW diff \in Nat, diff # 0
  PROVE  LET reversed == BigEndian(hash)
             target == DiffToTarget(diff)
         IN  /\ IsBlock(hash, diff) => reversed <= target
             /\ ~IsBlock(hash, diff) =>
                    reversed * Precision > target * (Precision - 1)
<1> DEFINE b == BigEndian(hash)
           v == DiffToTarget(diff)
           t == BlockTarget(diff)
<1> SUFFICES /\ b <= t => b <= v
             /\ ~(b <= t) => b * Precision > v * (Precision - 1)
  BY DEF IsBlock
<1>1. b \in Nat /\ v \in Nat /\ v < Power[HashLen]
  BY BigEndianType, TargetType
<1>2. t = SetCompact(GetCompact(v))
  BY DEF BlockTarget, HeaderBits
<1> HIDE DEF b, v, t
<1>3. t \in Nat /\ t <= v /\ (t + 1) * Precision > v * (Precision - 1)
  BY <1>1, <1>2, CompactTarget
<1>4. Precision \in Nat
  BY SignBitIs
<1>5. b <= t => b <= v
  BY <1>1, <1>3
<1>6. ASSUME t + 1 <= b PROVE b * Precision > v * (Precision - 1)
  <2>1. Precision * (t + 1) <= Precision * b
    BY <1>1, <1>3, <1>4, <1>6, TimesMonotone
  <2>2. Precision * (t + 1) = (t + 1) * Precision /\ Precision * b = b * Precision
    BY <1>1, <1>3, <1>4
  <2>3. (t + 1) * Precision \in Int /\ b * Precision \in Int
        /\ v * (Precision - 1) \in Int
    BY <1>1, <1>3, <1>4
  <2> QED
    BY <1>3, <2>1, <2>2, <2>3
<1> QED
  BY <1>1, <1>3, <1>5, <1>6

-----------------------------------------------------------------------------
(* The session.                                                              *)

Bounds == config.start .. config.max    \* the port's difficulties

-----------------------------------------------------------------------------
(* One goroutine.                                                            *)

Updating == {"diff", "time", "count", "setTime", "setCount", "setDiff"}

LocalsInv(t) ==
    LET me == thread[t]
    IN  /\ t # Connection =>
                me.pc \notin {"verdict", "add", "reply", "panic"}
        /\ InJob(t) => me.height \in 1 .. LastHeight
        /\ me.pc \in Updating => config.adaptive
        /\ me.pc \in {"setTime", "setCount"} => me.diff \in {0} \cup Bounds
        /\ me.pc = "setDiff" => me.diff \in Bounds
        /\ me.pc \in {"verdict", "add"} => submitCount < MaxSubmits

\* What it knows of the session: that a job was prepared before, or that it
\* sets the difficulty itself.
KnowsInv(t) ==
    LET me == thread[t]
    IN  /\ me.pc = "count" /\ me.since # 0 => lastJobUnixTime # 0
        /\ me.pc = "setTime" /\ me.diff = 0 => lastJobUnixTime # 0
        /\ me.alone /\ InJob(t) =>
                /\ \A u \in Threads \ {t} : ~InJob(u)
                /\ me.pc = "count" => me.since = 0 \/ lastDifficulty # 0
                /\ me.pc \in {"setTime", "setCount"} =>
                        me.diff # 0 \/ lastDifficulty # 0
                /\ me.pc = "job" /\ config.adaptive => lastDifficulty # 0
        /\ me.pc = "panic" => ~me.alone

ThreadInv(t) == LocalsInv(t) /\ KnowsInv(t)

-----------------------------------------------------------------------------
(* The session.  Once a request of the connection has ended, the difficulty  *)
(* is set; before, whoever stored the time is about to set it.               *)

FirstIsSet ==
    registered /\ config.adaptive
        /\ thread[Connection].pc \in {"idle", "verdict", "add", "reply"}
            => lastDifficulty # 0

WillBeSet ==
    config.adaptive /\ lastDifficulty = 0 /\ lastJobUnixTime # 0 =>
        \E u \in Threads : /\ thread[u].pc \in {"setCount", "setDiff"}
                           /\ thread[u].diff # 0

ClosedIsIdle ==
    ~registered => jobs = {} /\ \A t \in Threads : At(t, "idle")

Inv ==
    /\ TypeOK
    /\ \A t \in Threads : ThreadInv(t)
    /\ FirstIsSet /\ WillBeSet /\ ClosedIsIdle

LEMMA ConfigType ==
  ASSUME config \in Configs
  PROVE  /\ config.adaptive \in BOOLEAN
         /\ config.start \in Nat \ {0} /\ config.max \in Nat \ {0}
         /\ config.adaptive => config.start <= config.max
         /\ config.max < Word
         /\ 0 \notin Bounds
BY DifficultyAssumption DEF Bounds

\* The bits that a miner may take for a job.
LEMMA BitsType ==
  ASSUME NEW job, job.height \in 1 .. LastHeight, job.diff \in Nat,
         NEW bits \in BitsFor(job)
  PROVE  bits \in Compacts
<1>1. ASSUME NEW d \in Nat, d # 0 PROVE HeaderBits(d) \in Compacts
  BY <1>1, TargetType, CompactType DEF HeaderBits
<1>2. /\ TemplateDiff[job.height] \in Nat
      /\ TemplateDiff[job.height] # 0
      /\ TemplateDiff[job.height] < Power[HashLen]
  <2>1. /\ MaxTarget \in Nat /\ MaxTarget < Power[HashLen]
        /\ Power[HashLen] \in Nat
    BY MaxTargetType
  <2>2. TemplateDiff[job.height] \in 1 .. MaxTarget
    BY DifficultyAssumption
  <2> QED
    BY <2>1, <2>2
<1>3. BlobBits(job.height) \in Compacts
  BY <1>2, CompactType DEF BlobBits
<1> QED
  BY <1>1, <1>2, <1>3 DEF BitsFor

LEMMA WordType == Word \in Nat
BY TargetsAssumption DEF Word

LEMMA IdleType ==
  /\ Idle \in Locals /\ Idle.pc = "idle"
  /\ config \in Configs => NoShare \in Share
<1>1. Idle \in Locals /\ Idle.pc = "idle"
  BY DifficultyAssumption DEF Idle, Locals
<1>2. ASSUME config \in Configs PROVE NoShare \in Share
  <2>1. 1 \in 0 .. Word - 1
    BY <1>2, ConfigType, WordType
  <2>2. [n \in 1 .. HashLen |-> 0] \in Hashes
    BY TargetsAssumption DEF Hashes
  <2>3. 0 \in 0 .. LastHeight /\ 0 \in 0 .. config.max
    BY <1>2, ConfigType, DifficultyAssumption
  <2> QED
    BY <2>1, <2>2, <2>3 DEF NoShare, Share
<1> QED
  BY <1>1, <1>2

\* The difficulty that is used is that of the port.
LEMMA getDifficultyType ==
  ASSUME TypeOK
  PROVE  /\ getDifficulty \in 0 .. config.max
         /\ getDifficulty = 0 => config.adaptive /\ lastDifficulty = 0
         /\ getDifficulty \in 0 .. Word - 1
BY ConfigType, WordType DEF TypeOK, getDifficulty

\* setDifficulty keeps within the port's range, and the first difficulty is
\* always set.
LEMMA AdjustedInBounds ==
  ASSUME config \in Configs, config.adaptive, NEW diff \in Nat,
         NEW since \in Nat, NEW count \in Nat
  PROVE  /\ Adjusted(diff, since, count) \in {0} \cup Bounds
         /\ since = 0 => Adjusted(diff, since, count) # 0
<1>1. ASSUME NEW d \in Int PROVE Clamp(d) \in Bounds
  BY ConfigType DEF Clamp, Bounds
<1>2. /\ Clamp(config.max) \in Bounds /\ Clamp(Raised(diff)) \in Bounds
      /\ Clamp(Lowered(diff)) \in Bounds
  <2>1. Raised(diff) \in Int /\ Lowered(diff) \in Int /\ config.max \in Int
    BY ConfigType DEF Raised, Lowered
  <2> QED
    BY <1>1, <2>1
<1>3. since = 0 => Adjusted(diff, since, count) = Clamp(config.max)
  BY DEF Adjusted
<1>4. since # 0 => Adjusted(diff, since, count)
                        \in {Clamp(Raised(diff)), Clamp(Lowered(diff)), 0}
  BY DEF Adjusted
<1> QED
  BY <1>2, <1>3, <1>4, ConfigType

LEMMA InitInv == Init => Inv
<1> SUFFICES ASSUME Init PROVE Inv
  OBVIOUS
<1>1. TypeOK
  <2>1. /\ 1 \in 1 .. LastTime /\ 1 \in 1 .. LastHeight
        /\ 0 \in 0 .. LastHeight /\ 0 \in 0 .. LastTime /\ 0 \in 0 .. MaxSubmits
    BY DifficultyAssumption
  <2>2. thread \in [Threads -> Locals]
    BY IdleType DEF Init
  <2> QED
    BY <2>1, <2>2, IdleType DEF Init, TypeOK
<1>2. \A t \in Threads : ThreadInv(t)
  BY IdleType DEF Init, ThreadInv, LocalsInv, KnowsInv, InJob, Updating
<1>3. FirstIsSet /\ WillBeSet /\ ClosedIsIdle
  BY IdleType DEF Init, FirstIsSet, WillBeSet, ClosedIsIdle, At
<1> QED
  BY <1>1, <1>2, <1>3 DEF Inv

\* The goroutines that do not move, while what they know stays true.
LEMMA OthersKeepInv ==
  ASSUME Inv, NEW t \in Threads, UNCHANGED config,
         \A u \in Threads \ {t} : thread'[u] = thread[u],
         InJob(t)' => InJob(t),
         lastDifficulty # 0 => lastDifficulty' # 0,
         lastJobUnixTime # 0 => lastJobUnixTime' # 0,
         t = Connection \/ submitCount' \in {0, submitCount}
  PROVE  \A u \in Threads \ {t} : ThreadInv(u)'
<1> SUFFICES ASSUME NEW u \in Threads \ {t} PROVE ThreadInv(u)'
  OBVIOUS
<1>1. ThreadInv(u) /\ thread'[u] = thread[u]
  BY DEF Inv
<1>2. submitCount \in Nat /\ MaxSubmits \in Nat
  BY DifficultyAssumption DEF Inv, TypeOK
<1>3. LocalsInv(u)'
  BY <1>1, <1>2 DEF ThreadInv, LocalsInv, InJob, Bounds
<1>4. KnowsInv(u)'
  BY <1>1 DEF ThreadInv, KnowsInv, InJob
<1> QED
  BY <1>3, <1>4 DEF ThreadInv

-----------------------------------------------------------------------------
(* Jobs.                                                                     *)

LEMMA BeginKeepsInv ==
  ASSUME Inv, NEW t \in Threads, Begin(t)
  PROVE  Inv'
<1> DEFINE first == \A v \in Threads : ~InJob(v)
           me == [Idle EXCEPT !.pc = "swap", !.height = template, !.alone = first]
<1>1. /\ thread[t].pc = "idle" /\ registered' = TRUE
      /\ thread' = [u \in Threads |->
            IF u = t THEN me
            ELSE IF InJob(u) THEN [thread[u] EXCEPT !.alone = FALSE]
            ELSE thread[u]]
      /\ UNCHANGED <<config, now, template, lastBlockHeight, lastDifficulty,
                     lastJobUnixTime, submitCount, jobs, share>>
  BY DEF Begin, At
<1>2. /\ me \in Locals /\ me.pc = "swap" /\ me.height \in 1 .. LastHeight
      /\ me.alone = first /\ first \in BOOLEAN
  <2>1. first \in BOOLEAN
    OBVIOUS
  <2>2. /\ template \in 1 .. LastHeight /\ template \in 0 .. LastHeight
        /\ 0 \in 0 .. LastTime
    BY DifficultyAssumption DEF Inv, TypeOK
  <2> HIDE DEF first
  <2> QED
    BY <2>1, <2>2 DEF Idle, Locals
<1> HIDE DEF me
<1>3. ASSUME NEW u \in Threads \ {t}
      PROVE  /\ thread'[u] \in Locals /\ thread'[u].pc = thread[u].pc
             /\ thread'[u].height = thread[u].height
             /\ thread'[u].diff = thread[u].diff
             /\ thread'[u].since = thread[u].since
             /\ InJob(u) => ~thread'[u].alone
             /\ ~InJob(u) => thread'[u] = thread[u]
  BY <1>1 DEF Inv, TypeOK, Locals
<1>4. TypeOK'
  <2>1. thread' \in [Threads -> Locals]
    BY <1>1, <1>2, <1>3
  <2> QED
    BY <1>1, <2>1 DEF Inv, TypeOK, Share, Job
<1>5. ThreadInv(t)'
  <2>1. thread'[t] = me
    BY <1>1
  <2>2. me.alone => \A u \in Threads \ {t} : ~InJob(u)'
    BY <1>2, <1>3 DEF InJob
  <2> QED
    BY <1>2, <2>1, <2>2 DEF ThreadInv, LocalsInv, KnowsInv, InJob, Updating
<1>6. ASSUME NEW u \in Threads \ {t} PROVE ThreadInv(u)'
  <2>1. ThreadInv(u)
    BY DEF Inv
  <2>2. LocalsInv(u)'
    BY <1>1, <1>3, <2>1 DEF ThreadInv, LocalsInv, InJob, Bounds
  <2>3. KnowsInv(u)'
    BY <1>1, <1>3, <2>1 DEF ThreadInv, KnowsInv, InJob
  <2> QED
    BY <2>2, <2>3 DEF ThreadInv
<1>7. FirstIsSet'
  <2>1. CASE t = Connection
    BY <1>1, <1>2, <2>1 DEF FirstIsSet, Threads
  <2>2. CASE t # Connection
    <3>1. registered /\ Connection \in Threads \ {t}
      BY <2>2 DEF Begin, Threads
    <3> QED
      BY <1>1, <1>3, <3>1 DEF Inv, FirstIsSet
  <2> QED
    BY <2>1, <2>2
<1>8. WillBeSet'
  BY <1>1, <1>3 DEF Inv, WillBeSet
<1>9. ClosedIsIdle'
  BY <1>1 DEF ClosedIsIdle
<1> QED
  BY <1>4, <1>5, <1>6, <1>7, <1>8, <1>9 DEF Inv

LEMMA CloseKeepsInv ==
  ASSUME Inv, Close, UNCHANGED <<config, now, template>>
  PROVE  Inv'
<1>1. \A t \in Threads : thread'[t] = Idle
  BY DEF Close
<1>2. TypeOK'
  <2>1. /\ 0 \in 0 .. LastHeight /\ 0 \in 0 .. LastTime /\ 0 \in 0 .. MaxSubmits
    BY DifficultyAssumption
  <2>2. thread' \in [Threads -> Locals] /\ NoShare \in Share
    BY IdleType DEF Close, Inv, TypeOK
  <2> QED
    BY <2>1, <2>2 DEF Close, Inv, TypeOK, Share, Job
<1>3. \A t \in Threads : ThreadInv(t)'
  BY <1>1, IdleType DEF ThreadInv, LocalsInv, KnowsInv, InJob, Updating
<1>4. (FirstIsSet /\ WillBeSet /\ ClosedIsIdle)'
  BY <1>1, IdleType DEF Close, FirstIsSet, WillBeSet, ClosedIsIdle, At
<1> QED
  BY <1>2, <1>3, <1>4 DEF Inv

LEMMA SwapKeepsInv ==
  ASSUME Inv, NEW t \in Threads, Swap(t)
  PROVE  Inv'
<1> DEFINE h == thread[t].height
           next == IF config.adaptive THEN "diff" ELSE "job"
<1>1. thread[t].pc = "swap" /\ UNCHANGED <<config, now, template>>
      /\ h \in 1 .. LastHeight /\ thread[t] \in Locals /\ InJob(t)
  BY DEF Swap, At, Inv, TypeOK, ThreadInv, LocalsInv, InJob
<1>2. CASE Close
  BY <1>1, <1>2, CloseKeepsInv
<1>3. CASE /\ t # Connection /\ thread' = [thread EXCEPT ![t] = Idle]
           /\ UNCHANGED <<session, share>>
  <2>1. thread'[t] = Idle /\ \A u \in Threads \ {t} : thread'[u] = thread[u]
    BY <1>3 DEF Inv, TypeOK
  <2>2. TypeOK'
    <3>1. thread' \in [Threads -> Locals]
      BY <1>3, IdleType DEF Inv, TypeOK
    <3> QED
      BY <1>1, <1>3, <3>1 DEF session, Inv, TypeOK, Share, Job
  <2>3. ThreadInv(t)'
    BY <2>1, IdleType DEF ThreadInv, LocalsInv, KnowsInv, InJob, Updating
  <2>4. \A u \in Threads \ {t} : ThreadInv(u)'
    BY <1>1, <1>3, <2>1, OthersKeepInv DEF session
  <2>5. (FirstIsSet /\ WillBeSet /\ ClosedIsIdle)'
    <3>1. Connection \in Threads \ {t}
      BY <1>3 DEF Threads
    <3>2. registered
      BY <1>1 DEF Inv, ClosedIsIdle, At
    <3>3. FirstIsSet'
      BY <1>1, <1>3, <2>1, <3>1 DEF Inv, FirstIsSet, session
    <3>4. WillBeSet'
      BY <1>1, <1>3, <2>1 DEF Inv, WillBeSet, session
    <3>5. ClosedIsIdle'
      BY <1>3, <3>2 DEF ClosedIsIdle, session
    <3> QED
      BY <3>3, <3>4, <3>5
  <2> QED
    BY <2>2, <2>3, <2>4, <2>5 DEF Inv
<1>4. CASE /\ lastBlockHeight' = h /\ Goto(t, next)
           /\ UNCHANGED <<registered, lastDifficulty, lastJobUnixTime,
                          submitCount, jobs, share>>
  <2> HIDE DEF h
  <2>1. next \in {"diff", "job"} /\ (next = "diff" <=> config.adaptive)
    BY <1>1, ConfigType DEF Inv, TypeOK
  <2> HIDE DEF next
  <2>2. thread' = [thread EXCEPT ![t].pc = next]
    BY <1>4 DEF Goto
  <2>3. /\ thread'[t] = [thread[t] EXCEPT !.pc = next]
        /\ \A u \in Threads \ {t} : thread'[u] = thread[u]
    BY <2>2 DEF Inv, TypeOK
  <2>4. /\ thread'[t] \in Locals /\ thread'[t].pc = next
        /\ thread'[t].height = thread[t].height
        /\ thread'[t].alone = thread[t].alone
    BY <1>1, <2>1, <2>3 DEF Locals
  <2>5. TypeOK'
    <3>1. thread' \in [Threads -> Locals]
      BY <2>2, <2>4 DEF Inv, TypeOK
    <3>2. lastBlockHeight' \in 0 .. LastHeight
      BY <1>1, <1>4 DEF h
    <3> QED
      BY <1>1, <1>4, <3>1, <3>2 DEF Inv, TypeOK, Share, Job
  <2>6. ThreadInv(t)'
    <3>1. ThreadInv(t)
      BY DEF Inv
    <3>2. \A u \in Threads \ {t} : InJob(u)' <=> InJob(u)
      BY <2>3 DEF InJob
    <3> QED
      BY <1>1, <2>1, <2>4, <3>1, <3>2
         DEF ThreadInv, LocalsInv, KnowsInv, InJob, Updating
  <2>7. \A u \in Threads \ {t} : ThreadInv(u)'
    BY <1>1, <1>4, <2>3, OthersKeepInv
  <2>8. (FirstIsSet /\ WillBeSet /\ ClosedIsIdle)'
    <3>1. registered
      BY <1>1 DEF Inv, ClosedIsIdle, At
    <3>2. FirstIsSet'
      <4>1. CASE t = Connection
        BY <2>1, <2>4, <4>1 DEF FirstIsSet
      <4>2. CASE t # Connection
        BY <1>1, <1>4, <2>3, <4>2 DEF Inv, FirstIsSet, Threads
      <4> QED
        BY <4>1, <4>2
    <3>3. WillBeSet'
      BY <1>1, <1>4, <2>3 DEF Inv, WillBeSet
    <3>4. ClosedIsIdle'
      BY <1>4, <3>1 DEF ClosedIsIdle
    <3> QED
      BY <3>2, <3>3, <3>4
  <2> QED
    BY <2>5, <2>6, <2>7, <2>8 DEF Inv
<1> QED
  BY <1>2, <1>3, <1>4 DEF Swap

\* A step of updateDifficulty moves one goroutine.
LEMMA UpdateStep ==
  ASSUME TypeOK, NEW t \in Threads, NEW r \in Locals,
         thread' = [thread EXCEPT ![t] = r]
  PROVE  /\ thread' \in [Threads -> Locals]
         /\ thread'[t] = r
         /\ \A u \in Threads \ {t} : thread'[u] = thread[u]
BY DEF TypeOK

\* The session's part of Inv after a step of updateDifficulty that ends in a
\* state where somebody still knows.
LEMMA UpdateKeepsSession ==
  ASSUME Inv, NEW t \in Threads, UNCHANGED <<config, registered, jobs>>,
         thread[t].pc \in Updating,
         thread'[t].pc \in Updating \cup {"job"},
         \A u \in Threads \ {t} : thread'[u] = thread[u],
         lastDifficulty # 0 => lastDifficulty' # 0,
         WillBeSet'
  PROVE  (FirstIsSet /\ WillBeSet /\ ClosedIsIdle)'
<1>1. registered
  BY DEF Inv, ClosedIsIdle, At, Updating
<1>2. FirstIsSet'
  <2>1. CASE t = Connection
    BY <2>1 DEF FirstIsSet, Updating
  <2>2. CASE t # Connection
    BY <2>2 DEF Inv, FirstIsSet, Threads
  <2> QED
    BY <2>1, <2>2
<1>3. ClosedIsIdle'
  BY <1>1 DEF ClosedIsIdle
<1> QED
  BY <1>2, <1>3

LEMMA LoadDifficultyKeepsInv ==
  ASSUME Inv, NEW t \in Threads, LoadDifficulty(t)
  PROVE  Inv'
<1> DEFINE r == [thread[t] EXCEPT !.pc = "time", !.diff = lastDifficulty]
<1>1. /\ thread[t].pc = "diff" /\ thread' = [thread EXCEPT ![t] = r]
      /\ UNCHANGED <<config, now, template, session, share>>
  BY DEF LoadDifficulty, At
<1>2. /\ r \in Locals /\ r.pc = "time" /\ r.height = thread[t].height
      /\ r.alone = thread[t].alone
  <2>1. lastDifficulty \in Nat
    BY ConfigType DEF Inv, TypeOK
  <2> QED
    BY <2>1 DEF Inv, TypeOK, Locals
<1> HIDE DEF r
<1>3. /\ thread' \in [Threads -> Locals] /\ thread'[t] = r
      /\ \A u \in Threads \ {t} : thread'[u] = thread[u]
  BY <1>1, <1>2, UpdateStep DEF Inv
<1>4. TypeOK'
  BY <1>1, <1>3 DEF session, Inv, TypeOK, Share, Job
<1>5. ThreadInv(t)'
  <2>1. ThreadInv(t) /\ \A u \in Threads \ {t} : InJob(u)' <=> InJob(u)
    BY <1>3 DEF Inv, InJob
  <2> QED
    BY <1>1, <1>2, <1>3, <2>1
       DEF ThreadInv, LocalsInv, KnowsInv, InJob, Updating
<1>6. \A u \in Threads \ {t} : ThreadInv(u)'
  BY <1>1, <1>3, OthersKeepInv DEF session, InJob
<1>7. WillBeSet'
  BY <1>1, <1>3 DEF Inv, WillBeSet, session
<1>8. (FirstIsSet /\ WillBeSet /\ ClosedIsIdle)'
  BY <1>1, <1>2, <1>3, <1>7, UpdateKeepsSession DEF session, Updating
<1> QED
  BY <1>4, <1>5, <1>6, <1>8 DEF Inv

\* Alone, the goroutine finds a time only together with a difficulty.
LEMMA LoadTimeKeepsInv ==
  ASSUME Inv, NEW t \in Threads, LoadTime(t)
  PROVE  Inv'
<1> DEFINE r == [thread[t] EXCEPT !.pc = "count", !.since = lastJobUnixTime]
<1>1. /\ thread[t].pc = "time" /\ thread' = [thread EXCEPT ![t] = r]
      /\ UNCHANGED <<config, now, template, session, share>>
  BY DEF LoadTime, At
<1>2. /\ r \in Locals /\ r.pc = "count" /\ r.height = thread[t].height
      /\ r.alone = thread[t].alone /\ r.since = lastJobUnixTime
  BY DEF Inv, TypeOK, Locals
<1> HIDE DEF r
<1>3. /\ thread' \in [Threads -> Locals] /\ thread'[t] = r
      /\ \A u \in Threads \ {t} : thread'[u] = thread[u]
  BY <1>1, <1>2, UpdateStep DEF Inv
<1>4. TypeOK'
  BY <1>1, <1>3 DEF session, Inv, TypeOK, Share, Job
<1>5. thread[t].alone => lastJobUnixTime = 0 \/ lastDifficulty # 0
  <2> SUFFICES ASSUME thread[t].alone, lastDifficulty = 0, lastJobUnixTime # 0
               PROVE  FALSE
    OBVIOUS
  <2>1. PICK u \in Threads : thread[u].pc \in {"setCount", "setDiff"}
    BY <1>1 DEF Inv, ThreadInv, LocalsInv, Updating, WillBeSet
  <2>2. u # t /\ InJob(u) /\ InJob(t)
    BY <1>1, <2>1 DEF InJob
  <2> QED
    BY <2>2 DEF Inv, ThreadInv, KnowsInv
<1>6. ThreadInv(t)'
  <2>1. ThreadInv(t) /\ \A u \in Threads \ {t} : InJob(u)' <=> InJob(u)
    BY <1>3 DEF Inv, InJob
  <2> QED
    BY <1>1, <1>2, <1>3, <1>5, <2>1
       DEF ThreadInv, LocalsInv, KnowsInv, InJob, Updating, session
<1>7. \A u \in Threads \ {t} : ThreadInv(u)'
  BY <1>1, <1>3, OthersKeepInv DEF session, InJob
<1>8. WillBeSet'
  BY <1>1, <1>3 DEF Inv, WillBeSet, session
<1>9. (FirstIsSet /\ WillBeSet /\ ClosedIsIdle)'
  BY <1>1, <1>2, <1>3, <1>8, UpdateKeepsSession DEF session, Updating
<1> QED
  BY <1>4, <1>6, <1>7, <1>9 DEF Inv

LEMMA LoadCountKeepsInv ==
  ASSUME Inv, NEW t \in Threads, LoadCount(t)
  PROVE  Inv'
<1> DEFINE since == thread[t].since
           early == since # 0 /\ now - since < MinWait
           diff == Adjusted(thread[t].diff, since, submitCount)
           r == IF early THEN [thread[t] EXCEPT !.pc = "job"]
                ELSE [thread[t] EXCEPT !.pc = "setTime", !.diff = diff]
<1>1. /\ thread[t].pc = "count" /\ thread[t] \in Locals
      /\ UNCHANGED <<config, now, template, session, share>>
  BY DEF LoadCount, At, Inv, TypeOK
<1>2. config.adaptive /\ config \in Configs
  BY <1>1 DEF Inv, TypeOK, ThreadInv, LocalsInv, Updating
<1>3. diff \in {0} \cup Bounds /\ (since = 0 => diff # 0) /\ diff \in Nat
  <2>1. thread[t].diff \in Nat /\ since \in Nat /\ submitCount \in Nat
    BY <1>1, DifficultyAssumption DEF Locals, Inv, TypeOK
  <2>2. Bounds \subseteq Nat
    BY <1>2, ConfigType DEF Bounds
  <2>3. diff \in {0} \cup Bounds /\ (since = 0 => diff # 0)
    <3> HIDE DEF since
    <3> QED
      BY <1>2, <2>1, AdjustedInBounds
  <2> HIDE DEF diff
  <2> QED
    BY <2>2, <2>3
<1>4. thread' = [thread EXCEPT ![t] = r]
  BY <1>1 DEF LoadCount, Inv, TypeOK
<1> HIDE DEF diff
<1>5. /\ r \in Locals /\ r.height = thread[t].height /\ r.alone = thread[t].alone
      /\ \/ r.pc = "job" /\ since # 0
         \/ r.pc = "setTime" /\ r.diff = diff
  BY <1>1, <1>3 DEF Locals
<1> HIDE DEF r
<1>6. /\ thread' \in [Threads -> Locals] /\ thread'[t] = r
      /\ \A u \in Threads \ {t} : thread'[u] = thread[u]
  BY <1>4, <1>5, UpdateStep DEF Inv
<1>7. TypeOK'
  BY <1>1, <1>6 DEF session, Inv, TypeOK, Share, Job
<1>8. ThreadInv(t)'
  <2>1. ThreadInv(t) /\ \A u \in Threads \ {t} : InJob(u)' <=> InJob(u)
    BY <1>6 DEF Inv, InJob
  <2>2. LocalsInv(t)'
    BY <1>1, <1>2, <1>3, <1>5, <1>6, <2>1
       DEF ThreadInv, LocalsInv, InJob, Updating, Bounds
  <2>3. KnowsInv(t)'
    BY <1>1, <1>3, <1>5, <1>6, <2>1
       DEF ThreadInv, KnowsInv, InJob, session
  <2> QED
    BY <2>2, <2>3 DEF ThreadInv
<1>9. \A u \in Threads \ {t} : ThreadInv(u)'
  BY <1>1, <1>6, OthersKeepInv DEF session, InJob
<1>10. WillBeSet'
  BY <1>1, <1>6 DEF Inv, WillBeSet, session
<1>11. (FirstIsSet /\ WillBeSet /\ ClosedIsIdle)'
  BY <1>1, <1>5, <1>6, <1>10, UpdateKeepsSession DEF session, Updating
<1> QED
  BY <1>7, <1>8, <1>9, <1>11 DEF Inv

\* Storing the time announces the difficulty.
LEMMA StoreTimeKeepsInv ==
  ASSUME Inv, NEW t \in Threads, StoreTime(t)
  PROVE  Inv'
<1> DEFINE r == [thread[t] EXCEPT !.pc = "setCount"]
<1>1. /\ thread[t].pc = "setTime" /\ thread[t] \in Locals
      /\ thread' = [thread EXCEPT ![t] = r] /\ lastJobUnixTime' = now
      /\ UNCHANGED <<config, now, template, registered, lastBlockHeight,
                     lastDifficulty, submitCount, jobs, share>>
  BY DEF StoreTime, At, Goto, Inv, TypeOK
<1>2. /\ r \in Locals /\ r.pc = "setCount" /\ r.height = thread[t].height
      /\ r.alone = thread[t].alone /\ r.diff = thread[t].diff
  BY <1>1 DEF Locals
<1> HIDE DEF r
<1>3. /\ thread' \in [Threads -> Locals] /\ thread'[t] = r
      /\ \A u \in Threads \ {t} : thread'[u] = thread[u]
  BY <1>1, <1>2, UpdateStep DEF Inv
<1>4. now # 0 /\ now \in 0 .. LastTime
  BY DifficultyAssumption DEF Inv, TypeOK
<1>5. TypeOK'
  BY <1>1, <1>3, <1>4 DEF Inv, TypeOK, Share, Job
<1>6. ThreadInv(t)'
  <2>1. ThreadInv(t) /\ \A u \in Threads \ {t} : InJob(u)' <=> InJob(u)
    BY <1>3 DEF Inv, InJob
  <2> QED
    BY <1>1, <1>2, <1>3, <2>1
       DEF ThreadInv, LocalsInv, KnowsInv, InJob, Updating, Bounds
<1>7. \A u \in Threads \ {t} : ThreadInv(u)'
  BY <1>1, <1>3, <1>4, OthersKeepInv DEF InJob
<1>8. WillBeSet'
  <2> SUFFICES ASSUME config.adaptive, lastDifficulty = 0
               PROVE  \E u \in Threads : /\ thread'[u].pc \in {"setCount", "setDiff"}
                                         /\ thread'[u].diff # 0
    BY <1>1 DEF WillBeSet
  <2>1. CASE thread[t].diff # 0
    BY <1>2, <1>3, <2>1
  <2>2. CASE thread[t].diff = 0
    <3>1. lastJobUnixTime # 0
      BY <1>1, <2>2 DEF Inv, ThreadInv, KnowsInv
    <3>2. PICK u \in Threads : /\ thread[u].pc \in {"setCount", "setDiff"}
                               /\ thread[u].diff # 0
      BY <3>1 DEF Inv, WillBeSet
    <3>3. u # t
      BY <2>2, <3>2
    <3> QED
      BY <1>3, <3>2, <3>3
  <2> QED
    BY <2>1, <2>2
<1>9. (FirstIsSet /\ WillBeSet /\ ClosedIsIdle)'
  BY <1>1, <1>2, <1>3, <1>8, UpdateKeepsSession DEF Updating
<1> QED
  BY <1>5, <1>6, <1>7, <1>9 DEF Inv

LEMMA StoreCountKeepsInv ==
  ASSUME Inv, NEW t \in Threads, StoreCount(t)
  PROVE  Inv'
<1> DEFINE step == IF thread[t].diff = 0 THEN "job" ELSE "setDiff"
           r == [thread[t] EXCEPT !.pc = step]
<1>1. /\ thread[t].pc = "setCount" /\ thread[t] \in Locals
      /\ thread' = [thread EXCEPT ![t] = r] /\ submitCount' = 0
      /\ UNCHANGED <<config, now, template, registered, lastBlockHeight,
                     lastDifficulty, lastJobUnixTime, jobs, share>>
  BY DEF StoreCount, At, Goto, Inv, TypeOK
<1>2. /\ r \in Locals /\ r.height = thread[t].height
      /\ r.alone = thread[t].alone /\ r.diff = thread[t].diff
      /\ \/ r.pc = "job" /\ r.diff = 0
         \/ r.pc = "setDiff" /\ r.diff # 0
  BY <1>1 DEF Locals
<1> HIDE DEF r, step
<1>3. /\ thread' \in [Threads -> Locals] /\ thread'[t] = r
      /\ \A u \in Threads \ {t} : thread'[u] = thread[u]
  BY <1>1, <1>2, UpdateStep DEF Inv
<1>4. TypeOK'
  BY <1>1, <1>3, DifficultyAssumption DEF Inv, TypeOK, Share, Job
<1>5. ThreadInv(t)'
  <2>1. ThreadInv(t) /\ \A u \in Threads \ {t} : InJob(u)' <=> InJob(u)
    BY <1>3 DEF Inv, InJob
  <2> QED
    BY <1>1, <1>2, <1>3, <2>1
       DEF ThreadInv, LocalsInv, KnowsInv, InJob, Updating, Bounds
<1>6. \A u \in Threads \ {t} : ThreadInv(u)'
  BY <1>1, <1>3, OthersKeepInv DEF InJob
<1>7. WillBeSet'
  BY <1>1, <1>2, <1>3 DEF Inv, WillBeSet
<1>8. (FirstIsSet /\ WillBeSet /\ ClosedIsIdle)'
  BY <1>1, <1>2, <1>3, <1>7, UpdateKeepsSession DEF Updating
<1> QED
  BY <1>4, <1>5, <1>6, <1>8 DEF Inv

LEMMA StoreDifficultyKeepsInv ==
  ASSUME Inv, NEW t \in Threads, StoreDifficulty(t)
  PROVE  Inv'
<1> DEFINE r == [thread[t] EXCEPT !.pc = "job"]
<1>1. /\ thread[t].pc = "setDiff" /\ thread[t] \in Locals
      /\ thread' = [thread EXCEPT ![t] = r]
      /\ lastDifficulty' = thread[t].diff
      /\ UNCHANGED <<config, now, template, registered, lastBlockHeight,
                     lastJobUnixTime, submitCount, jobs, share>>
  BY DEF StoreDifficulty, At, Goto, Inv, TypeOK
<1>2. /\ r \in Locals /\ r.pc = "job" /\ r.height = thread[t].height
      /\ r.alone = thread[t].alone
  BY <1>1 DEF Locals
<1> HIDE DEF r
<1>3. /\ thread' \in [Threads -> Locals] /\ thread'[t] = r
      /\ \A u \in Threads \ {t} : thread'[u] = thread[u]
  BY <1>1, <1>2, UpdateStep DEF Inv
<1>4. lastDifficulty' \in Bounds /\ lastDifficulty' # 0
  BY <1>1, ConfigType DEF Inv, TypeOK, ThreadInv, LocalsInv
<1>5. TypeOK'
  BY <1>1, <1>3, <1>4 DEF Inv, TypeOK, Share, Job, Bounds
<1>6. ThreadInv(t)'
  <2>1. ThreadInv(t) /\ \A u \in Threads \ {t} : InJob(u)' <=> InJob(u)
    BY <1>3 DEF Inv, InJob
  <2> QED
    BY <1>1, <1>2, <1>3, <1>4, <2>1
       DEF ThreadInv, LocalsInv, KnowsInv, InJob, Updating
<1>7. \A u \in Threads \ {t} : ThreadInv(u)'
  BY <1>1, <1>3, <1>4, OthersKeepInv DEF InJob
<1>8. WillBeSet'
  BY <1>4 DEF WillBeSet
<1>9. (FirstIsSet /\ WillBeSet /\ ClosedIsIdle)'
  BY <1>1, <1>2, <1>3, <1>4, <1>8, UpdateKeepsSession DEF Updating
<1> QED
  BY <1>5, <1>6, <1>7, <1>9 DEF Inv

\* Here the difficulty may be 0, but not to a goroutine that was alone.
LEMMA PushJobKeepsInv ==
  ASSUME Inv, NEW t \in Threads, PushJob(t)
  PROVE  Inv'
<1>1. /\ thread[t].pc = "job" /\ thread[t] \in Locals
      /\ thread[t].height \in 1 .. LastHeight
      /\ UNCHANGED <<config, now, template, registered, lastBlockHeight,
                     lastDifficulty, lastJobUnixTime, submitCount, share>>
  BY DEF PushJob, At, Inv, TypeOK, ThreadInv, LocalsInv, InJob
<1>2. registered
  BY <1>1 DEF Inv, ClosedIsIdle, At
<1>3. CASE t = Connection /\ getDifficulty = 0
  <2> DEFINE r == [thread[t] EXCEPT !.pc = "panic"]
  <2>1. thread' = [thread EXCEPT ![t] = r] /\ UNCHANGED jobs
    BY <1>3 DEF PushJob, Goto
  <2>2. /\ r \in Locals /\ r.pc = "panic" /\ r.alone = thread[t].alone
    BY <1>1 DEF Locals
  <2> HIDE DEF r
  <2>3. /\ thread' \in [Threads -> Locals] /\ thread'[t] = r
        /\ \A u \in Threads \ {t} : thread'[u] = thread[u]
    BY <2>1, <2>2, UpdateStep DEF Inv
  <2>4. ~thread[t].alone
    <3>1. config.adaptive /\ lastDifficulty = 0
      BY <1>3, getDifficultyType DEF Inv
    <3> QED
      BY <1>1, <3>1 DEF Inv, ThreadInv, KnowsInv, InJob
  <2>5. TypeOK'
    BY <1>1, <2>1, <2>3 DEF Inv, TypeOK, Share, Job
  <2>6. ThreadInv(t)'
    BY <1>3, <2>2, <2>3, <2>4
       DEF ThreadInv, LocalsInv, KnowsInv, InJob, Updating
  <2>7. \A u \in Threads \ {t} : ThreadInv(u)'
    BY <1>1, <1>3, <2>2, <2>3, OthersKeepInv DEF InJob
  <2>8. (FirstIsSet /\ WillBeSet /\ ClosedIsIdle)'
    <3>1. FirstIsSet'
      BY <1>3, <2>2, <2>3 DEF FirstIsSet
    <3>2. WillBeSet'
      BY <1>1, <2>3 DEF Inv, WillBeSet
    <3>3. ClosedIsIdle'
      BY <1>1, <1>2 DEF ClosedIsIdle
    <3> QED
      BY <3>1, <3>2, <3>3
  <2> QED
    BY <2>5, <2>6, <2>7, <2>8 DEF Inv
<1>4. CASE ~(t = Connection /\ getDifficulty = 0)
  <2> DEFINE diff == IF t = Connection THEN getDifficulty ELSE 0
             job == [height |-> thread[t].height, alone |-> thread[t].alone,
                     diff |-> diff]
  <2>1. thread' = [thread EXCEPT ![t] = Idle] /\ jobs' \subseteq jobs \cup {job}
    BY <1>4 DEF PushJob
  <2>2. diff \in 0 .. config.max
    BY getDifficultyType, ConfigType DEF Inv, TypeOK
  <2> HIDE DEF diff
  <2>3. job \in Job
    BY <1>1, <2>2 DEF Job, Locals
  <2> HIDE DEF job
  <2>4. /\ thread' \in [Threads -> Locals] /\ thread'[t] = Idle
        /\ \A u \in Threads \ {t} : thread'[u] = thread[u]
    BY <2>1, IdleType, UpdateStep DEF Inv
  <2>5. TypeOK'
    BY <1>1, <2>1, <2>3, <2>4 DEF Inv, TypeOK, Share, Job
  <2>6. ThreadInv(t)'
    BY <2>4, IdleType DEF ThreadInv, LocalsInv, KnowsInv, InJob, Updating
  <2>7. \A u \in Threads \ {t} : ThreadInv(u)'
    BY <1>1, <2>4, IdleType, OthersKeepInv DEF InJob
  <2>8. (FirstIsSet /\ WillBeSet /\ ClosedIsIdle)'
    <3>1. FirstIsSet'
      <4>1. CASE t = Connection
        <5>1. config.adaptive => lastDifficulty # 0
          BY <1>4, <4>1 DEF getDifficulty
        <5> QED
          BY <1>1, <5>1 DEF FirstIsSet
      <4>2. CASE t # Connection
        BY <1>1, <2>4, <4>2 DEF Inv, FirstIsSet, Threads
      <4> QED
        BY <4>1, <4>2
    <3>2. WillBeSet'
      BY <1>1, <2>4 DEF Inv, WillBeSet
    <3>3. ClosedIsIdle'
      BY <1>1, <1>2 DEF ClosedIsIdle
    <3> QED
      BY <3>1, <3>2, <3>3
  <2> QED
    BY <2>5, <2>6, <2>7, <2>8 DEF Inv
<1> QED
  BY <1>3, <1>4

-----------------------------------------------------------------------------
(* Shares, and the rest of the world.                                        *)

\* A share is handled by the goroutine of the connection, after its first job.
LEMMA ShareStepKeepsInv ==
  ASSUME Inv, NEW step \in {"idle", "verdict", "add", "reply"},
         Goto(Connection, step),
         thread[Connection].pc \in {"idle", "verdict", "add", "reply"},
         registered,
         step \in {"verdict", "add"} => submitCount' < MaxSubmits,
         submitCount' \in 0 .. MaxSubmits, share' \in Share,
         UNCHANGED <<config, now, template, registered, lastBlockHeight,
                     lastDifficulty, lastJobUnixTime, jobs>>
  PROVE  Inv'
<1> DEFINE t == Connection  r == [thread[t] EXCEPT !.pc = step]
<1>1. t \in Threads /\ thread[t] \in Locals
  BY DEF Threads, Inv, TypeOK
<1> HIDE DEF t
<1>2. r \in Locals /\ r.pc = step
  BY <1>1 DEF Locals
<1>3. thread' = [thread EXCEPT ![t] = r]
  BY DEF Goto, t
<1> HIDE DEF r
<1>4. /\ thread' \in [Threads -> Locals] /\ thread'[t] = r
      /\ \A u \in Threads \ {t} : thread'[u] = thread[u]
  BY <1>1, <1>2, <1>3, UpdateStep DEF Inv
<1>5. TypeOK'
  BY <1>4 DEF Inv, TypeOK, Share, Job
<1>6. ThreadInv(t)'
  BY <1>2, <1>4 DEF ThreadInv, LocalsInv, KnowsInv, InJob, Updating, t
<1>7. \A u \in Threads \ {t} : ThreadInv(u)'
  BY <1>1, <1>2, <1>4, OthersKeepInv DEF InJob, t
<1>8. FirstIsSet'
  BY DEF Inv, FirstIsSet
<1>9. WillBeSet'
  BY <1>4 DEF Inv, WillBeSet, t
<1>10. ClosedIsIdle'
  BY DEF ClosedIsIdle
<1> QED
  BY <1>5, <1>6, <1>7, <1>8, <1>9, <1>10 DEF Inv

LEMMA SharesKeepInv ==
  ASSUME Inv,
         \/ \E job \in jobs : Submit(job)
         \/ Verdict \/ AddSubmitCount \/ Reply
  PROVE  Inv'
<1> DEFINE me == thread[Connection]
<1>1. /\ Connection \in Threads /\ LocalsInv(Connection)
      /\ me.pc # "idle" => registered
      /\ submitCount \in 0 .. MaxSubmits /\ MaxSubmits \in Nat
      /\ config \in Configs /\ share \in Share
  BY DifficultyAssumption DEF Threads, Inv, TypeOK, ThreadInv, ClosedIsIdle, At
<1>2. ASSUME NEW job \in jobs, Submit(job)
      PROVE  Inv'
  <2>0. job \in Job
    BY DEF Inv, TypeOK
  <2> PICK bits \in BitsFor(job), hash \in HashesFor[config.adaptive] :
        share' = [verdict |-> "checked", diff |-> 1, height |-> template,
                  hash |-> hash, bits |-> bits,
                  jobDiff |-> job.diff, alone |-> job.alone]
    BY <1>2 DEF Submit
  <2>1. hash \in Hashes /\ job \in Job /\ bits \in Compacts
    <3>1. job.height \in 1 .. LastHeight /\ job.diff \in Nat
      BY <1>1, <2>0, ConfigType DEF Job
    <3> QED
      BY <1>1, <2>0, <3>1, ConfigType, BitsType, DifficultyAssumption
  <2>2. 1 \in 0 .. Word - 1
    BY <1>1, ConfigType, WordType
  <2>3. template \in 0 .. LastHeight
    BY DEF Inv, TypeOK
  <2>4. share' \in Share
    BY <1>2, <2>1, <2>2, <2>3 DEF Submit, Share, Job, Compacts
  <2>5. registered
    BY DEF Inv, ClosedIsIdle
  <2> QED
    BY <1>1, <1>2, <2>4, <2>5, ShareStepKeepsInv DEF Submit, At, session
<1>3. CASE Verdict
  <2>1. me.pc = "verdict" /\ registered /\ UNCHANGED <<config, now, template, session>>
    BY <1>1, <1>3 DEF Verdict, At
  <2>2. getDifficulty # 0 /\ getDifficulty \in 0 .. Word - 1
    BY <2>1, getDifficultyType DEF Inv, FirstIsSet
  <2>3. /\ \E v \in {"low", "block", "share"} :
                share' = [share EXCEPT !.diff = getDifficulty, !.verdict = v]
        /\ \E step \in {"add", "reply"} : Goto(Connection, step)
    BY <1>3, <2>2 DEF Verdict
  <2>4. share' \in Share
    BY <1>1, <2>1, <2>2, <2>3 DEF Share
  <2>5. submitCount < MaxSubmits
    BY <1>1, <2>1 DEF LocalsInv
  <2> QED
    BY <1>1, <2>1, <2>3, <2>4, <2>5, ShareStepKeepsInv DEF session
<1>4. CASE AddSubmitCount
  <2>1. me.pc = "add" /\ registered /\ submitCount < MaxSubmits
    BY <1>1, <1>4 DEF AddSubmitCount, At, LocalsInv
  <2>2. submitCount' \in 0 .. MaxSubmits
    BY <1>1, <1>4, <2>1 DEF AddSubmitCount
  <2>3. share' \in Share
    BY <1>1, <1>4 DEF AddSubmitCount, Share
  <2> QED
    BY <1>4, <2>1, <2>2, <2>3, ShareStepKeepsInv DEF AddSubmitCount
<1>5. CASE Reply
  <2>1. me.pc = "reply" /\ registered
    BY <1>1, <1>5 DEF Reply, At
  <2>2. share' \in Share
    BY <1>1, <1>5, IdleType DEF Reply, Share
  <2> QED
    BY <1>1, <1>5, <2>1, <2>2, ShareStepKeepsInv DEF Reply, session
<1> QED
  BY <1>2, <1>3, <1>4, <1>5

\* The clock and the template are not in the invariant of the session.
LEMMA WorldKeepsInv ==
  ASSUME Inv, UNCHANGED vars \/ Tick \/ NewTemplate
  PROVE  Inv'
<1>1. /\ now' \in 1 .. LastTime /\ template' \in 1 .. LastHeight
      /\ jobs' \subseteq jobs
      /\ UNCHANGED <<config, registered, lastBlockHeight, lastDifficulty,
                     lastJobUnixTime, submitCount, thread, share>>
  <2>1. /\ now \in 1 .. LastTime /\ template \in 1 .. LastHeight
        /\ LastTime \in Nat /\ LastHeight \in Nat
    BY DifficultyAssumption DEF Inv, TypeOK
  <2>2. CASE UNCHANGED vars
    BY <2>1, <2>2 DEF vars, session
  <2>3. CASE Tick
    BY <2>1, <2>3 DEF Tick, session
  <2>4. CASE NewTemplate
    BY <2>1, <2>4 DEF NewTemplate
  <2> QED
    BY <2>2, <2>3, <2>4
<1>2. TypeOK'
  BY <1>1 DEF Inv, TypeOK, Share, Job
<1>3. \A t \in Threads : ThreadInv(t)'
  BY <1>1 DEF Inv, ThreadInv, LocalsInv, KnowsInv, InJob, Bounds
<1>4. (FirstIsSet /\ WillBeSet /\ ClosedIsIdle)'
  BY <1>1 DEF Inv, FirstIsSet, WillBeSet, ClosedIsIdle, At
<1> QED
  BY <1>2, <1>3, <1>4 DEF Inv

LEMMA NextKeepsInv == Inv /\ [Next]_vars => Inv'
BY BeginKeepsInv, SwapKeepsInv, LoadDifficultyKeepsInv, LoadTimeKeepsInv,
   LoadCountKeepsInv, StoreTimeKeepsInv, StoreCountKeepsInv,
   StoreDifficultyKeepsInv, PushJobKeepsInv, SharesKeepInv, WorldKeepsInv,
   CloseKeepsInv DEF Next, Disconnect

LEMMA InvHolds == Spec => []Inv
BY InitInv, NextKeepsInv, PTL DEF Spec

\* Whatever two goroutines of a session do to its difficulty at the same time,
\* it stays between StartDifficulty and Difficulty once it is set
\* (miner.go:70-126).
THEOREM TypeCorrect == Spec => []TypeOK
BY InvHolds, PTL DEF Inv

\* Nobody who prepares a job alone divides by a difficulty of 0, and no share
\* is judged by it (miner.go:87-134, 323): the difficulty is set before the
\* first job is sent.
THEOREM FirstJobHasDifficulty == Spec => []DifficultyIsSet
<1>1. Inv => DifficultyIsSet
  BY DEF Inv, ThreadInv, KnowsInv, DifficultyIsSet, At
<1> QED
  BY <1>1, InvHolds, PTL

-----------------------------------------------------------------------------
(* Shares.  What a share was judged by is kept beside it; and a job that was *)
(* prepared alone for the template of now leaves the session quiet: whoever  *)
(* loaded the template since will find it in lastBlockHeight and stop, so    *)
(* that the difficulty is the one the job was sent with.                     *)

Judged == share.verdict \in {"low", "share", "block"}

VerdictInv ==
    Judged =>
        /\ share.diff # 0
        /\ share.verdict # "low" <=>
                /\ share.bits = HeaderBits(share.diff)
                /\ CheckHashDifficulty(share.hash, share.diff)
        /\ share.verdict # "low" =>
                (share.verdict = "block" <=> IsBlock(share.hash, share.diff))

PastInv ==
    /\ \A j \in jobs : j.height <= template
    /\ share.height <= template
    /\ \A t \in Threads : thread[t].height <= template

Quiet ==
    /\ lastBlockHeight = template
    /\ \A t \in Threads :
            InJob(t) => thread[t].pc = "swap" /\ thread[t].height = template

\* The difficulties whose target a job sent now may have.
SentDiffs == {0, getDifficulty}

\* Whoever is past the swap alone has left the height it swapped in.
SwappedInv ==
    \A t \in Threads :
        InJob(t) /\ thread[t].alone /\ thread[t].pc # "swap" =>
            lastBlockHeight = thread[t].height

QuietInv ==
    \A j \in jobs :
        j.alone /\ j.height = template => Quiet /\ j.diff \in SentDiffs

ShareInv ==
    share.verdict # "none" /\ share.alone /\ share.height = template =>
        /\ Quiet /\ share.jobDiff \in SentDiffs
        /\ Judged => share.diff = getDifficulty

JobInv == PastInv /\ SwappedInv /\ QuietInv /\ ShareInv

CheckedInv == thread[Connection].pc = "verdict" => share.verdict = "checked"

\* Goroutines that only leave their jobs, or change what is not of one.
LEMMA LeavingKeeps ==
  ASSUME Inv, JobInv,
         UNCHANGED <<config, template, lastBlockHeight, lastDifficulty>>,
         \A t \in Threads :
            /\ InJob(t)' => /\ InJob(t) /\ thread'[t].pc = thread[t].pc
                            /\ thread'[t].height = thread[t].height
                            /\ thread'[t].alone => thread[t].alone
            /\ thread'[t].height <= template
  PROVE  /\ SwappedInv' /\ (Quiet => Quiet')
         /\ getDifficulty' = getDifficulty /\ SentDiffs' = SentDiffs
<1>1. SwappedInv'
  BY DEF JobInv, SwappedInv
<1>2. Quiet => Quiet'
  BY DEF Quiet
<1>3. getDifficulty' = getDifficulty
  BY DEF getDifficulty
<1> QED
  BY <1>1, <1>2, <1>3 DEF SentDiffs

LEMMA CloseKeepsJobInv ==
  ASSUME Inv, JobInv, Close, UNCHANGED <<config, now, template>>
  PROVE  JobInv' /\ VerdictInv'
<1>1. /\ \A t \in Threads : thread'[t] = Idle
      /\ jobs' = {} /\ share' = NoShare /\ template' = template
      /\ template \in Nat
  BY DEF Close, Inv, TypeOK
<1>2. Idle.pc = "idle" /\ Idle.height = 0 /\ NoShare.height = 0
      /\ NoShare.verdict = "none"
  BY DEF Idle, NoShare
<1>3. PastInv'
  BY <1>1, <1>2 DEF PastInv
<1>4. SwappedInv' /\ QuietInv' /\ ShareInv' /\ VerdictInv'
  BY <1>1, <1>2 DEF SwappedInv, QuietInv, ShareInv, VerdictInv, Judged, InJob
<1> QED
  BY <1>3, <1>4 DEF JobInv

LEMMA InitJobInv == Init => JobInv /\ VerdictInv
<1> SUFFICES ASSUME Init PROVE JobInv /\ VerdictInv
  OBVIOUS
<1>1. /\ \A t \in Threads : thread[t] = Idle
      /\ jobs = {} /\ share = NoShare /\ template = 1
  BY DEF Init
<1>2. Idle.pc = "idle" /\ Idle.height = 0 /\ NoShare.height = 0
      /\ NoShare.verdict = "none"
  BY DEF Idle, NoShare
<1>3. PastInv
  BY <1>1, <1>2 DEF PastInv
<1>4. SwappedInv /\ QuietInv /\ ShareInv /\ VerdictInv
  BY <1>1, <1>2 DEF SwappedInv, QuietInv, ShareInv, VerdictInv, Judged, InJob
<1> QED
  BY <1>3, <1>4 DEF JobInv

\* Whoever begins a job finds the others in theirs, and has the template.
LEMMA BeginKeepsJobInv ==
  ASSUME Inv, JobInv, NEW t \in Threads, Begin(t)
  PROVE  JobInv'
<1> DEFINE me == [Idle EXCEPT !.pc = "swap", !.height = template,
                              !.alone = \A v \in Threads : ~InJob(v)]
<1>1. /\ thread' = [u \in Threads |->
            IF u = t THEN me
            ELSE IF InJob(u) THEN [thread[u] EXCEPT !.alone = FALSE]
            ELSE thread[u]]
      /\ UNCHANGED <<config, now, template, lastBlockHeight, lastDifficulty,
                     lastJobUnixTime, submitCount, jobs, share>>
  BY DEF Begin
<1>2. me.pc = "swap" /\ me.height = template
  BY DEF Idle
<1> HIDE DEF me
<1>3. ASSUME NEW u \in Threads \ {t}
      PROVE  /\ thread'[u].pc = thread[u].pc
             /\ thread'[u].height = thread[u].height
             /\ InJob(u) => ~thread'[u].alone
  BY <1>1 DEF Inv, TypeOK, Locals
<1>4. thread'[t] = me
  BY <1>1
<1>5. template \in Nat
  BY DEF Inv, TypeOK
<1>6. PastInv'
  BY <1>1, <1>2, <1>3, <1>4, <1>5 DEF JobInv, PastInv
<1>7. SwappedInv'
  <2>1. ASSUME NEW u \in Threads \ {t}
        PROVE  ~(InJob(u)' /\ thread'[u].alone)
    BY <1>3, <2>1 DEF InJob
  <2>2. thread'[t].pc = "swap"
    BY <1>2, <1>4
  <2> QED
    BY <2>1, <2>2 DEF SwappedInv
<1>8. Quiet => Quiet'
  BY <1>1, <1>2, <1>3, <1>4 DEF Quiet, InJob
<1>9. getDifficulty' = getDifficulty /\ SentDiffs' = SentDiffs
  BY <1>1 DEF getDifficulty, SentDiffs
<1>10. QuietInv'
  BY <1>1, <1>8, <1>9 DEF JobInv, QuietInv
<1>11. ShareInv'
  BY <1>1, <1>8, <1>9 DEF JobInv, ShareInv, Judged
<1> QED
  BY <1>6, <1>7, <1>10, <1>11 DEF JobInv

\* Where somebody is past the swap it is not quiet, and no job for the template
\* of now was prepared alone.
LEMMA BusyKeeps ==
  ASSUME JobInv, ~Quiet, UNCHANGED <<template, jobs, share>>
  PROVE  QuietInv' /\ ShareInv'
BY DEF JobInv, QuietInv, ShareInv

LEMMA SwapKeepsJobInv ==
  ASSUME Inv, JobInv, VerdictInv, NEW t \in Threads, Swap(t)
  PROVE  JobInv' /\ VerdictInv'
<1> DEFINE h == thread[t].height
<1>1. thread[t].pc = "swap" /\ UNCHANGED <<config, now, template>> /\ InJob(t)
      /\ template \in Nat /\ h \in Nat /\ thread[t] \in Locals
  BY DEF Swap, At, InJob, Inv, TypeOK, Locals
<1>2. CASE Close
  BY <1>1, <1>2, CloseKeepsJobInv
<1>3. CASE thread' = [thread EXCEPT ![t] = Idle] /\ UNCHANGED <<session, share>>
  <2>1. thread'[t] = Idle /\ \A u \in Threads \ {t} : thread'[u] = thread[u]
    BY <1>3 DEF Inv, TypeOK
  <2>2. /\ UNCHANGED <<lastBlockHeight, lastDifficulty, jobs, share>>
        /\ Idle.height = 0 /\ ~InJob(t)'
    BY <1>3, <2>1 DEF session, Idle, InJob
  <2>3. PastInv'
    BY <1>1, <2>1, <2>2 DEF JobInv, PastInv
  <2>4. /\ SwappedInv' /\ (Quiet => Quiet')
        /\ getDifficulty' = getDifficulty /\ SentDiffs' = SentDiffs
    <3>1. \A u \in Threads :
            /\ InJob(u)' => /\ InJob(u) /\ thread'[u].pc = thread[u].pc
                            /\ thread'[u].height = thread[u].height
                            /\ thread'[u].alone => thread[u].alone
            /\ thread'[u].height <= template
      BY <1>1, <2>1, <2>2, <2>3 DEF PastInv, InJob
    <3> QED
      BY <1>1, <2>2, <3>1, LeavingKeeps
  <2>5. QuietInv' /\ ShareInv' /\ VerdictInv'
    BY <1>1, <2>2, <2>4 DEF JobInv, QuietInv, ShareInv, VerdictInv, Judged
  <2> QED
    BY <2>3, <2>4, <2>5 DEF JobInv
<1>4. CASE /\ lastBlockHeight # h /\ lastBlockHeight' = h
           /\ Goto(t, IF config.adaptive THEN "diff" ELSE "job")
           /\ UNCHANGED <<registered, lastDifficulty, lastJobUnixTime,
                          submitCount, jobs, share>>
  <2>1. /\ thread'[t].height = h /\ thread'[t].alone = thread[t].alone
        /\ \A u \in Threads \ {t} : thread'[u] = thread[u]
    BY <1>1, <1>4 DEF Goto, Inv, TypeOK, Locals
  <2>2. ~Quiet
    BY <1>1, <1>4 DEF Quiet
  <2>3. QuietInv' /\ ShareInv'
    BY <1>1, <1>4, <2>2, BusyKeeps
  <2>4. PastInv'
    BY <1>1, <1>4, <2>1 DEF JobInv, PastInv
  <2>5. SwappedInv'
    <3>1. ASSUME NEW u \in Threads \ {t}, InJob(u)
          PROVE  ~thread[u].alone
      BY <1>1, <3>1 DEF Inv, ThreadInv, KnowsInv
    <3>2. \A u \in Threads \ {t} : InJob(u)' => ~thread'[u].alone
      BY <2>1, <3>1 DEF InJob
    <3> QED
      BY <1>4, <2>1, <3>2 DEF SwappedInv
  <2>6. VerdictInv'
    BY <1>4 DEF VerdictInv, Judged
  <2> QED
    BY <2>3, <2>4, <2>5, <2>6 DEF JobInv
<1> QED
  BY <1>2, <1>3, <1>4 DEF Swap

\* A step of updateDifficulty.
LEMMA UpdatesKeepJobInv ==
  ASSUME Inv, JobInv, VerdictInv, NEW t \in Threads,
         \/ LoadDifficulty(t) \/ LoadTime(t) \/ LoadCount(t)
         \/ StoreTime(t) \/ StoreCount(t) \/ StoreDifficulty(t)
  PROVE  JobInv' /\ VerdictInv'
<1>1. /\ thread[t].pc \in Updating
      /\ UNCHANGED <<template, lastBlockHeight, jobs, share>>
  BY DEF LoadDifficulty, LoadTime, LoadCount, StoreTime, StoreCount,
         StoreDifficulty, At, Updating, session
<1>2. /\ thread'[t].height = thread[t].height
      /\ thread'[t].alone = thread[t].alone
      /\ \A u \in Threads \ {t} : thread'[u] = thread[u]
  <2>1. thread \in [Threads -> Locals] /\ thread[t] \in Locals
    BY DEF Inv, TypeOK
  <2>2. CASE LoadDifficulty(t)
    BY <2>1, <2>2 DEF LoadDifficulty, Locals
  <2>3. CASE LoadTime(t)
    BY <2>1, <2>3 DEF LoadTime, Locals
  <2>4. CASE LoadCount(t)
    BY <2>1, <2>4 DEF LoadCount, Locals
  <2>5. CASE StoreTime(t)
    BY <2>1, <2>5 DEF StoreTime, Goto, Locals
  <2>6. CASE StoreCount(t)
    BY <2>1, <2>6 DEF StoreCount, Goto, Locals
  <2>7. CASE StoreDifficulty(t)
    BY <2>1, <2>7 DEF StoreDifficulty, Goto, Locals
  <2> QED
    BY <2>2, <2>3, <2>4, <2>5, <2>6, <2>7
<1>3. InJob(t) /\ thread[t].pc # "swap"
  BY <1>1 DEF InJob, Updating
<1>4. QuietInv' /\ ShareInv'
  <2>1. ~Quiet
    BY <1>3 DEF Quiet
  <2> QED
    BY <1>1, <2>1, BusyKeeps
<1>5. PastInv'
  BY <1>1, <1>2 DEF JobInv, PastInv
<1>6. SwappedInv'
  BY <1>1, <1>2, <1>3 DEF JobInv, SwappedInv, InJob
<1>7. VerdictInv'
  BY <1>1 DEF VerdictInv, Judged
<1> QED
  BY <1>4, <1>5, <1>6, <1>7 DEF JobInv

\* The job of a goroutine that was alone since it loaded the template: nobody
\* else is in one, and the template is in lastBlockHeight.
LEMMA PushJobKeepsJobInv ==
  ASSUME Inv, JobInv, VerdictInv, NEW t \in Threads, PushJob(t)
  PROVE  JobInv' /\ VerdictInv'
<1> DEFINE new == [height |-> thread[t].height, alone |-> thread[t].alone,
                   diff |-> IF t = Connection THEN getDifficulty ELSE 0]
<1>1. /\ thread[t].pc = "job" /\ InJob(t) /\ ~Quiet
      /\ UNCHANGED <<config, template, lastBlockHeight, lastDifficulty, share>>
      /\ template \in Nat
  BY DEF PushJob, At, InJob, Quiet, Inv, TypeOK
<1>2. /\ ~InJob(t)' /\ thread'[t].height <= template
      /\ \A u \in Threads \ {t} : thread'[u] = thread[u]
  <2>1. thread \in [Threads -> Locals] /\ thread[t] \in Locals
    BY DEF Inv, TypeOK
  <2>2. thread[t].height <= template
    BY DEF JobInv, PastInv
  <2>3. CASE Goto(t, "panic")
    BY <2>1, <2>2, <2>3 DEF Goto, InJob, Locals
  <2>4. CASE thread' = [thread EXCEPT ![t] = Idle]
    BY <1>1, <2>1, <2>4 DEF Idle, InJob
  <2> QED
    BY <2>3, <2>4 DEF PushJob
<1>3. \A j \in jobs' : j \in jobs \/ j = new
  BY Zenon DEF PushJob
<1>4. new.height = thread[t].height /\ new.alone = thread[t].alone
      /\ new.diff \in SentDiffs
  BY DEF SentDiffs
<1> HIDE DEF new
<1>5. PastInv'
  BY <1>1, <1>2, <1>3, <1>4 DEF JobInv, PastInv
<1>6. SwappedInv' /\ SentDiffs' = SentDiffs
  <2>1. \A u \in Threads :
          /\ InJob(u)' => /\ InJob(u) /\ thread'[u].pc = thread[u].pc
                          /\ thread'[u].height = thread[u].height
                          /\ thread'[u].alone => thread[u].alone
          /\ thread'[u].height <= template
    BY <1>2, <1>1, <1>5 DEF PastInv, InJob
  <2> QED
    BY <1>1, <2>1, LeavingKeeps
<1>7. QuietInv'
  <2> SUFFICES ASSUME NEW j \in jobs', j.alone, j.height = template
               PROVE  Quiet' /\ j.diff \in SentDiffs
    BY <1>1, <1>6 DEF QuietInv
  <2>1. j = new /\ thread[t].alone /\ thread[t].height = template
    BY <1>1, <1>3, <1>4 DEF JobInv, QuietInv
  <2>2. lastBlockHeight = template
    BY <1>1, <2>1 DEF JobInv, SwappedInv
  <2>3. \A u \in Threads \ {t} : ~InJob(u)
    BY <1>1, <2>1 DEF Inv, ThreadInv, KnowsInv
  <2>4. \A u \in Threads : ~InJob(u)'
    BY <1>2, <2>3 DEF InJob
  <2> QED
    BY <1>1, <1>4, <2>1, <2>2, <2>4 DEF Quiet
<1>8. ShareInv' /\ VerdictInv'
  BY <1>1 DEF JobInv, ShareInv, VerdictInv, Judged
<1> QED
  BY <1>5, <1>6, <1>7, <1>8 DEF JobInv

\* A share moves only the connection, which is in no job.
LEMMA ShareStepKeepsJobInv ==
  ASSUME Inv, JobInv, NEW step \in {"idle", "verdict", "add", "reply", "panic"},
         Goto(Connection, step), ~InJob(Connection),
         UNCHANGED <<config, template, lastBlockHeight, lastDifficulty, jobs>>,
         share'.height <= template
  PROVE  /\ PastInv' /\ SwappedInv' /\ QuietInv' /\ (Quiet => Quiet')
         /\ getDifficulty' = getDifficulty /\ SentDiffs' = SentDiffs
<1>1. /\ ~InJob(Connection)'
      /\ thread'[Connection].height = thread[Connection].height
      /\ \A u \in Threads \ {Connection} : thread'[u] = thread[u]
  BY DEF Goto, InJob, Threads, Inv, TypeOK, Locals
<1>2. PastInv'
  BY <1>1 DEF JobInv, PastInv
<1>3. /\ SwappedInv' /\ (Quiet => Quiet')
      /\ getDifficulty' = getDifficulty /\ SentDiffs' = SentDiffs
  <2>1. \A u \in Threads :
          /\ InJob(u)' => /\ InJob(u) /\ thread'[u].pc = thread[u].pc
                          /\ thread'[u].height = thread[u].height
                          /\ thread'[u].alone => thread[u].alone
          /\ thread'[u].height <= template
    BY <1>1, <1>2 DEF PastInv, InJob
  <2> QED
    BY <2>1, LeavingKeeps
<1>4. QuietInv'
  BY <1>3 DEF JobInv, QuietInv
<1> QED
  BY <1>2, <1>3, <1>4

LEMMA SharesKeepJobInv ==
  ASSUME Inv, JobInv, VerdictInv, CheckedInv,
         \/ \E job \in jobs : Submit(job)
         \/ Verdict \/ AddSubmitCount \/ Reply
  PROVE  JobInv' /\ VerdictInv'
<1>1. /\ template \in Nat /\ share.height <= template /\ share \in Share
      /\ Connection \in Threads
  BY DEF JobInv, PastInv, Inv, TypeOK, Threads
<1>2. ASSUME NEW job \in jobs, Submit(job)
      PROVE  JobInv' /\ VerdictInv'
  <2> PICK bits, hash :
        share' = [verdict |-> "checked", diff |-> 1, height |-> template,
                  hash |-> hash, bits |-> bits,
                  jobDiff |-> job.diff, alone |-> job.alone]
    BY <1>2 DEF Submit
  <2>1. /\ job.height = template /\ Goto(Connection, "verdict")
        /\ ~InJob(Connection) /\ UNCHANGED <<config, now, template, session>>
    BY <1>2 DEF Submit, At, InJob
  <2>2. /\ share'.height = template /\ share'.verdict = "checked"
        /\ share'.jobDiff = job.diff /\ share'.alone = job.alone
    BY <2>1
  <2>3. /\ PastInv' /\ SwappedInv' /\ QuietInv' /\ (Quiet => Quiet')
        /\ SentDiffs' = SentDiffs
    BY <1>1, <2>1, <2>2, ShareStepKeepsJobInv DEF session
  <2>4. ShareInv' /\ VerdictInv'
    BY <2>1, <2>2, <2>3 DEF JobInv, QuietInv, ShareInv, VerdictInv, Judged
  <2> QED
    BY <2>3, <2>4 DEF JobInv
<1>3. CASE Verdict
  <2>1. /\ ~InJob(Connection) /\ UNCHANGED <<config, now, template, session>>
    BY <1>3 DEF Verdict, At, InJob
  <2>2. CASE getDifficulty = 0
    <3>1. Goto(Connection, "panic") /\ UNCHANGED share
      BY <1>3, <2>2 DEF Verdict
    <3>2. /\ PastInv' /\ SwappedInv' /\ QuietInv' /\ (Quiet => Quiet')
          /\ getDifficulty' = getDifficulty /\ SentDiffs' = SentDiffs
      BY <1>1, <2>1, <3>1, ShareStepKeepsJobInv DEF session
    <3>3. ShareInv' /\ VerdictInv'
      BY <2>1, <3>1, <3>2 DEF JobInv, ShareInv, VerdictInv, Judged
    <3> QED
      BY <3>2, <3>3 DEF JobInv
  <2>3. CASE getDifficulty # 0
    <3> DEFINE ok == /\ share.bits = HeaderBits(getDifficulty)
                     /\ CheckHashDifficulty(share.hash, getDifficulty)
               block == IsBlock(share.hash, getDifficulty)
               verdict == IF ~ok THEN "low" ELSE IF block THEN "block" ELSE "share"
    <3>1. /\ share' = [share EXCEPT !.diff = getDifficulty, !.verdict = verdict]
          /\ Goto(Connection, IF ok THEN "add" ELSE "reply")
      BY <1>3, <2>3 DEF Verdict
    <3>2. /\ share'.diff = getDifficulty /\ share'.verdict = verdict
          /\ share'.hash = share.hash /\ share'.height = share.height
          /\ share'.bits = share.bits
          /\ share'.jobDiff = share.jobDiff /\ share'.alone = share.alone
      BY <1>1, <3>1 DEF Share
    <3>3. /\ verdict \in {"low", "share", "block"}
          /\ verdict # "low" <=> ok
          /\ verdict # "low" => (verdict = "block" <=> block)
      OBVIOUS
    <3> HIDE DEF verdict
    <3>4. \E step \in {"add", "reply"} : Goto(Connection, step)
      BY <3>1
    <3>5. /\ PastInv' /\ SwappedInv' /\ QuietInv' /\ (Quiet => Quiet')
          /\ getDifficulty' = getDifficulty /\ SentDiffs' = SentDiffs
      BY <1>1, <2>1, <3>2, <3>4, ShareStepKeepsJobInv DEF session
    <3>6. VerdictInv'
      BY <2>3, <3>2, <3>3, Zenon DEF VerdictInv
    <3>7. ShareInv'
      <4>1. share.verdict = "checked"
        BY <1>3 DEF Verdict, At, CheckedInv
      <4> QED
        BY <2>1, <3>2, <3>5, <4>1 DEF JobInv, ShareInv
    <3> QED
      BY <3>5, <3>6, <3>7 DEF JobInv
  <2> QED
    BY <2>2, <2>3
<1>4. CASE AddSubmitCount
  <2>1. /\ ~InJob(Connection) /\ Goto(Connection, "reply")
        /\ UNCHANGED <<config, template, lastBlockHeight, lastDifficulty, jobs,
                       share>>
    BY <1>4 DEF AddSubmitCount, At, InJob
  <2>2. /\ PastInv' /\ SwappedInv' /\ QuietInv' /\ (Quiet => Quiet')
        /\ getDifficulty' = getDifficulty /\ SentDiffs' = SentDiffs
    BY <1>1, <2>1, ShareStepKeepsJobInv
  <2>3. ShareInv' /\ VerdictInv'
    BY <2>1, <2>2 DEF JobInv, ShareInv, VerdictInv, Judged
  <2> QED
    BY <2>2, <2>3 DEF JobInv
<1>5. CASE Reply
  <2>1. /\ ~InJob(Connection) /\ Goto(Connection, "idle") /\ share' = NoShare
        /\ UNCHANGED <<config, now, template, session>>
    BY <1>5 DEF Reply, At, InJob
  <2>2. share'.height <= template /\ share'.verdict = "none"
    BY <1>1, <2>1 DEF NoShare
  <2>3. PastInv' /\ SwappedInv' /\ QuietInv'
    BY <1>1, <2>1, <2>2, ShareStepKeepsJobInv DEF session
  <2>4. ShareInv' /\ VerdictInv'
    BY <2>2 DEF ShareInv, VerdictInv, Judged
  <2> QED
    BY <2>3, <2>4 DEF JobInv
<1> QED
  BY <1>2, <1>3, <1>4, <1>5

\* A new template leaves no job that is for the template of now.
LEMMA WorldKeepsJobInv ==
  ASSUME Inv, JobInv, VerdictInv, UNCHANGED vars \/ Tick \/ NewTemplate
  PROVE  JobInv' /\ VerdictInv'
<1>1. UNCHANGED <<config, lastBlockHeight, lastDifficulty, thread, share>>
  BY DEF Tick, NewTemplate, vars, session
<1>2. SwappedInv' /\ VerdictInv'
  BY <1>1 DEF JobInv, SwappedInv, InJob, VerdictInv, Judged
<1>3. CASE UNCHANGED <<template, jobs>>
  BY <1>1, <1>2, <1>3 DEF JobInv, PastInv, QuietInv, ShareInv, Quiet, Judged,
                          SentDiffs, getDifficulty, InJob
<1>4. CASE NewTemplate
  <2>1. /\ template' = template + 1 /\ template \in Nat
        /\ \A j \in jobs' : j \in jobs /\ j.height \in Nat
        /\ share.height \in Nat /\ \A t \in Threads : thread[t].height \in Nat
    BY <1>4 DEF NewTemplate, Inv, TypeOK, Job, Share, Locals
  <2>2. PastInv'
    BY <1>1, <2>1 DEF JobInv, PastInv
  <2>3. \A j \in jobs' : j.height # template'
    BY <2>1 DEF JobInv, PastInv
  <2>4. share'.height # template'
    BY <1>1, <2>1 DEF JobInv, PastInv
  <2> QED
    BY <1>2, <2>2, <2>3, <2>4 DEF JobInv, QuietInv, ShareInv
<1> QED
  BY <1>3, <1>4 DEF Tick, vars, session

\* The verdict is given on the share that was checked.
LEMMA NextKeepsCheckedInv ==
  ASSUME Inv, CheckedInv, [Next]_vars
  PROVE  CheckedInv'
<1>1. thread \in [Threads -> Locals] /\ Connection \in Threads
      /\ \A t \in Threads : thread[t] \in Locals
  BY DEF Inv, TypeOK, Threads
<1>2. ASSUME NEW t \in Threads, Begin(t) PROVE CheckedInv'
  <2>1. thread'[Connection].pc \in {"swap", thread[Connection].pc}
    BY <1>1, <1>2 DEF Begin, Idle, Locals
  <2> QED
    BY <1>2, <2>1 DEF Begin, CheckedInv
<1>3. ASSUME NEW t \in Threads, Swap(t) PROVE CheckedInv'
  <2>1. CASE Close
    BY <1>1, <2>1 DEF Close, Idle, CheckedInv
  <2>2. CASE ~Close
    <3>1. /\ share' = share
          /\ thread'[Connection].pc \in
                {"idle", "diff", "job", thread[Connection].pc}
      BY <1>1, <1>3, <2>2 DEF Swap, Goto, Idle, Locals
    <3> QED
      BY <3>1 DEF CheckedInv
  <2> QED
    BY <2>1, <2>2
<1>4. ASSUME NEW t \in Threads,
             \/ LoadDifficulty(t) \/ LoadTime(t) \/ LoadCount(t)
             \/ StoreTime(t) \/ StoreCount(t) \/ StoreDifficulty(t)
             \/ PushJob(t)
      PROVE  CheckedInv'
  <2>1. share' = share
    BY <1>4 DEF LoadDifficulty, LoadTime, LoadCount, StoreTime, StoreCount,
                StoreDifficulty, PushJob
  <2>2. CASE LoadDifficulty(t)
    BY <1>1, <2>1, <2>2 DEF LoadDifficulty, CheckedInv, Locals
  <2>3. CASE LoadTime(t)
    BY <1>1, <2>1, <2>3 DEF LoadTime, CheckedInv, Locals
  <2>4. CASE LoadCount(t)
    BY <1>1, <2>1, <2>4 DEF LoadCount, CheckedInv, Locals
  <2>5. CASE StoreTime(t)
    BY <1>1, <2>1, <2>5 DEF StoreTime, Goto, CheckedInv, Locals
  <2>6. CASE StoreCount(t)
    BY <1>1, <2>1, <2>6 DEF StoreCount, Goto, CheckedInv, Locals
  <2>7. CASE StoreDifficulty(t)
    BY <1>1, <2>1, <2>7 DEF StoreDifficulty, Goto, CheckedInv, Locals
  <2>8. CASE PushJob(t)
    BY <1>1, <2>1, <2>8 DEF PushJob, Goto, Idle, CheckedInv, Locals
  <2> QED
    BY <1>4, <2>2, <2>3, <2>4, <2>5, <2>6, <2>7, <2>8
<1>5. ASSUME NEW job \in jobs, Submit(job)
      PROVE  CheckedInv'
  BY <1>5 DEF Submit, CheckedInv
<1>6. CASE Verdict \/ AddSubmitCount \/ Reply
  <2>1. thread'[Connection].pc \in {"panic", "add", "reply", "idle"}
    BY <1>1, <1>6 DEF Verdict, AddSubmitCount, Reply, Goto, Locals
  <2> QED
    BY <2>1 DEF CheckedInv
<1>7. CASE Disconnect
  BY <1>1, <1>7 DEF Disconnect, Close, Idle, CheckedInv
<1>8. CASE UNCHANGED vars \/ Tick \/ NewTemplate
  BY <1>8 DEF vars, Tick, NewTemplate, CheckedInv
<1> QED
  BY <1>2, <1>3, <1>4, <1>5, <1>6, <1>7, <1>8 DEF Next

LEMMA NextKeepsJobInv ==
  Inv /\ JobInv /\ CheckedInv /\ VerdictInv /\ [Next]_vars
    => JobInv' /\ VerdictInv'
<1> SUFFICES ASSUME Inv, JobInv, CheckedInv, VerdictInv, [Next]_vars
             PROVE  JobInv' /\ VerdictInv'
  OBVIOUS
<1>1. ASSUME NEW t \in Threads, Begin(t) PROVE JobInv' /\ VerdictInv'
  BY <1>1, BeginKeepsJobInv DEF Begin, VerdictInv, Judged
<1>2. CASE Disconnect
  BY <1>2, CloseKeepsJobInv DEF Disconnect
<1> QED
  BY <1>1, <1>2, SwapKeepsJobInv, UpdatesKeepJobInv, PushJobKeepsJobInv,
     SharesKeepJobInv, WorldKeepsJobInv DEF Next

LEMMA JobInvHolds == Spec => [](Inv /\ JobInv /\ CheckedInv /\ VerdictInv)
<1>1. Init => Inv /\ JobInv /\ CheckedInv /\ VerdictInv
  <2>1. Init => CheckedInv
    BY DEF Init, Idle, CheckedInv, Threads
  <2> QED
    BY <2>1, InitInv, InitJobInv
<1>2. Inv /\ JobInv /\ CheckedInv /\ VerdictInv /\ [Next]_vars
        => (Inv /\ JobInv /\ CheckedInv /\ VerdictInv)'
  BY NextKeepsInv, NextKeepsJobInv, NextKeepsCheckedInv
<1> QED
  BY <1>1, <1>2, PTL DEF Spec

\* A share of the header that is hashed again (miner.go:323-332) is accepted
\* exactly when its hash times the difficulty is below 2^256, a block is within the target, and what clearly is within the target
\* is a block (miner.go:342-368, difficulty.go:77-105), for words and hashes of
\* every width.
THEOREM VerdictsExact == Spec => []VerdictsAreExact
<1>1. Inv /\ VerdictInv => VerdictsAreExact
  <2> SUFFICES ASSUME Inv, VerdictInv PROVE VerdictsAreExact
    OBVIOUS
  <2>1. share.hash \in Hashes /\ share.diff \in Words /\ share.diff \in Nat
    BY HalfType DEF Inv, TypeOK, Share, Words
  <2>2. CASE ~Judged
    BY <2>2 DEF VerdictsAreExact, Judged
  <2>3. CASE Judged
    <3>1. /\ share.diff # 0
          /\ share.verdict # "low" <=>
                /\ share.bits = HeaderBits(share.diff)
                /\ CheckHashDifficulty(share.hash, share.diff)
          /\ share.verdict # "low" =>
                (share.verdict = "block" <=> IsBlock(share.hash, share.diff))
      BY <2>3 DEF VerdictInv
    <3>2. CheckHashDifficulty(share.hash, share.diff)
            <=> LittleEndian(share.hash) * share.diff < Power[HashLen]
      BY <2>1, CheckOfHash
    <3>3. /\ IsBlock(share.hash, share.diff) =>
                BigEndian(share.hash) <= DiffToTarget(share.diff)
          /\ ~IsBlock(share.hash, share.diff) =>
                BigEndian(share.hash) * Precision
                    > DiffToTarget(share.diff) * (Precision - 1)
      BY <2>1, <3>1, BlockIsWithinTarget
    <3> QED
      BY <3>1, <3>2, <3>3, Zenon DEF VerdictsAreExact, Judged
  <2> QED
    BY <2>2, <2>3
<1> QED
  BY <1>1, JobInvHolds, PTL

\* A share within the target of its job, of a header with the bits of that
\* target's difficulty, is never "Low difficulty share", when the job was
\* prepared alone and is for the template of now (miner.go:87-204, 303-346):
\* nobody changes the difficulty in between, so that processShare hashes the
\* same header and compares with the same bound.
THEOREM JobTargetsHonoured == Spec => []JobTargetHonoured
<1>1. Inv /\ JobInv /\ VerdictInv => JobTargetHonoured
  <2> SUFFICES ASSUME Inv, JobInv, VerdictInv, share.verdict = "low",
                      share.alone, share.height = template,
                      share.jobDiff # 0,
                      share.bits = HeaderBits(share.jobDiff),
                      WithinJobTarget(share.hash, JobTarget(share.jobDiff))
               PROVE  FALSE
    BY DEF JobTargetHonoured
  <2>1. share.hash \in Hashes /\ share.diff \in Words
    BY DEF Inv, TypeOK, Share, Words
  <2>2. /\ share.diff # 0 /\ share.diff = getDifficulty
        /\ share.jobDiff = share.diff
    BY DEF JobInv, ShareInv, SentDiffs, Judged
  <2>3. ~CheckHashDifficulty(share.hash, share.diff)
    BY <2>2 DEF VerdictInv, Judged
  <2>4. WithinJobTarget(share.hash, JobTarget(share.diff))
    BY <2>2
  <2> QED
    BY <2>1, <2>2, <2>3, <2>4, JobTargetPasses
<1> QED
  BY <1>1, JobInvHolds, PTL

=============================================================================
