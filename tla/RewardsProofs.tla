---------------------------- MODULE RewardsProofs ---------------------------
(***************************************************************************)
(* Proofs about Rewards.tla, for any miners, addresses, fees, schedule and *)
(* shares: nothing but rounding makes or loses money, the miners get the   *)
(* revenue without the pool's fee, and an uncle is worth something, but    *)
(* less than a block.                                                      *)
(***************************************************************************)
EXTENDS Rewards, Sums

LEMMA Constants ==
  /\ FeeNum \in Nat /\ FeeDen \in Nat /\ FeeDen > 0 /\ FeeNum <= FeeDen
  /\ DonationNum \in Nat /\ DonationDen \in Nat /\ DonationDen > 0
  /\ DonationNum <= DonationDen
  /\ WeiPerShannon \in Nat /\ WeiPerShannon > 0 /\ FirstReward \in Nat
  /\ HeightStep \in Nat /\ HeightStep > 0 /\ HeightMax \in Nat
  /\ UncleDepth \in 1 .. 7
  /\ TxFees \subseteq Nat /\ MaxUncles \in Nat
  /\ LastHeight \in Nat /\ MaxShares \in Nat /\ MaxRounds \in Nat
BY RewardsAssumption

-----------------------------------------------------------------------------
(* Arithmetic.                                                               *)

LEMMA DivMod ==
  ASSUME NEW n \in Nat, NEW m \in Nat, m > 0
  PROVE  /\ n \div m \in Nat
         /\ m * (n \div m) \in Nat
         /\ m * (n \div m) <= n /\ n < m * (n \div m) + m
<1>1. \A k, j \in Int : j > 0 =>
        k = j * (k \div j) + (k % j) /\ k % j \in 0 .. j - 1
  BY Z3
<1>2. \A k, j \in Nat : j > 0 => k \div j \in Int /\ k \div j >= 0
  BY Z3
<1>3. n \div m \in Nat
  BY <1>2
<1>4. m * (n \div m) \in Nat
  BY <1>3
<1>5. n = m * (n \div m) + (n % m) /\ n % m \in 0 .. m - 1
  BY <1>1
<1> QED
  BY <1>3, <1>4, <1>5

LEMMA TimesNat == \A m, n \in Nat : m * n \in Nat
OBVIOUS

LEMMA TimesPositive == \A m, n \in Nat : m > 0 /\ n > 0 => m * n > 0
OBVIOUS

\* A common factor can be left out of a comparison.
LEMMA Cancel ==
  ASSUME NEW k \in Nat, k > 0, NEW a \in Int, NEW b \in Int, k * a <= k * b
  PROVE  a <= b
<1>1. SUFFICES ASSUME a >= b + 1 PROVE FALSE
  OBVIOUS
<1>2. k * (a - b) = k * a - k * b
  OBVIOUS
<1>3. \A i \in Nat : i >= 1 => k * i >= 1
  OBVIOUS
<1>4. a - b \in Nat /\ a - b >= 1
  BY <1>1
<1>5. k * (a - b) >= 1
  BY <1>3, <1>4, Zenon
<1>6. k * a \in Int /\ k * b \in Int
  OBVIOUS
<1> QED
  BY <1>2, <1>5, <1>6

-----------------------------------------------------------------------------
(* The schedule.                                                             *)

LEMMA PowersOfTwo ==
  /\ PowerOfTwo[0] = 1
  /\ \A n \in 1 .. Halvings : PowerOfTwo[n] = 2 * PowerOfTwo[n - 1]
<1> DEFINE IsPower(h, k) == h = [n \in 0 .. k |->
                                    IF n = 0 THEN 1 ELSE 2 * h[n - 1]]
           G == {k \in 0 .. Halvings : \E h : IsPower(h, k)}
<1>1. Halvings \in Nat
  BY Constants, DivMod DEF Halvings
<1>2. 0 \in G
  <2>1. IsPower([n \in 0 .. 0 |-> 1], 0)
    OBVIOUS
  <2>2. \E h : IsPower(h, 0)
    BY <2>1, Zenon
  <2>3. 0 \in 0 .. Halvings
    BY <1>1
  <2> QED
    BY <2>2, <2>3, Zenon
<1>3. ASSUME NEW k \in 0 .. Halvings, k # Halvings, k \in G
      PROVE  k + 1 \in G
  <2>1. PICK h : IsPower(h, k)
    BY <1>3
  <2> DEFINE g == [n \in 0 .. k + 1 |-> IF n = k + 1 THEN 2 * h[k] ELSE h[n]]
  <2>2. g = [n \in 0 .. k + 1 |-> IF n = 0 THEN 1 ELSE 2 * g[n - 1]]
    <3>1. ASSUME NEW n \in 0 .. k + 1
          PROVE  g[n] = IF n = 0 THEN 1 ELSE 2 * g[n - 1]
      <4>1. CASE n = k + 1
        <5>1. n # 0 /\ n - 1 = k /\ k \in 0 .. k + 1 /\ k # k + 1
          BY <4>1, <1>1
        <5> QED
          BY <4>1, <5>1
      <4>2. CASE n # k + 1
        <5>1. n \in 0 .. k
          BY <4>2, <1>1
        <5>2. h[n] = IF n = 0 THEN 1 ELSE 2 * h[n - 1]
          BY <2>1, <5>1, Zenon
        <5>3. g[n] = h[n]
          BY <4>2
        <5>4. n # 0 => g[n - 1] = h[n - 1]
          BY <5>1, <1>1
        <5> QED
          BY <5>2, <5>3, <5>4
      <4> QED
        BY <4>1, <4>2
    <3>2. g = [n \in 0 .. k + 1 |-> g[n]]
      OBVIOUS
    <3> HIDE DEF g
    <3> QED
      BY <3>1, <3>2
  <2>3. k + 1 \in 0 .. Halvings
    BY <1>1, <1>3
  <2> HIDE DEF g
  <2> QED
    BY <2>2, <2>3
<1>4. \E h : IsPower(h, Halvings)
  <2>1. \A k \in 0 .. Halvings : k # Halvings /\ k \in G => k + 1 \in G
    BY <1>3
  <2> HIDE DEF G
  <2>2. \A k \in 0 .. Halvings : k \in G
    BY <1>1, <1>2, <2>1, UpToInduction
  <2>3. Halvings \in G
    BY <1>1, <2>2
  <2> QED
    BY <2>3, Zenon DEF G
<1>5. PowerOfTwo = [n \in 0 .. Halvings |->
                        IF n = 0 THEN 1 ELSE 2 * PowerOfTwo[n - 1]]
  BY <1>4, Zenon DEF PowerOfTwo
<1>6. 0 \in 0 .. Halvings
  BY <1>1
<1>7. \A n \in 1 .. Halvings : n \in 0 .. Halvings /\ n # 0
  BY <1>1
<1>8. \A n \in 0 .. Halvings :
        PowerOfTwo[n] = IF n = 0 THEN 1 ELSE 2 * PowerOfTwo[n - 1]
  BY <1>5, Zenon
<1> QED
  BY <1>6, <1>7, <1>8

LEMMA PowerTypes ==
  \A n \in 0 .. Halvings :
    /\ PowerOfTwo[n] \in Nat /\ PowerOfTwo[n] >= 1
    /\ PowerOfTwo[n] <= PowerOfTwo[Halvings]
<1> DEFINE G == {k \in 0 .. Halvings :
                    /\ PowerOfTwo[k] \in Nat /\ PowerOfTwo[k] >= 1
                    /\ \A n \in 0 .. k : PowerOfTwo[n] \in 1 .. PowerOfTwo[k]}
<1>1. Halvings \in Nat
  BY Constants, DivMod DEF Halvings
<1>2. 0 \in G
  <2>1. PowerOfTwo[0] = 1 /\ 0 \in 0 .. Halvings /\ 0 .. 0 = {0}
    BY <1>1, PowersOfTwo
  <2> QED
    BY <2>1
<1>3. ASSUME NEW k \in 0 .. Halvings, k # Halvings, k \in G
      PROVE  k + 1 \in G
  <2>1. k + 1 \in 1 .. Halvings /\ k + 1 \in 0 .. Halvings /\ k + 1 - 1 = k
    BY <1>1, <1>3
  <2>2. PowerOfTwo[k + 1] = 2 * PowerOfTwo[k]
    BY <2>1, PowersOfTwo
  <2>3. /\ PowerOfTwo[k] \in Nat /\ PowerOfTwo[k] >= 1
        /\ \A n \in 0 .. k : PowerOfTwo[n] \in 1 .. PowerOfTwo[k]
    BY <1>3
  <2>4. /\ PowerOfTwo[k + 1] \in Nat /\ PowerOfTwo[k + 1] >= 1
        /\ PowerOfTwo[k] <= PowerOfTwo[k + 1]
    BY <2>2, <2>3
  <2>5. ASSUME NEW n \in 0 .. k + 1
        PROVE  PowerOfTwo[n] \in 1 .. PowerOfTwo[k + 1]
    <3>1. CASE n = k + 1
      BY <2>4, <3>1
    <3>2. CASE n # k + 1
      <4>1. n \in 0 .. k /\ n \in 0 .. Halvings
        BY <1>1, <2>1, <3>2
      <4>2. PowerOfTwo[n] \in 1 .. PowerOfTwo[k]
        BY <2>3, <4>1
      <4> QED
        BY <2>3, <2>4, <4>2
    <3> QED
      BY <3>1, <3>2
  <2> QED
    BY <2>1, <2>4, <2>5
<1>4. \A k \in 0 .. Halvings : k # Halvings /\ k \in G => k + 1 \in G
  BY <1>3
<1> HIDE DEF G
<1>5. \A k \in 0 .. Halvings : k \in G
  BY <1>1, <1>2, <1>4, UpToInduction
<1> QED
  BY <1>1, <1>5 DEF G

\* Eight Wei or more are left of the reward at every height.
LEMMA ConstReward ==
  ASSUME NEW h \in Nat
  PROVE  GetConstReward(h) \in Nat /\ GetConstReward(h) >= 8
<1> DEFINE capped == IF h > HeightMax THEN HeightMax ELSE h
           x == capped \div HeightStep
           c == FirstReward \div PowerOfTwo[x]
<1>1. capped \in Nat /\ capped <= HeightMax
  BY Constants
<1> HIDE DEF capped
<1>2. /\ x \in Nat /\ HeightStep * x \in Nat /\ HeightStep * x <= capped
      /\ Halvings \in Nat /\ HeightStep * Halvings \in Nat
      /\ HeightMax < HeightStep * Halvings + HeightStep
  BY <1>1, Constants, DivMod DEF Halvings
<1> HIDE DEF x
<1>3. x \in 0 .. Halvings
  <2>1. HeightStep * (Halvings + 1) = HeightStep * Halvings + HeightStep
    BY <1>2, Constants
  <2>2. HeightStep * x < HeightStep * (Halvings + 1)
    BY <1>1, <1>2, <2>1, Constants
  <2>3. ~ (Halvings + 1 <= x)
    <3>1. SUFFICES ASSUME Halvings + 1 <= x PROVE FALSE
      OBVIOUS
    <3>2. x - (Halvings + 1) \in Nat
      BY <1>2, <3>1
    <3>3. HeightStep * (x - (Halvings + 1)) \in Nat
      BY <3>2, Constants, TimesNat
    <3>4. HeightStep * (x - (Halvings + 1)) =
            HeightStep * x - HeightStep * (Halvings + 1)
      BY <1>2, Constants
    <3> QED
      BY <1>2, <2>1, <2>2, <3>3, <3>4, Constants
  <2> QED
    BY <1>2, <2>3
<1>4. /\ PowerOfTwo[x] \in Nat /\ PowerOfTwo[x] >= 1
      /\ 8 * PowerOfTwo[x] <= FirstReward
  <2>1. PowerOfTwo[Halvings] \in Nat /\ Halvings \in 0 .. Halvings
    BY <1>2, PowerTypes
  <2> QED
    BY <1>3, <2>1, PowerTypes, ScheduleAssumption, Constants
<1>5. /\ c \in Nat /\ PowerOfTwo[x] * c \in Nat
      /\ FirstReward < PowerOfTwo[x] * c + PowerOfTwo[x]
  <2>1. PowerOfTwo[x] > 0 /\ FirstReward \in Nat /\ PowerOfTwo[x] \in Nat
    BY <1>4, Constants
  <2> QED
    BY <2>1, DivMod
<1> HIDE DEF c
<1>6. c >= 8
  <2>1. SUFFICES ASSUME c <= 7 PROVE FALSE
    BY <1>5
  <2>2. PowerOfTwo[x] * (7 - c) \in Nat
    <3>1. 7 - c \in Nat
      BY <1>5, <2>1
    <3> QED
      BY <1>4, <3>1, TimesNat
  <2>3. PowerOfTwo[x] * (7 - c) = 7 * PowerOfTwo[x] - PowerOfTwo[x] * c
    BY <1>4, <1>5
  <2> QED
    BY <1>4, <1>5, <2>2, <2>3, Constants
<1>7. GetConstReward(h) = c
  BY DEF GetConstReward, c, x, capped
<1> QED
  BY <1>5, <1>6, <1>7

\* An uncle is worth something, and less than a block.
LEMMA UncleReward ==
  ASSUME NEW h \in Nat, NEW k \in 1 .. UncleDepth
  PROVE  /\ GetUncleReward(h - k, h) \in Nat
         /\ GetUncleReward(h - k, h) > 0
         /\ GetUncleReward(h - k, h) < GetConstReward(h)
<1> DEFINE c == GetConstReward(h)
           n == (8 - k) * c
<1>1. c \in Nat /\ c >= 8
  BY ConstReward
<1>2. k \in 1 .. 7 /\ 8 - (h - (h - k)) = 8 - k
  BY Constants
<1> HIDE DEF c
<1>3. n \in Nat /\ 8 <= n /\ n < 8 * c
  BY <1>1, <1>2
<1>4. n \div 8 \in Nat /\ 8 * (n \div 8) <= n /\ n < 8 * (n \div 8) + 8
  BY <1>3, DivMod
<1>5. GetUncleReward(h - k, h) = n \div 8
  BY <1>2 DEF GetUncleReward, c
<1> HIDE DEF n
<1> QED
  BY <1>1, <1>3, <1>4, <1>5 DEF c

LEMMA UnclesReward ==
  ASSUME NEW h \in Nat
  PROVE  GetRewardForUncle(h) \in Nat
BY ConstReward, DivMod DEF GetRewardForUncle

-----------------------------------------------------------------------------
(* Rounding.  Wei counts the part of a Shannon that Unit makes of a Wei.     *)

Wei == Unit * WeiPerShannon

LEMMA WeiType == Unit \in Nat /\ Unit > 0 /\ Wei \in Nat /\ Wei > 0
<1>1. Unit \in Nat /\ Unit > 0
  BY Constants, TimesNat, TimesPositive DEF Unit
<1> QED
  BY <1>1, Constants, TimesNat, TimesPositive DEF Wei

\* An amount is rounded by half a Shannon at the most, and nothing to nothing.
LEMMA Rounding ==
  ASSUME NEW num \in Nat, NEW den \in Nat, den > 0
  PROVE  LET q == WeiToShannon(num, den)
             d == den * WeiPerShannon
         IN  /\ q \in Nat /\ d \in Nat /\ d * q \in Nat
             /\ 2 * (d * q) <= 2 * num + d
             /\ 2 * num <= 2 * (d * q) + d
             /\ num = 0 => q = 0
<1> DEFINE q == WeiToShannon(num, den)
           d == den * WeiPerShannon
<1>1. d \in Nat /\ d > 0 /\ 2 * den * WeiPerShannon = 2 * d
  BY Constants, TimesNat, TimesPositive
<1>2. q = (2 * num + d) \div (2 * d)
  BY <1>1 DEF WeiToShannon
<1> HIDE DEF d, q
<1>3. 2 * num + d \in Nat /\ 2 * d \in Nat /\ 2 * d > 0
  BY <1>1
<1>4. /\ q \in Nat /\ (2 * d) * q \in Nat
      /\ (2 * d) * q <= 2 * num + d /\ 2 * num + d < (2 * d) * q + 2 * d
  BY <1>2, <1>3, DivMod
<1>5. d * q \in Nat /\ (2 * d) * q = 2 * (d * q)
  BY <1>1, <1>4
<1>6. num = 0 => q = 0
  <2>1. SUFFICES ASSUME num = 0, q >= 1 PROVE FALSE
    BY <1>4
  <2>2. q - 1 \in Nat
    BY <1>4, <2>1
  <2>3. d * (q - 1) \in Nat
    BY <1>1, <2>2, TimesNat
  <2>4. d * (q - 1) = d * q - d
    BY <1>1, <1>4
  <2> QED
    BY <1>1, <1>4, <1>5, <2>1, <2>3, <2>4
<1>7. 2 * (d * q) <= 2 * num + d /\ 2 * num <= 2 * (d * q) + d
  BY <1>1, <1>4, <1>5
<1> QED
  BY <1>1, <1>4, <1>5, <1>6, <1>7 DEF d, q

\* The same for a fraction of the round's shares.
LEMMA ShareRounding ==
  ASSUME NEW profit \in Nat, NEW s \in Nat, NEW total \in Nat, total > 0
  PROVE  LET q == WeiToShannon(profit * s, Unit * total)
             d == total * Wei
             one == IF s > 0 THEN 1 ELSE 0
         IN  /\ q \in Nat /\ d \in Nat
             /\ (2 * d) * q <= (2 * profit) * s + d * one
             /\ (2 * profit) * s <= (2 * d) * q + d * one
<1> DEFINE num == profit * s
           den == Unit * total
           q == WeiToShannon(num, den)
           d == total * Wei
           e == den * WeiPerShannon
<1>1. num \in Nat /\ den \in Nat /\ den > 0 /\ (s = 0 => num = 0)
  BY WeiType, TimesNat, TimesPositive
<1>2. d \in Nat /\ d = e
  BY WeiType, TimesNat, Constants DEF Wei
<1>3. 2 * num = (2 * profit) * s
  OBVIOUS
<1> HIDE DEF num, den
<1>4. /\ q \in Nat /\ e * q \in Nat
      /\ 2 * (e * q) <= 2 * num + e
      /\ 2 * num <= 2 * (e * q) + e
      /\ num = 0 => q = 0
  BY <1>1, Rounding
<1> HIDE DEF q, d, e
<1>5. (2 * d) * q = 2 * (e * q)
  BY <1>2, <1>4
<1>6. CASE s > 0
  BY <1>1, <1>2, <1>3, <1>4, <1>5, <1>6 DEF q, d, num, den
<1>7. CASE s = 0
  <2>1. q = 0 /\ num = 0
    BY <1>1, <1>4, <1>7
  <2>2. (2 * d) * q = 0 /\ (2 * profit) * s = 0 /\ d * 0 = 0
    BY <1>2, <1>7, <2>1
  <2> QED
    BY <1>2, <1>4, <1>7, <2>2 DEF q, d, num, den
<1> QED
  BY <1>6, <1>7

-----------------------------------------------------------------------------
(* The rewards of a round.                                                   *)

Sharers == {m \in Miners : shares[m] > 0}

\* What the miners get for their shares is their profit, but for half a
\* Shannon for each of them.
LEMMA SharesPart ==
  ASSUME shares \in [Miners -> Nat], Total > 0, MinersProfit \in Nat,
         NEW f, \A m \in Miners : f[m] = RewardForShares(m)
  PROVE  LET sum == SumFunctionOnSet(f, Miners)
             n == Cardinality(Sharers)
         IN  /\ sum \in Nat /\ n \in Nat
             /\ 2 * (Wei * sum) <= 2 * MinersProfit + Wei * n
             /\ 2 * MinersProfit <= 2 * (Wei * sum) + Wei * n
<1> DEFINE sum == SumFunctionOnSet(f, Miners)
           n == Cardinality(Sharers)
           one == [m \in Miners |-> IF m \in Sharers THEN 1 ELSE 0]
           p == MinersProfit
           t == Total
           d == t * Wei
<1>1. t \in Nat /\ t > 0 /\ p \in Nat /\ d \in Nat /\ Wei \in Nat
  <2>1. SumFunctionOnSet(shares, Miners) \in Nat
    BY LoginsAssumption, SumNat
  <2>2. Total = SumFunctionOnSet(shares, Miners)
    BY DEF Total, SumFunction
  <2> QED
    BY <2>1, <2>2, WeiType, TimesNat
<1>2. ASSUME NEW m \in Miners
      PROVE  /\ f[m] \in Nat /\ shares[m] \in Nat /\ one[m] \in Nat
             /\ (2 * d) * f[m] <= (2 * p) * shares[m] + d * one[m]
             /\ (2 * p) * shares[m] <= (2 * d) * f[m] + d * one[m]
  <2>1. f[m] = WeiToShannon(MinersProfit * shares[m], Unit * Total)
    BY DEF RewardForShares
  <2>2. one[m] = IF shares[m] > 0 THEN 1 ELSE 0
    BY DEF Sharers
  <2>3. shares[m] \in Nat /\ one[m] \in Nat
    BY <2>2
  <2> HIDE DEF one
  <2> QED
    BY <1>1, <2>1, <2>2, <2>3, ShareRounding
<1>3. SumFunctionOnSet(shares, Miners) = t
  BY DEF Total, SumFunction
<1>4. SumFunctionOnSet(one, Miners) = n /\ n \in Nat
  <2>1. Sharers \in SUBSET Miners /\ IsFiniteSet(Sharers)
    BY LoginsAssumption, FS_Subset DEF Sharers
  <2>2. \A m \in Miners : one[m] = IF m \in Sharers THEN 1 ELSE 0
    OBVIOUS
  <2> HIDE DEF one
  <2> QED
    BY <2>1, <2>2, LoginsAssumption, SumCount, FS_CardinalityType
<1>5. sum \in Nat
  BY <1>2, LoginsAssumption, SumNat
<1> HIDE DEF one, p, t, d, n
<1>6. /\ 2 * d \in Int /\ 2 * p \in Int /\ d \in Int
      /\ \A m \in Miners :
            /\ f[m] \in Int /\ shares[m] \in Int /\ one[m] \in Int
            /\ (2 * d) * f[m] <= (2 * p) * shares[m] + d * one[m]
            /\ (2 * p) * shares[m] <= (2 * d) * f[m] + d * one[m]
  BY <1>1, <1>2
<1>7. (2 * d) * sum <= (2 * p) * t + d * n
  <2>1. (2 * d) * SumFunctionOnSet(f, Miners) <=
            (2 * p) * SumFunctionOnSet(shares, Miners)
            + d * SumFunctionOnSet(one, Miners)
    BY <1>6, LoginsAssumption, SumLinear
  <2> QED
    BY <2>1, <1>3, <1>4
<1>8. (2 * p) * t <= (2 * d) * sum + d * n
  <2>1. (2 * p) * SumFunctionOnSet(shares, Miners) <=
            (2 * d) * SumFunctionOnSet(f, Miners)
            + d * SumFunctionOnSet(one, Miners)
    BY <1>6, LoginsAssumption, SumLinear
  <2> QED
    BY <2>1, <1>3, <1>4
<1> HIDE DEF sum
<1>9. Wei * sum \in Nat /\ Wei * n \in Nat
  BY <1>1, <1>4, <1>5, TimesNat
<1>10. /\ (2 * d) * sum = t * (2 * (Wei * sum))
       /\ (2 * p) * t = t * (2 * p)
       /\ d * n = t * (Wei * n)
  BY <1>1, <1>4, <1>5 DEF d
<1>11. /\ t * (2 * (Wei * sum)) <= t * (2 * p + Wei * n)
       /\ t * (2 * p) <= t * (2 * (Wei * sum) + Wei * n)
  <2>1. /\ t * (2 * p + Wei * n) = t * (2 * p) + t * (Wei * n)
        /\ t * (2 * (Wei * sum) + Wei * n) =
                t * (2 * (Wei * sum)) + t * (Wei * n)
    BY <1>1, <1>9
  <2> QED
    BY <2>1, <1>7, <1>8, <1>10
<1>12. 2 * (Wei * sum) <= 2 * p + Wei * n
  BY <1>1, <1>9, <1>11, Cancel
<1>13. 2 * p <= 2 * (Wei * sum) + Wei * n
  BY <1>1, <1>9, <1>11, Cancel
<1> QED
  BY <1>4, <1>5, <1>12, <1>13 DEF sum, n, p

Blocks == [found : BOOLEAN, uncle : BOOLEAN, height : 0 .. LastHeight,
           reward : Nat, extra : Nat]

\* The profits of the miners and of the pool are the revenue, and the donation
\* is a part of the pool's.
LEMMA Profits ==
  ASSUME block \in Blocks
  PROVE  /\ MinersProfit \in Nat /\ MinersProfit = MinersPart
         /\ PoolProfit \in Nat
         /\ MinersProfit + PoolProfit = (block.reward + block.extra) * Unit
         /\ Donation \in Nat /\ PoolProfit - Donation \in Nat
         /\ ~config.donate => Donation = 0
<1> DEFINE r == block.reward
           e == block.extra
           a == FeeDen
           b == FeeNum
           c == DonationDen
<1>1. /\ r \in Nat /\ e \in Nat /\ a \in Nat /\ b \in Nat /\ c \in Nat
      /\ a - b \in Nat
  BY Constants DEF Blocks
<1>2. /\ MinersProfit = r * (a - b) * c
      /\ MinersPart = r * (a * c) - r * b * c
      /\ PoolProfit = (r * b + e * a) * c
      /\ (block.reward + block.extra) * Unit = (r + e) * (a * c)
  BY DEF MinersProfit, MinersPart, PoolProfit, Unit
<1> HIDE DEF r, e, a, b, c
<1>3. MinersProfit \in Nat
  BY <1>1, <1>2, TimesNat
<1>4. PoolProfit \in Nat
  <2>1. r * b \in Nat /\ e * a \in Nat
    BY <1>1, TimesNat
  <2> QED
    BY <1>1, <1>2, <2>1, TimesNat
<1>5. r * (a - b) * c = r * (a * c) - r * b * c
  BY <1>1
<1>6. r * (a - b) * c + (r * b + e * a) * c = (r + e) * (a * c)
  BY <1>1
<1>7. /\ Donation \in Nat /\ Donation <= PoolProfit
      /\ ~config.donate => Donation = 0
  <2> DEFINE n == PoolProfit * DonationNum
             q == n \div DonationDen
  <2>1. n \in Nat
    BY <1>4, Constants, TimesNat
  <2>2. n <= DonationDen * PoolProfit
    <3>1. DonationDen - DonationNum \in Nat
      BY Constants
    <3>2. PoolProfit * (DonationDen - DonationNum) \in Nat
      BY <1>4, <3>1, TimesNat
    <3>3. PoolProfit * (DonationDen - DonationNum) =
            DonationDen * PoolProfit - PoolProfit * DonationNum
      BY <1>4, Constants
    <3>4. DonationDen * PoolProfit \in Nat
      BY <1>4, Constants, TimesNat
    <3> QED
      BY <2>1, <3>2, <3>3, <3>4
  <2> HIDE DEF n
  <2>3. q \in Nat /\ DonationDen * q \in Nat /\ DonationDen * q <= n
    BY <2>1, Constants, DivMod
  <2> HIDE DEF q
  <2>4. DonationDen * PoolProfit \in Nat
    BY <1>4, Constants, TimesNat
  <2>5. DonationDen * q <= DonationDen * PoolProfit
    BY <2>1, <2>2, <2>3, <2>4
  <2>6. q <= PoolProfit
    BY <1>4, <2>3, <2>5, Constants, Cancel
  <2>7. Donation = IF config.donate THEN q ELSE 0
    BY DEF Donation, q, n
  <2> QED
    BY <1>4, <2>3, <2>6, <2>7
<1> QED
  BY <1>2, <1>3, <1>4, <1>5, <1>6, <1>7

Configs == [donate : BOOLEAN, feeAddress : FeeAddresses \cup {None},
            keepTxFees : BOOLEAN]

LEMMA LoginsFinite ==
  /\ IsFiniteSet(Logins)
  /\ Miners \subseteq Logins /\ DonationAccount \in Logins
  /\ FeeAddresses \subseteq Logins /\ None \notin Logins
<1>1. IsFiniteSet(Miners \cup FeeAddresses) /\ IsFiniteSet({DonationAccount})
  BY LoginsAssumption, FS_Union, FS_Singleton
<1>2. IsFiniteSet(Miners \cup FeeAddresses \cup {DonationAccount})
  BY <1>1, FS_Union
<1> QED
  BY <1>2, LoginsAssumption DEF Logins

\* What Credit adds to due and to credits.
RoundDue ==
    IF config.feeAddress = None THEN MinersPart + Donation
    ELSE (block.reward + block.extra) * Unit
RoundCredits ==
    Cardinality(Sharers) + (IF config.donate THEN 1 ELSE 0)
    + (IF config.feeAddress = None THEN 0 ELSE 1)

LEMMA SharesType ==
  ASSUME block \in Blocks, shares \in [Miners -> Nat], Total > 0, NEW l
  PROVE  RewardForShares(l) \in Nat
<1>1. CASE l \in Miners
  <2>1. Total \in Nat
    <3>1. SumFunctionOnSet(shares, Miners) \in Nat
      BY LoginsAssumption, SumNat
    <3> QED
      BY <3>1 DEF Total, SumFunction
  <2>2. shares[l] \in Nat /\ MinersProfit \in Nat
    BY <1>1, Profits
  <2>3. WeiToShannon(MinersProfit * shares[l], Unit * Total) \in Nat
    BY <2>1, <2>2, ShareRounding
  <2> QED
    BY <1>1, <2>3 DEF RewardForShares
<1>2. CASE l \notin Miners
  BY <1>2 DEF RewardForShares
<1> QED
  BY <1>1, <1>2

\* All rewards of a round are the revenue, but for half a Shannon for each
\* amount.
LEMMA RoundPart ==
  ASSUME config \in Configs, block \in Blocks, shares \in [Miners -> Nat],
         Total > 0, NEW g, \A l \in Logins : g[l] = Reward(l)
  PROVE  LET all == SumFunctionOnSet(g, Logins)
         IN  /\ \A l \in Logins : g[l] \in Nat
             /\ all \in Nat /\ RoundDue \in Nat /\ RoundCredits \in Nat
             /\ 2 * (Wei * all) <= 2 * RoundDue + Wei * RoundCredits
             /\ 2 * RoundDue <= 2 * (Wei * all) + Wei * RoundCredits
<1> DEFINE x == WeiToShannon(Donation, Unit)
           y == WeiToShannon(PoolProfit - Donation, Unit)
           bx == IF config.donate THEN x ELSE 0
           cy == IF config.feeAddress = None THEN 0 ELSE y
           A == [l \in Logins |-> RewardForShares(l)]
           B == [l \in Logins |-> IF l = DonationAccount THEN bx ELSE 0]
           C == [l \in Logins |-> IF l = config.feeAddress THEN cy ELSE 0]
           AB == [l \in Logins |-> A[l] + B[l]]
           sum == SumFunctionOnSet(A, Miners)
           n == Cardinality(Sharers)
           nb == IF config.donate THEN 1 ELSE 0
           nc == IF config.feeAddress = None THEN 0 ELSE 1
           don == IF config.donate THEN Donation ELSE 0
           fee == IF config.feeAddress = None THEN 0 ELSE PoolProfit - Donation
<1>1. /\ MinersProfit \in Nat /\ MinersProfit = MinersPart
      /\ PoolProfit \in Nat
      /\ MinersProfit + PoolProfit = (block.reward + block.extra) * Unit
      /\ Donation \in Nat /\ PoolProfit - Donation \in Nat
      /\ ~config.donate => Donation = 0
  BY Profits
<1>2. /\ sum \in Nat /\ n \in Nat
      /\ 2 * (Wei * sum) <= 2 * MinersProfit + Wei * n
      /\ 2 * MinersProfit <= 2 * (Wei * sum) + Wei * n
  <2>1. \A m \in Miners : A[m] = RewardForShares(m)
    BY LoginsFinite
  <2> HIDE DEF A
  <2> QED
    BY <1>1, <2>1, SharesPart
<1>3. /\ x \in Nat /\ Wei * x \in Nat
      /\ 2 * (Wei * x) <= 2 * Donation + Wei
      /\ 2 * Donation <= 2 * (Wei * x) + Wei
  BY <1>1, WeiType, Rounding DEF Wei
<1>4. /\ y \in Nat /\ Wei * y \in Nat
      /\ 2 * (Wei * y) <= 2 * (PoolProfit - Donation) + Wei
      /\ 2 * (PoolProfit - Donation) <= 2 * (Wei * y) + Wei
  BY <1>1, WeiType, Rounding DEF Wei
<1> HIDE DEF x, y
<1>5. /\ bx \in Nat /\ Wei * bx \in Nat /\ nb \in Nat /\ don \in Nat
      /\ 2 * (Wei * bx) <= 2 * don + Wei * nb
      /\ 2 * don <= 2 * (Wei * bx) + Wei * nb
  <2>1. Wei * 0 = 0 /\ Wei * 1 = Wei /\ Wei \in Nat
    BY WeiType
  <2>2. CASE config.donate
    BY <1>1, <1>3, <2>1, <2>2
  <2>3. CASE ~config.donate
    BY <2>1, <2>3
  <2> QED
    BY <2>2, <2>3
<1>6. /\ cy \in Nat /\ Wei * cy \in Nat /\ nc \in Nat /\ fee \in Nat
      /\ 2 * (Wei * cy) <= 2 * fee + Wei * nc
      /\ 2 * fee <= 2 * (Wei * cy) + Wei * nc
  <2>1. Wei * 0 = 0 /\ Wei * 1 = Wei /\ Wei \in Nat
    BY WeiType
  <2>2. CASE config.feeAddress # None
    BY <1>1, <1>4, <2>1, <2>2
  <2>3. CASE config.feeAddress = None
    BY <2>1, <2>3
  <2> QED
    BY <2>2, <2>3
<1>7. ASSUME NEW l \in Logins
      PROVE  /\ A[l] \in Nat
             /\ l \notin Miners => A[l] = 0
             /\ B[l] \in Nat /\ C[l] \in Nat
             /\ AB[l] = A[l] + B[l] /\ g[l] = AB[l] + C[l]
  <2>1. A[l] = RewardForShares(l)
    OBVIOUS
  <2>2. /\ RewardForShares(l) \in Nat
        /\ l \notin Miners => RewardForShares(l) = 0
    BY SharesType DEF RewardForShares
  <2>3. B[l] = IF config.donate /\ l = DonationAccount THEN x ELSE 0
    OBVIOUS
  <2>4. C[l] = IF l = config.feeAddress THEN y ELSE 0
    BY LoginsFinite
  <2>5. B[l] \in Nat /\ C[l] \in Nat
    BY <1>5, <1>6
  <2>6. Reward(l) = A[l] + B[l] + C[l]
    BY <2>1, <2>3, <2>4 DEF Reward, x, y
  <2>7. AB[l] = A[l] + B[l]
    OBVIOUS
  <2> HIDE DEF A, B, C, AB
  <2> QED
    BY <2>1, <2>2, <2>5, <2>6, <2>7
<1>8. /\ \A l \in Logins : B[l] = IF l = DonationAccount THEN bx ELSE 0
      /\ \A l \in Logins : C[l] = IF l = config.feeAddress THEN cy ELSE 0
  OBVIOUS
<1> HIDE DEF A, B, C, AB, bx, cy
<1>9. SumFunctionOnSet(A, Logins) = sum
  <2>1. /\ \A l \in Logins : A[l] \in Int
        /\ \A l \in Logins \ Miners : A[l] = 0
        /\ Miners \in SUBSET Logins
    BY <1>7, LoginsFinite
  <2> QED
    BY <2>1, LoginsFinite, SumOutside
<1>10. SumFunctionOnSet(B, Logins) = bx
  <2>1. bx \in Int
    BY <1>5
  <2> QED
    BY <1>8, <2>1, LoginsFinite, SumPoint
<1>11. SumFunctionOnSet(C, Logins) = cy
  <2>1. CASE config.feeAddress = None
    <3>1. \A l \in Logins : C[l] = 0
      BY <1>8, <2>1, LoginsFinite
    <3>2. cy = 0
      BY <2>1 DEF cy
    <3> QED
      BY <3>1, <3>2, LoginsFinite, SumZero
  <2>2. CASE config.feeAddress # None
    <3>1. config.feeAddress \in Logins /\ cy \in Int
      BY <1>6, <2>2, LoginsFinite DEF Configs
    <3> QED
      BY <1>8, <3>1, LoginsFinite, SumPoint
  <2> QED
    BY <2>1, <2>2
<1>12. /\ \A l \in Logins : A[l] \in Int /\ B[l] \in Int /\ C[l] \in Int
       /\ \A l \in Logins : AB[l] \in Int /\ AB[l] = A[l] + B[l]
       /\ \A l \in Logins : g[l] \in Nat /\ g[l] = AB[l] + C[l]
  BY <1>7
<1>13. SumFunctionOnSet(AB, Logins) =
         SumFunctionOnSet(A, Logins) + SumFunctionOnSet(B, Logins)
  BY <1>12, LoginsFinite, SumAdd
<1>14. SumFunctionOnSet(g, Logins) =
         SumFunctionOnSet(AB, Logins) + SumFunctionOnSet(C, Logins)
  BY <1>12, LoginsFinite, SumAdd
<1> HIDE DEF sum
<1>15. SumFunctionOnSet(g, Logins) = sum + bx + cy
  BY <1>9, <1>10, <1>11, <1>13, <1>14
<1>16. RoundDue = MinersProfit + don + fee /\ RoundCredits = n + nb + nc
  BY <1>1 DEF RoundDue, RoundCredits
<1> HIDE DEF n, nb, nc, don, fee
<1>17. /\ Wei * (sum + bx + cy) = Wei * sum + Wei * bx + Wei * cy
       /\ Wei * (n + nb + nc) = Wei * n + Wei * nb + Wei * nc
       /\ Wei * sum \in Nat /\ Wei * n \in Nat /\ Wei * nb \in Nat
       /\ Wei * nc \in Nat /\ Wei \in Nat
  BY <1>2, <1>5, <1>6, WeiType
<1>18. /\ 2 * (Wei * (sum + bx + cy)) <=
                2 * (MinersProfit + don + fee) + Wei * (n + nb + nc)
       /\ 2 * (MinersProfit + don + fee) <=
                2 * (Wei * (sum + bx + cy)) + Wei * (n + nb + nc)
  BY <1>1, <1>2, <1>5, <1>6, <1>17
<1> QED
  BY <1>1, <1>2, <1>5, <1>6, <1>12, <1>15, <1>16, <1>18

-----------------------------------------------------------------------------
(* The invariant.                                                            *)

\* The amount a of Shannon is d in the unit of due, but for half a Shannon for
\* each of c amounts.
Follows(a, d, c) ==
    /\ 2 * (Wei * a) <= 2 * d + Wei * c
    /\ 2 * d <= 2 * (Wei * a) + Wei * c

\* A round that is found has shares, and room in MaxRounds.
RoundInv == block.found => Total > 0 /\ rounds < MaxRounds

RevenueInv == Follows(SumFunctionOnSet(balances, Logins), due, credits)

\* No address of the pool mines.
Apart == config.feeAddress \notin Miners /\ DonationAccount \notin Miners

MinersInv ==
    Apart => Follows(SumFunctionOnSet(balances, Miners), minersDue, credits)

UncleInv ==
    block.uncle => /\ block.reward > 0
                   /\ block.reward < GetConstReward(block.height)

Inv == TypeOK /\ RoundInv /\ RevenueInv /\ MinersInv /\ UncleInv

LEMMA Types ==
  ASSUME TypeOK
  PROVE  /\ config \in Configs /\ block \in Blocks
         /\ shares \in [Miners -> Nat] /\ balances \in [Logins -> Nat]
         /\ due \in Nat /\ minersDue \in Nat /\ credits \in Nat
BY Constants DEF TypeOK, Configs, Blocks

LEMMA NoBlockType ==
  NoBlock \in Blocks /\ ~NoBlock.found /\ ~NoBlock.uncle
BY Constants DEF NoBlock, Blocks

LEMMA SumsOfBalances ==
  ASSUME balances \in [Logins -> Nat]
  PROVE  /\ SumFunctionOnSet(balances, Logins) \in Nat
         /\ SumFunctionOnSet(balances, Miners) \in Nat
<1>1. /\ \A l \in Logins : balances[l] \in Nat
      /\ \A m \in Miners : balances[m] \in Nat
  BY LoginsFinite
<1>2. IsFiniteSet(Logins) /\ IsFiniteSet(Miners)
  BY LoginsFinite, LoginsAssumption
<1> QED
  BY <1>1, <1>2, SumNat

\* Two amounts that follow what is due follow it together.
LEMMA FollowsAdds ==
  ASSUME NEW a1 \in Nat, NEW d1 \in Nat, NEW c1 \in Nat,
         NEW a2 \in Nat, NEW d2 \in Nat, NEW c2 \in Nat,
         Follows(a1, d1, c1), Follows(a2, d2, c2)
  PROVE  Follows(a1 + a2, d1 + d2, c1 + c2)
<1>1. /\ Wei \in Nat
      /\ Wei * (a1 + a2) = Wei * a1 + Wei * a2
      /\ Wei * (c1 + c2) = Wei * c1 + Wei * c2
      /\ Wei * a1 \in Nat /\ Wei * a2 \in Nat
      /\ Wei * c1 \in Nat /\ Wei * c2 \in Nat
  BY WeiType
<1> QED
  BY <1>1 DEF Follows

\* More amounts leave more room.
LEMMA FollowsLonger ==
  ASSUME NEW a \in Nat, NEW d \in Nat, NEW c \in Nat, NEW k \in Nat,
         Follows(a, d, c), c <= k
  PROVE  Follows(a, d, k)
<1>1. k - c \in Nat
  OBVIOUS
<1>2. /\ Wei * (k - c) \in Nat /\ Wei * (k - c) = Wei * k - Wei * c
      /\ Wei * k \in Nat /\ Wei * c \in Nat /\ Wei * a \in Nat
  BY <1>1, WeiType
<1> QED
  BY <1>2 DEF Follows

LEMMA InitInv == Init => Inv
<1> SUFFICES ASSUME Init PROVE Inv
  OBVIOUS
<1>1. TypeOK
  <2>1. block \in Blocks
    BY NoBlockType DEF Init
  <2> QED
    BY <2>1, Constants DEF Init, TypeOK, Blocks
<1>2. /\ SumFunctionOnSet(balances, Logins) = 0
      /\ SumFunctionOnSet(balances, Miners) = 0
  <2>1. /\ \A l \in Logins : balances[l] = 0
        /\ \A m \in Miners : balances[m] = 0
    BY LoginsFinite DEF Init
  <2> QED
    BY <2>1, LoginsFinite, LoginsAssumption, SumZero
<1>3. Follows(0, 0, 0)
  BY WeiType DEF Follows
<1>4. due = 0 /\ minersDue = 0 /\ credits = 0
  BY DEF Init
<1>5. RevenueInv /\ MinersInv
  BY <1>2, <1>3, <1>4, Zenon DEF RevenueInv, MinersInv
<1>6. RoundInv /\ UncleInv
  BY NoBlockType DEF Init, RoundInv, UncleInv
<1> QED
  BY <1>1, <1>5, <1>6 DEF Inv

LEMMA AddShareKeeps ==
  ASSUME Inv, NEW m \in Miners, AddShare(m)
  PROVE  Inv'
<1>1. /\ ~block.found
      /\ shares' = [shares EXCEPT ![m] = @ + 1]
      /\ shares[m] < MaxShares
      /\ UNCHANGED <<config, height, block, balances, due, minersDue, credits,
                     rounds>>
  BY DEF AddShare
<1>2. shares' \in [Miners -> 0 .. MaxShares]
  BY <1>1, Constants DEF Inv, TypeOK
<1>3. TypeOK'
  BY <1>1, <1>2 DEF Inv, TypeOK
<1>4. RoundInv'
  BY <1>1 DEF RoundInv
<1>5. RevenueInv' /\ MinersInv'
  BY <1>1 DEF Inv, RevenueInv, MinersInv, Apart, Follows
<1>6. UncleInv'
  BY <1>1 DEF Inv, UncleInv, GetConstReward
<1> QED
  BY <1>3, <1>4, <1>5, <1>6 DEF Inv

\* A candidate that is found on the chain changes no amount.
LEMMA FoundKeeps ==
  ASSUME Inv, NEW h \in height + 1 .. LastHeight, Found(h), block' \in Blocks,
         UncleInv'
  PROVE  Inv'
<1>1. /\ Total > 0 /\ rounds < MaxRounds /\ height' = h
      /\ UNCHANGED <<config, shares, balances, due, minersDue, credits,
                     rounds>>
  BY DEF Found
<1>2. h \in 0 .. LastHeight
  BY Constants DEF Inv, TypeOK
<1>3. TypeOK'
  BY <1>1, <1>2 DEF Inv, TypeOK, Blocks
<1>4. RoundInv'
  BY <1>1 DEF RoundInv, Total
<1>5. RevenueInv' /\ MinersInv'
  BY <1>1 DEF Inv, RevenueInv, MinersInv, Apart, Follows
<1> QED
  BY <1>3, <1>4, <1>5 DEF Inv

LEMMA FindBlockKeeps ==
  ASSUME Inv, NEW h \in height + 1 .. LastHeight, FindBlock(h)
  PROVE  Inv'
<1>1. PICK n \in 0 .. MaxUncles, fees \in TxFees :
        block' = HandleBlock(h, n, fees)
  BY DEF FindBlock
<1>2. h \in Nat /\ h \in 0 .. LastHeight /\ n \in Nat /\ fees \in Nat
  BY Constants DEF Inv, TypeOK
<1>3. GetConstReward(h) \in Nat /\ GetRewardForUncle(h) \in Nat
  BY <1>2, ConstReward, UnclesReward
<1>4. n * GetRewardForUncle(h) \in Nat
  BY <1>2, <1>3, TimesNat
<1>5. block' \in Blocks /\ ~block'.uncle
  <2>1. (IF config.keepTxFees THEN 0 ELSE fees) \in Nat
        /\ (IF config.keepTxFees THEN fees ELSE 0) \in Nat
    BY <1>2
  <2>2. GetConstReward(h) + (IF config.keepTxFees THEN 0 ELSE fees)
            + n * GetRewardForUncle(h) \in Nat
    BY <1>3, <1>4, <2>1
  <2> QED
    BY <1>1, <1>2, <2>1, <2>2 DEF HandleBlock, Blocks
<1>6. UncleInv'
  BY <1>5 DEF UncleInv
<1> QED
  BY <1>5, <1>6, FoundKeeps DEF FindBlock

LEMMA FindUncleKeeps ==
  ASSUME Inv, NEW h \in height + 1 .. LastHeight, FindUncle(h)
  PROVE  Inv'
<1>1. PICK k \in 1 .. UncleDepth : block' = HandleUncle(h - k, h)
  BY DEF FindUncle
<1>2. h \in Nat /\ h \in 0 .. LastHeight
  BY Constants DEF Inv, TypeOK
<1>3. /\ GetUncleReward(h - k, h) \in Nat
      /\ GetUncleReward(h - k, h) > 0
      /\ GetUncleReward(h - k, h) < GetConstReward(h)
  BY <1>2, UncleReward
<1>4. /\ block' \in Blocks /\ block'.reward = GetUncleReward(h - k, h)
      /\ block'.height = h
  BY <1>1, <1>2, <1>3 DEF HandleUncle, Blocks
<1>5. UncleInv'
  BY <1>3, <1>4 DEF UncleInv, GetConstReward
<1> QED
  BY <1>4, <1>5, FoundKeeps DEF FindUncle

\* The rewards of a round follow what is due for it.
LEMMA RoundFollows ==
  ASSUME config \in Configs, block \in Blocks, shares \in [Miners -> Nat],
         Total > 0, NEW g, \A l \in Logins : g[l] = Reward(l)
  PROVE  /\ \A l \in Logins : g[l] \in Nat
         /\ SumFunctionOnSet(g, Logins) \in Nat
         /\ RoundDue \in Nat /\ RoundCredits \in Nat
         /\ Follows(SumFunctionOnSet(g, Logins), RoundDue, RoundCredits)
<1>1. /\ \A l \in Logins : g[l] \in Nat
      /\ SumFunctionOnSet(g, Logins) \in Nat
      /\ RoundDue \in Nat /\ RoundCredits \in Nat
      /\ 2 * (Wei * SumFunctionOnSet(g, Logins)) <=
                2 * RoundDue + Wei * RoundCredits
      /\ 2 * RoundDue <=
                2 * (Wei * SumFunctionOnSet(g, Logins)) + Wei * RoundCredits
  BY RoundPart
<1> QED
  BY <1>1, Zenon DEF Follows

\* Those of the miners follow their part, when no address of the pool mines.
LEMMA MinersFollow ==
  ASSUME config \in Configs, block \in Blocks, shares \in [Miners -> Nat],
         Total > 0, Apart,
         NEW g, \A l \in Logins : g[l] = Reward(l) /\ g[l] \in Nat
  PROVE  /\ SumFunctionOnSet(g, Miners) \in Nat
         /\ MinersPart \in Nat /\ RoundCredits \in Nat
         /\ Follows(SumFunctionOnSet(g, Miners), MinersPart, RoundCredits)
<1> DEFINE n == Cardinality(Sharers)
           sum == SumFunctionOnSet(g, Miners)
<1>1. MinersProfit \in Nat /\ MinersProfit = MinersPart
  BY Profits
<1>2. ASSUME NEW m \in Miners
      PROVE  g[m] = RewardForShares(m)
  <2>1. m \in Logins /\ m # DonationAccount /\ m # config.feeAddress
    BY LoginsFinite DEF Apart
  <2>2. Reward(m) = RewardForShares(m) + 0 + 0
    BY <2>1 DEF Reward
  <2>3. RewardForShares(m) \in Nat
    BY SharesType
  <2> QED
    BY <2>1, <2>2, <2>3
<1>3. /\ sum \in Nat /\ n \in Nat
      /\ 2 * (Wei * sum) <= 2 * MinersProfit + Wei * n
      /\ 2 * MinersProfit <= 2 * (Wei * sum) + Wei * n
  BY <1>1, <1>2, SharesPart
<1> HIDE DEF n, sum
<1>4. Follows(sum, MinersPart, n)
  BY <1>1, <1>3, Zenon DEF Follows
<1>5. RoundCredits \in Nat /\ n <= RoundCredits
  BY <1>3 DEF RoundCredits, n
<1>6. MinersPart \in Nat
  BY <1>1
<1>7. Follows(sum, MinersPart, RoundCredits)
  BY <1>3, <1>4, <1>5, <1>6, FollowsLonger
<1> QED
  BY <1>3, <1>5, <1>6, <1>7 DEF sum

LEMMA CreditKeeps ==
  ASSUME Inv, Credit
  PROVE  Inv'
<1> DEFINE g == [l \in Logins |-> Reward(l)]
           old == SumFunctionOnSet(balances, Logins)
           all == SumFunctionOnSet(g, Logins)
           oldMiners == SumFunctionOnSet(balances, Miners)
           allMiners == SumFunctionOnSet(g, Miners)
<1>1. /\ config \in Configs /\ block \in Blocks
      /\ shares \in [Miners -> Nat] /\ balances \in [Logins -> Nat]
      /\ due \in Nat /\ minersDue \in Nat /\ credits \in Nat
      /\ Total > 0 /\ rounds < MaxRounds
  BY Types DEF Inv, RoundInv, Credit
<1>2. \A l \in Logins : g[l] = Reward(l)
  OBVIOUS
<1>3. /\ balances' = [l \in Logins |-> balances[l] + g[l]]
      /\ due' = due + RoundDue
      /\ minersDue' = minersDue + MinersPart
  BY DEF Credit, RoundDue
<1>4. credits' = credits + RoundCredits
  <2> DEFINE n == Cardinality(Sharers)
             nb == IF config.donate THEN 1 ELSE 0
             nc == IF config.feeAddress = None THEN 0 ELSE 1
  <2>1. credits' = credits + n + nb + nc /\ RoundCredits = n + nb + nc
    BY DEF Credit, RoundCredits, Sharers
  <2>2. n \in Nat
    <3>1. IsFiniteSet(Sharers)
      BY LoginsAssumption, FS_Subset DEF Sharers
    <3> QED
      BY <3>1, FS_CardinalityType
  <2>3. nb \in Nat /\ nc \in Nat
    OBVIOUS
  <2> HIDE DEF n, nb, nc
  <2> QED
    BY <1>1, <2>1, <2>2, <2>3
<1>5. /\ shares' = [m \in Miners |-> 0] /\ block' = NoBlock
      /\ rounds' = rounds + 1 /\ UNCHANGED <<config, height>>
  BY DEF Credit
<1> HIDE DEF g
<1>6. /\ \A l \in Logins : g[l] \in Nat
      /\ all \in Nat /\ RoundDue \in Nat /\ RoundCredits \in Nat
      /\ Follows(all, RoundDue, RoundCredits)
  BY <1>1, <1>2, RoundFollows
<1>7. old \in Nat /\ oldMiners \in Nat
  BY <1>1, SumsOfBalances
<1>8. \A l \in Logins : /\ balances[l] \in Int /\ g[l] \in Int
                        /\ balances'[l] = balances[l] + g[l]
  BY <1>1, <1>3, <1>6
<1>9. \A m \in Miners : /\ balances[m] \in Int /\ g[m] \in Int
                        /\ balances'[m] = balances[m] + g[m]
  BY <1>8, LoginsFinite
<1>10. SumFunctionOnSet(balances', Logins) = old + all
  BY <1>8, LoginsFinite, SumAdd
<1>11. SumFunctionOnSet(balances', Miners) = oldMiners + allMiners
  BY <1>9, LoginsAssumption, SumAdd
<1>12. MinersPart \in Nat
  BY <1>1, Profits
<1> HIDE DEF old, all, oldMiners, allMiners
<1>13. TypeOK'
  <2>1. balances' \in [Logins -> Nat]
    BY <1>1, <1>3, <1>6
  <2>2. due' \in Nat /\ minersDue' \in Nat /\ credits' \in Nat
    BY <1>1, <1>3, <1>4, <1>6, <1>12
  <2>3. rounds' \in 0 .. MaxRounds /\ shares' \in [Miners -> 0 .. MaxShares]
    BY <1>1, <1>5, Constants DEF Inv, TypeOK
  <2>4. block' \in Blocks
    BY <1>5, NoBlockType
  <2> QED
    BY <1>5, <2>1, <2>2, <2>3, <2>4 DEF Inv, TypeOK, Blocks
<1>14. RevenueInv'
  <2>1. Follows(old, due, credits)
    BY DEF Inv, RevenueInv, old
  <2>2. Follows(old + all, due + RoundDue, credits + RoundCredits)
    BY <1>1, <1>6, <1>7, <2>1, FollowsAdds
  <2>3. Follows(SumFunctionOnSet(balances', Logins), due', credits')
    BY <1>3, <1>4, <1>10, <2>2, Zenon
  <2> QED
    BY <2>3 DEF RevenueInv, Follows
<1>15. MinersInv'
  <2>1. SUFFICES ASSUME Apart
                 PROVE  Follows(SumFunctionOnSet(balances', Miners),
                                minersDue', credits')
    BY <1>5 DEF MinersInv, Apart, Follows
  <2>2. Follows(oldMiners, minersDue, credits)
    BY <2>1 DEF Inv, MinersInv, oldMiners
  <2>3. allMiners \in Nat /\ Follows(allMiners, MinersPart, RoundCredits)
    BY <1>1, <1>2, <1>6, <2>1, MinersFollow DEF allMiners
  <2>4. Follows(oldMiners + allMiners, minersDue + MinersPart,
                credits + RoundCredits)
    BY <1>1, <1>6, <1>7, <1>12, <2>2, <2>3, FollowsAdds
  <2> QED
    BY <1>3, <1>4, <1>11, <2>4, Zenon
<1>16. RoundInv' /\ UncleInv'
  BY <1>5, NoBlockType DEF RoundInv, UncleInv
<1> QED
  BY <1>13, <1>14, <1>15, <1>16 DEF Inv

LEMMA NextKeeps == Inv /\ [Next]_vars => Inv'
<1> SUFFICES ASSUME Inv, [Next]_vars PROVE Inv'
  OBVIOUS
<1>1. CASE \E m \in Miners : AddShare(m)
  BY <1>1, AddShareKeeps
<1>2. CASE \E h \in height + 1 .. LastHeight : FindBlock(h) \/ FindUncle(h)
  BY <1>2, FindBlockKeeps, FindUncleKeeps
<1>3. CASE Credit
  BY <1>3, CreditKeeps
<1>4. CASE UNCHANGED vars
  BY <1>4 DEF vars, Inv, TypeOK, RoundInv, Total, RevenueInv, MinersInv,
              Apart, Follows, UncleInv, GetConstReward
<1> QED
  BY <1>1, <1>2, <1>3, <1>4 DEF Next

LEMMA Invariance == Spec => []Inv
BY InitInv, NextKeeps, PTL DEF Spec

-----------------------------------------------------------------------------
(* The theorems.                                                             *)

\* A bound on the distance from both of its sides.
LEMMA FollowsDistance ==
  ASSUME NEW a \in Nat, NEW d \in Nat, NEW c \in Nat, Follows(a, d, c)
  PROVE  2 * Distance(a * WeiPerShannon * Unit, d)
            <= c * WeiPerShannon * Unit
<1>1. \A i \in Nat : i * WeiPerShannon * Unit = Wei * i
  BY Constants, WeiType DEF Wei
<1>2. Wei * a \in Nat /\ Wei * c \in Nat
  BY WeiType, TimesNat
<1>3. /\ a * WeiPerShannon * Unit = Wei * a
      /\ c * WeiPerShannon * Unit = Wei * c
  BY <1>1
<1>4. 2 * Distance(Wei * a, d) <= Wei * c
  BY <1>2 DEF Follows, Distance
<1> QED
  BY <1>3, <1>4, Zenon

\* The rewards, the shares and the balances are amounts that are never
\* negative, whatever the fees, the fee address and the schedule.
THEOREM TypeCorrect == Spec => []TypeOK
<1>1. Inv => TypeOK
  BY DEF Inv
<1> QED
  BY <1>1, Invariance, PTL

\* calculateRewards and WriteMaturedBlock: over any number of rounds what is
\* credited is the revenue, but for half a Shannon for each amount.
THEOREM CreditsAreTheRevenue == Spec => []CreditsFollowRevenue
<1>1. Inv => CreditsFollowRevenue
  <2> SUFFICES ASSUME Inv PROVE CreditsFollowRevenue
    OBVIOUS
  <2> DEFINE sum == SumFunctionOnSet(balances, Logins)
  <2>1. balances \in [Logins -> Nat] /\ due \in Nat /\ credits \in Nat
    BY Types DEF Inv
  <2>2. sum \in Nat
    BY <2>1, SumsOfBalances
  <2>3. Follows(sum, due, credits)
    BY DEF Inv, RevenueInv
  <2>4. SumFunction(balances) = sum
    BY <2>1 DEF SumFunction
  <2> HIDE DEF sum
  <2>5. 2 * Distance(sum * WeiPerShannon * Unit, due)
            <= credits * WeiPerShannon * Unit
    BY <2>1, <2>2, <2>3, FollowsDistance
  <2> QED
    BY <2>4, <2>5, Zenon DEF CreditsFollowRevenue
<1> QED
  BY <1>1, Invariance, PTL

\* calculateRewardsForShares and chargeFee: when no address of the pool mines,
\* the miners together get the revenue without the pool's fee, but for
\* rounding; and an uncle pays them something, but less than its block.
THEOREM MinersAreOwedTheirPart == Spec => []MinersGetTheirPart
<1>1. Inv => MinersGetTheirPart
  <2> SUFFICES ASSUME Inv PROVE MinersGetTheirPart
    OBVIOUS
  <2> DEFINE sum == SumFunctionOnSet(balances, Miners)
  <2>1. balances \in [Logins -> Nat] /\ minersDue \in Nat /\ credits \in Nat
    BY Types DEF Inv
  <2>2. sum \in Nat
    BY <2>1, SumsOfBalances
  <2>3. Apart => Follows(sum, minersDue, credits)
    BY DEF Inv, MinersInv
  <2>4. UncleInv
    BY DEF Inv
  <2> HIDE DEF sum
  <2>5. Apart => 2 * Distance(sum * WeiPerShannon * Unit, minersDue)
                    <= credits * WeiPerShannon * Unit
    BY <2>1, <2>2, <2>3, FollowsDistance
  <2> QED
    BY <2>4, <2>5, Zenon DEF MinersGetTheirPart, UncleInv, Apart, sum
<1> QED
  BY <1>1, Invariance, PTL
=============================================================================
