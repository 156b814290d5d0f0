------------------------------- MODULE Rewards -------------------------------
(***************************************************************************)
(* What a block is worth and who gets it: handleBlock, handleUncle,        *)
(* calculateRewards and the functions they call (payouts/unlocker.go), and *)
(* the emission schedule (payouts/unlocker_getConstReward.go).             *)
(*                                                                         *)
(* A round collects shares, ends with a block or an uncle that the         *)
(* unlocker found on the chain, and is credited.  Where the rows are kept, *)
(* and what happens when a call fails, is the subject of Unlocker.tla.     *)
(*                                                                         *)
(* big.Rat is exact: an amount of Wei that is no integer is a numerator    *)
(* over a denominator that the operators below name.                       *)
(***************************************************************************)
EXTENDS Integers, FiniteSets, FiniteSetsExt, Functions

CONSTANTS
    Miners,             \* the logins that submit shares
    FeeAddresses,       \* values of poolFeeAddress; a miner's login or not
    DonationAccount,    \* the constant donationAccount
    None,               \* no poolFeeAddress
    FeeNum, FeeDen,     \* poolFee / 100, the fraction the pool keeps
    DonationNum,        \* donationFee / 100 over DonationDen; 0 in the code
    DonationDen,
    WeiPerShannon,      \* util.Shannon
    FirstReward,        \* reward of the first period in Wei
    HeightStep,         \* reduceRewardHeightStep
    HeightMax,          \* reduceRewardHeightMax
    UncleDepth,         \* the chain takes uncles of that many generations
    TxFees,             \* what the transactions of a block may pay
    MaxUncles,          \* bound: uncles a block includes (2 on the chain)
    LastHeight,         \* bound: height of the last block
    MaxShares,          \* bound: shares of a miner in a round
    MaxRounds           \* bound: rounds

ASSUME RewardsAssumption ==
    /\ FeeNum \in Nat /\ FeeDen \in Nat \ {0} /\ FeeNum <= FeeDen
    /\ DonationNum \in Nat /\ DonationDen \in Nat \ {0}
    /\ DonationNum <= DonationDen
    /\ WeiPerShannon \in Nat \ {0} /\ FirstReward \in Nat
    /\ HeightStep \in Nat \ {0} /\ HeightMax \in Nat
    /\ UncleDepth \in 1 .. 7
    /\ TxFees \subseteq Nat /\ MaxUncles \in Nat
    /\ LastHeight \in Nat /\ MaxShares \in Nat /\ MaxRounds \in Nat

\* Logins are addresses, of 20 bytes; None is the empty string.
ASSUME LoginsAssumption ==
    /\ IsFiniteSet(Miners) /\ IsFiniteSet(FeeAddresses)
    /\ None \notin Miners \cup FeeAddresses \cup {DonationAccount}

\* The last halving, and how much it is that the first reward is divided by.
Halvings == HeightMax \div HeightStep
PowerOfTwo[n \in 0 .. Halvings] ==
    IF n = 0 THEN 1 ELSE 2 * PowerOfTwo[n - 1]

\* The last reward is still 8 Wei or more: 10^21 is more than 8 * 2^26.
ASSUME ScheduleAssumption == FirstReward >= 8 * PowerOfTwo[Halvings]

VARIABLES
    config,             \* donate, poolFeeAddress, keepTxFees
    height,             \* height of the chain
    shares,             \* the shares of the round under way
    block,              \* the candidate, once it is found on the chain
    balances,           \* what the logins were credited, in Shannon
    \* --- history ---
    due,                \* what they should have got, in Wei / Unit
    minersDue,          \* the part of it that is for shares, in Wei / Unit
    credits,            \* amounts credited, each rounded on its own
    rounds              \* rounds so far

vars == <<config, height, shares, block, balances, due, minersDue, credits,
          rounds>>

Logins == Miners \cup FeeAddresses \cup {DonationAccount}
NoBlock == [found |-> FALSE, uncle |-> FALSE, height |-> 0, reward |-> 0,
            extra |-> 0]

\* Every fraction of a Wei that occurs but for the division by a round's
\* shares is a multiple of 1 / Unit.
Unit == FeeDen * DonationDen

TypeOK ==
    /\ config \in [donate : BOOLEAN, feeAddress : FeeAddresses \cup {None},
                   keepTxFees : BOOLEAN]
    /\ height \in 0 .. LastHeight
    /\ shares \in [Miners -> 0 .. MaxShares]
    /\ block \in [found : BOOLEAN, uncle : BOOLEAN, height : 0 .. LastHeight,
                  reward : Nat, extra : Nat]
    /\ balances \in [Logins -> Nat]
    /\ due \in Nat /\ minersDue \in Nat /\ credits \in Nat
    /\ rounds \in 0 .. MaxRounds

Init ==
    /\ config \in [donate : BOOLEAN, feeAddress : FeeAddresses \cup {None},
                   keepTxFees : BOOLEAN]
    /\ height = 0
    /\ shares = [m \in Miners |-> 0]
    /\ block = NoBlock
    /\ balances = [l \in Logins |-> 0]
    /\ due = 0 /\ minersDue = 0 /\ credits = 0 /\ rounds = 0

-----------------------------------------------------------------------------
(* What a block is worth.                                                    *)

\* GetConstReward_qkc: half as much every HeightStep blocks until HeightMax.
\* The float computation is exact for 10^21 * 2^-x, x <= 26; then it is cut.
GetConstReward(h) ==
    LET capped == IF h > HeightMax THEN HeightMax ELSE h
    IN  FirstReward \div PowerOfTwo[capped \div HeightStep]

GetRewardForUncle(h) == GetConstReward(h) \div 32

\* Mutant: the generations the wrong way round.
GetUncleRewardNegative(u, h) == (((h - u) - 8) * GetConstReward(h)) \div 8

\* An uncle of height u that a block of height h includes.
GetUncleReward(u, h) == ((8 - (h - u)) * GetConstReward(h)) \div 8

\* handleBlock: the fees are the pool's (keepTxFees) or part of the reward.
HandleBlock(h, uncles, fees) ==
    [found |-> TRUE, uncle |-> FALSE, height |-> h,
     reward |-> GetConstReward(h) + (IF config.keepTxFees THEN 0 ELSE fees)
                    + uncles * GetRewardForUncle(h),
     extra |-> IF config.keepTxFees THEN fees ELSE 0]

HandleUncle(u, h) ==
    [found |-> TRUE, uncle |-> TRUE, height |-> h,
     reward |-> GetUncleReward(u, h), extra |-> 0]

-----------------------------------------------------------------------------
(* Who gets it.                                                              *)

\* weiToShannonInt64: num / den Wei to the nearest Shannon, halves up.
WeiToShannon(num, den) ==
    (2 * num + den * WeiPerShannon) \div (2 * den * WeiPerShannon)

\* Mutant: the fees that the pool keeps are shared out as well.
MinersProfitOfAll ==
    (block.reward + block.extra) * (FeeDen - FeeNum) * DonationDen

\* chargeFee on the revenue: the miners' profit, in Wei / Unit.
MinersProfit == block.reward * (FeeDen - FeeNum) * DonationDen

\* The pool's profit before the donation, in Wei / Unit.
PoolProfit == (block.reward * FeeNum + block.extra * FeeDen) * DonationDen

\* chargeFee on the pool's profit.
Donation ==
    IF config.donate THEN (PoolProfit * DonationNum) \div DonationDen ELSE 0

Total == SumFunction(shares)

\* calculateRewardsForShares: what login l gets for its shares, in Shannon.
RewardForShares(l) ==
    IF l \in Miners
    THEN WeiToShannon(MinersProfit * shares[l], Unit * Total)
    ELSE 0

\* Mutant: the pool's profit replaces what its login has mined.
RewardOverwritten(l) ==
    CASE l = config.feeAddress -> WeiToShannon(PoolProfit - Donation, Unit)
      [] l = DonationAccount -> WeiToShannon(Donation, Unit)
      [] OTHER -> RewardForShares(l)

\* calculateRewards: the donation and the pool's profit are added to what
\* their logins have mined.
Reward(l) ==
    RewardForShares(l)
    + (IF config.donate /\ l = DonationAccount
       THEN WeiToShannon(Donation, Unit) ELSE 0)
    + (IF l = config.feeAddress
       THEN WeiToShannon(PoolProfit - Donation, Unit) ELSE 0)

-----------------------------------------------------------------------------
(* Rounds.                                                                   *)

AddShare(m) ==
    /\ ~block.found
    /\ rounds < MaxRounds
    /\ shares[m] < MaxShares
    /\ shares' = [shares EXCEPT ![m] = @ + 1]
    /\ UNCHANGED <<config, height, block, balances, due, minersDue, credits,
                   rounds>>

\* The unlocker finds the candidate on the chain, in a block or as an uncle.
Found(h) ==
    /\ ~block.found
    /\ Total > 0
    /\ rounds < MaxRounds
    /\ height' = h
    /\ UNCHANGED <<config, shares, balances, due, minersDue, credits, rounds>>

FindBlock(h) ==
    /\ Found(h)
    /\ \E n \in 0 .. MaxUncles, fees \in TxFees :
            block' = HandleBlock(h, n, fees)

FindUncle(h) ==
    /\ Found(h)
    /\ \E k \in 1 .. UncleDepth :
            k <= h /\ block' = HandleUncle(h - k, h)

\* History: the reward without the pool's fee, in Wei / Unit.
MinersPart == block.reward * Unit - block.reward * FeeNum * DonationDen

\* WriteMaturedBlock adds the rewards to the balances.
Credit ==
    /\ block.found
    /\ balances' = [l \in Logins |-> balances[l] + Reward(l)]
    /\ due' = due + (IF config.feeAddress = None
                     THEN MinersPart + Donation
                     ELSE (block.reward + block.extra) * Unit)
    /\ minersDue' = minersDue + MinersPart
    /\ credits' = credits + Cardinality({m \in Miners : shares[m] > 0})
                    + (IF config.donate THEN 1 ELSE 0)
                    + (IF config.feeAddress = None THEN 0 ELSE 1)
    /\ rounds' = rounds + 1
    /\ shares' = [m \in Miners |-> 0]
    /\ block' = NoBlock
    /\ UNCHANGED <<config, height>>

Next ==
    \/ \E m \in Miners : AddShare(m)
    \/ \E h \in height + 1 .. LastHeight : FindBlock(h) \/ FindUncle(h)
    \/ Credit

Spec == Init /\ [][Next]_vars

-----------------------------------------------------------------------------
(* Safety.                                                                   *)

Distance(a, b) == IF a > b THEN a - b ELSE b - a

\* Over any number of rounds the credits differ from the revenue by no more
\* than half a Shannon for each amount credited: nothing but rounding makes
\* or loses money, whoever donates, keeps the fees or mines for the pool's own
\* address.  Without poolFeeAddress the pool's profit is left out.
CreditsFollowRevenue ==
    2 * Distance(SumFunction(balances) * WeiPerShannon * Unit, due)
        <= credits * WeiPerShannon * Unit

\* The miners together get the revenue without the pool's fee, and nothing of
\* the transaction fees that the pool keeps.  An uncle is worth something to
\* them, and less than the block that includes it, when the reward was halved
\* between the two as well.
MinersGetTheirPart ==
    /\ config.feeAddress \notin Miners /\ DonationAccount \notin Miners =>
        2 * Distance(SumFunctionOnSet(balances, Miners)
                        * WeiPerShannon * Unit, minersDue)
            <= credits * WeiPerShannon * Unit
    /\ block.uncle => /\ block.reward > 0
                      /\ block.reward < GetConstReward(block.height)
=============================================================================
