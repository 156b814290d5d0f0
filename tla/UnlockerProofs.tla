--------------------------- MODULE UnlockerProofs ---------------------------
(***************************************************************************)
(* Proofs about Unlocker.tla, for every set of rounds, depths, rewards and *)
(* bounds: type correctness, that no round is lost or unlocked twice, that *)
(* shares and credits stay under the key of their row, that the unlocker   *)
(* implements RoundLedger.tla, and that the balances follow the chain.     *)
(***************************************************************************)
EXTENDS Unlocker, Sums

\* Sets of rows or logs with the same keys.
LEMMA SameKeys ==
  ASSUME NEW A, NEW B,
         \A a \in A : \E b \in B : RoundKey(a) = RoundKey(b),
         \A b \in B : \E a \in A : RoundKey(a) = RoundKey(b)
  PROVE  {RoundKey(a) : a \in A} = {RoundKey(b) : b \in B}
  OBVIOUS

USE DEF Heights, Row, Loaded, Outcomes, node, blocks, redis, search, Height,
        RoundKey

-----------------------------------------------------------------------------
(* The inductive invariant.  That a round has one row is not inductive: a    *)
(* row that is moved has to be where the unlocker read it, and no other part *)
(* of the search may hold it too.                                            *)

\* The list that the rows of this stage were read from.
Source == IF stage = "pending" THEN candidates ELSE immature

\* A row that was read is in one place of the search, and still in its list.
SearchInv ==
    /\ queue \subseteq Source /\ orphans \subseteq Source
    /\ \A f \in found : f.row \in Source
    /\ queue \cap orphans = {}
    /\ \A f \in found : f.row \notin queue /\ f.row \notin orphans
    /\ \A f, g \in found : f.row = g.row => f = g
    /\ pc = "scan" => /\ cand.row \in Source
                      /\ cand.row \notin queue /\ cand.row \notin orphans
                      /\ \A f \in found : f.row # cand.row

\* Where the sets of the search are empty.
PhaseInv ==
    /\ pc \in {"down", "idle", "tip"} =>
            queue = {} /\ found = {} /\ orphans = {}
    /\ pc \in {"orphans", "write"} => queue = {}
    /\ pc = "write" => orphans = {}

\* What is searched for is far enough below the head.
DepthInv ==
    /\ \A row \in queue : row.height + MinDepth <= head
    /\ pc = "scan" => cand.row.height + MinDepth <= head /\ offset < MinDepth

\* Redis, against what the pool found.
RowsInv ==
    /\ place \in [Rounds -> [kind : {"unknown", "none", "block", "uncle"},
                             real : Heights, at : Heights]]
    /\ candidates \subseteq Row /\ immature \subseteq Row
    /\ matured \subseteq Row
    /\ roundKeys \subseteq [round : Rounds, height : Heights]
    /\ credits \subseteq [round : Rounds, height : Heights,
                          amount : {0, BlockReward, UncleReward}]
    /\ immatureTotal \in Int
    /\ balanceTotal \in Int
    /\ ExactlyOnePlace
    /\ SharesFollowRow
    /\ ImmatureIsLogged

\* The process; lastFail is never "height".
Found == [row : Row, height : Heights, uncle : BOOLEAN,
          reward : {BlockReward, UncleReward}]

SearchType ==
    /\ pc \in {"down", "idle", "tip", "take", "scan", "orphans", "write"}
    /\ stage \in {"pending", "immature"}
    /\ halt \in BOOLEAN
    /\ lastFail \in {"none", "call"}
    /\ queue \subseteq Row
    /\ cand \in Loaded
    /\ offset \in -MinDepth .. MinDepth
    /\ found \subseteq Found
    /\ orphans \subseteq Row
    /\ faults \in 0 .. MaxFaults
    /\ misread \in BOOLEAN

ProcessInv == SearchType /\ SearchInv /\ PhaseInv /\ DepthInv

Inv == head \in Heights /\ RowsInv /\ ProcessInv

LEMMA InvImplies ==
  Inv => TypeOK /\ ExactlyOnePlace /\ SharesFollowRow /\ ImmatureIsLogged
BY DEF Inv, RowsInv, ProcessInv, SearchType, TypeOK, Found

-----------------------------------------------------------------------------
(* The transactions.                                                         *)

\* What a row's log holds is a reward or nothing.
LEMMA LoggedType ==
  ASSUME RowsInv, NEW row \in Row
  PROVE  Logged(row) \in {0, BlockReward, UncleReward}
<1> DEFINE log == CreditsAt(row.round, row.height)
<1>1. CASE log = {}
  BY <1>1 DEF Logged, AmountIn
<1>2. CASE log # {}
  <2>1. PICK c : c = (CHOOSE d \in log : TRUE)
    OBVIOUS
  <2>2. c \in log
    BY <1>2, <2>1
  <2>3. c \in credits
    BY <2>2 DEF CreditsAt
  <2>4. Logged(row) = c.amount
    BY <1>2, <2>1 DEF Logged, AmountIn
  <2> QED
    BY <2>3, <2>4 DEF RowsInv
<1> QED
  BY <1>1, <1>2

\* A round that has a candidate has no credits.
LEMMA CandidateHasNoCredits ==
  ASSUME RowsInv, NEW row \in candidates, NEW c \in credits
  PROVE  c.round # row.round
<1>1. PICK b \in immature : RoundKey(c) = RoundKey(b)
  BY DEF RowsInv, ImmatureIsLogged
<1>2. b.round = c.round
  BY <1>1
<1>3. b # row
  BY DEF RowsInv, ExactlyOnePlace
<1> QED
  BY <1>2, <1>3 DEF RowsInv, ExactlyOnePlace, Rows

LEMMA WriteImmatureBlockKeeps ==
  ASSUME RowsInv, UNCHANGED place, NEW f \in Found, f.row \in candidates,
         WriteImmatureBlock(f)
  PROVE  RowsInv'
<1> DEFINE key == [round |-> f.row.round, height |-> f.height]
<1>0. /\ f.row \in Row /\ f.height \in Heights /\ f.uncle \in BOOLEAN
      /\ f.reward \in {BlockReward, UncleReward}
  BY DEF Found
<1>1. Stored(f) \in Row /\ Stored(f).round = f.row.round
      /\ Stored(f).height = f.height /\ Stored(f).orphan = FALSE
  BY <1>0 DEF Stored
<1>2. RoundKey(f.row) \in roundKeys
  BY DEF RowsInv, SharesFollowRow
<1>3. \A x \in Rows : x.round = f.row.round => x = f.row
  BY DEF RowsInv, ExactlyOnePlace, Rows
<1>4. \A x \in Rows' : x \in Rows \ {f.row} \/ x = Stored(f)
  BY DEF WriteImmatureBlock, Rows, RowsInv, ExactlyOnePlace
<1>5. \A x \in Rows \ {f.row} : x \in Rows'
  BY DEF WriteImmatureBlock, Rows
<1>6. Stored(f) \in Rows'
  BY DEF WriteImmatureBlock, Rows
<1>7. ExactlyOnePlace'
  <2>1. \A r \in Rounds : (place[r] # NotFound)' <=>
                            \E row \in Rows' : row.round = r
    <3> SUFFICES ASSUME NEW r \in Rounds
                 PROVE  (\E row \in Rows : row.round = r) <=>
                        (\E row \in Rows' : row.round = r)
      BY DEF RowsInv, ExactlyOnePlace, NotFound
    <3> QED
      BY <1>1, <1>4, <1>5, <1>6 DEF Rows
  <2>2. \A x, y \in Rows' : x.round = y.round => x = y
    BY <1>1, <1>3, <1>4 DEF RowsInv, ExactlyOnePlace
  <2>3. Stored(f) \notin Rows \ {f.row}
    BY <1>1, <1>3
  <2>4. (/\ candidates \cap immature = {}
         /\ candidates \cap matured = {}
         /\ immature \cap matured = {})'
    BY <2>3 DEF WriteImmatureBlock, RowsInv, ExactlyOnePlace, Rows
  <2> QED
    BY <2>1, <2>2, <2>4 DEF ExactlyOnePlace
<1>8. roundKeys' = (roundKeys \ {RoundKey(f.row)}) \cup {key}
  BY <1>0, <1>2 DEF WriteImmatureBlock, RenameRound
<1>9. SharesFollowRow'
  <2>1. ASSUME NEW k \in roundKeys'
        PROVE  \E row \in (candidates \cup immature)' : k = RoundKey(row)
    <3>1. CASE k = key
      BY <1>1, <3>1 DEF WriteImmatureBlock
    <3>2. CASE k # key
      <4>1. k \in roundKeys /\ k # RoundKey(f.row)
        BY <1>8, <3>2
      <4>2. PICK row \in candidates \cup immature : k = RoundKey(row)
        BY <4>1 DEF RowsInv, SharesFollowRow
      <4>3. row # f.row
        BY <4>1, <4>2
      <4> QED
        BY <4>2, <4>3 DEF WriteImmatureBlock
    <3> QED
      BY <3>1, <3>2
  <2>2. ASSUME NEW row \in (candidates \cup immature)'
        PROVE  RoundKey(row) \in roundKeys'
    <3>1. CASE row = Stored(f)
      BY <1>1, <1>8, <3>1
    <3>2. CASE row # Stored(f)
      <4>1. row \in candidates \cup immature /\ row # f.row
        BY <3>2 DEF WriteImmatureBlock, RowsInv, ExactlyOnePlace
      <4>2. row.round # f.row.round
        BY <1>3, <4>1 DEF Rows
      <4>3. RoundKey(row) \in roundKeys
        BY <4>1 DEF RowsInv, SharesFollowRow
      <4> QED
        BY <1>8, <4>2, <4>3
    <3> QED
      BY <3>1, <3>2
  <2>3. roundKeys' = {RoundKey(row) : row \in (candidates \cup immature)'}
    BY <2>1, <2>2
  <2> QED
    BY <2>3 DEF SharesFollowRow
<1>10. PICK new \in [round : Rounds, height : Heights,
                     amount : {0, BlockReward, UncleReward}] :
         /\ credits' = credits \cup {new}
         /\ RoundKey(new) = key
  <2>1. CreditsAt(f.row.round, f.height) = {}
    BY CandidateHasNoCredits DEF CreditsAt
  <2>2. Rewards(f) \in {0, BlockReward, UncleReward}
    BY <1>0 DEF Rewards
  <2> DEFINE log == [round |-> f.row.round, height |-> f.height,
                     amount |-> Rewards(f)]
  <2>3. credits' = credits \cup {log}
    BY <2>1 DEF WriteImmatureBlock
  <2>4. log \in [round : Rounds, height : Heights,
                  amount : {0, BlockReward, UncleReward}]
    BY <1>0, <2>2
  <2>5. RoundKey(log) = key
    OBVIOUS
  <2> QED
    BY <2>3, <2>4, <2>5
<1>11. ImmatureIsLogged'
  <2> DEFINE logged == {b \in immature' : ~b.orphan}
  <2>1. ASSUME NEW c \in credits'
        PROVE  \E b \in logged : RoundKey(c) = RoundKey(b)
    <3>1. CASE c = new
      BY <1>1, <1>10, <3>1 DEF WriteImmatureBlock
    <3>2. CASE c \in credits
      <4>1. PICK b \in immature : ~b.orphan /\ RoundKey(c) = RoundKey(b)
        BY <3>2 DEF RowsInv, ImmatureIsLogged
      <4> QED
        BY <4>1 DEF WriteImmatureBlock
    <3> QED
      BY <1>10, <3>1, <3>2
  <2>2. ASSUME NEW b \in logged
        PROVE  \E c \in credits' : RoundKey(c) = RoundKey(b)
    <3>1. CASE b = Stored(f)
      BY <1>1, <1>10, <3>1
    <3>2. CASE b \in immature
      <4>1. PICK c \in credits : RoundKey(c) = RoundKey(b)
        BY <2>2, <3>2 DEF RowsInv, ImmatureIsLogged
      <4> QED
        BY <1>10, <4>1
    <3> QED
      BY <3>1, <3>2 DEF WriteImmatureBlock
  <2>3. \A c \in credits : c.round # new.round
    BY <1>10, CandidateHasNoCredits
  <2>4. \A c, d \in credits' : c.round = d.round => c = d
    BY <1>10, <2>3 DEF RowsInv, ImmatureIsLogged
  <2>5. {RoundKey(c) : c \in credits'} = {RoundKey(row) : row \in logged}
    <3> HIDE DEF logged
    <3> QED
      BY <2>1, <2>2, SameKeys
  <2> QED
    BY <2>4, <2>5 DEF ImmatureIsLogged
<1>12. immatureTotal' \in Int /\ balanceTotal' \in Int
  <2>1. Rewards(f) \in Int
    BY <1>0, BoundsAssumption DEF Rewards
  <2> QED
    BY <2>1 DEF WriteImmatureBlock, RowsInv
<1>13. /\ candidates' \subseteq Row /\ immature' \subseteq Row
       /\ matured' \subseteq Row
  BY <1>1 DEF WriteImmatureBlock, RowsInv
<1>14. roundKeys' \subseteq [round : Rounds, height : Heights]
  BY <1>0, <1>8 DEF RowsInv
<1>15. credits' \subseteq [round : Rounds, height : Heights,
                           amount : {0, BlockReward, UncleReward}]
  BY <1>10 DEF RowsInv
<1> QED
  BY <1>7, <1>9, <1>11, <1>12, <1>13, <1>14, <1>15 DEF RowsInv

\* An immature row is settled as another row of its round.
LEMMA SettleKeeps ==
  ASSUME RowsInv, UNCHANGED place,
         NEW row \in immature, NEW settled \in Row,
         settled.round = row.round,
         UNCHANGED candidates,
         immature' = immature \ {row},
         matured' = matured \cup {settled},
         roundKeys' = roundKeys \ {RoundKey(row)},
         credits' = credits \ CreditsAt(row.round, row.height),
         immatureTotal' \in Int, balanceTotal' \in Int
  PROVE  RowsInv'
<1>1. \A x \in Rows : x.round = row.round => x = row
  BY DEF RowsInv, ExactlyOnePlace, Rows
<1>2. \A x \in Rows' : x \in Rows \ {row} \/ x = settled
  BY DEF Rows, RowsInv, ExactlyOnePlace
<1>3. \A x \in Rows \ {row} : x \in Rows'
  BY DEF Rows
<1>4. settled \in Rows'
  BY DEF Rows
<1>5. ExactlyOnePlace'
  <2>1. \A r \in Rounds : (place[r] # NotFound)' <=>
                            \E x \in Rows' : x.round = r
    <3> SUFFICES ASSUME NEW r \in Rounds
                 PROVE  (\E x \in Rows : x.round = r) <=>
                        (\E x \in Rows' : x.round = r)
      BY DEF RowsInv, ExactlyOnePlace, NotFound
    <3> QED
      BY <1>2, <1>3, <1>4 DEF Rows
  <2>2. \A x, y \in Rows' : x.round = y.round => x = y
    BY <1>1, <1>2 DEF RowsInv, ExactlyOnePlace
  <2>3. settled \notin Rows \ {row}
    BY <1>1
  <2>4. (/\ candidates \cap immature = {}
         /\ candidates \cap matured = {}
         /\ immature \cap matured = {})'
    BY <2>3 DEF RowsInv, ExactlyOnePlace, Rows
  <2> QED
    BY <2>1, <2>2, <2>4 DEF ExactlyOnePlace
<1>6. SharesFollowRow'
  <2>1. ASSUME NEW k \in roundKeys'
        PROVE  \E x \in (candidates \cup immature)' : k = RoundKey(x)
    <3>1. PICK x \in candidates \cup immature : k = RoundKey(x)
      BY DEF RowsInv, SharesFollowRow
    <3> QED
      BY <3>1
  <2>2. ASSUME NEW x \in (candidates \cup immature)'
        PROVE  RoundKey(x) \in roundKeys'
    <3>1. x \in candidates \cup immature /\ x # row
      BY DEF RowsInv, ExactlyOnePlace
    <3>2. x.round # row.round
      BY <1>1, <3>1 DEF Rows
    <3>3. RoundKey(x) \in roundKeys
      BY <3>1 DEF RowsInv, SharesFollowRow
    <3> QED
      BY <3>2, <3>3
  <2>3. roundKeys' = {RoundKey(x) : x \in (candidates \cup immature)'}
    BY <2>1, <2>2
  <2> QED
    BY <2>3 DEF SharesFollowRow
<1>7. ImmatureIsLogged'
  <2> DEFINE logged == {b \in immature' : ~b.orphan}
  <2>1. ASSUME NEW c \in credits'
        PROVE  \E b \in logged : RoundKey(c) = RoundKey(b)
    <3>1. c \in credits /\ c \notin CreditsAt(row.round, row.height)
      OBVIOUS
    <3>2. PICK b \in immature : ~b.orphan /\ RoundKey(c) = RoundKey(b)
      BY <3>1 DEF RowsInv, ImmatureIsLogged
    <3>3. b # row
      BY <3>1, <3>2 DEF CreditsAt
    <3> QED
      BY <3>2, <3>3
  <2>2. ASSUME NEW b \in logged
        PROVE  \E c \in credits' : RoundKey(c) = RoundKey(b)
    <3>1. PICK c \in credits : RoundKey(c) = RoundKey(b)
      BY DEF RowsInv, ImmatureIsLogged
    <3>2. b.round # row.round
      BY <1>1 DEF Rows
    <3> QED
      BY <3>1, <3>2 DEF CreditsAt
  <2>3. {RoundKey(c) : c \in credits'} = {RoundKey(x) : x \in logged}
    <3> HIDE DEF logged
    <3> QED
      BY <2>1, <2>2, SameKeys
  <2>4. \A c, d \in credits' : c.round = d.round => c = d
    BY DEF RowsInv, ImmatureIsLogged
  <2> QED
    BY <2>3, <2>4 DEF ImmatureIsLogged
<1> QED
  BY <1>5, <1>6, <1>7 DEF RowsInv

LEMMA DropCreditsType ==
  ASSUME RowsInv, NEW row \in Row, NEW readable \in BOOLEAN,
         DropCredits(row, readable)
  PROVE  /\ credits' = credits \ CreditsAt(row.round, row.height)
         /\ immatureTotal' \in Int
<1>1. Logged(row) \in Int
  BY LoggedType, BoundsAssumption
<1> QED
  BY <1>1 DEF DropCredits, RowsInv

LEMMA WriteMaturedBlockKeeps ==
  ASSUME RowsInv, UNCHANGED place, NEW f \in Found, f.row \in immature,
         NEW readable \in BOOLEAN, WriteMaturedBlock(f, readable)
  PROVE  RowsInv'
<1>1. /\ f.row \in Row /\ f.height \in Heights /\ f.uncle \in BOOLEAN
      /\ f.reward \in {BlockReward, UncleReward}
  BY DEF Found
<1>2. Stored(f) \in Row /\ Stored(f).round = f.row.round
  BY <1>1 DEF Stored
<1>3. balanceTotal' \in Int
  <2>1. Rewards(f) \in Int
    BY <1>1, BoundsAssumption DEF Rewards
  <2> QED
    BY <2>1 DEF WriteMaturedBlock, RowsInv
<1>4. /\ credits' = credits \ CreditsAt(f.row.round, f.row.height)
      /\ immatureTotal' \in Int
  BY <1>1, DropCreditsType DEF WriteMaturedBlock
<1> QED
  BY <1>2, <1>3, <1>4, SettleKeeps DEF WriteMaturedBlock

LEMMA WriteOrphanKeeps ==
  ASSUME RowsInv, UNCHANGED place, NEW row \in immature,
         NEW readable \in BOOLEAN, WriteOrphan(row, readable)
  PROVE  RowsInv'
<1>1. row \in Row
  BY DEF RowsInv
<1> DEFINE settled == [row EXCEPT !.orphan = TRUE]
<1>2. settled \in Row /\ settled.round = row.round
  BY <1>1
<1>3. /\ credits' = credits \ CreditsAt(row.round, row.height)
      /\ immatureTotal' \in Int
  BY <1>1, DropCreditsType DEF WriteOrphan
<1>4. balanceTotal' \in Int
  BY DEF WriteOrphan, RowsInv
<1> QED
  BY <1>2, <1>3, <1>4, SettleKeeps DEF WriteOrphan

LEMMA WritePendingOrphansKeeps ==
  ASSUME RowsInv, UNCHANGED place, NEW rows \in SUBSET candidates,
         WritePendingOrphans(rows)
  PROVE  RowsInv'
<1> DEFINE Orphan(x) == [x EXCEPT !.orphan = TRUE]
<1>1. \A x \in rows : /\ Orphan(x) \in Row /\ Orphan(x).orphan = TRUE
                      /\ Orphan(x).round = x.round
                      /\ RoundKey(Orphan(x)) = RoundKey(x)
  <2> TAKE x \in rows
  <2>1. x \in Row
    BY DEF RowsInv
  <2> QED
    BY <2>1
<1>2. /\ candidates' = candidates \ rows
      /\ immature' = immature \cup {Orphan(x) : x \in rows}
      /\ UNCHANGED <<matured, roundKeys, credits>>
      /\ immatureTotal' \in Int /\ balanceTotal' \in Int
  BY DEF WritePendingOrphans, RowsInv
<1>3. \A x \in rows : x \in Rows /\ x \in candidates
  BY DEF Rows
<1> HIDE DEF Orphan
<1>4. \A y \in Rows' :
        \/ y \in Rows /\ y \notin rows
        \/ \E x \in rows : y = Orphan(x)
  BY <1>2 DEF Rows, RowsInv, ExactlyOnePlace
<1>5. \A y \in Rows : y \in Rows' \/ (y \in rows /\ Orphan(y) \in Rows')
  BY <1>2 DEF Rows
<1>6. \A x \in rows, y \in Rows : x.round = y.round => x = y
  BY <1>3 DEF RowsInv, ExactlyOnePlace
<1>7. ExactlyOnePlace'
  <2>1. \A r \in Rounds : (place[r] # NotFound)' <=>
                            \E y \in Rows' : y.round = r
    <3> SUFFICES ASSUME NEW r \in Rounds
                 PROVE  (\E y \in Rows : y.round = r) <=>
                        (\E y \in Rows' : y.round = r)
      BY DEF RowsInv, ExactlyOnePlace, NotFound
    <3> QED
      BY <1>1, <1>3, <1>4, <1>5
  <2>2. ASSUME NEW y \in Rows', NEW z \in Rows', y.round = z.round
        PROVE  y = z
    <3>1. CASE y \in Rows /\ y \notin rows /\ z \in Rows /\ z \notin rows
      BY <2>2, <3>1 DEF RowsInv, ExactlyOnePlace
    <3>2. CASE \E x \in rows : y = Orphan(x)
      <4>1. PICK x \in rows : y = Orphan(x)
        BY <3>2
      <4>2. y.round = x.round
        BY <1>1, <4>1
      <4>3. ~(z \in Rows /\ z \notin rows)
        BY <1>6, <2>2, <4>2
      <4>4. PICK w \in rows : z = Orphan(w)
        BY <1>4, <4>3
      <4>5. z.round = w.round
        BY <1>1, <4>4
      <4> QED
        BY <1>3, <1>6, <2>2, <4>1, <4>2, <4>4, <4>5
    <3>3. CASE \E x \in rows : z = Orphan(x)
      <4>1. PICK x \in rows : z = Orphan(x)
        BY <3>3
      <4>2. z.round = x.round
        BY <1>1, <4>1
      <4>3. ~(y \in Rows /\ y \notin rows)
        BY <1>6, <2>2, <4>2
      <4> QED
        BY <1>4, <3>2, <4>3
    <3> QED
      BY <1>4, <3>1, <3>2, <3>3
  <2>3. \A x \in rows : Orphan(x) \notin candidates'
                        /\ Orphan(x) \notin matured
    <3> TAKE x \in rows
    <3>1. \A y \in Rows : y = Orphan(x) => y = x
      BY <1>1, <1>6
    <3>2. x \notin candidates' /\ x \notin matured
      BY <1>2, <1>3 DEF RowsInv, ExactlyOnePlace
    <3> QED
      BY <1>2, <3>1, <3>2 DEF Rows
  <2>4. (/\ candidates \cap immature = {}
         /\ candidates \cap matured = {}
         /\ immature \cap matured = {})'
    BY <1>2, <2>3 DEF RowsInv, ExactlyOnePlace
  <2> QED
    BY <2>1, <2>2, <2>4 DEF ExactlyOnePlace
<1>8. SharesFollowRow'
  <2>1. ASSUME NEW x \in candidates \cup immature
        PROVE  \E y \in candidates' \cup immature' : RoundKey(x) = RoundKey(y)
    BY <1>1, <1>2
  <2>2. ASSUME NEW y \in candidates' \cup immature'
        PROVE  \E x \in candidates \cup immature : RoundKey(x) = RoundKey(y)
    BY <1>1, <1>2, <1>3
  <2>3. {RoundKey(x) : x \in candidates \cup immature} =
            {RoundKey(y) : y \in candidates' \cup immature'}
    BY <2>1, <2>2, SameKeys
  <2> QED
    BY <1>2, <2>3 DEF RowsInv, SharesFollowRow
<1>9. ImmatureIsLogged'
  <2>1. {b \in immature' : ~b.orphan} = {b \in immature : ~b.orphan}
    BY <1>1, <1>2
  <2> QED
    BY <1>2, <2>1 DEF RowsInv, ImmatureIsLogged
<1>10. candidates' \subseteq Row /\ immature' \subseteq Row
       /\ matured' \subseteq Row
  BY <1>1, <1>2 DEF RowsInv
<1> QED
  BY <1>2, <1>7, <1>8, <1>9, <1>10 DEF RowsInv

LEMMA FindKeeps ==
  ASSUME RowsInv, head \in Heights,
         NEW r \in Rounds, NEW wins \in BOOLEAN, NEW drift \in Drift,
         Find(r, wins, drift)
  PROVE  RowsInv' /\ head' \in Heights /\ head' >= head
<1> DEFINE real == head + 1
           row == [round |-> r, height |-> real + drift, hash |-> FALSE,
                   uncle |-> FALSE, orphan |-> FALSE]
           key == [round |-> r, height |-> real + drift]
           where == [kind |-> IF wins THEN "block" ELSE "none",
                     real |-> real, at |-> real]
<1>1. real \in Heights /\ real + drift \in Heights
  BY BoundsAssumption DEF Find
<1>2. row \in Row /\ key \in [round : Rounds, height : Heights]
      /\ RoundKey(row) = key /\ row.round = r
  BY <1>1
<1>3. /\ place' = [place EXCEPT ![r] = where]
      /\ head' = IF wins THEN real ELSE head
      /\ candidates' = candidates \cup {row}
      /\ roundKeys' = roundKeys \cup {key}
      /\ UNCHANGED <<immature, matured, credits, immatureTotal, balanceTotal>>
  BY DEF Find
<1>4. where \in [kind : {"unknown", "none", "block", "uncle"},
                 real : Heights, at : Heights]
      /\ where # NotFound
  BY <1>1 DEF NotFound
<1> HIDE DEF row, key, where, real
<1>5. \A x \in Rows : x.round # r
  BY DEF Find, RowsInv, ExactlyOnePlace
<1>6. Rows' = Rows \cup {row}
  BY <1>3 DEF Rows
<1>7. ExactlyOnePlace'
  <2>1. \A q \in Rounds : (place[q] # NotFound)' <=>
                            \E x \in Rows' : x.round = q
    <3> TAKE q \in Rounds
    <3>1. CASE q = r
      BY <1>2, <1>3, <1>4, <1>6, <3>1 DEF RowsInv, NotFound
    <3>2. CASE q # r
      BY <1>2, <1>3, <1>6, <3>2 DEF RowsInv, ExactlyOnePlace, NotFound
    <3> QED
      BY <3>1, <3>2
  <2>2. \A x, y \in Rows' : x.round = y.round => x = y
    BY <1>2, <1>5, <1>6 DEF RowsInv, ExactlyOnePlace
  <2>3. row \notin Rows
    BY <1>2, <1>5
  <2>4. (/\ candidates \cap immature = {}
         /\ candidates \cap matured = {}
         /\ immature \cap matured = {})'
    BY <1>3, <2>3 DEF RowsInv, ExactlyOnePlace, Rows
  <2> QED
    BY <2>1, <2>2, <2>4 DEF ExactlyOnePlace
<1>8. SharesFollowRow'
  <2>1. roundKeys' = {RoundKey(x) : x \in candidates' \cup immature'}
    BY <1>2, <1>3 DEF RowsInv, SharesFollowRow
  <2> QED
    BY <2>1 DEF SharesFollowRow
<1>9. ImmatureIsLogged'
  BY <1>3 DEF RowsInv, ImmatureIsLogged
<1>10. place' \in [Rounds -> [kind : {"unknown", "none", "block", "uncle"},
                              real : Heights, at : Heights]]
  BY <1>3, <1>4 DEF RowsInv
<1>11. head' \in Heights /\ head' >= head
  BY <1>1, <1>3 DEF real
<1> QED
  BY <1>2, <1>3, <1>7, <1>8, <1>9, <1>10, <1>11 DEF RowsInv

-----------------------------------------------------------------------------
(* The steps.                                                                *)

LEMMA NoBlockType == NoBlock \in Loaded
<1>1. (CHOOSE r \in Rounds : TRUE) \in Rounds
  BY BoundsAssumption
<1>2. 0 \in Heights
  BY BoundsAssumption
<1> QED
  BY <1>1, <1>2 DEF NoBlock

LEMMA RowsUnchanged == RowsInv /\ UNCHANGED <<place, redis>> => RowsInv'
BY DEF RowsInv, ExactlyOnePlace, Rows, SharesFollowRow, ImmatureIsLogged

LEMMA InitInv == Init => Inv
<1> SUFFICES ASSUME Init PROVE Inv
  OBVIOUS
<1>1. 0 \in Heights
  BY BoundsAssumption
<1>2. RowsInv
  <2>1. ExactlyOnePlace /\ SharesFollowRow /\ ImmatureIsLogged
    BY DEF Init, ExactlyOnePlace, Rows, SharesFollowRow, ImmatureIsLogged
  <2> QED
    BY <1>1, <2>1 DEF Init, RowsInv, NotFound
<1>3. ProcessInv
  <2>1. 0 \in -MinDepth .. MinDepth /\ 0 \in 0 .. MaxFaults
    BY DepthAssumption, BoundsAssumption
  <2>2. SearchType
    BY <2>1, NoBlockType DEF Init, SearchType
  <2>3. SearchInv /\ PhaseInv /\ DepthInv
    BY DEF Init, SearchInv, PhaseInv, DepthInv
  <2> QED
    BY <2>2, <2>3 DEF ProcessInv
<1> QED
  BY <1>1, <1>2, <1>3 DEF Init, Inv

LEMMA StutterKeepsInv == Inv /\ UNCHANGED vars => Inv'
<1> SUFFICES ASSUME Inv, UNCHANGED vars PROVE Inv'
  OBVIOUS
<1>1. RowsInv'
  BY RowsUnchanged DEF vars, Inv
<1> QED
  BY <1>1 DEF vars, Inv, ProcessInv, SearchType, SearchInv, PhaseInv, DepthInv,
       Source

\* The node's steps: the rows do not change, and the head only rises.
LEMMA NodeKeepsInv ==
  ASSUME Inv, head' \in Heights, head' >= head,
         place' \in [Rounds -> [kind : {"unknown", "none", "block", "uncle"},
                                real : Heights, at : Heights]],
         \A r \in Rounds : place[r] = NotFound <=> place'[r] = NotFound,
         UNCHANGED <<redis, pc, stage, halt, lastFail, search, faults, misread>>
  PROVE  Inv'
<1>1. RowsInv'
  BY DEF Inv, RowsInv, ExactlyOnePlace, Rows, SharesFollowRow,
       ImmatureIsLogged, NotFound
<1>2. ProcessInv'
  BY DepthAssumption
     DEF Inv, ProcessInv, SearchType, SearchInv, PhaseInv, DepthInv, Source
<1> QED
  BY <1>1, <1>2 DEF Inv

LEMMA NewBlockKeepsInv ==
  ASSUME Inv, NewBlock
  PROVE  Inv'
<1>1. head' \in Heights /\ head' >= head /\ head + 1 \in Heights
  BY BoundsAssumption DEF NewBlock, Inv
<1>2. CASE UNCHANGED place
  BY <1>1, <1>2, NodeKeepsInv DEF NewBlock, Inv, RowsInv
<1>3. ASSUME NEW r \in Rounds, place[r].kind = "none",
             place' = [place EXCEPT ![r].kind = "uncle", ![r].at = head + 1]
      PROVE  Inv'
  <2>1. place'[r] = [kind |-> "uncle", real |-> place[r].real, at |-> head + 1]
    BY <1>3 DEF Inv, RowsInv
  <2>2. \A q \in Rounds \ {r} : place'[q] = place[q]
    BY <1>3 DEF Inv, RowsInv
  <2>3. place' \in [Rounds -> [kind : {"unknown", "none", "block", "uncle"},
                               real : Heights, at : Heights]]
    BY <1>1, <1>3 DEF Inv, RowsInv
  <2>4. \A q \in Rounds : place[q] = NotFound <=> place'[q] = NotFound
    <3>1. place[r] # NotFound
      BY <1>3 DEF NotFound
    <3>2. place'[r] # NotFound
      BY <2>1 DEF NotFound
    <3> QED
      BY <2>2, <3>1, <3>2
  <2> QED
    BY <1>1, <2>3, <2>4, NodeKeepsInv DEF NewBlock
<1> QED
  BY <1>2, <1>3 DEF NewBlock

LEMMA ReorgKeepsInv ==
  ASSUME Inv, NEW r \in Rounds, Reorg(r)
  PROVE  Inv'
<1>1. PICK kind \in {"none", "block", "uncle"} :
        /\ kind = "uncle" => place[r].real < head
        /\ place' = [place EXCEPT ![r].kind = kind, ![r].at =
                        IF kind = "uncle" THEN place[r].real + 1
                        ELSE place[r].real]
  BY DEF Reorg
<1>2. place[r].real \in Heights /\ place[r] # NotFound
  BY DEF Reorg, Inv, RowsInv
<1>3. (IF kind = "uncle" THEN place[r].real + 1 ELSE place[r].real) \in Heights
  BY <1>1, <1>2, BoundsAssumption DEF Inv
<1>4. place' \in [Rounds -> [kind : {"unknown", "none", "block", "uncle"},
                             real : Heights, at : Heights]]
  BY <1>1, <1>3 DEF Inv, RowsInv
<1>5. \A q \in Rounds : place[q] = NotFound <=> place'[q] = NotFound
  <2>1. place'[r].kind = kind
    BY <1>1 DEF Inv, RowsInv
  <2>2. place'[r] # NotFound
    BY <2>1 DEF NotFound
  <2>3. \A q \in Rounds \ {r} : place'[q] = place[q]
    BY <1>1 DEF Inv, RowsInv
  <2> QED
    BY <1>2, <2>2, <2>3
<1> QED
  BY <1>4, <1>5, NodeKeepsInv DEF Reorg, Inv

LEMMA FindKeepsInv ==
  ASSUME Inv, NEW r \in Rounds, NEW wins \in BOOLEAN, NEW drift \in Drift,
         Find(r, wins, drift)
  PROVE  Inv'
<1>1. RowsInv' /\ head' \in Heights /\ head' >= head
  BY FindKeeps DEF Inv
<1>2. /\ candidates \subseteq candidates' /\ immature' = immature
      /\ UNCHANGED <<pc, stage, halt, lastFail, search, faults, misread>>
  BY DEF Find
<1>3. ProcessInv'
  <2>1. SearchType' /\ PhaseInv'
    BY <1>2 DEF Inv, ProcessInv, SearchType, PhaseInv
  <2>2. SearchInv'
    BY <1>2 DEF Inv, ProcessInv, SearchInv, Source
  <2>3. DepthInv'
    BY <1>1, <1>2, DepthAssumption
       DEF Inv, ProcessInv, DepthInv, SearchType
  <2> QED
    BY <2>1, <2>2, <2>3 DEF ProcessInv
<1> QED
  BY <1>1, <1>3 DEF Inv

-----------------------------------------------------------------------------
(* The process: the steps that write nothing.                                *)

\* A suspended or dead process holds no rows.
LEMMA ForgetKeeps ==
  ASSUME ProcessInv, Forget, pc' \in {"idle", "down"},
         stage' \in {"pending", "immature"}, halt' \in BOOLEAN,
         lastFail' \in {"none", "call"}, faults' \in 0 .. MaxFaults,
         misread' \in BOOLEAN
  PROVE  ProcessInv'
<1>1. 0 \in -MinDepth .. MinDepth
  BY DepthAssumption
<1>2. SearchType'
  BY <1>1, NoBlockType DEF Forget, SearchType
<1> QED
  BY <1>2 DEF Forget, ProcessInv, SearchInv, PhaseInv, DepthInv

LEMMA CountType ==
  ASSUME Inv, NEW o \in Outcomes, faults' = IF o.ok THEN faults ELSE faults + 1
  PROVE  faults' \in 0 .. MaxFaults
BY BoundsAssumption DEF Inv, ProcessInv, SearchType

LEMMA HaltKeeps ==
  ASSUME Inv, Halt("call"), faults' \in 0 .. MaxFaults, misread' \in BOOLEAN
  PROVE  ProcessInv'
BY ForgetKeeps DEF Halt, Inv, ProcessInv, SearchType

\* A process that goes on with the same rows.
LEMMA StartKeepsInv ==
  ASSUME Inv, Start \/ Tick
  PROVE  Inv'
<1>1. RowsInv'
  BY RowsUnchanged DEF Start, Tick, Inv
<1>2. ProcessInv'
  BY DEF Start, Tick, Inv, ProcessInv, SearchType, SearchInv, PhaseInv,
         DepthInv, Source
<1> QED
  BY <1>1, <1>2 DEF Start, Tick, Inv

LEMMA DieKeepsInv ==
  ASSUME Inv, Restart \/ Crash
  PROVE  Inv'
<1>1. RowsInv'
  BY RowsUnchanged DEF Restart, Crash, Die, Inv
<1>2. faults' \in 0 .. MaxFaults
  BY BoundsAssumption DEF Restart, Crash, Inv, ProcessInv, SearchType
<1>3. ProcessInv'
  BY <1>2, ForgetKeeps DEF Restart, Crash, Die, Inv, ProcessInv, SearchType
<1> QED
  BY <1>1, <1>3 DEF Restart, Crash, Die, Inv

\* A finished stage: the next one begins with no rows.
LEMMA NextStageKeeps ==
  ASSUME ProcessInv, NextStage, queue' = {}, found' = {}, orphans' = {},
         cand' \in Loaded, offset' \in -MinDepth .. MinDepth,
         faults' \in 0 .. MaxFaults,
         UNCHANGED <<halt, lastFail, misread>>
  PROVE  ProcessInv'
<1>1. SearchType'
  BY DEF NextStage, ProcessInv, SearchType
<1>2. pc' \in {"tip", "idle"}
  BY DEF NextStage
<1> QED
  BY <1>1, <1>2 DEF ProcessInv, SearchInv, PhaseInv, DepthInv

LEMMA TipKeepsInv ==
  ASSUME Inv, Tip
  PROVE  Inv'
<1>1. RowsInv' /\ UNCHANGED <<head, candidates, immature, misread>>
  BY RowsUnchanged DEF Tip, Inv
<1>2. PICK o \in Outcomes :
        /\ faults' = IF o.ok THEN faults ELSE faults + 1
        /\ IF o.ok
           THEN /\ queue' = IF stage = "pending" THEN GetCandidates
                            ELSE GetImmatureBlocks
                /\ IF queue' = {} THEN NextStage
                   ELSE pc' = "take" /\ UNCHANGED stage
                /\ UNCHANGED <<halt, lastFail, cand, offset, found, orphans>>
           ELSE Halt("call")
  BY DEF Tip, Count
<1>3. faults' \in 0 .. MaxFaults
  BY <1>2, CountType
<1>4. pc = "tip" /\ found = {} /\ orphans = {}
  BY DEF Tip, Inv, ProcessInv, PhaseInv
<1>5. CASE ~o.ok
  BY <1>1, <1>2, <1>3, <1>5, HaltKeeps DEF Inv, ProcessInv, SearchType
<1>6. CASE o.ok
  <2>1. queue' \subseteq Source /\ \A row \in queue' : row.height + MinDepth <= head
    <3>1. CASE stage = "pending"
      BY <1>2, <1>6, <3>1, DepthAssumption
         DEF GetCandidates, Source, Inv, RowsInv
    <3>2. CASE stage # "pending"
      BY <1>2, <1>6, <3>2, DepthAssumption
         DEF GetImmatureBlocks, Source, Inv, RowsInv
    <3> QED
      BY <3>1, <3>2
  <2>2. CASE queue' = {}
    BY <1>1, <1>2, <1>3, <1>4, <1>6, <2>2, NextStageKeeps
       DEF Inv, ProcessInv, SearchType
  <2>3. CASE queue' # {}
    <3>1. pc' = "take" /\ UNCHANGED <<stage, halt, lastFail, cand, offset, found, orphans>>
      BY <1>2, <1>6, <2>3
    <3>2. queue' \subseteq Source'
      BY <1>1, <2>1, <3>1 DEF Source
    <3>3. SearchType'
      BY <1>1, <1>3, <3>1, <3>2 DEF Inv, ProcessInv, SearchType, RowsInv, Source
    <3> QED
      BY <1>1, <1>4, <2>1, <3>1, <3>2, <3>3
         DEF Inv, ProcessInv, SearchInv, PhaseInv, DepthInv
  <2> QED
    BY <2>2, <2>3, <1>1 DEF Inv
<1> QED
  BY <1>5, <1>6

LEMMA TakeKeepsInv ==
  ASSUME Inv, Take
  PROVE  Inv'
<1>1. RowsInv' /\ UNCHANGED <<node, redis, stage, halt, lastFail, found, orphans,
                              faults, misread>>
  BY RowsUnchanged DEF Take, Inv
<1>2. pc = "take"
  BY DEF Take
<1>3. CASE queue = {}
  BY <1>1, <1>2, <1>3
     DEF Take, Inv, ProcessInv, SearchType, SearchInv, PhaseInv, DepthInv, Source
<1>4. CASE queue # {}
  <2>1. PICK row \in queue :
          /\ queue' = queue \ {row}
          /\ cand' = [row |-> row, height |-> row.height, uncle |-> row.uncle]
          /\ offset' = -MinDepth
          /\ pc' = "scan"
    BY <1>4 DEF Take
  <2>2. row \in Row /\ row \in Source /\ row.height + MinDepth <= head
    BY DEF Inv, ProcessInv, SearchType, SearchInv, DepthInv
  <2>3. cand'.row = row /\ cand' \in Loaded
    BY <2>1, <2>2
  <2>4. SearchType'
    BY <1>1, <2>1, <2>3, DepthAssumption DEF Inv, ProcessInv, SearchType
  <2>5. SearchInv'
    BY <1>1, <2>1, <2>2, <2>3 DEF Inv, ProcessInv, SearchInv, Source
  <2>6. PhaseInv' /\ DepthInv'
    BY <1>1, <2>1, <2>2, <2>3, DepthAssumption
       DEF Inv, ProcessInv, PhaseInv, DepthInv
  <2> QED
    BY <1>1, <2>4, <2>5, <2>6 DEF Inv, ProcessInv
<1> QED
  BY <1>3, <1>4

\* The loop takes its next turn, at a height below the candidate's + MinDepth.
LEMMA NextTurn ==
  ASSUME Inv, pc = "scan", offset < LastOffset, offset' = offset + 1,
         faults' \in 0 .. MaxFaults,
         UNCHANGED <<node, redis, pc, stage, halt, lastFail, queue, cand, found,
                     orphans, misread>>
  PROVE  Inv'
<1>1. RowsInv'
  BY RowsUnchanged DEF Inv
<1>2. offset' \in -MinDepth .. MinDepth /\ offset' < MinDepth
  BY DepthAssumption DEF LastOffset, Inv, ProcessInv, SearchType
<1>3. ProcessInv'
  BY <1>2
     DEF Inv, ProcessInv, SearchType, SearchInv, PhaseInv, DepthInv, Source
<1> QED
  BY <1>1, <1>3 DEF Inv

LEMMA FoundType ==
  ASSUME Inv, NEW h \in Heights
  PROVE  /\ HandleBlock(h) \in Found /\ HandleUncle(h) \in Found
         /\ HandleBlock(h).row = cand.row /\ HandleUncle(h).row = cand.row
BY DEF HandleBlock, HandleUncle, Found, Inv, ProcessInv, SearchType

\* The height that this turn of the loop asks for.
ScanHeight == cand.row.height + offset

\* What one turn of the loop can do.
LEMMA ScanTurn ==
  ASSUME Inv, Scan
  PROVE  \E o \in Outcomes :
           LET h == ScanHeight
               r == cand.row.round
           IN
           \/ /\ h < 0
              /\ offset' = offset + 1
              /\ UNCHANGED <<pc, stage, halt, lastFail, queue, cand, found,
                             orphans, faults>>
           \/ /\ h >= 0 /\ Count(o) /\ ~o.ok /\ Halt("call")
           \/ /\ h > head /\ Halt("height")
           \/ /\ 0 <= h /\ h <= head /\ Count(o)
              /\ UNCHANGED <<stage, halt, lastFail, queue, cand>>
              /\ IsBlock(r, h) \/ IsUncle(r, h)
              /\ found' = found \cup {IF IsBlock(r, h) THEN HandleBlock(h)
                                      ELSE HandleUncle(h)}
              /\ pc' = "take"
              /\ UNCHANGED <<offset, orphans>>
           \/ /\ 0 <= h /\ h <= head /\ Count(o)
              /\ UNCHANGED <<stage, halt, lastFail, queue, cand, found>>
              /\ ~IsBlock(r, h) /\ ~IsUncle(r, h)
              /\ offset' = offset + 1
              /\ IF offset = LastOffset
                 THEN orphans' = orphans \cup {cand.row} /\ pc' = "take"
                 ELSE UNCHANGED <<orphans, pc>>
<1>1. ScanHeight \in Int /\ head \in Int
  BY DepthAssumption, BoundsAssumption
     DEF ScanHeight, Inv, ProcessInv, SearchType
<1> QED
  BY <1>1 DEF Scan, ScanHeight

LEMMA ScanKeepsInv ==
  ASSUME Inv, Scan
  PROVE  Inv'
<1> DEFINE h == ScanHeight
           r == cand.row.round
<1>1. RowsInv' /\ UNCHANGED <<node, redis, misread>> /\ pc = "scan"
  BY RowsUnchanged DEF Scan, Inv
<1>2. PICK o \in Outcomes :
        \/ /\ h < 0
           /\ offset' = offset + 1
           /\ UNCHANGED <<pc, stage, halt, lastFail, queue, cand, found,
                          orphans, faults>>
        \/ /\ h >= 0 /\ Count(o) /\ ~o.ok /\ Halt("call")
        \/ /\ h > head /\ Halt("height")
        \/ /\ 0 <= h /\ h <= head /\ Count(o)
           /\ UNCHANGED <<stage, halt, lastFail, queue, cand>>
           /\ found' = found \cup {IF IsBlock(r, h) THEN HandleBlock(h)
                                   ELSE HandleUncle(h)}
           /\ pc' = "take"
           /\ UNCHANGED <<offset, orphans>>
        \/ /\ 0 <= h /\ h <= head /\ Count(o)
           /\ UNCHANGED <<stage, halt, lastFail, queue, cand, found>>
           /\ offset' = offset + 1
           /\ IF offset = LastOffset
              THEN orphans' = orphans \cup {cand.row} /\ pc' = "take"
              ELSE UNCHANGED <<orphans, pc>>
  BY ScanTurn
<1>3. /\ cand.row \in Row /\ cand.row \in Source
      /\ cand.row \notin queue /\ cand.row \notin orphans
      /\ \A f \in found : f.row # cand.row
      /\ cand.row.height + MinDepth <= head
      /\ offset \in -MinDepth .. MinDepth - 1
      /\ cand.row.height \in Heights /\ head \in Heights
  BY <1>1, DepthAssumption DEF Inv, ProcessInv, SearchType, SearchInv, DepthInv
<1>4. h \in Int /\ h < head
  BY <1>3, DepthAssumption, BoundsAssumption DEF ScanHeight
<1> HIDE DEF h, r
<1>5. CASE /\ h < 0
           /\ offset' = offset + 1
           /\ UNCHANGED <<pc, stage, halt, lastFail, queue, cand, found,
                          orphans, faults>>
  <2>1. offset < LastOffset
    BY <1>3, <1>5, DepthAssumption DEF h, ScanHeight, LastOffset
  <2> QED
    BY <1>1, <1>5, <2>1, NextTurn DEF Inv, ProcessInv, SearchType
<1>6. CASE Count(o) /\ Halt("call")
  <2>1. faults' \in 0 .. MaxFaults
    BY <1>6, CountType DEF Count
  <2> QED
    BY <1>1, <1>6, <2>1, HaltKeeps DEF Inv, ProcessInv, SearchType
<1>7. CASE /\ 0 <= h /\ Count(o)
           /\ UNCHANGED <<stage, halt, lastFail, queue, cand>>
           /\ found' = found \cup {IF IsBlock(r, h) THEN HandleBlock(h)
                                   ELSE HandleUncle(h)}
           /\ pc' = "take"
           /\ UNCHANGED <<offset, orphans>>
  <2>1. faults' \in 0 .. MaxFaults
    BY <1>7, CountType DEF Count
  <2>2. h \in Heights
    BY <1>3, <1>4, <1>7, BoundsAssumption
  <2>3. PICK f \in Found : f.row = cand.row /\ found' = found \cup {f}
    BY <1>7, <2>2, FoundType
  <2>4. SearchType'
    BY <1>1, <1>7, <2>1, <2>3 DEF Inv, ProcessInv, SearchType
  <2>5. SearchInv'
    BY <1>1, <1>3, <1>7, <2>3 DEF Inv, ProcessInv, SearchInv, Source
  <2>6. PhaseInv' /\ DepthInv'
    BY <1>1, <1>7 DEF Inv, ProcessInv, PhaseInv, DepthInv
  <2> QED
    BY <1>1, <2>4, <2>5, <2>6 DEF Inv, ProcessInv
<1>8. CASE /\ 0 <= h /\ Count(o)
           /\ UNCHANGED <<stage, halt, lastFail, queue, cand, found>>
           /\ offset' = offset + 1
           /\ IF offset = LastOffset
              THEN orphans' = orphans \cup {cand.row} /\ pc' = "take"
              ELSE UNCHANGED <<orphans, pc>>
  <2>1. faults' \in 0 .. MaxFaults
    BY <1>8, CountType DEF Count
  <2>2. CASE offset # LastOffset
    <3>1. offset < LastOffset
      BY <1>3, <2>2, DepthAssumption DEF LastOffset
    <3> QED
      BY <1>1, <1>8, <2>1, <2>2, <3>1, NextTurn
  <2>3. CASE offset = LastOffset
    <3>1. offset' \in -MinDepth .. MinDepth
      BY <1>3, <1>8, DepthAssumption
    <3>2. SearchType'
      BY <1>1, <1>3, <1>8, <2>1, <2>3, <3>1 DEF Inv, ProcessInv, SearchType
    <3>3. SearchInv'
      BY <1>1, <1>3, <1>8, <2>3 DEF Inv, ProcessInv, SearchInv, Source
    <3>4. PhaseInv' /\ DepthInv'
      BY <1>1, <1>8, <2>3 DEF Inv, ProcessInv, PhaseInv, DepthInv
    <3> QED
      BY <1>1, <3>2, <3>3, <3>4 DEF Inv, ProcessInv
  <2> QED
    BY <2>2, <2>3
<1>9. ~(h > head)
  BY <1>3, <1>4, BoundsAssumption
<1> QED
  BY <1>2, <1>5, <1>6, <1>7, <1>8, <1>9

-----------------------------------------------------------------------------
(* The steps that write to Redis.                                            *)

LEMMA WriteCandidateOrphansKeepsInv ==
  ASSUME Inv, WriteCandidateOrphans
  PROVE  Inv'
<1>1. PICK o \in Outcomes :
        /\ faults' = IF o.ok THEN faults ELSE faults + 1
        /\ IF o.done THEN WritePendingOrphans(orphans) ELSE UNCHANGED redis
        /\ IF o.ok
           THEN /\ pc' = "write"
                /\ orphans' = {}
                /\ UNCHANGED <<stage, halt, lastFail, queue, cand, offset,
                               found>>
           ELSE Halt("call")
  BY DEF WriteCandidateOrphans, Count
<1>2. /\ pc = "orphans" /\ stage = "pending"
      /\ UNCHANGED <<head, place, misread>>
  BY DEF WriteCandidateOrphans
<1>3. orphans \in SUBSET candidates /\ Source = candidates
  BY <1>2 DEF Inv, ProcessInv, SearchInv, Source
<1>4. faults' \in 0 .. MaxFaults
  BY <1>1, CountType
<1>5. RowsInv'
  BY <1>1, <1>2, <1>3, RowsUnchanged, WritePendingOrphansKeeps DEF Inv
<1>6. CASE ~o.ok
  BY <1>1, <1>2, <1>4, <1>5, <1>6, HaltKeeps DEF Inv, ProcessInv, SearchType
<1>7. CASE o.ok
  <2>1. candidates' = candidates \ orphans
    BY <1>1, <1>7 DEF WritePendingOrphans
  <2>2. SearchType' /\ PhaseInv' /\ DepthInv'
    BY <1>1, <1>2, <1>4, <1>7
       DEF Inv, ProcessInv, SearchType, PhaseInv, DepthInv
  <2>3. SearchInv'
    BY <1>1, <1>2, <1>3, <1>7, <2>1 DEF Inv, ProcessInv, SearchInv, Source
  <2> QED
    BY <1>2, <1>5, <2>2, <2>3 DEF Inv, ProcessInv
<1> QED
  BY <1>6, <1>7

LEMMA WriteImmatureOrphansKeepsInv ==
  ASSUME Inv, WriteImmatureOrphans
  PROVE  Inv'
<1>1. /\ pc = "orphans" /\ stage = "immature"
      /\ UNCHANGED <<head, place>>
  BY DEF WriteImmatureOrphans
<1>2. Source = immature /\ orphans \subseteq immature /\ queue = {}
  BY <1>1 DEF Inv, ProcessInv, SearchInv, PhaseInv, Source
<1>3. CASE orphans = {}
  <2>1. /\ pc' = "write"
        /\ UNCHANGED <<redis, stage, halt, lastFail, search, faults, misread>>
    BY <1>3 DEF WriteImmatureOrphans
  <2>2. RowsInv'
    BY <1>1, <2>1, RowsUnchanged DEF Inv
  <2>3. ProcessInv'
    BY <1>1, <1>2, <1>3, <2>1
       DEF Inv, ProcessInv, SearchType, SearchInv, PhaseInv, DepthInv, Source
  <2> QED
    BY <1>1, <2>2, <2>3 DEF Inv
<1>4. CASE orphans # {}
  <2>1. PICK row \in orphans, o \in Outcomes, readable \in BOOLEAN :
          /\ readable \/ (o.done /\ faults < MaxFaults)
          /\ misread' = (misread \/ ~readable)
          /\ faults' = IF o.ok /\ readable THEN faults ELSE faults + 1
          /\ IF o.done THEN WriteOrphan(row, readable) ELSE UNCHANGED redis
          /\ IF o.ok
             THEN /\ orphans' = orphans \ {row}
                  /\ UNCHANGED <<pc, stage, halt, lastFail, queue, cand,
                                 offset, found>>
             ELSE Halt("call")
    BY <1>4 DEF WriteImmatureOrphans
  <2>2. misread' \in BOOLEAN
    BY <2>1 DEF Inv, ProcessInv, SearchType
  <2>3. faults' \in 0 .. MaxFaults
    BY <2>1, BoundsAssumption DEF Inv, ProcessInv, SearchType
  <2>4. RowsInv'
    BY <1>1, <1>2, <2>1, RowsUnchanged, WriteOrphanKeeps DEF Inv
  <2>5. CASE ~o.ok
    BY <1>1, <2>1, <2>2, <2>3, <2>4, <2>5, HaltKeeps DEF Inv
  <2>6. CASE o.ok
    <3>1. immature' = immature \ {row}
      BY <2>1, <2>6 DEF WriteOrphan
    <3>2. SearchType' /\ PhaseInv' /\ DepthInv'
      BY <1>1, <2>1, <2>2, <2>3, <2>6
         DEF Inv, ProcessInv, SearchType, PhaseInv, DepthInv
    <3>3. SearchInv'
      BY <1>1, <1>2, <2>1, <2>6, <3>1 DEF Inv, ProcessInv, SearchInv, Source
    <3> QED
      BY <1>1, <2>4, <3>2, <3>3 DEF Inv, ProcessInv
  <2> QED
    BY <2>5, <2>6
<1> QED
  BY <1>3, <1>4

LEMMA WriteFoundKeepsInv ==
  ASSUME Inv, WriteFound
  PROVE  Inv'
<1>1. pc = "write" /\ UNCHANGED <<head, place>>
  BY DEF WriteFound
<1>2. queue = {} /\ orphans = {}
  BY <1>1 DEF Inv, ProcessInv, PhaseInv
<1>3. CASE found = {}
  <2>1. /\ NextStage
        /\ UNCHANGED <<redis, halt, lastFail, search, faults, misread>>
    BY <1>3 DEF WriteFound
  <2>2. RowsInv'
    BY <1>1, <2>1, RowsUnchanged DEF Inv
  <2>3. ProcessInv'
    BY <1>2, <1>3, <2>1, NextStageKeeps DEF Inv, ProcessInv, SearchType
  <2> QED
    BY <1>1, <2>2, <2>3 DEF Inv
<1>4. CASE found # {}
  <2>1. PICK f \in found, o \in Outcomes, readable \in BOOLEAN :
          /\ readable \/ (o.done /\ stage = "immature" /\ faults < MaxFaults)
          /\ misread' = (misread \/ ~readable)
          /\ faults' = IF o.ok /\ readable THEN faults ELSE faults + 1
          /\ \/ ~o.done /\ UNCHANGED redis
             \/ o.done /\ stage = "pending" /\ WriteImmatureBlock(f)
             \/ o.done /\ stage = "immature" /\
                  WriteMaturedBlock(f, readable)
          /\ IF o.ok
             THEN /\ found' = found \ {f}
                  /\ UNCHANGED <<pc, stage, halt, lastFail, queue, cand,
                                 offset, orphans>>
             ELSE Halt("call")
    BY <1>4 DEF WriteFound
  <2>2. misread' \in BOOLEAN
    BY <2>1 DEF Inv, ProcessInv, SearchType
  <2>3. faults' \in 0 .. MaxFaults
    BY <2>1, BoundsAssumption DEF Inv, ProcessInv, SearchType
  <2>4. f \in Found /\ f.row \in Source
    BY DEF Inv, ProcessInv, SearchType, SearchInv
  <2>5. RowsInv'
    <3>1. CASE UNCHANGED redis
      BY <1>1, <3>1, RowsUnchanged DEF Inv
    <3>2. CASE stage = "pending" /\ WriteImmatureBlock(f)
      BY <1>1, <2>4, <3>2, WriteImmatureBlockKeeps DEF Inv, Source
    <3>3. CASE stage = "immature" /\ WriteMaturedBlock(f, readable)
      BY <1>1, <2>4, <3>3, WriteMaturedBlockKeeps DEF Inv, Source
    <3> QED
      BY <2>1, <3>1, <3>2, <3>3
  <2>6. CASE ~o.ok
    BY <1>1, <2>1, <2>2, <2>3, <2>5, <2>6, HaltKeeps DEF Inv
  <2>7. CASE o.ok
    <3>1. Source' = Source \ {f.row}
      BY <2>1, <2>7 DEF Source, WriteImmatureBlock, WriteMaturedBlock
    <3>2. SearchType' /\ PhaseInv' /\ DepthInv'
      BY <1>1, <2>1, <2>2, <2>3, <2>7
         DEF Inv, ProcessInv, SearchType, PhaseInv, DepthInv
    <3>3. SearchInv'
      BY <1>1, <1>2, <2>1, <2>7, <3>1 DEF Inv, ProcessInv, SearchInv
    <3> QED
      BY <1>1, <2>5, <3>2, <3>3 DEF Inv, ProcessInv
  <2> QED
    BY <2>6, <2>7
<1> QED
  BY <1>3, <1>4

-----------------------------------------------------------------------------
(* The invariants.                                                           *)

LEMMA NextKeepsInv ==
  ASSUME Inv, [Next]_vars
  PROVE  Inv'
<1>1. CASE UNCHANGED vars
  BY <1>1, StutterKeepsInv
<1>2. CASE Processor
  BY <1>2, StartKeepsInv, TipKeepsInv, TakeKeepsInv, ScanKeepsInv,
     WriteCandidateOrphansKeepsInv, WriteImmatureOrphansKeepsInv,
     WriteFoundKeepsInv DEF Processor
<1>3. CASE Restart \/ Crash
  BY <1>3, DieKeepsInv
<1>4. CASE \E r \in Rounds, wins \in BOOLEAN, drift \in Drift :
              Find(r, wins, drift)
  BY <1>4, FindKeepsInv
<1>5. CASE NewBlock
  BY <1>5, NewBlockKeepsInv
<1>6. CASE \E r \in Rounds : Reorg(r)
  BY <1>6, ReorgKeepsInv
<1> QED
  BY <1>1, <1>2, <1>3, <1>4, <1>5, <1>6 DEF Next

LEMMA InvHolds == Spec => []Inv
<1>1. Init => Inv
  BY InitInv
<1>2. Inv /\ [Next]_vars => Inv'
  BY NextKeepsInv
<1> QED
  BY <1>1, <1>2, PTL DEF Spec

\* Every variable keeps its type, and no search runs above the head of the
\* chain, for any depths that NewBlockUnlocker accepts.
THEOREM TypeCorrect == Spec => []TypeOK
BY InvHolds, InvImplies, PTL

\* No round is lost and none is unlocked twice, whatever the chain does and
\* whichever calls fail.
THEOREM EveryRoundInOnePlace == Spec => []ExactlyOnePlace
BY InvHolds, InvImplies, PTL

\* The shares of a round stay under the key of its row.
THEOREM SharesStayWithRow == Spec => []SharesFollowRow
BY InvHolds, InvImplies, PTL

\* The credit logs are those of the immature blocks.
THEOREM CreditsStayWithRow == Spec => []ImmatureIsLogged
BY InvHolds, InvImplies, PTL

-----------------------------------------------------------------------------
(* Refinement.                                                               *)

status == [r \in Rounds |->
            CASE r \in Of(candidates) -> "candidate"
              [] r \in Of(immature) -> "immature"
              [] r \in Of(matured) -> "settled"
              [] OTHER -> "none"]

expected == [r \in Rounds |-> AmountIn(LogOf(r))]

\* A round with a row is of one kind.
LEMMA OneKind ==
  ASSUME RowsInv
  PROVE  /\ Of(candidates) \cap Of(immature) = {}
         /\ Of(candidates) \cap Of(matured) = {}
         /\ Of(immature) \cap Of(matured) = {}
BY DEF RowsInv, ExactlyOnePlace, Rows, Of

LEMMA FindMines ==
  ASSUME RowsInv, NEW r \in Rounds, NEW wins \in BOOLEAN, NEW drift \in Drift,
         Find(r, wins, drift)
  PROVE  Ledger!Mine(r)
<1>1. PICK row : row.round = r /\ candidates' = candidates \cup {row}
  BY DEF Find
<1>2. UNCHANGED <<immature, matured, credits, balanceTotal>>
  BY DEF Find
<1>3. \A x \in Rows : x.round # r
  BY DEF Find, RowsInv, ExactlyOnePlace
<1>4. /\ Of(candidates') = Of(candidates) \cup {r}
      /\ Of(immature') = Of(immature) /\ Of(matured') = Of(matured)
  BY <1>1, <1>2 DEF Of
<1>5. r \notin Of(candidates) /\ r \notin Of(immature) /\ r \notin Of(matured)
  BY <1>3 DEF Rows, Of
<1>6. status[r] = "none"
  BY <1>5 DEF status
<1>7. status' = [status EXCEPT ![r] = "candidate"]
  BY <1>4, <1>5, OneKind DEF status
<1>8. UNCHANGED <<expected, balanceTotal>>
  BY <1>2 DEF expected, LogOf
<1> QED
  BY <1>6, <1>7, <1>8 DEF Ledger!Mine, status, expected

LEMMA WriteImmatureBlockExpects ==
  ASSUME RowsInv, NEW f \in Found, f.row \in candidates, WriteImmatureBlock(f)
  PROVE  /\ f.row.round \in Rounds
         /\ Ledger!Expect(f.row.round, f.reward)
<1> DEFINE r == f.row.round
           log == [round |-> r, height |-> f.height, amount |-> f.reward]
<1>1. r \in Rounds
  BY DEF Found
<1>2. credits' = credits \cup {log}
  <2>1. CreditsAt(f.row.round, f.height) = {}
    BY CandidateHasNoCredits DEF CreditsAt
  <2>2. Rewards(f) = f.reward
    BY DEF Rewards, RowsInv, SharesFollowRow
  <2> QED
    BY <2>1, <2>2 DEF WriteImmatureBlock
<1>3. \A x \in Rows : x.round = r => x = f.row
  BY DEF RowsInv, ExactlyOnePlace, Rows
<1>4. /\ Of(candidates') = Of(candidates) \ {r}
      /\ Of(immature') = Of(immature) \cup {r}
      /\ Of(matured') = Of(matured)
  <2>1. Stored(f).round = r
    BY DEF Stored
  <2> QED
    BY <1>3, <2>1 DEF WriteImmatureBlock, Of, Rows
<1>5. r \in Of(candidates)
  BY DEF Of
<1>6. status[r] = "candidate"
  BY <1>1, <1>5, OneKind DEF status
<1>7. status' = [status EXCEPT ![r] = "immature"]
  BY <1>4, <1>5, OneKind DEF status
<1>8. expected' = [expected EXCEPT ![r] = f.reward]
  <2>1. LogOf(r)' = {log}
    BY <1>2, CandidateHasNoCredits DEF LogOf
  <2>2. \A q \in Rounds \ {r} : LogOf(q)' = LogOf(q)
    BY <1>2 DEF LogOf
  <2>3. \A q \in Rounds :
            expected'[q] = IF q = r THEN f.reward ELSE expected[q]
    <3>1. \A q \in Rounds : expected'[q] = AmountIn(LogOf(q)')
      BY DEF expected
    <3>2. AmountIn({log}) = f.reward
      <4>1. (CHOOSE c \in {log} : TRUE) = log
        OBVIOUS
      <4> QED
        BY <4>1 DEF AmountIn
    <3> QED
      BY <2>1, <2>2, <3>1, <3>2 DEF expected
  <2> QED
    BY <2>3 DEF expected
<1>9. UNCHANGED balanceTotal
  BY DEF WriteImmatureBlock
<1> QED
  BY <1>1, <1>6, <1>7, <1>8, <1>9 DEF Ledger!Expect, status, expected

LEMMA SettleSettles ==
  ASSUME RowsInv, NEW row \in immature, NEW settled, NEW amount,
         settled.round = row.round,
         UNCHANGED candidates,
         immature' = immature \ {row},
         matured' = matured \cup {settled},
         credits' = credits \ CreditsAt(row.round, row.height),
         balanceTotal' = balanceTotal + amount
  PROVE  Ledger!Settle(row.round, amount)
<1> DEFINE r == row.round
<1>1. \A x \in Rows : x.round = r => x = row
  BY DEF RowsInv, ExactlyOnePlace, Rows
<1>2. /\ Of(candidates') = Of(candidates)
      /\ Of(immature') = Of(immature) \ {r}
      /\ Of(matured') = Of(matured) \cup {r}
  BY <1>1 DEF Of, Rows
<1>3. r \in Of(immature)
  BY DEF Of
<1>4. r \in Rounds
  BY DEF RowsInv
<1>5. status[r] = "immature"
  BY <1>3, <1>4, OneKind DEF status
<1>6. status' = [status EXCEPT ![r] = "settled"]
  BY <1>2, <1>3, OneKind DEF status
<1>7. expected' = [expected EXCEPT ![r] = 0]
  <2>1. LogOf(r)' = {}
    <3>1. SUFFICES ASSUME NEW c \in credits, c.round = r
                   PROVE  c.height = row.height
      BY DEF LogOf, CreditsAt
    <3>2. PICK b \in immature : RoundKey(c) = RoundKey(b)
      BY DEF RowsInv, ImmatureIsLogged
    <3> QED
      BY <1>1, <3>1, <3>2 DEF Rows
  <2>2. \A q \in Rounds \ {r} : LogOf(q)' = LogOf(q)
    BY DEF LogOf, CreditsAt
  <2>3. \A q \in Rounds : expected'[q] = IF q = r THEN 0 ELSE expected[q]
    <3>1. \A q \in Rounds : expected'[q] = AmountIn(LogOf(q)')
      BY DEF expected
    <3>2. AmountIn(LogOf(r)') = 0
      BY <2>1 DEF AmountIn
    <3> QED
      BY <2>2, <3>1, <3>2 DEF expected
  <2> QED
    BY <2>3 DEF expected
<1> QED
  BY <1>5, <1>6, <1>7 DEF Ledger!Settle, status, expected

LEMMA WritePendingOrphansDoubts ==
  ASSUME RowsInv, NEW rows \in SUBSET candidates, WritePendingOrphans(rows)
  PROVE  \E rs \in SUBSET Rounds : Ledger!Doubt(rs)
<1>1. Of(rows) \subseteq Rounds /\ Of(rows) \subseteq Of(candidates)
  BY DEF Of, RowsInv
<1>2. /\ Of(candidates') = Of(candidates) \ Of(rows)
      /\ Of(immature') = Of(immature) \cup Of(rows)
      /\ Of(matured') = Of(matured)
  <2>1. Of(matured') = Of(matured)
    BY DEF WritePendingOrphans, Of
  <2>2. Of(immature') = Of(immature) \cup Of(rows)
    <3>1. \A x \in rows : [x EXCEPT !.orphan = TRUE].round = x.round
      BY DEF RowsInv
    <3> QED
      BY <3>1 DEF WritePendingOrphans, Of
  <2>3. \A x \in rows, y \in candidates : x.round = y.round => x = y
    BY DEF RowsInv, ExactlyOnePlace, Rows
  <2>4. Of(candidates') = Of(candidates) \ Of(rows)
    BY <2>3 DEF WritePendingOrphans, Of
  <2> QED
    BY <2>1, <2>2, <2>4
<1>3. \A r \in Of(rows) : status[r] = "candidate"
  BY <1>1, OneKind DEF status
<1>4. status' = [r \in Rounds |-> IF r \in Of(rows) THEN "immature"
                                  ELSE status[r]]
  BY <1>1, <1>2, OneKind DEF status
<1>5. UNCHANGED <<expected, balanceTotal>>
  BY DEF WritePendingOrphans, expected, LogOf
<1>6. Ledger!Doubt(Of(rows))
  BY <1>3, <1>4, <1>5 DEF Ledger!Doubt, status, expected
<1> QED
  BY <1>1, <1>6

LedgerStep == [Ledger!Next]_<<status, expected, balanceTotal>>

LEMMA RedisStutters ==
  UNCHANGED <<candidates, immature, matured, credits, balanceTotal>> =>
    LedgerStep
BY DEF LedgerStep, status, expected, Of, LogOf

LEMMA WriteCandidateOrphansSteps ==
  ASSUME Inv, WriteCandidateOrphans
  PROVE  LedgerStep
<1>1. WritePendingOrphans(orphans) \/ UNCHANGED redis
  BY DEF WriteCandidateOrphans
<1>2. orphans \in SUBSET candidates
  BY DEF WriteCandidateOrphans, Inv, ProcessInv, SearchInv, Source
<1> QED
  BY <1>1, <1>2, WritePendingOrphansDoubts, RedisStutters
     DEF LedgerStep, Ledger!Next, Inv

LEMMA WriteImmatureOrphansSteps ==
  ASSUME Inv, WriteImmatureOrphans
  PROVE  LedgerStep
<1>1. CASE UNCHANGED redis
  BY <1>1, RedisStutters
<1>2. CASE \E row \in orphans, readable \in BOOLEAN : WriteOrphan(row, readable)
  <2>1. PICK row \in orphans, readable \in BOOLEAN : WriteOrphan(row, readable)
    BY <1>2
  <2>2. row \in immature /\ row.round \in Rounds
    BY DEF WriteImmatureOrphans, Inv, ProcessInv, SearchInv, Source, RowsInv
  <2>3. [row EXCEPT !.orphan = TRUE].round = row.round
    BY <2>2 DEF Inv, RowsInv
  <2>4. balanceTotal' = balanceTotal + 0
    BY <2>1 DEF WriteOrphan, Inv, RowsInv
  <2>5. Ledger!Settle(row.round, 0)
    BY <2>1, <2>2, <2>3, <2>4, SettleSettles DEF WriteOrphan, DropCredits, Inv
  <2> QED
    BY <2>2, <2>5 DEF LedgerStep, Ledger!Next
<1> QED
  BY <1>1, <1>2 DEF WriteImmatureOrphans

LEMMA WriteFoundSteps ==
  ASSUME Inv, WriteFound
  PROVE  LedgerStep
<1>1. CASE UNCHANGED redis
  BY <1>1, RedisStutters
<1>2. ASSUME NEW f \in found, stage = "pending", WriteImmatureBlock(f)
      PROVE  LedgerStep
  <2>1. f \in Found /\ f.row \in candidates
    BY <1>2 DEF Inv, ProcessInv, SearchType, SearchInv, Source
  <2>2. f.row.round \in Rounds /\ Ledger!Expect(f.row.round, f.reward)
    BY <1>2, <2>1, WriteImmatureBlockExpects DEF Inv
  <2> QED
    BY <2>1, <2>2 DEF LedgerStep, Ledger!Next, Found
<1>3. ASSUME NEW f \in found, NEW readable \in BOOLEAN, stage = "immature",
             WriteMaturedBlock(f, readable)
      PROVE  LedgerStep
  <2>1. f \in Found /\ f.row \in immature /\ f.row.round \in Rounds
    BY <1>3 DEF Inv, ProcessInv, SearchType, SearchInv, Source, Found
  <2>2. Stored(f).round = f.row.round
    BY DEF Stored
  <2>3. Rewards(f) = f.reward
    BY <2>1 DEF Rewards, Inv, RowsInv, SharesFollowRow
  <2>4. Ledger!Settle(f.row.round, f.reward)
    BY <1>3, <2>1, <2>2, <2>3, SettleSettles
       DEF WriteMaturedBlock, DropCredits, Inv
  <2> QED
    BY <2>1, <2>4 DEF LedgerStep, Ledger!Next, Found
<1> QED
  BY <1>1, <1>2, <1>3 DEF WriteFound

\* The searches, failures and restarts of the unlocker do not show: each round
\* is looked at twice and settled once, and a balance only rises by what a
\* settled round is worth.
THEOREM ImplementsLedger == Spec => LedgerSpec
<1>1. Init => Ledger!Init
  BY DEF Init, Ledger!Init, Of, LogOf, AmountIn
<1>2. ASSUME Inv, [Next]_vars
      PROVE  LedgerStep
  <2>1. CASE \E r \in Rounds, wins \in BOOLEAN, drift \in Drift :
                Find(r, wins, drift)
    BY <1>2, <2>1, FindMines DEF LedgerStep, Ledger!Next, Inv
  <2>2. CASE WriteCandidateOrphans
    BY <1>2, <2>2, WriteCandidateOrphansSteps
  <2>3. CASE WriteImmatureOrphans
    BY <1>2, <2>3, WriteImmatureOrphansSteps
  <2>4. CASE WriteFound
    BY <1>2, <2>4, WriteFoundSteps
  <2>5. CASE UNCHANGED <<candidates, immature, matured, credits, balanceTotal>>
    BY <2>5, RedisStutters
  <2>6. \/ \E r \in Rounds, wins \in BOOLEAN, drift \in Drift :
                Find(r, wins, drift)
        \/ WriteCandidateOrphans \/ WriteImmatureOrphans \/ WriteFound
        \/ UNCHANGED <<candidates, immature, matured, credits, balanceTotal>>
    BY <1>2 DEF Next, Processor, vars, Start, Tick, Tip, Take, Scan, Restart,
       Crash, Die, NewBlock, Reorg
  <2> QED
    BY <2>1, <2>2, <2>3, <2>4, <2>5, <2>6
<1> QED
  BY <1>1, <1>2, InvHolds, PTL
     DEF Spec, LedgerSpec, Ledger!Spec, Ledger!vars, LedgerStep, status, expected
-----------------------------------------------------------------------------
(* The balances follow the chain.  A block is unlocked by what the chain     *)
(* says long before the balance is written, and a search that ends without   *)
(* a match orphans the block.  Both are right in the end because the second  *)
(* pass only looks at rows so deep that the chain will not change there, and *)
(* because the heights it asks for include the one where the block is, or    *)
(* the one after it, where it is an uncle.                                   *)

\* Where a found solution is: an uncle is in the next block.
PlaceInv ==
    \A r \in Rounds :
        /\ place[r].kind = "unknown" => place[r] = NotFound
        /\ place[r].kind # "unknown" =>
            /\ place[r].real <= head + 1
            /\ place[r].at = IF place[r].kind = "uncle" THEN place[r].real + 1
                             ELSE place[r].real

\* A height at which the search around it reaches the round.
Near(height, r) ==
    /\ height - place[r].real \in -1 .. 1
    /\ height - place[r].real >= 2 - MinDepth

RowsNear == \A row \in candidates \cup immature : Near(row.height, row.round)

\* A match is at the block's own height or at the next.
FoundNear == \A f \in found : f.height - place[f.row.round].real \in 0 .. 1

\* The chain will not change any more what became of a round.
Frozen(r) == place[r].real + ReorgLimit <= head /\ place[r].real < head

Deep(row) == row.height + Depth <= head

\* The loop has asked for the heights below this one and found nothing.
NoMatchSoFar ==
    \A i \in -MinDepth .. offset - 1 :
        /\ ~IsBlock(cand.row.round, cand.row.height + i)
        /\ ~IsUncle(cand.row.round, cand.row.height + i)

\* What the second pass found, and did not find, stays true until it is written.
SettledInv ==
    stage = "immature" =>
        /\ \A row \in queue : Deep(row)
        /\ \A f \in found : /\ Deep(f.row)
                            /\ place[f.row.round].kind \in {"block", "uncle"}
                            /\ f.reward = ChainPays(f.row.round)
        /\ \A row \in orphans : Deep(row) /\ place[row.round].kind = "none"
        /\ pc = "scan" => Deep(cand.row) /\ NoMatchSoFar

MaturedInv ==
    \A row \in matured :
        /\ Frozen(row.round)
        /\ row.orphan <=> place[row.round].kind = "none"

Paid == SumFunction([row \in matured |-> ChainPays(row.round)])

MoneyInv ==
    /\ IsFiniteSet(matured) /\ IsFiniteSet(credits)
    /\ balanceTotal = Paid
    /\ ~misread => immatureTotal = Total(credits)

SearchSettled == FoundNear /\ SettledInv
RedisSettled == RowsNear /\ MaturedInv /\ MoneyInv
ChainInv == PlaceInv /\ SearchSettled /\ RedisSettled

\* A row's round is on the chain's record.
LEMMA RowPlace ==
  ASSUME Inv, NEW row \in Rows
  PROVE  /\ row.round \in Rounds /\ row.height \in Heights
         /\ place[row.round] # NotFound
         /\ place[row.round].kind \in {"unknown", "none", "block", "uncle"}
         /\ place[row.round].real \in Heights /\ place[row.round].at \in Heights
<1>1. row \in Row
  BY DEF Rows, Inv, RowsInv
<1>2. row.round \in Rounds /\ row.height \in Heights
  BY <1>1
<1>3. place[row.round] # NotFound
  BY <1>2 DEF Inv, RowsInv, ExactlyOnePlace
<1> QED
  BY <1>2, <1>3 DEF Inv, RowsInv

LEMMA RowKind ==
  ASSUME Inv, PlaceInv, NEW row \in Rows
  PROVE  /\ place[row.round].kind \in {"none", "block", "uncle"}
         /\ place[row.round].real <= head + 1
         /\ place[row.round].at = IF place[row.round].kind = "uncle"
                                  THEN place[row.round].real + 1
                                  ELSE place[row.round].real
BY RowPlace DEF PlaceInv

\* The depth of the second pass is beyond the reach of a reorganisation.
LEMMA DeepFrozen ==
  ASSUME Inv, RowsNear, NEW row \in candidates \cup immature, Deep(row)
  PROVE  Frozen(row.round)
<1>1. row \in Rows
  BY DEF Rows
<1>2. /\ row.height \in Heights /\ place[row.round].real \in Heights
      /\ head \in Heights
  BY <1>1, RowPlace DEF Inv
<1>3. place[row.round].real <= row.height + 1
  BY <1>2 DEF RowsNear, Near
<1> QED
  BY <1>2, <1>3, ChainAssumption, DepthAssumption, BoundsAssumption
     DEF Deep, Frozen

LEMMA PaysInt == ASSUME NEW r PROVE ChainPays(r) \in Int
BY BoundsAssumption DEF ChainPays

-----------------------------------------------------------------------------
(* What the search knows.                                                    *)

LEMMA EmptySettles ==
  ASSUME queue' = {}, found' = {}, orphans' = {}, pc' # "scan"
  PROVE  SearchSettled'
BY DEF SearchSettled, FoundNear, SettledInv

LEMMA HaltSettles == Halt("call") => SearchSettled'
BY EmptySettles DEF Halt, Forget

LEMMA StartSettles ==
  ASSUME Inv, Start \/ Tick \/ Restart \/ Crash
  PROVE  SearchSettled'
<1>1. pc' # "scan"
  BY DEF Start, Tick, Restart, Crash, Die
<1>2. queue' = {} /\ found' = {} /\ orphans' = {}
  BY DEF Start, Tick, Restart, Crash, Die, Forget, Inv, ProcessInv, PhaseInv
<1> QED
  BY <1>1, <1>2, EmptySettles

LEMMA TipSettles ==
  ASSUME Inv, Tip
  PROVE  SearchSettled'
<1>1. PICK o \in Outcomes :
        IF o.ok
        THEN /\ queue' = IF stage = "pending" THEN GetCandidates
                         ELSE GetImmatureBlocks
             /\ IF queue' = {} THEN NextStage
                ELSE pc' = "take" /\ UNCHANGED stage
             /\ UNCHANGED <<halt, lastFail, cand, offset, found, orphans>>
        ELSE Halt("call")
  BY DEF Tip
<1>2. UNCHANGED node /\ found = {} /\ orphans = {}
  BY DEF Tip, Inv, ProcessInv, PhaseInv
<1>3. CASE ~o.ok
  BY <1>1, <1>3, HaltSettles
<1>4. CASE o.ok /\ queue' = {}
  <2>1. NextStage /\ found' = {} /\ orphans' = {}
    BY <1>1, <1>2, <1>4
  <2>2. pc' # "scan"
    BY <2>1 DEF NextStage
  <2> QED
    BY <1>4, <2>1, <2>2, EmptySettles
<1>5. CASE o.ok /\ queue' # {}
  <2>1. /\ pc' = "take" /\ stage' = stage /\ found' = {} /\ orphans' = {}
    BY <1>1, <1>2, <1>5
  <2>2. ASSUME stage = "immature", NEW row \in queue'
        PROVE  Deep(row)'
    <3>1. row \in immature /\ row.height <= head - Depth
      BY <1>1, <1>5, <2>2 DEF GetImmatureBlocks
    <3>2. row.height \in Heights /\ head \in Heights
      BY <3>1 DEF Inv, RowsInv
    <3> QED
      BY <1>2, <3>1, <3>2, DepthAssumption, BoundsAssumption DEF Deep
  <2> QED
    BY <2>1, <2>2 DEF SearchSettled, FoundNear, SettledInv
<1> QED
  BY <1>3, <1>4, <1>5

LEMMA TakeSettles ==
  ASSUME Inv, SearchSettled, Take
  PROVE  SearchSettled'
<1>1. pc = "take" /\ UNCHANGED <<node, stage, found, orphans>>
  BY DEF Take
<1>2. FoundNear'
  BY <1>1 DEF SearchSettled, FoundNear
<1>3. CASE queue = {}
  <2>1. pc' = "orphans" /\ UNCHANGED <<queue, cand, offset>>
    BY <1>3 DEF Take
  <2>2. SettledInv'
    BY <1>1, <2>1 DEF SearchSettled, SettledInv, Deep, ChainPays
  <2> QED
    BY <1>2, <2>2 DEF SearchSettled
<1>4. CASE queue # {}
  <2>1. PICK row \in queue :
          /\ queue' = queue \ {row}
          /\ cand' = [row |-> row, height |-> row.height, uncle |-> row.uncle]
          /\ offset' = -MinDepth
    BY <1>4 DEF Take
  <2>2. cand'.row = row
    BY <2>1
  <2>3. NoMatchSoFar'
    <3>1. -MinDepth .. offset' - 1 = {}
      BY <2>1, DepthAssumption
    <3> QED
      BY <3>1 DEF NoMatchSoFar
  <2>4. SettledInv'
    BY <1>1, <2>1, <2>2, <2>3 DEF SearchSettled, SettledInv, Deep, ChainPays
  <2> QED
    BY <1>2, <2>4 DEF SearchSettled
<1> QED
  BY <1>3, <1>4
LEMMA PaysKind ==
  ASSUME NEW r
  PROVE  /\ place[r].kind = "block" => ChainPays(r) = BlockReward
         /\ place[r].kind = "uncle" => ChainPays(r) = UncleReward
         /\ place[r].kind = "none" => ChainPays(r) = 0
BY DEF ChainPays

\* A turn that found nothing, at an offset before the last.
LEMMA NoMatchYet ==
  ASSUME Inv, SearchSettled, pc = "scan",
         ~IsBlock(cand.row.round, ScanHeight),
         ~IsUncle(cand.row.round, ScanHeight),
         offset' = offset + 1,
         UNCHANGED <<node, pc, stage, queue, cand, found, orphans>>
  PROVE  SearchSettled'
<1>1. FoundNear'
  BY DEF SearchSettled, FoundNear
<1>2. ASSUME NoMatchSoFar PROVE NoMatchSoFar'
  <2> SUFFICES ASSUME NEW i \in -MinDepth .. offset' - 1
               PROVE  /\ ~IsBlock(cand.row.round, cand.row.height + i)
                      /\ ~IsUncle(cand.row.round, cand.row.height + i)
    BY DEF NoMatchSoFar, IsBlock, IsUncle
  <2>1. i = offset \/ i \in -MinDepth .. offset - 1
    BY DepthAssumption DEF Inv, ProcessInv, SearchType
  <2> QED
    BY <1>2, <2>1 DEF NoMatchSoFar, ScanHeight
<1>3. SettledInv'
  BY <1>2 DEF SearchSettled, SettledInv, Deep, ChainPays
<1> QED
  BY <1>1, <1>3 DEF SearchSettled

\* The search covers every height where a deep block can be.
LEMMA SearchIsComplete ==
  ASSUME Inv, PlaceInv, RowsNear, NoMatchSoFar, pc = "scan",
         cand.row \in candidates \cup immature, offset = LastOffset,
         ~IsBlock(cand.row.round, ScanHeight),
         ~IsUncle(cand.row.round, ScanHeight)
  PROVE  place[cand.row.round].kind = "none"
<1> DEFINE p == place[cand.row.round]
           h == cand.row.height
<1>1. cand.row \in Rows
  BY DEF Rows
<1>2. /\ p.kind \in {"none", "block", "uncle"}
      /\ p.real \in Heights /\ h \in Heights
      /\ p.at = IF p.kind = "uncle" THEN p.real + 1 ELSE p.real
  BY <1>1, RowPlace, RowKind
<1>3. h - p.real \in -1 .. 1 /\ h - p.real >= 2 - MinDepth
  BY DEF RowsNear, Near
<1>4. ASSUME NEW i \in -MinDepth .. LastOffset
      PROVE  ~IsBlock(cand.row.round, h + i) /\ ~IsUncle(cand.row.round, h + i)
  <2>1. i = offset \/ i \in -MinDepth .. offset - 1
    BY DepthAssumption DEF LastOffset
  <2> QED
    BY <2>1 DEF NoMatchSoFar, ScanHeight
<1>5. p.kind # "block"
  <2> DEFINE i == p.real - h
  <2>1. i \in -MinDepth .. LastOffset /\ h + i = p.real
    BY <1>2, <1>3, ChainAssumption, DepthAssumption, BoundsAssumption
       DEF LastOffset
  <2> HIDE DEF i
  <2>2. ~IsBlock(cand.row.round, p.real)
    BY <1>4, <2>1
  <2> QED
    BY <2>2 DEF IsBlock
<1>6. p.kind # "uncle"
  <2> SUFFICES ASSUME p.kind = "uncle" PROVE FALSE
    OBVIOUS
  <2> DEFINE i == p.real + 1 - h
  <2>1. i \in -MinDepth .. LastOffset /\ h + i = p.real + 1
    BY <1>2, <1>3, ChainAssumption, DepthAssumption, BoundsAssumption
       DEF LastOffset
  <2> HIDE DEF i
  <2>2. ~IsUncle(cand.row.round, p.real + 1)
    BY <1>4, <2>1
  <2> QED
    BY <1>2, <2>2 DEF IsUncle
<1> QED
  BY <1>2, <1>5, <1>6

LEMMA ScanSettles ==
  ASSUME Inv, PlaceInv, RowsNear, SearchSettled, Scan
  PROVE  SearchSettled'
<1> DEFINE h == ScanHeight
           r == cand.row.round
<1>1. pc = "scan" /\ UNCHANGED <<node, redis>>
  BY DEF Scan
<1>2. /\ cand.row \in Source /\ cand.row \in Rows
      /\ cand.row \in candidates \cup immature
  BY <1>1 DEF Inv, ProcessInv, SearchInv, Source, Rows
<1>3. PICK o \in Outcomes :
        \/ /\ h < 0
           /\ offset' = offset + 1
           /\ UNCHANGED <<pc, stage, halt, lastFail, queue, cand, found,
                          orphans, faults>>
        \/ Halt("call")
        \/ h > head
        \/ /\ 0 <= h /\ h <= head
           /\ UNCHANGED <<stage, halt, lastFail, queue, cand>>
           /\ IsBlock(r, h) \/ IsUncle(r, h)
           /\ found' = found \cup {IF IsBlock(r, h) THEN HandleBlock(h)
                                   ELSE HandleUncle(h)}
           /\ pc' = "take"
           /\ UNCHANGED <<offset, orphans>>
        \/ /\ UNCHANGED <<stage, halt, lastFail, queue, cand, found>>
           /\ ~IsBlock(r, h) /\ ~IsUncle(r, h)
           /\ offset' = offset + 1
           /\ IF offset = LastOffset
              THEN orphans' = orphans \cup {cand.row} /\ pc' = "take"
              ELSE UNCHANGED <<orphans, pc>>
  BY ScanTurn
<1>4. /\ place[r].real \in Heights /\ place[r].at \in Heights
      /\ place[r].at = IF place[r].kind = "uncle" THEN place[r].real + 1
                       ELSE place[r].real
  BY <1>2, RowPlace, RowKind
<1>5. h \in Int /\ h <= head
  BY <1>1, DepthAssumption, BoundsAssumption
     DEF ScanHeight, Inv, ProcessInv, SearchType, DepthInv
<1> HIDE DEF h, r
<1>6. CASE /\ h < 0
           /\ offset' = offset + 1
           /\ UNCHANGED <<pc, stage, halt, lastFail, queue, cand, found,
                          orphans, faults>>
  <2>1. ~IsBlock(r, h) /\ ~IsUncle(r, h)
    BY <1>4, <1>5, <1>6, BoundsAssumption DEF IsBlock, IsUncle
  <2> QED
    BY <1>1, <1>6, <2>1, NoMatchYet DEF h, r
<1>7. CASE Halt("call")
  BY <1>7, HaltSettles
<1>8. CASE /\ 0 <= h /\ h <= head
           /\ UNCHANGED <<stage, halt, lastFail, queue, cand>>
           /\ IsBlock(r, h) \/ IsUncle(r, h)
           /\ found' = found \cup {IF IsBlock(r, h) THEN HandleBlock(h)
                                   ELSE HandleUncle(h)}
           /\ pc' = "take"
           /\ UNCHANGED <<offset, orphans>>
  <2>1. PICK f : /\ found' = found \cup {f}
                 /\ f = IF IsBlock(r, h) THEN HandleBlock(h) ELSE HandleUncle(h)
    BY <1>8
  <2>2. /\ f.row = cand.row /\ f.height = h
        /\ f.reward = IF IsBlock(r, h) THEN BlockReward ELSE UncleReward
    BY <2>1 DEF HandleBlock, HandleUncle
  <2>3. h - place[r].real \in 0 .. 1
    BY <1>4, <1>8, BoundsAssumption DEF IsBlock, IsUncle
  <2>4. /\ place[r].kind \in {"block", "uncle"}
        /\ f.reward = ChainPays(r)
    BY <1>8, <2>2, PaysKind DEF IsBlock, IsUncle
  <2>5. FoundNear'
    BY <1>1, <2>1, <2>2, <2>3 DEF SearchSettled, FoundNear, r
  <2>6. SettledInv'
    <3>1. stage' = stage /\ queue' = queue /\ orphans' = orphans
          /\ pc' = "take"
      BY <1>8
    <3>2. ASSUME stage = "immature", NEW g \in found'
          PROVE  /\ Deep(g.row)
                 /\ place[g.row.round].kind \in {"block", "uncle"}
                 /\ g.reward = ChainPays(g.row.round)
      <4>1. CASE g = f
        BY <1>1, <2>2, <2>4, <3>2, <4>1 DEF SearchSettled, SettledInv, r
      <4>2. CASE g \in found
        BY <3>2, <4>2 DEF SearchSettled, SettledInv
      <4> QED
        BY <2>1, <4>1, <4>2
    <3> QED
      BY <1>1, <3>1, <3>2 DEF SearchSettled, SettledInv, Deep, ChainPays
  <2> QED
    BY <2>5, <2>6 DEF SearchSettled
<1>9. CASE /\ UNCHANGED <<stage, halt, lastFail, queue, cand, found>>
           /\ ~IsBlock(r, h) /\ ~IsUncle(r, h)
           /\ offset' = offset + 1
           /\ IF offset = LastOffset
              THEN orphans' = orphans \cup {cand.row} /\ pc' = "take"
              ELSE UNCHANGED <<orphans, pc>>
  <2>1. CASE offset # LastOffset
    BY <1>1, <1>9, <2>1, NoMatchYet DEF h, r
  <2>2. CASE offset = LastOffset
    <3>1. FoundNear'
      BY <1>1, <1>9 DEF SearchSettled, FoundNear
    <3>2. ASSUME stage = "immature" PROVE place[cand.row.round].kind = "none"
      BY <1>1, <1>2, <1>9, <2>2, <3>2, SearchIsComplete
         DEF SearchSettled, SettledInv, h, r
    <3>3. SettledInv'
      BY <1>1, <1>9, <2>2, <3>2 DEF SearchSettled, SettledInv, Deep, ChainPays
    <3> QED
      BY <3>1, <3>3 DEF SearchSettled
  <2> QED
    BY <2>1, <2>2
<1>10. ~(h > head)
  BY <1>5 DEF Inv
<1> QED
  BY <1>3, <1>6, <1>7, <1>8, <1>9, <1>10

LEMMA WriteSettles ==
  ASSUME Inv, SearchSettled,
         WriteCandidateOrphans \/ WriteImmatureOrphans \/ WriteFound
  PROVE  SearchSettled'
<1>1. UNCHANGED node /\ pc # "scan" /\ queue = {}
  BY DEF WriteCandidateOrphans, WriteImmatureOrphans, WriteFound, Inv,
         ProcessInv, PhaseInv
<1>2. \/ Halt("call")
      \/ NextStage /\ found = {} /\ orphans = {}
         /\ UNCHANGED <<queue, found, orphans>>
      \/ /\ queue' = queue /\ stage' = stage /\ pc' \in {pc, "write"}
         /\ found' \subseteq found /\ orphans' \subseteq orphans
  <2>1. CASE WriteCandidateOrphans
    BY <2>1 DEF WriteCandidateOrphans
  <2>2. CASE WriteImmatureOrphans
    BY <2>2 DEF WriteImmatureOrphans
  <2>3. CASE WriteFound
    BY <2>3 DEF WriteFound, Inv, ProcessInv, PhaseInv
  <2> QED
    BY <2>1, <2>2, <2>3
<1>3. CASE Halt("call")
  BY <1>3, HaltSettles
<1>4. CASE NextStage /\ found = {} /\ orphans = {}
           /\ UNCHANGED <<queue, found, orphans>>
  <2>1. pc' # "scan"
    BY <1>4 DEF NextStage
  <2> QED
    BY <1>1, <1>4, <2>1, EmptySettles
<1>5. CASE /\ queue' = queue /\ stage' = stage /\ pc' \in {pc, "write"}
           /\ found' \subseteq found /\ orphans' \subseteq orphans
  <2>1. pc' # "scan"
    BY <1>1, <1>5
  <2>2. FoundNear'
    BY <1>1, <1>5 DEF SearchSettled, FoundNear
  <2>3. SettledInv'
    BY <1>1, <1>5, <2>1 DEF SearchSettled, SettledInv, Deep, ChainPays
  <2> QED
    BY <2>2, <2>3 DEF SearchSettled
<1> QED
  BY <1>2, <1>3, <1>4, <1>5

LEMMA ProcessSettles ==
  ASSUME Inv, ChainInv, Processor \/ Restart \/ Crash
  PROVE  SearchSettled'
<1>1. PlaceInv /\ RowsNear /\ SearchSettled
  BY DEF ChainInv, RedisSettled
<1> QED
  BY <1>1, StartSettles, TipSettles, TakeSettles, ScanSettles, WriteSettles
     DEF Processor
-----------------------------------------------------------------------------
(* What Redis holds.                                                         *)

\* One more log, and one log less.
LEMMA TotalInsert ==
  ASSUME NEW S, IsFiniteSet(S), \A c \in S : c.amount \in Int,
         NEW log, log \notin S, log.amount \in Int
  PROVE  Total(S \cup {log}) = Total(S) + log.amount
<1> DEFINE f == [c \in S |-> c.amount]
           g == [c \in S \cup {log} |-> c.amount]
<1>1. \A c \in S : f[c] \in Int /\ g[c] = f[c]
  OBVIOUS
<1>2. g[log] = log.amount /\ g[log] \in Int
  OBVIOUS
<1>3. Total(S) = SumFunctionOnSet(f, S)
  BY DEF Total, SumFunction
<1>4. Total(S \cup {log}) = SumFunctionOnSet(g, S \cup {log})
  BY DEF Total, SumFunction
<1>5. SumFunctionOnSet(f, S) \in Int
  BY <1>1, SumInt
<1> HIDE DEF f, g
<1>6. SumFunctionOnSet(g, S \cup {log}) = g[log] + SumFunctionOnSet(f, S)
  BY <1>1, <1>2, SumInsert
<1> QED
  BY <1>2, <1>3, <1>4, <1>5, <1>6

LEMMA TotalInt ==
  ASSUME NEW S, IsFiniteSet(S), \A c \in S : c.amount \in Int
  PROVE  Total(S) \in Int
<1>1. SumFunctionOnSet([c \in S |-> c.amount], S) \in Int
  BY SumInt
<1> QED
  BY <1>1 DEF Total, SumFunction

LEMMA CreditsInt ==
  ASSUME RowsInv, NEW c \in credits
  PROVE  c.amount \in Int
BY BoundsAssumption DEF RowsInv

\* The HGETALL returns all that the log of a round holds.
LEMMA DropsLogged ==
  ASSUME RowsInv, IsFiniteSet(credits), NEW row \in Row
  PROVE  /\ Logged(row) \in Int
         /\ IsFiniteSet(credits \ CreditsAt(row.round, row.height))
         /\ Total(credits \ CreditsAt(row.round, row.height)) =
                Total(credits) - Logged(row)
<1> DEFINE log == CreditsAt(row.round, row.height)
           rest == credits \ log
<1>1. Logged(row) \in Int
  BY LoggedType, BoundsAssumption
<1>2. IsFiniteSet(rest)
  BY FS_Subset
<1>3. Total(credits) \in Int
  BY CreditsInt, TotalInt
<1>4. CASE log = {}
  <2>1. Logged(row) = 0
    BY <1>4 DEF Logged, AmountIn
  <2>2. rest = credits
    BY <1>4
  <2> HIDE DEF rest
  <2> QED
    BY <1>1, <1>2, <1>3, <2>1, <2>2 DEF rest
<1>5. CASE log # {}
  <2>1. PICK c : c = (CHOOSE d \in log : TRUE)
    OBVIOUS
  <2>2. c \in log
    BY <1>5, <2>1
  <2>3. Logged(row) = c.amount
    BY <1>5, <2>1 DEF Logged, AmountIn
  <2>4. c \in credits /\ log = {c}
    BY <2>2 DEF CreditsAt, RowsInv, ImmatureIsLogged
  <2>5. credits = rest \cup {c} /\ c \notin rest
    BY <2>4
  <2>6. \A d \in rest : d.amount \in Int
    BY CreditsInt
  <2>7. c.amount \in Int
    BY <2>4, CreditsInt
  <2>8. Total(rest) \in Int
    BY <1>2, <2>6, TotalInt
  <2> HIDE DEF rest
  <2>9. Total(credits) = Total(rest) + c.amount
    BY <1>2, <2>5, <2>6, <2>7, TotalInsert
  <2> QED
    BY <1>1, <1>2, <2>3, <2>7, <2>8, <2>9 DEF rest
<1> QED
  BY <1>4, <1>5

\* A round that is settled adds what the chain pays for it.
LEMMA PaidInsert ==
  ASSUME UNCHANGED place, IsFiniteSet(matured), NEW settled,
         settled \notin matured, matured' = matured \cup {settled}
  PROVE  /\ Paid \in Int
         /\ Paid' = Paid + ChainPays(settled.round)
<1> DEFINE f == [row \in matured |-> ChainPays(row.round)]
           g == [row \in matured \cup {settled} |-> ChainPays(row.round)]
<1>1. \A row \in matured : f[row] \in Int /\ g[row] = f[row]
  BY PaysInt
<1>2. g[settled] = ChainPays(settled.round) /\ g[settled] \in Int
  BY PaysInt
<1>3. Paid = SumFunctionOnSet(f, matured)
  BY DEF Paid, SumFunction
<1>4. Paid' = SumFunctionOnSet(g, matured \cup {settled})
  <2>1. \A r : ChainPays(r)' = ChainPays(r)
    BY DEF ChainPays
  <2>2. Paid' = SumFunction([row \in matured' |-> ChainPays(row.round)])
    BY <2>1 DEF Paid
  <2> QED
    BY <2>2 DEF SumFunction
<1>5. SumFunctionOnSet(f, matured) \in Int
  BY <1>1, SumInt
<1> HIDE DEF f, g
<1>6. SumFunctionOnSet(g, matured \cup {settled}) =
        g[settled] + SumFunctionOnSet(f, matured)
  BY <1>1, <1>2, SumInsert
<1> QED
  BY <1>2, <1>3, <1>4, <1>5, <1>6

\* The balances stay right as long as no settled round changes its place.
LEMMA PaidSame ==
  ASSUME UNCHANGED matured,
         \A row \in matured : place'[row.round] = place[row.round]
  PROVE  Paid' = Paid
<1>1. \A row \in matured : ChainPays(row.round)' = ChainPays(row.round)
  BY DEF ChainPays
<1>2. [row \in matured |-> ChainPays(row.round)]' =
        [row \in matured |-> ChainPays(row.round)]
  BY <1>1
<1> QED
  BY <1>2 DEF Paid

\* Settling the row of a round that the chain has settled.
LEMMA SettleFollowsChain ==
  ASSUME RowsInv, RedisSettled, UNCHANGED <<head, place>>,
         NEW row \in immature, NEW settled \in Row, NEW readable \in BOOLEAN,
         misread \in BOOLEAN,
         settled.round = row.round, Frozen(row.round),
         settled.orphan <=> place[row.round].kind = "none",
         UNCHANGED candidates,
         immature' = immature \ {row},
         matured' = matured \cup {settled},
         DropCredits(row, readable),
         balanceTotal' = balanceTotal + ChainPays(row.round),
         misread' = (misread \/ ~readable)
  PROVE  RedisSettled'
<1>1. settled \notin matured
  BY DEF RowsInv, ExactlyOnePlace, Rows
<1>2. IsFiniteSet(matured) /\ IsFiniteSet(credits) /\ balanceTotal = Paid
  BY DEF RedisSettled, MoneyInv
<1>3. Paid' = Paid + ChainPays(settled.round)
  BY <1>1, <1>2, PaidInsert
<1>4. balanceTotal' = Paid'
  BY <1>2, <1>3
<1>5. row \in Row
  BY DEF RowsInv
<1>6. credits' = credits \ CreditsAt(row.round, row.height)
  BY DEF DropCredits
<1>7. IsFiniteSet(credits')
  BY <1>2, <1>5, <1>6, DropsLogged
<1>8. ASSUME ~misread' PROVE immatureTotal' = Total(credits')
  <2>1. ~misread /\ readable
    BY <1>8
  <2>2. immatureTotal = Total(credits)
    BY <2>1 DEF RedisSettled, MoneyInv
  <2>3. immatureTotal' = immatureTotal - Logged(row)
    BY <2>1 DEF DropCredits
  <2> QED
    BY <1>2, <1>5, <1>6, <2>2, <2>3, DropsLogged
<1>9. IsFiniteSet(matured')
  BY <1>2, FS_AddElement
<1>10. MoneyInv'
  <2>1. (Total(credits))' = Total(credits')
    BY DEF Total
  <2> QED
    BY <1>4, <1>7, <1>8, <1>9, <2>1 DEF MoneyInv
<1>11. MaturedInv'
  BY DEF RedisSettled, MaturedInv, Frozen
<1>12. RowsNear'
  BY DEF RedisSettled, RowsNear, Near
<1> QED
  BY <1>10, <1>11, <1>12 DEF RedisSettled

LEMMA RedisSame ==
  ASSUME RedisSettled, UNCHANGED <<head, place, redis>>, misread => misread',
         misread \in BOOLEAN, misread' \in BOOLEAN
  PROVE  RedisSettled'
<1>1. Paid' = Paid
  BY PaidSame
<1>2. Total(credits)' = Total(credits)
  BY DEF Total
<1> QED
  BY <1>1, <1>2 DEF RedisSettled, RowsNear, Near, MaturedInv, Frozen, MoneyInv

LEMMA WriteCandidateOrphansRedis ==
  ASSUME Inv, RedisSettled, WriteCandidateOrphans
  PROVE  RedisSettled'
<1>1. UNCHANGED <<head, place, misread>> /\ misread \in BOOLEAN
      /\ (WritePendingOrphans(orphans) \/ UNCHANGED redis)
  BY DEF WriteCandidateOrphans, Inv, ProcessInv, SearchType
<1>2. CASE UNCHANGED redis
  BY <1>1, <1>2, RedisSame
<1>3. CASE WritePendingOrphans(orphans)
  <2>1. orphans \subseteq candidates /\ candidates \subseteq Row
    BY DEF WriteCandidateOrphans, Inv, RowsInv, ProcessInv, SearchInv, Source
  <2>2. \A x \in orphans : /\ [x EXCEPT !.orphan = TRUE].height = x.height
                           /\ [x EXCEPT !.orphan = TRUE].round = x.round
    BY <2>1
  <2>3. RowsNear'
    BY <1>1, <1>3, <2>1, <2>2
       DEF WritePendingOrphans, RedisSettled, RowsNear, Near
  <2>4. MaturedInv'
    BY <1>1, <1>3 DEF WritePendingOrphans, RedisSettled, MaturedInv, Frozen
  <2>5. UNCHANGED <<matured, credits, immatureTotal, balanceTotal>>
    BY <1>3 DEF WritePendingOrphans
  <2>6. Paid' = Paid /\ Total(credits)' = Total(credits)
    BY <1>1, <2>5, PaidSame DEF Total
  <2>7. MoneyInv'
    BY <1>1, <2>5, <2>6 DEF RedisSettled, MoneyInv
  <2> QED
    BY <2>3, <2>4, <2>7 DEF RedisSettled
<1> QED
  BY <1>1, <1>2, <1>3

LEMMA WriteImmatureOrphansRedis ==
  ASSUME Inv, ChainInv, WriteImmatureOrphans
  PROVE  RedisSettled'
<1>1. /\ UNCHANGED <<head, place>> /\ stage = "immature"
      /\ misread \in BOOLEAN /\ RedisSettled
  BY DEF WriteImmatureOrphans, Inv, ProcessInv, SearchType, ChainInv
<1>2. \/ UNCHANGED redis /\ misread' \in {misread, TRUE}
      \/ \E row \in orphans, readable \in BOOLEAN :
            /\ WriteOrphan(row, readable)
            /\ misread' = (misread \/ ~readable)
  <2>1. CASE orphans = {}
    BY <2>1 DEF WriteImmatureOrphans
  <2>2. CASE orphans # {}
    <3>1. PICK row \in orphans, o \in Outcomes, readable \in BOOLEAN :
            /\ misread' = (misread \/ ~readable)
            /\ IF o.done THEN WriteOrphan(row, readable) ELSE UNCHANGED redis
      BY <2>2 DEF WriteImmatureOrphans
    <3>2. misread' \in {misread, TRUE}
      BY <1>1, <3>1, Zenon
    <3> QED
      BY <3>1, <3>2
  <2> QED
    BY <2>1, <2>2
<1>3. CASE UNCHANGED redis /\ misread' \in {misread, TRUE}
  BY <1>1, <1>3, RedisSame
<1>4. ASSUME NEW row \in orphans, NEW readable \in BOOLEAN,
             WriteOrphan(row, readable), misread' = (misread \/ ~readable)
      PROVE  RedisSettled'
  <2>1. row \in immature /\ row \in Row
    BY <1>1 DEF Inv, RowsInv, ProcessInv, SearchInv, Source
  <2>2. Deep(row) /\ place[row.round].kind = "none"
    BY <1>1 DEF ChainInv, SearchSettled, SettledInv
  <2>3. Frozen(row.round)
    BY <2>1, <2>2, DeepFrozen DEF ChainInv, RedisSettled
  <2>4. PICK settled : settled = [row EXCEPT !.orphan = TRUE]
    OBVIOUS
  <2>5. settled \in Row /\ settled.round = row.round /\ settled.orphan = TRUE
    BY <2>1, <2>4
  <2>6. balanceTotal' = balanceTotal + ChainPays(row.round)
    <3>1. ChainPays(row.round) = 0
      BY <2>2, PaysKind
    <3> QED
      BY <1>4, <3>1 DEF WriteOrphan, Inv, RowsInv
  <2>7. /\ immature' = immature \ {row} /\ matured' = matured \cup {settled}
        /\ DropCredits(row, readable) /\ UNCHANGED candidates
    BY <1>4, <2>4 DEF WriteOrphan
  <2> QED
    BY <1>1, <1>4, <2>1, <2>2, <2>3, <2>5, <2>6, <2>7, SettleFollowsChain DEF Inv
<1> QED
  BY <1>2, <1>3, <1>4

LEMMA WriteImmatureBlockRedis ==
  ASSUME Inv, RedisSettled, FoundNear, UNCHANGED <<head, place, misread>>,
         NEW f \in found, f.row \in candidates, WriteImmatureBlock(f)
  PROVE  RedisSettled'
<1> DEFINE log == [round |-> f.row.round, height |-> f.height,
                   amount |-> Rewards(f)]
<1>1. f \in Found /\ RowsInv /\ misread \in BOOLEAN
  BY DEF Inv, ProcessInv, SearchType
<1>2. Rewards(f) \in Int
  BY <1>1, BoundsAssumption DEF Rewards, Found
<1>3. credits' = credits \cup {log}
  <2>1. CreditsAt(f.row.round, f.height) = {}
    BY <1>1, CandidateHasNoCredits DEF CreditsAt
  <2> QED
    BY <2>1 DEF WriteImmatureBlock
<1>4. log \notin credits /\ log.amount = Rewards(f)
  BY <1>1, CandidateHasNoCredits
<1>5. /\ UNCHANGED <<matured, balanceTotal>>
      /\ immatureTotal' = immatureTotal + Rewards(f)
      /\ candidates' \subseteq candidates
      /\ immature' = immature \cup {Stored(f)}
  BY DEF WriteImmatureBlock
<1>6. RowsNear'
  <2>1. Stored(f).round = f.row.round /\ Stored(f).height = f.height
    BY DEF Stored
  <2>2. f.row \in Rows
    BY DEF Rows
  <2>3. f.height \in Heights /\ place[f.row.round].real \in Heights
    BY <1>1, <2>2, RowPlace DEF Found
  <2>4. Near(f.height, f.row.round)
    BY <2>3, ChainAssumption, DepthAssumption, BoundsAssumption
       DEF FoundNear, Near
  <2> QED
    BY <1>5, <2>1, <2>4 DEF RedisSettled, RowsNear, Near
<1>7. MaturedInv'
  BY <1>5 DEF RedisSettled, MaturedInv, Frozen
<1>8. MoneyInv'
  <2>1. IsFiniteSet(credits) /\ IsFiniteSet(matured) /\ balanceTotal = Paid
        /\ (~misread => immatureTotal = Total(credits))
    BY DEF RedisSettled, MoneyInv
  <2>2. \A c \in credits : c.amount \in Int
    BY <1>1, CreditsInt
  <2> HIDE DEF log
  <2>3. Total(credits \cup {log}) = Total(credits) + Rewards(f)
    BY <1>2, <1>4, <2>1, <2>2, TotalInsert
  <2>4. Total(credits)' = Total(credits \cup {log})
    BY <1>3 DEF Total
  <2>5. Paid' = Paid
    BY <1>5, PaidSame
  <2>6. IsFiniteSet(credits')
    BY <1>3, <2>1, FS_AddElement
  <2> QED
    BY <1>5, <2>1, <2>3, <2>4, <2>5, <2>6 DEF MoneyInv
<1> QED
  BY <1>6, <1>7, <1>8 DEF RedisSettled

LEMMA WriteMaturedBlockRedis ==
  ASSUME Inv, ChainInv, UNCHANGED <<head, place>>, stage = "immature",
         NEW f \in found, NEW readable \in BOOLEAN,
         f.row \in immature, WriteMaturedBlock(f, readable),
         misread' = (misread \/ ~readable)
  PROVE  RedisSettled'
<1>1. f \in Found /\ RowsInv /\ misread \in BOOLEAN /\ RedisSettled
  BY DEF Inv, ProcessInv, SearchType, ChainInv
<1>2. /\ Deep(f.row) /\ place[f.row.round].kind \in {"block", "uncle"}
      /\ f.reward = ChainPays(f.row.round)
  BY DEF ChainInv, SearchSettled, SettledInv
<1>3. Frozen(f.row.round)
  BY <1>1, <1>2, DeepFrozen DEF RedisSettled
<1>4. Rewards(f) = ChainPays(f.row.round)
  BY <1>2 DEF Rewards, Inv, RowsInv, SharesFollowRow
<1>5. Stored(f) \in Row /\ Stored(f).round = f.row.round
      /\ Stored(f).orphan = FALSE
  BY <1>1 DEF Stored, Found
<1>6. /\ UNCHANGED candidates /\ immature' = immature \ {f.row}
      /\ matured' = matured \cup {Stored(f)}
      /\ DropCredits(f.row, readable)
      /\ balanceTotal' = balanceTotal + ChainPays(f.row.round)
  BY <1>4 DEF WriteMaturedBlock
<1>7. Stored(f).orphan <=> place[f.row.round].kind = "none"
  BY <1>2, <1>5
<1> QED
  BY <1>1, <1>3, <1>5, <1>6, <1>7, SettleFollowsChain

LEMMA WriteFoundRedis ==
  ASSUME Inv, ChainInv, WriteFound
  PROVE  RedisSettled'
<1>1. /\ UNCHANGED <<head, place>> /\ misread \in BOOLEAN
      /\ RedisSettled /\ FoundNear
  BY DEF WriteFound, Inv, ProcessInv, SearchType, ChainInv, SearchSettled
<1>2. CASE found = {}
  <2>1. UNCHANGED <<redis, misread>>
    BY <1>2 DEF WriteFound
  <2> QED
    BY <1>1, <2>1, RedisSame
<1>3. CASE found # {}
  <2>1. PICK f \in found, o \in Outcomes, readable \in BOOLEAN :
          /\ readable \/ stage = "immature"
          /\ misread' = (misread \/ ~readable)
          /\ \/ UNCHANGED redis
             \/ stage = "pending" /\ WriteImmatureBlock(f)
             \/ stage = "immature" /\ WriteMaturedBlock(f, readable)
    BY <1>3 DEF WriteFound
  <2>2. f.row \in Source
    BY DEF Inv, ProcessInv, SearchInv
  <2>3. CASE UNCHANGED redis
    <3>1. misread' \in {misread, TRUE}
      BY <1>1, <2>1, Zenon
    <3> QED
      BY <1>1, <2>3, <3>1, RedisSame
  <2>4. CASE stage = "pending" /\ WriteImmatureBlock(f)
    <3>1. misread' = misread
      BY <1>1, <2>1, <2>4
    <3> QED
      BY <1>1, <2>2, <2>4, <3>1, WriteImmatureBlockRedis DEF Source
  <2>5. CASE stage = "immature" /\ WriteMaturedBlock(f, readable)
    BY <1>1, <2>1, <2>2, <2>5, WriteMaturedBlockRedis DEF Source
  <2> QED
    BY <2>1, <2>3, <2>4, <2>5
<1> QED
  BY <1>2, <1>3
-----------------------------------------------------------------------------
(* The chain moves.                                                          *)

\* What is settled, or about to be, is out of the chain's reach.
LEMMA NodeKeepsChain ==
  ASSUME Inv, ChainInv, head' \in Heights, head' >= head, PlaceInv',
         \A r \in Rounds : place[r] # NotFound =>
            /\ place'[r].real = place[r].real
            /\ Frozen(r) => place'[r] = place[r],
         \A row \in candidates' \ candidates : Near(row.height, row.round)',
         UNCHANGED <<immature, matured, credits, immatureTotal, balanceTotal,
                     pc, stage, search, misread>>
  PROVE  ChainInv'
<1>1. head \in Heights
  BY DEF Inv
<1>2. ASSUME NEW row \in Rows
      PROVE  /\ place'[row.round].real = place[row.round].real
             /\ Frozen(row.round) =>
                    Frozen(row.round)' /\ place'[row.round] = place[row.round]
  <2>1. row.round \in Rounds /\ place[row.round] # NotFound
        /\ place[row.round].real \in Heights
    BY RowPlace
  <2> QED
    BY <1>1, <2>1, ChainAssumption, BoundsAssumption DEF Frozen
<1>3. ASSUME NEW row \in candidates \cup immature, Deep(row)
      PROVE  Deep(row)' /\ place'[row.round] = place[row.round]
  <2>1. row \in Rows
    BY DEF Rows
  <2>2. Frozen(row.round)
    BY <1>3, DeepFrozen DEF ChainInv, RedisSettled
  <2>3. row.height \in Heights
    BY <2>1, RowPlace
  <2>4. Deep(row)'
    BY <1>1, <1>3, <2>3, DepthAssumption, BoundsAssumption DEF Deep
  <2> QED
    BY <1>2, <2>1, <2>2, <2>4
<1>4. RowsNear'
  BY <1>2 DEF ChainInv, RedisSettled, RowsNear, Near, Rows
<1>5. MaturedInv'
  BY <1>2 DEF ChainInv, RedisSettled, MaturedInv, Rows
<1>6. MoneyInv'
  <2>1. Paid' = Paid
    BY <1>2, PaidSame DEF ChainInv, RedisSettled, MaturedInv, Rows
  <2>2. Total(credits)' = Total(credits)
    BY DEF Total
  <2> QED
    BY <2>1, <2>2 DEF ChainInv, RedisSettled, MoneyInv
<1>7. queue \cup orphans \subseteq Source /\ Source \subseteq candidates \cup immature
      /\ (\A f \in found : f.row \in Source)
      /\ (pc = "scan" => cand.row \in Source)
  BY DEF Inv, ProcessInv, SearchInv, Source
<1>8. FoundNear'
  BY <1>2, <1>7 DEF ChainInv, SearchSettled, FoundNear, Rows
<1>9. SettledInv'
  <2> SUFFICES ASSUME stage = "immature" PROVE SettledInv'
    BY DEF SettledInv
  <2>1. \A row \in queue : Deep(row)'
    BY <1>3, <1>7 DEF ChainInv, SearchSettled, SettledInv
  <2>2. \A row \in orphans : Deep(row)' /\ place'[row.round].kind = "none"
    BY <1>3, <1>7 DEF ChainInv, SearchSettled, SettledInv
  <2>3. ASSUME NEW f \in found
        PROVE  /\ Deep(f.row)' /\ place'[f.row.round].kind \in {"block", "uncle"}
               /\ f.reward = ChainPays(f.row.round)'
    <3>1. Deep(f.row) /\ place[f.row.round].kind \in {"block", "uncle"}
          /\ f.reward = ChainPays(f.row.round)
      BY DEF ChainInv, SearchSettled, SettledInv
    <3>2. Deep(f.row)' /\ place'[f.row.round] = place[f.row.round]
      BY <1>3, <1>7, <3>1
    <3> QED
      BY <3>1, <3>2 DEF ChainPays
  <2>4. ASSUME pc = "scan" PROVE Deep(cand.row)' /\ NoMatchSoFar'
    <3>1. Deep(cand.row) /\ NoMatchSoFar
      BY <2>4 DEF ChainInv, SearchSettled, SettledInv
    <3>2. Deep(cand.row)' /\ place'[cand.row.round] = place[cand.row.round]
      BY <1>3, <1>7, <2>4, <3>1
    <3> QED
      BY <3>1, <3>2 DEF NoMatchSoFar, IsBlock, IsUncle
  <2> QED
    BY <2>1, <2>2, <2>3, <2>4 DEF SettledInv
<1> QED
  BY <1>4, <1>5, <1>6, <1>8, <1>9
     DEF ChainInv, SearchSettled, RedisSettled

LEMMA FindKeepsChain ==
  ASSUME Inv, ChainInv, NEW r \in Rounds, NEW wins \in BOOLEAN,
         NEW drift \in Drift, Find(r, wins, drift)
  PROVE  ChainInv'
<1> DEFINE where == [kind |-> IF wins THEN "block" ELSE "none",
                     real |-> head + 1, at |-> head + 1]
<1>0. PICK row : row = [round |-> r, height |-> head + 1 + drift,
                        hash |-> FALSE, uncle |-> FALSE, orphan |-> FALSE]
  OBVIOUS
<1>1. /\ place[r] = NotFound
      /\ place' = [place EXCEPT ![r] = where]
      /\ head' = IF wins THEN head + 1 ELSE head
      /\ candidates' = candidates \cup {row}
      /\ UNCHANGED <<immature, matured, credits, immatureTotal, balanceTotal,
                     pc, stage, search, misread>>
  BY <1>0 DEF Find
<1>2. head \in Int /\ head' \in Heights /\ head' >= head
  BY <1>1, FindKeeps, BoundsAssumption DEF Inv
<1>3. place'[r] = where /\ \A q \in Rounds \ {r} : place'[q] = place[q]
  BY <1>1 DEF Inv, RowsInv
<1>4. PlaceInv'
  <2> SUFFICES ASSUME NEW q \in Rounds
               PROVE  (/\ place[q].kind = "unknown" => place[q] = NotFound
                       /\ place[q].kind # "unknown" =>
                            /\ place[q].real <= head + 1
                            /\ place[q].at = IF place[q].kind = "uncle"
                                             THEN place[q].real + 1
                                             ELSE place[q].real)'
    BY DEF PlaceInv
  <2>1. CASE q = r
    BY <1>1, <1>2, <1>3, <2>1
  <2>2. CASE q # r
    <3>1. place'[q] = place[q] /\ place[q].real \in Int
      BY <1>3, <2>2, BoundsAssumption DEF Inv, RowsInv
    <3> QED
      BY <1>2, <3>1 DEF ChainInv, PlaceInv, NotFound
  <2> QED
    BY <2>1, <2>2
<1>5. \A q \in Rounds : place[q] # NotFound =>
            /\ place'[q].real = place[q].real
            /\ Frozen(q) => place'[q] = place[q]
  BY <1>1, <1>3
<1>6. Near(row.height, row.round)'
  <2>1. place'[r].real = head + 1 /\ row.round = r
        /\ row.height = head + 1 + drift
    BY <1>0, <1>3
  <2>2. drift \in -1 .. 1 /\ drift >= 2 - MinDepth
    BY BoundsAssumption, ChainAssumption
  <2> QED
    BY <1>2, <2>1, <2>2, DepthAssumption DEF Near
<1>7. \A x \in candidates' \ candidates : Near(x.height, x.round)'
  <2>1. \A x \in candidates' \ candidates : x = row
    BY <1>1
  <2> QED
    BY <1>6, <2>1
<1> QED
  BY <1>1, <1>2, <1>4, <1>5, <1>7, NodeKeepsChain

LEMMA NewBlockKeepsChain ==
  ASSUME Inv, ChainInv, NewBlock
  PROVE  ChainInv'
<1>1. /\ head' = head + 1 /\ head < MaxHead
      /\ UNCHANGED <<redis, pc, stage, search, misread>>
  BY DEF NewBlock
<1>2. head \in Int /\ head' \in Heights /\ head' >= head
  BY <1>1, BoundsAssumption DEF Inv
<1>3. \A q \in Rounds :
        \/ place'[q] = place[q]
        \/ /\ place[q].kind = "none" /\ place[q].real = head
           /\ place'[q] = [kind |-> "uncle", real |-> head, at |-> head + 1]
  <2>1. CASE UNCHANGED place
    BY <2>1
  <2>2. ASSUME NEW r \in Rounds, place[r].kind = "none", place[r].real = head,
               place' = [place EXCEPT ![r].kind = "uncle", ![r].at = head + 1]
        PROVE  \A q \in Rounds :
                \/ place'[q] = place[q]
                \/ /\ place[q].kind = "none" /\ place[q].real = head
                   /\ place'[q] = [kind |-> "uncle", real |-> head,
                                   at |-> head + 1]
    <3>1. place'[r] = [kind |-> "uncle", real |-> place[r].real,
                       at |-> head + 1]
      BY <2>2 DEF Inv, RowsInv
    <3>2. \A q \in Rounds \ {r} : place'[q] = place[q]
      BY <2>2 DEF Inv, RowsInv
    <3> QED
      BY <2>2, <3>1, <3>2
  <2> QED
    BY <2>1, <2>2 DEF NewBlock
<1>4. PlaceInv'
  <2> SUFFICES ASSUME NEW q \in Rounds
               PROVE  (/\ place[q].kind = "unknown" => place[q] = NotFound
                       /\ place[q].kind # "unknown" =>
                            /\ place[q].real <= head + 1
                            /\ place[q].at = IF place[q].kind = "uncle"
                                             THEN place[q].real + 1
                                             ELSE place[q].real)'
    BY DEF PlaceInv
  <2>1. CASE place'[q] = place[q]
    <3>1. place[q].real \in Int
      BY BoundsAssumption DEF Inv, RowsInv
    <3> QED
      BY <1>1, <1>2, <2>1, <3>1 DEF ChainInv, PlaceInv, NotFound
  <2>2. CASE place'[q] = [kind |-> "uncle", real |-> head, at |-> head + 1]
    BY <1>1, <1>2, <2>2
  <2> QED
    BY <1>3, <2>1, <2>2
<1>5. \A q \in Rounds : place[q] # NotFound =>
            /\ place'[q].real = place[q].real
            /\ Frozen(q) => place'[q] = place[q]
  BY <1>2, <1>3 DEF Frozen
<1>6. candidates' \ candidates = {}
  BY <1>1
<1> QED
  BY <1>1, <1>2, <1>4, <1>5, <1>6, NodeKeepsChain

LEMMA ReorgKeepsChain ==
  ASSUME Inv, ChainInv, NEW r \in Rounds, Reorg(r)
  PROVE  ChainInv'
<1>1. PICK kind \in {"none", "block", "uncle"} :
        place' = [place EXCEPT ![r].kind = kind, ![r].at =
                        IF kind = "uncle" THEN place[r].real + 1
                        ELSE place[r].real]
  BY DEF Reorg
<1>2. /\ head' = head /\ UNCHANGED <<redis, pc, stage, search, misread>>
      /\ place[r] # NotFound
      /\ place[r].real > head - ReorgLimit
  BY DEF Reorg
<1>3. head \in Int /\ head' \in Heights /\ head' >= head
  BY <1>2, BoundsAssumption DEF Inv
<1>4. /\ place'[r].kind = kind /\ place'[r].real = place[r].real
      /\ place'[r].at = IF kind = "uncle" THEN place[r].real + 1
                        ELSE place[r].real
      /\ \A q \in Rounds \ {r} : place'[q] = place[q]
  BY <1>1 DEF Inv, RowsInv
<1>5. place[r].kind # "unknown"
  BY <1>2 DEF ChainInv, PlaceInv
<1>6. PlaceInv'
  <2> SUFFICES ASSUME NEW q \in Rounds
               PROVE  (/\ place[q].kind = "unknown" => place[q] = NotFound
                       /\ place[q].kind # "unknown" =>
                            /\ place[q].real <= head + 1
                            /\ place[q].at = IF place[q].kind = "uncle"
                                             THEN place[q].real + 1
                                             ELSE place[q].real)'
    BY DEF PlaceInv
  <2>1. CASE q = r
    BY <1>2, <1>4, <1>5, <2>1 DEF ChainInv, PlaceInv
  <2>2. CASE q # r
    BY <1>2, <1>4, <2>2 DEF ChainInv, PlaceInv, NotFound
  <2> QED
    BY <2>1, <2>2
<1>7. ~Frozen(r)
  <2>1. place[r].real \in Int
    BY BoundsAssumption DEF Inv, RowsInv
  <2> QED
    BY <1>2, <1>3, <2>1, ChainAssumption DEF Frozen
<1>8. \A q \in Rounds : place[q] # NotFound =>
            /\ place'[q].real = place[q].real
            /\ Frozen(q) => place'[q] = place[q]
  BY <1>4, <1>7
<1>9. candidates' \ candidates = {}
  BY <1>2
<1> QED
  BY <1>2, <1>3, <1>6, <1>8, <1>9, NodeKeepsChain

-----------------------------------------------------------------------------
(* The theorem.                                                              *)

LEMMA InitChain == Init => ChainInv
<1> SUFFICES ASSUME Init PROVE ChainInv
  OBVIOUS
<1>1. PlaceInv
  BY DEF Init, PlaceInv, NotFound
<1>2. SearchSettled
  BY DEF Init, SearchSettled, FoundNear, SettledInv
<1>3. RowsNear /\ MaturedInv
  BY DEF Init, RowsNear, MaturedInv
<1>4. MoneyInv
  <2>1. \A f : SumFunctionOnSet(f, {}) = 0
    BY SumEmpty
  <2>2. matured = {} /\ credits = {} /\ balanceTotal = 0 /\ immatureTotal = 0
    BY DEF Init
  <2>3. Paid = 0 /\ Total(credits) = 0
    BY <2>1, <2>2 DEF Paid, Total, SumFunction
  <2> QED
    BY <2>2, <2>3, FS_EmptySet DEF MoneyInv
<1> QED
  BY <1>1, <1>2, <1>3, <1>4 DEF ChainInv, RedisSettled

LEMMA StutterKeepsChain ==
  ASSUME Inv, ChainInv, UNCHANGED vars
  PROVE  ChainInv'
<1>1. /\ UNCHANGED <<head, place, redis, pc, stage, search, misread>>
      /\ head \in Heights
  BY DEF vars, Inv
<1>2. PlaceInv'
  BY <1>1 DEF ChainInv, PlaceInv
<1>3. candidates' \ candidates = {}
  BY <1>1
<1>4. head' \in Heights /\ head' >= head
  BY <1>1, BoundsAssumption
<1> QED
  BY <1>1, <1>2, <1>3, <1>4, NodeKeepsChain

\* The process moves and the chain does not.
LEMMA ProcessKeepsChain ==
  ASSUME Inv, ChainInv, Processor \/ Restart \/ Crash
  PROVE  ChainInv'
<1>1. SearchSettled'
  BY ProcessSettles
<1>2. UNCHANGED <<head, place>> /\ misread \in BOOLEAN /\ RedisSettled
  BY DEF Processor, Start, Tick, Tip, Take, Scan, WriteCandidateOrphans,
         WriteImmatureOrphans, WriteFound, Restart, Crash, Die, ChainInv,
         Inv, ProcessInv, SearchType
<1>3. PlaceInv'
  BY <1>2 DEF ChainInv, PlaceInv
<1>4. RedisSettled'
  <2>1. CASE WriteCandidateOrphans
    BY <1>2, <2>1, WriteCandidateOrphansRedis
  <2>2. CASE WriteImmatureOrphans
    BY <2>2, WriteImmatureOrphansRedis
  <2>3. CASE WriteFound
    BY <2>3, WriteFoundRedis
  <2>4. CASE UNCHANGED <<redis, misread>>
    BY <1>2, <2>4, RedisSame
  <2> QED
    BY <2>1, <2>2, <2>3, <2>4
       DEF Processor, Start, Tick, Tip, Take, Scan, Restart, Crash, Die
<1> QED
  BY <1>1, <1>3, <1>4 DEF ChainInv

LEMMA NextKeepsChain ==
  ASSUME Inv, ChainInv, [Next]_vars
  PROVE  ChainInv'
<1>1. CASE UNCHANGED vars
  BY <1>1, StutterKeepsChain
<1>2. CASE Processor \/ Restart \/ Crash
  BY <1>2, ProcessKeepsChain
<1>3. CASE \E r \in Rounds, wins \in BOOLEAN, drift \in Drift :
              Find(r, wins, drift)
  BY <1>3, FindKeepsChain
<1>4. CASE NewBlock
  BY <1>4, NewBlockKeepsChain
<1>5. CASE \E r \in Rounds : Reorg(r)
  BY <1>5, ReorgKeepsChain
<1> QED
  BY <1>1, <1>2, <1>3, <1>4, <1>5 DEF Next

LEMMA ChainImplies == ChainInv => BalancesFollowChain
BY DEF ChainInv, RedisSettled, MaturedInv, MoneyInv, Paid, BalancesFollowChain

\* The miners' balances add up to what the chain pays for the settled rounds,
\* however often the chain reorganised between the two passes, and whatever
\* failed between two transactions; the immature fields add up to the logs
\* unless a read of a log failed.
THEOREM BalancesAreTheChains == Spec => []BalancesFollowChain
<1>1. Init => ChainInv
  BY InitChain
<1>2. Inv /\ ChainInv /\ [Next]_vars => ChainInv'
  BY NextKeepsChain
<1> QED
  BY <1>1, <1>2, InvHolds, ChainImplies, PTL DEF Spec
=============================================================================
