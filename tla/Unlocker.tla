------------------------------ MODULE Unlocker ------------------------------
(***************************************************************************)
(* The block unlocker (payouts/unlocker.go): it takes the candidates the   *)
(* stratum server wrote to Redis, looks for each on the node's chain, as a *)
(* block or as an uncle, credits it as immature, looks again when it is    *)
(* deep enough, and then credits the miners' balances or orphans it.       *)
(*                                                                         *)
(* The node's chain grows and reorganises between any two RPCs; Redis      *)
(* transactions and RPCs fail or lose their reply; the process crashes and *)
(* restarts.  A round is identified by its nonce, which is also its hash.  *)
(* Amounts are the totals over the miners of a round (Rewards.tla models   *)
(* how one reward is split).                                               *)
(***************************************************************************)
EXTENDS Integers, Functions

CONSTANTS
    Rounds,             \* the rounds: the solutions the pool finds
    MinDepth,           \* how far from its height a candidate is looked for
    ImmatureDepth,      \* config.ImmatureDepth
    Depth,              \* config.Depth
    BlockReward,        \* what the miners of a round get for a block
    UncleReward,        \* ... and for an uncle
    Drift,              \* recorded height of a candidate minus its real one
    ReorgLimit,         \* a reorganisation changes the last blocks only
    LastFind,           \* bound: the pool finds blocks up to this height
    MaxHead,            \* bound: the chain stops growing here
    MaxFaults           \* bound: failed calls and crashes

\* NewBlockUnlocker refuses smaller depths (lines 58-63).
ASSUME DepthAssumption ==
    /\ MinDepth \in Nat \ {0}
    /\ ImmatureDepth \in Nat /\ ImmatureDepth >= MinDepth
    /\ Depth \in Nat /\ Depth >= 2 * MinDepth

ASSUME BoundsAssumption ==
    /\ BlockReward \in Nat \ {0} /\ UncleReward \in Nat \ {0}
    /\ MaxHead \in Nat /\ LastFind \in Nat /\ LastFind <= MaxHead
    /\ Drift \subseteq -1 .. 1
    /\ MaxFaults \in Nat
    /\ Rounds # {}

\* The chain is settled at the depth where blocks mature, however far off a
\* recorded height is, and the search reaches an uncle's block.
ASSUME ChainAssumption ==
    /\ ReorgLimit \in Nat /\ ReorgLimit < Depth
    /\ MinDepth >= 2 /\ \A d \in Drift : d >= 2 - MinDepth

VARIABLES
    \* --- the node ---
    head,               \* height of the latest block
    place,              \* where each found solution is on the chain
    \* --- Redis ---
    candidates,         \* blocks:candidates
    immature,           \* blocks:immature
    matured,            \* blocks:matured
    roundKeys,          \* the keys shares:round<height>:<nonce>
    credits,            \* the hashes credits:immature:<height>:<hash>
    immatureTotal,      \* sum of the miners' immature fields
    balanceTotal,       \* sum of the miners' balance fields
    \* --- the process ---
    pc, stage, halt, lastFail,
    queue,              \* what is left of the candidates that were read
    cand, offset,       \* the candidate searched for, and the loop's i
    found, orphans,     \* result.maturedBlocks and result.orphanedBlocks
    \* --- history ---
    faults,             \* failed calls and crashes so far
    misread             \* a HGETALL of the immature credits failed

node == <<head, place>>
blocks == <<candidates, immature, matured>>
redis == <<blocks, roundKeys, credits, immatureTotal, balanceTotal>>
search == <<queue, cand, offset, found, orphans>>
vars == <<node, redis, pc, stage, halt, lastFail, search, faults, misread>>

Heights == 0 .. MaxHead + 1
NotFound == [kind |-> "unknown", real |-> 0, at |-> 0]

\* A row of blocks:candidates, blocks:immature or blocks:matured: height is
\* the score, hash says whether the row has the block's hash (or "0x0").
Row == [round : Rounds, height : Heights, hash : BOOLEAN, uncle : BOOLEAN,
        orphan : BOOLEAN]

\* A row that was read, with the height it was stored under: BlockData's
\* Height changes as the block is found, RoundHeight does not.
Loaded == [row : Row, height : Heights, uncle : BOOLEAN]
NoBlock == [row |-> [round |-> CHOOSE r \in Rounds : TRUE, height |-> 0,
                     hash |-> FALSE, uncle |-> FALSE, orphan |-> FALSE],
            height |-> 0, uncle |-> FALSE]

\* The depths keep the search below the head: no call ends with "wrong node
\* height" (line 128), which would suspend the unlocker.
TypeOK ==
    /\ head \in Heights
    /\ place \in [Rounds -> [kind : {"unknown", "none", "block", "uncle"},
                             real : Heights, at : Heights]]
    /\ candidates \subseteq Row /\ immature \subseteq Row
    /\ matured \subseteq Row
    /\ roundKeys \subseteq [round : Rounds, height : Heights]
    /\ credits \subseteq [round : Rounds, height : Heights,
                          amount : {0, BlockReward, UncleReward}]
    /\ immatureTotal \in Int
    /\ balanceTotal \in Int
    /\ pc \in {"down", "idle", "tip", "take", "scan", "orphans", "write"}
    /\ stage \in {"pending", "immature"}
    /\ halt \in BOOLEAN
    /\ lastFail \in {"none", "call"}
    /\ queue \subseteq Row
    /\ cand \in Loaded
    /\ offset \in -MinDepth .. MinDepth
    /\ found \subseteq [row : Row, height : Heights, uncle : BOOLEAN,
                        reward : {BlockReward, UncleReward}]
    /\ orphans \subseteq Row
    /\ faults \in 0 .. MaxFaults
    /\ misread \in BOOLEAN

Init ==
    /\ head = 0
    /\ place = [r \in Rounds |-> NotFound]
    /\ candidates = {} /\ immature = {} /\ matured = {}
    /\ roundKeys = {} /\ credits = {}
    /\ immatureTotal = 0 /\ balanceTotal = 0
    /\ pc = "down" /\ stage = "pending" /\ halt = FALSE /\ lastFail = "none"
    /\ queue = {} /\ cand = NoBlock /\ offset = 0 /\ found = {}
    /\ orphans = {}
    /\ faults = 0 /\ misread = FALSE

-----------------------------------------------------------------------------
(* The node and the stratum server.                                         *)

\* The pool finds a block at the next height; it extends the chain or loses
\* the race.  The stratum server records it (WriteBlock) under the height of
\* its own template, which may be off.
Find(r, wins, drift) ==
    /\ place[r] = NotFound
    /\ head < LastFind
    /\ LET real == head + 1
           height == real + drift
       IN  /\ place' = [place EXCEPT ![r] =
                            [kind |-> IF wins THEN "block" ELSE "none",
                             real |-> real, at |-> real]]
           /\ head' = IF wins THEN real ELSE head
           /\ candidates' = candidates \cup
                {[round |-> r, height |-> height, hash |-> FALSE,
                  uncle |-> FALSE, orphan |-> FALSE]}
           /\ roundKeys' = roundKeys \cup {[round |-> r, height |-> height]}
    /\ UNCHANGED <<immature, matured, credits, immatureTotal, balanceTotal,
                   pc, stage, halt, lastFail, search, faults, misread>>

\* The chain grows by a block that takes up to one lost block as an uncle.
NewBlock ==
    /\ head < MaxHead
    /\ head' = head + 1
    /\ \/ UNCHANGED place
       \/ \E r \in Rounds :
            /\ place[r].kind = "none"
            /\ place[r].real = head
            /\ place' = [place EXCEPT ![r].kind = "uncle", ![r].at = head + 1]
    /\ UNCHANGED <<redis, pc, stage, halt, lastFail, search, faults, misread>>

\* A block of the pool among the last ReorgLimit heights joins the chain,
\* leaves it or becomes the uncle of the next block.
Reorg(r) ==
    /\ place[r] # NotFound
    /\ place[r].real > head - ReorgLimit
    /\ place[r].real <= head
    /\ \E kind \in {"none", "block", "uncle"} :
        /\ kind # place[r].kind
        /\ kind = "block" =>
            \A q \in Rounds \ {r} : place[q].kind = "block" =>
                                        place[q].real # place[r].real
        /\ kind = "uncle" => place[r].real < head
        /\ place' = [place EXCEPT ![r].kind = kind, ![r].at =
                        IF kind = "uncle" THEN place[r].real + 1
                        ELSE place[r].real]
    /\ UNCHANGED <<head, redis, pc, stage, halt, lastFail, search, faults,
                   misread>>

-----------------------------------------------------------------------------
(* Redis.  Every Write... is one MULTI/EXEC (WriteMaturedBlock and           *)
(* WriteOrphan read the credits first).                                      *)

Height(row) == row.height
RoundKey(row) == [round |-> row.round, height |-> row.height]
CreditsAt(r, h) == {c \in credits : c.round = r /\ c.height = h}

\* The amount that a log holds, if there is one.
AmountIn(log) == IF log = {} THEN 0 ELSE (CHOOSE c \in log : TRUE).amount
Logged(row) == AmountIn(CreditsAt(row.round, row.height))

\* GetRoundShares: a round whose key is missing has no shares, and no rewards.
Rewards(f) == IF RoundKey(f.row) \in roundKeys THEN f.reward ELSE 0

\* The row under which block.key() is stored once the block was looked for.
Stored(f) == [round |-> f.row.round, height |-> f.height, hash |-> TRUE,
              uncle |-> f.uncle, orphan |-> FALSE]

\* Mutant: the round's key keeps the old height.
RenameRoundNever(f) == roundKeys

\* RENAME, which Redis does even when the new key exists.
RenameRound(f) ==
    IF f.height # f.row.height /\ RoundKey(f.row) \in roundKeys
    THEN (roundKeys \ {RoundKey(f.row)}) \cup
            {[round |-> f.row.round, height |-> f.height]}
    ELSE roundKeys

\* Mutant: the candidate stays in blocks:candidates.
WriteImmatureBlockKeepsCandidate(f) ==
    /\ UNCHANGED <<candidates, matured, balanceTotal>>
    /\ immature' = immature \cup {Stored(f)}
    /\ roundKeys' = RenameRound(f)
    /\ credits' = credits \cup {[round |-> f.row.round, height |-> f.height,
                                 amount |-> Rewards(f)]}
    /\ immatureTotal' = immatureTotal + Rewards(f)

\* The credits are written with HSETNX: an older entry stays.
WriteImmatureBlock(f) ==
    /\ candidates' = candidates \ {f.row}
    /\ immature' = immature \cup {Stored(f)}
    /\ roundKeys' = RenameRound(f)
    /\ credits' = IF CreditsAt(f.row.round, f.height) # {} THEN credits
                  ELSE credits \cup {[round |-> f.row.round,
                                      height |-> f.height,
                                      amount |-> Rewards(f)]}
    /\ immatureTotal' = immatureTotal + Rewards(f)
    /\ UNCHANGED <<matured, balanceTotal>>

\* The credit log of a row is dropped and its amounts are taken back, as far
\* as the HGETALL before the transaction returned them (lines 471 and 515:
\* its error is not looked at).
DropCredits(row, readable) ==
    /\ credits' = credits \ CreditsAt(row.round, row.height)
    /\ immatureTotal' = IF readable THEN immatureTotal - Logged(row)
                        ELSE immatureTotal

WriteMaturedBlock(f, readable) ==
    /\ roundKeys' = roundKeys \ {RoundKey(f.row)}
    /\ immature' = immature \ {f.row}
    /\ matured' = matured \cup {Stored(f)}
    /\ DropCredits(f.row, readable)
    /\ balanceTotal' = balanceTotal + Rewards(f)
    /\ UNCHANGED candidates

\* Mutant: the credit log of an orphan is not deleted.
WriteOrphanKeepsLog(row, readable) ==
    /\ roundKeys' = roundKeys \ {RoundKey(row)}
    /\ immature' = immature \ {row}
    /\ matured' = matured \cup {[row EXCEPT !.orphan = TRUE]}
    /\ immatureTotal' = immatureTotal - Logged(row)
    /\ UNCHANGED <<candidates, credits, balanceTotal>>

WriteOrphan(row, readable) ==
    /\ roundKeys' = roundKeys \ {RoundKey(row)}
    /\ immature' = immature \ {row}
    /\ matured' = matured \cup {[row EXCEPT !.orphan = TRUE]}
    /\ DropCredits(row, readable)
    /\ UNCHANGED <<candidates, balanceTotal>>

\* Mutant: an orphan among the candidates gets no second look.
WritePendingOrphansAtOnce(rows) ==
    /\ candidates' = candidates \ rows
    /\ matured' = matured \cup {[row EXCEPT !.orphan = TRUE] : row \in rows}
    /\ roundKeys' = roundKeys \ {RoundKey(row) : row \in rows}
    /\ UNCHANGED <<immature, credits, immatureTotal, balanceTotal>>

\* An orphan among the candidates waits among the immature blocks.
WritePendingOrphans(rows) ==
    /\ candidates' = candidates \ rows
    /\ immature' = immature \cup {[row EXCEPT !.orphan = TRUE] : row \in rows}
    /\ UNCHANGED <<matured, roundKeys, credits, immatureTotal, balanceTotal>>

-----------------------------------------------------------------------------
(* The unlocker.                                                            *)

Forget ==
    /\ queue' = {} /\ cand' = NoBlock /\ offset' = 0
    /\ found' = {} /\ orphans' = {}

\* A remote call is done or not and its reply arrives or not; every error
\* suspends the unlocker until it is restarted (u.halt).
Outcomes == {o \in [done : BOOLEAN, ok : BOOLEAN] :
                /\ o.ok => o.done
                /\ o.ok \/ faults < MaxFaults}
Count(o) == faults' = IF o.ok THEN faults ELSE faults + 1

Halt(why) ==
    /\ halt' = TRUE
    /\ lastFail' = why
    /\ pc' = "idle"
    /\ UNCHANGED stage
    /\ Forget

Start ==
    /\ pc = "down"
    /\ pc' = "tip"
    /\ stage' = "pending"
    /\ UNCHANGED <<node, redis, halt, lastFail, search, faults, misread>>

Tick ==
    /\ pc = "idle"
    /\ ~halt
    /\ pc' = "tip"
    /\ stage' = "pending"
    /\ UNCHANGED <<node, redis, halt, lastFail, search, faults, misread>>

\* Mutant: the second of the two passes is not run.
NextStageStops == pc' = "idle" /\ UNCHANGED stage

\* unlockPendingBlocks returned: unlockAndCreditMiners is next, then the timer.
NextStage ==
    IF stage = "pending" THEN pc' = "tip" /\ stage' = "immature"
    ELSE pc' = "idle" /\ UNCHANGED stage

\* Mutant: the confirmations that candidates need are not subtracted.
GetCandidatesAtTip == candidates

GetCandidates == {c \in candidates : Height(c) <= head - ImmatureDepth}

\* Mutant: immature blocks mature with the depth of the candidates.
GetImmatureBlocksEarly ==
    {b \in immature : Height(b) <= head - ImmatureDepth}

GetImmatureBlocks == {b \in immature : Height(b) <= head - Depth}

\* GetLatestBlock, then the rows that are deep enough: a row that is added in
\* between is above the head that was read.
Tip ==
    /\ pc = "tip"
    /\ \E o \in Outcomes :
        /\ Count(o)
        /\ IF o.ok
           THEN /\ queue' = IF stage = "pending" THEN GetCandidates
                            ELSE GetImmatureBlocks
                /\ IF queue' = {} THEN NextStage
                   ELSE pc' = "take" /\ UNCHANGED stage
                /\ UNCHANGED <<halt, lastFail, cand, offset, found, orphans>>
           ELSE Halt("call")
    /\ UNCHANGED <<node, redis, misread>>

\* The next candidate, lowest height first.
Take ==
    /\ pc = "take"
    /\ IF queue = {}
       THEN pc' = "orphans" /\ UNCHANGED <<queue, cand, offset>>
       ELSE \E row \in queue :
                /\ \A other \in queue : Height(row) <= Height(other)
                /\ queue' = queue \ {row}
                /\ cand' = [row |-> row, height |-> row.height,
                            uncle |-> row.uncle]
                /\ offset' = -MinDepth
                /\ pc' = "scan"
    /\ UNCHANGED <<node, redis, stage, halt, lastFail, found, orphans, faults,
                   misread>>

\* The candidate is the block at height h, or an uncle in it.
IsBlock(r, h) == place[r].kind = "block" /\ place[r].real = h
IsUncle(r, h) == place[r].kind = "uncle" /\ place[r].at = h

LastOffset == MinDepth - 1

\* handleBlock leaves the uncle height alone, which the row was read with.
HandleBlock(h) ==
    [row |-> cand.row, height |-> h, uncle |-> cand.uncle,
     reward |-> BlockReward]

HandleUncle(h) ==
    [row |-> cand.row, height |-> h, uncle |-> TRUE, reward |-> UncleReward]

\* One turn of the loop over the heights around the candidate's: the node is
\* asked for the block and for its uncles.
Scan ==
    /\ pc = "scan"
    /\ \E o \in Outcomes :
        LET h == cand.row.height + offset
            r == cand.row.round
        IN  IF h < 0
            THEN /\ o.ok
                 /\ offset' = offset + 1
                 /\ UNCHANGED <<pc, stage, halt, lastFail, queue, cand, found,
                                orphans, faults>>
            ELSE /\ Count(o)
                 /\ IF ~o.ok THEN Halt("call")
                    ELSE IF h > head THEN Halt("height")
                    ELSE /\ UNCHANGED <<stage, halt, lastFail, queue, cand>>
                         /\ \/ /\ IsBlock(r, h) \/ IsUncle(r, h)
                               /\ found' = found \cup
                                    {IF IsBlock(r, h) THEN HandleBlock(h)
                                     ELSE HandleUncle(h)}
                               /\ pc' = "take"
                               /\ UNCHANGED <<offset, orphans>>
                            \/ /\ ~IsBlock(r, h) /\ ~IsUncle(r, h)
                               /\ offset' = offset + 1
                               /\ UNCHANGED found
                               /\ IF offset = LastOffset
                                  THEN /\ orphans' = orphans \cup {cand.row}
                                       /\ pc' = "take"
                                  ELSE UNCHANGED <<orphans, pc>>
    /\ UNCHANGED <<node, redis, misread>>

\* unlockPendingBlocks writes its orphans at once.
WriteCandidateOrphans ==
    /\ pc = "orphans" /\ stage = "pending"
    /\ \E o \in Outcomes :
        /\ Count(o)
        /\ IF o.done THEN WritePendingOrphans(orphans) ELSE UNCHANGED redis
        /\ IF o.ok
           THEN /\ pc' = "write"
                /\ orphans' = {}
                /\ UNCHANGED <<stage, halt, lastFail, queue, cand, offset,
                               found>>
           ELSE Halt("call")
    /\ UNCHANGED <<node, misread>>

\* unlockAndCreditMiners writes them one by one.
WriteImmatureOrphans ==
    /\ pc = "orphans" /\ stage = "immature"
    /\ IF orphans = {}
       THEN /\ pc' = "write"
            /\ UNCHANGED <<redis, stage, halt, lastFail, search, faults,
                           misread>>
       ELSE \E row \in orphans, o \in Outcomes, readable \in BOOLEAN :
            /\ readable \/ (o.done /\ faults < MaxFaults)
            /\ misread' = (misread \/ ~readable)
            /\ faults' = IF o.ok /\ readable THEN faults ELSE faults + 1
            /\ IF o.done THEN WriteOrphan(row, readable) ELSE UNCHANGED redis
            /\ IF o.ok
               THEN /\ orphans' = orphans \ {row}
                    /\ UNCHANGED <<pc, stage, halt, lastFail, queue, cand,
                                   offset, found>>
               ELSE Halt("call")
    /\ UNCHANGED node

\* The blocks and uncles that were found.  A failing GetRoundShares is a call
\* that is not done; a failing WATCH panics (redis.go:468), which is a Crash.
WriteFound ==
    /\ pc = "write"
    /\ IF found = {}
       THEN /\ NextStage
            /\ UNCHANGED <<redis, halt, lastFail, search, faults, misread>>
       ELSE \E f \in found, o \in Outcomes, readable \in BOOLEAN :
            /\ readable \/ (o.done /\ stage = "immature" /\ faults < MaxFaults)
            /\ misread' = (misread \/ ~readable)
            /\ faults' = IF o.ok /\ readable THEN faults ELSE faults + 1
            /\ \/ ~o.done /\ UNCHANGED redis
               \/ o.done /\ stage = "pending" /\ WriteImmatureBlock(f)
               \/ o.done /\ stage = "immature" /\
                    WriteMaturedBlock(f, readable)
            /\ IF o.ok
               THEN /\ found' = found \ {f}
                    /\ UNCHANGED <<pc, stage, halt, lastFail, queue, cand,
                                   offset, orphans>>
               ELSE Halt("call")
    /\ UNCHANGED node

Die ==
    /\ pc' = "down"
    /\ stage' = "pending" /\ halt' = FALSE /\ lastFail' = "none"
    /\ Forget
    /\ UNCHANGED <<node, redis, misread>>

\* The operator restarts an unlocker that suspended itself.
Restart == pc = "idle" /\ halt /\ Die /\ UNCHANGED faults

Crash ==
    /\ pc # "down"
    /\ faults < MaxFaults
    /\ faults' = faults + 1
    /\ Die

Processor ==
    \/ Start \/ Tick \/ Tip \/ Take \/ Scan
    \/ WriteCandidateOrphans \/ WriteImmatureOrphans \/ WriteFound

Next ==
    \/ Processor
    \/ Restart
    \/ Crash
    \/ \E r \in Rounds, wins \in BOOLEAN, drift \in Drift :
            Find(r, wins, drift)
    \/ NewBlock
    \/ \E r \in Rounds : Reorg(r)

Spec == Init /\ [][Next]_vars

(* Fairness: the goroutine keeps running, a suspended unlocker is restarted  *)
(* sooner or later, and the chain grows.                                     *)
Fairness == WF_vars(Processor) /\ WF_vars(Restart) /\ WF_vars(NewBlock)

FairSpec == Spec /\ Fairness

-----------------------------------------------------------------------------
(* Safety.                                                                   *)

Rows == candidates \cup immature \cup matured

\* Every solution the stratum server recorded is in exactly one of the three
\* lists, once, whatever fails between two writes: no round is dropped, and
\* none is unlocked twice.
ExactlyOnePlace ==
    /\ \A r \in Rounds : place[r] # NotFound <=> \E row \in Rows : row.round = r
    /\ \A x, y \in Rows : x.round = y.round => x = y
    /\ candidates \cap immature = {}
    /\ candidates \cap matured = {}
    /\ immature \cap matured = {}

\* The shares of a round that is not settled are under the height its row says
\* (a RENAME follows each correction of the height), and are gone afterwards.
SharesFollowRow ==
    roundKeys = {RoundKey(row) : row \in candidates \cup immature}

\* Every immature block that is not an orphan has its credit log under the key
\* that will be read to take the credits back, and nothing else has one.
ImmatureIsLogged ==
    /\ {RoundKey(c) : c \in credits} =
            {RoundKey(row) : row \in {b \in immature : ~b.orphan}}
    /\ \A c, d \in credits : c.round = d.round => c = d

Total(set) == SumFunction([c \in set |-> c.amount])

\* What the chain pays for a round once it is settled.
ChainPays(r) == CASE place[r].kind = "block" -> BlockReward
                  [] place[r].kind = "uncle" -> UncleReward
                  [] OTHER -> 0

\* The miners' balances got what the chain pays for the settled rounds, in the
\* end, whatever it looked like when they were first unlocked; their immature
\* fields add up to the logs, unless a read of a log failed.
BalancesFollowChain ==
    /\ balanceTotal = SumFunction([row \in matured |-> ChainPays(row.round)])
    /\ \A row \in matured : row.orphan <=> place[row.round].kind = "none"
    /\ ~misread => immatureTotal = Total(credits)

\* The rounds as the miners see them.
LogOf(r) == {c \in credits : c.round = r}
Of(rows) == {row.round : row \in rows}

Ledger == INSTANCE RoundLedger WITH
    Amounts <- {BlockReward, UncleReward},
    status <- [r \in Rounds |->
                CASE r \in Of(candidates) -> "candidate"
                  [] r \in Of(immature) -> "immature"
                  [] r \in Of(matured) -> "settled"
                  [] OTHER -> "none"],
    expected <- [r \in Rounds |-> AmountIn(LogOf(r))],
    balance <- balanceTotal

LedgerSpec == Ledger!Spec

\* "Must decrement immatures using existing log entry" (redis.go:470).
ImmatureFollowsLog == immatureTotal = Total(credits)

(* Liveness.                                                                 *)

\* Every solution is settled in the end: as a block, an uncle or an orphan.
EveryRoundSettled ==
    \A r \in Rounds :
        place[r] # NotFound ~> \E row \in matured : row.round = r
=============================================================================
