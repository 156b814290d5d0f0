# HayekPool in TLA+

HayekPool is a mining pool for an Ethereum-like chain with a double-SHA256 proof
of work: a stratum server for the miners, a block unlocker and a payouts
processor for their money, and an API, all in one Go program over one Redis.
This directory models the parts of it that keep state, model-checks them with
TLC and proves every safety property of the passing runs with TLAPS. `PROJECT.json` maps every
definition to the lines it is translated from.

## 1. The system

`src/main.go` starts each enabled part in goroutines of its own; a deployment
may also run the parts in several processes. **The parts never call each other.
They share nothing but Redis**, and each has its own RPC clients to the nodes.

| Part | State | Operations | What is hard | What makes it correct |
|---|---|---|---|---|
| Stratum: templates, sessions, jobs (`stratum/`) | current template (atomic pointer), sessions, per session: last height, jobs | refresh timer, login, getjob, submit, broadcast to every session, disconnect | one goroutine per connection and one per push; loads, swaps and stores without a lock around them | a session gets the job of every template broadcast to it (but for mining.authorize); a template is never replaced by an older one (`stratum_fresh` shows that it is) |
| Share accounting (`stratum/handlers.go`, `miner.go`, `storage/redis.go`) | nonces seen by a job, Redis `pow`, `shares:roundCurrent`, `shares:round*`, `blocks:candidates` | WriteShare, WriteBlock, SubmitBlock | three or four remote calls per share, of many clients, each of which may fail | what the duplicate check takes for one share is counted once, and ends in one round; a block the node took becomes a candidate |
| Block unlocker (`payouts/unlocker.go`) | candidates, immature, matured; credit logs; miners' immature and balance | every tick: unlock pending, credit immature, credit matured | reorganisations between two RPCs, lost replies, crash between two writes, halt | every round is settled once, and balances end up as the chain pays |
| Rewards (`payouts/unlocker.go`, `unlocker_getConstReward.go`) | none of its own | reward of a block and an uncle, fee, donation, split by shares, rounding | thresholds of heights, rounding of each amount | nothing but rounding makes or loses money |
| Payouts processor (`payouts/payer.go`) | miners' balance, pending, paid; `finances`; `payments:*`; the process's `halt` | process, resolvePayouts (RESOLVE_PAYOUT=1), start check | two systems without a common transaction; crash or lost reply at every call; an operator in the loop | no money made, lost or paid twice; no miner left out |
| Statistics and API (`api/server.go`, `storage/redis.go`) | hashrate sets with expiry, statistics, cache of accounts | collect, purge, AccountIndex | several clocks, purge and expiry while reading | a report is right for the moment it was read |
| Upstreams (`rpc/rpc.go`, `stratum/stratum.go`) | failure counters of each client, node in use | doPost, Check, checkUpstreams | the checker and other callers mark the same client | the first node that stays up is used in the end |
| Adaptive difficulty (`stratum/miner.go`) | difficulty of a session, time of its last adjustment, submit count | updateDifficulty before each job, processShare | atomic fields read and written one by one by several goroutines; a share is judged later than its job was made | no job or share meets the difficulty 0 of a new session; a share within the target of its job is accepted |
| Targets (`dsha256/`, `stratum/difficulty.go`, `util/util.go`) | none | compact targets, CheckHashDifficulty, GetTargetHex | products in two words, carries, sign bit, byte order | the check is exact at every boundary |
| Policy server (`policy/`) | bans, scores, accept limits | accept, apply policies, ban | | dead code: the field and the calls are commented out (`stratum.go:40`); out |
| Miners map (`stratum/mmap.go`) | sharded map | Get, Set, Remove | | each operation is under a shard's lock; taken as atomic |
| Stratum statistics page (`stratum/api.go`) | none | read-only | | no route serves it; out |
| Configuration, messages, utilities, `common/` | none | parsing and formatting | | out; values of the configuration are CONSTANTS |

How the parts meet in Redis: the stratum server adds to `shares:roundCurrent`
and, on a block, renames it to the round's key and adds a candidate (`Shares`).
The unlocker takes candidates, finds them on the chain and credits miners
(`Unlocker`), each by the amounts of `Rewards`. The payouts processor moves
balances to pending and paid (`Payouts`). In each module the neighbours are
actions of the environment: `Find` in `Unlocker` is what the stratum server
writes, `Credit` in `Payouts` is what the unlocker writes, at any time.

## 2. Modules

| Module | Models | Steps |
|---|---|---|
| `PaymentLedger` | abstract: what a miner may rely on. `owed` grows by credits, and a payment moves part of it to `paid` | one per event |
| `Payouts` | `payer.go` with the Redis transactions it calls | one per remote call: done, failed, or done with the reply lost |
| `PayoutsProofs` | theorems about `Payouts` | |
| `RoundLedger` | abstract: a round is mined, looked at, settled once; only settling it changes a balance | one per event |
| `Unlocker` | `unlocker.go` with its Redis transactions, and a chain that grows and reorganises | one per remote call |
| `UnlockerProofs` | theorems about `Unlocker`, and that it implements `RoundLedger` | |
| `Rewards` | `handleBlock`, `handleUncle`, `calculateRewards`, `getConstReward` | one per share, block, credit |
| `RewardsProofs` | theorems about `Rewards` | |
| `Shares` | `handleSubmitRPC`, `processShare`, WriteShare, WriteBlock | one per remote call and per client |
| `SharesProofs` | theorems about `Shares` | |
| `Stratum` | `fetchBlockTemplate`, login, getjob, `broadcastNewJobs`, jobs of a session | one per access to shared memory or write to a socket |
| `StratumProofs` | theorems about `Stratum` and `Upstreams`, the two modules of the stratum server | |
| `Targets` | operators: `mul128`, `CheckHashDifficulty`, `DiffToTarget`, `GetCompact`, `SetCompact`, `GetTargetHex` | |
| `Difficulty` | `updateDifficulty`, jobs and the verdict on a share, with the operators of `Targets` | one per atomic load or store |
| `DifficultyProofs` | theorems about `Targets` and `Difficulty` | |
| `Stats` | hashrate sets, CollectStats, CollectWorkersStats, FlushStaleStats, AccountIndex | one per call to Redis |
| `StatsProofs` | theorems about `Stats` | |
| `Upstreams` | `doPost`'s marks, Check, `checkUpstreams`, callers of `s.rpc()` | one per call or section under a mutex |
| `Sums` | lemmas about the sums (`SumFunction`) by which the models add up what Redis keeps per miner, round or share | |
| `MC...` | give the modules above model values and symmetry for TLC | |

### Conventions

* MULTI/EXEC is atomic. A single Redis command or RPC is a step. What a
  goroutine does with its own variables between two calls belongs to the step
  before it. Every failing call appears where the code looks at (or ignores)
  its error.
* Variables keep the names of the fields and keys they stand for. Those below
  `--- history ---` are not in the code; no guard reads them except the bounds.
* A crash clears the variables of a process and keeps those of Redis and of
  the node.
* A definition called a `Mutant` in its comment is not part of a specification: it
  is the definition behind it with a plausible mistake, there to show that a
  property notices it (`PROJECT.json`, "mutants"). No run uses one.

### Correspondence, module by module

**Payouts.** `pc` is the call `process()` is about to make. `Start` is
`PayoutsProcessor.Start` with its look at pending payments and the lock, `Tick`
the timer, `NextPayee` the loop head with `GetBalance` and `reachedThreshold`,
`ChecksPass`/`ChecksFail` the peers, unlocked account and pool balance, then
`Lock`, `Debit`, `Send`, `Record`, `Await` in the order of the source.
`StartResolve`, `Rollback` and `Unlock` are a run with RESOLVE_PAYOUT=1.
`careless` remembers that an operator ran it although the transaction had been
sent; the comment at `payer.go:176` asks to look first. The lock is the set of
values its key holds.

**Unlocker.** The loop's `i` is `offset`; `found` and `orphans` are the result of
`unlockCandidates`. A round is named by its nonce, so a row has a height that
changes and a round that does not, as `BlockData.Height` and `RoundHeight` do.
Money is the total of a round. Under the mapping to `RoundLedger` the status of a
round is the list its row is in, `expected` the sum in its credit log and `balance` all
that was credited.

**Rewards.** Amounts are integers over a named denominator, as `big.Rat` is
exact; every credit is rounded on its own, as `calculateRewardsForShares` does.

**Shares.** `handler[c].pc` is the next call of a client's goroutine. A share is
bound to the height whose template it is valid for, and it is the *text*
nonce:header:result, the member of the sorted set `pow`. Several texts may name one proof
of work (`WorkOf`): only the low 32 bits of the nonce are hashed, and the result of a
submission with a seed keeps the letter case the miner gave it. The node knows a block by
its proof of work, Redis a share by its text, a job by the nonce (`NonceOf`) in it. uint64
arithmetic is modulo `Wrap`, which stands for 2^64.

**Stratum.** A template stands for its height. `Refresh` stores a template, loads the
template again and broadcasts it; `Starter` is the goroutine of the first refresh, which
only stores. `Deliver` is a push goroutine between swap, append and send, `Serve` the
goroutine of a connection. mining.authorize runs the login and drops its reply
(`DiscardJob`): the session has the job, the miner has not (`discarded`).

**Targets.** A hash has four words, as in the code, of a few digits each: `Byte`,
`WordLen` and `Half` stand for 256, 8 and 2^32. `Power[n]` is a shift by n bytes; shifts and
masks are `\div` and `%`, and sums that the code keeps in 64 bits are taken modulo `Word`.

**Difficulty.** `thread[t].pc` is the next access of a goroutine in
`updateDifficulty` to the atomic fields of the session, between its swap of the
height and its job; `Connection` is the goroutine of the connection, which also
judges shares. `Verdict` is `processShare` with the difficulty of that moment: that
difficulty is in the header it hashes again, and in the check of the hash. A header is
known by its bits, the compact target in it, as the rest is the same for every header of a
job; the hash of another header is another one, and the share is refused. A share has the
bits its miner hashed: those of the blob (`BlobBits`, of the template's difficulty itself),
or those that belong to the target of its job (`HeaderBits`). `panic` is Go's division by
zero. A job keeps the difficulty it was sent with.

**Stats.** A hash rate is the set of shares it sums up. Scores are seconds, the
clock ticks are milliseconds: `Second` ticks make a second. The goroutine of the API reads
(`CollectStats`), converts with a clock of its own (`ConvertStats`, the end of CollectStats
in the code), asks for the luck and stores the report (`StoreStats`). `accounts` are the keys
`miners:<login>`, which shares and credits create (`Credit`).

**Upstreams.** `MarkedSick` and `MarkedAlive` are the sections under the client's
mutex. `sickRate` is only compared with its limit, and stays there instead of
growing.

## 3. What the runs check

Every run below ends in about a minute, `stratum` with its liveness in about three. A passing run reaches its whole
bounded state space.

| Run | States | Question |
|---|---|---|
| `payouts` | 39 180 | does any mix of failed calls, lost replies, crashes, restarts, credits and RESOLVE_PAYOUT runs make, lose or double money, or starve a payee? Also: `Payouts` implements `PaymentLedger` (`LedgerSpec`) |
| `unlocker` | 426 020 | is every round settled exactly once, with the money the final chain pays? Also: `Unlocker` implements `RoundLedger` (`LedgerSpec`) |
| `rewards` | 338 179 | do credits follow the revenue for every split, height and configuration? |
| `shares` | 1 447 915 | is every text counted once and kept in one round, and every block recorded? |
| `stratum` | 707 279 | does the height a session remembers always have its job, and does every registered session get a job for each broadcast template, unless mining.authorize took it? |
| `difficulty` | 715 861 | is every verdict on a share exact, and is what a job asks for accepted, whatever happens between the job and the share? |
| `stats` | 2 138 076 | are reports right while sets are purged, expire and grow? |
| `upstreams` | 105 282 | does the server end up on the right node, and does a sick client recover by checks in a row only? |

The following runs show where the code does something else than it says. Each is
expected to end in a counterexample, and is described under "findings" in
`PROJECT.json`:

* `payouts_resolve`: `resolvePayouts` calls `UnlockPayouts` only when it found
  pending payments to roll back. A lock without a pending entry (the process
  stopped between `LockPayouts` and `UpdateBalance`) stays, and the last line
  reports "Payouts unlocked" all the same.
* `unlocker_credits`: `WriteMaturedBlock` and `WriteOrphan` ignore the error of
  the HGETALL of the immature credits; the log is deleted and the immature
  balance stays for good. The passing run's `BalancesFollowChain` excludes
  exactly that case by `misread`.
* `stratum_fresh`: the check "No need to update, we have fresh job" and the store
  are two steps of several goroutines; the older template may stay.
* `difficulty_race`: when two goroutines prepare the first job of a session under
  adaptive difficulty, one may find the time stored and the difficulty still 0
  (`miner.go:97-99`), and `GetTargetHex` divides by it. The passing run's
  `DifficultyIsSet` excludes exactly that by `alone`.

Other observations made while reading, which no run is about:

* the duplicate check promises a triple of nonce, hash and mix
  ("(nonce, powHash, mixDigest) pair exist", `redis.go:174`) and compares texts. The same
  triple with its result in the other letter case, or with another upper half of its
  nonce, is counted again. `CountedOnce` is about texts; `again` in `shares` is such a text;
* below height 8 `height-8` wraps around (`redis.go:164`), the sweep removes every text,
  and a share of the current block is counted again over another session. With
  `FirstHeight = 0` in `shares.cfg` TLC finds `CountedOnce` violated; the theorem is about
  heights above;
* mining.authorize drops the job of the login it makes (`stratum.go:408`), but
  `lastBlockHeight` says that the session has it, so a broadcast of that height brings it
  an empty job. `BroadcastArrives` excludes exactly that by `discarded`;
* the blob of a job names `GetCompact` of the template's difficulty (`blocks.go:71`), and
  `processShare` hashes a header with the compact *target* of the session's difficulty
  (`miner.go:323`). A miner that hashes the blob it was sent is told "Low difficulty
  share" whatever its hash. `Verdict` keeps this, and `JobTargetHonoured` is about
  shares of the other header;
* the share check reads a hash as a little-endian number, as the comment at
  `difficulty.go:49` has it; the block check reads the same bytes as a big-endian one
  (`miner.go:359`), and the swapped copy made at lines 334-340 is never used. `IsBlock`
  keeps this;
* a block first unlocked as an uncle keeps its `UncleHeight` when it joins the main chain
  later, and is counted as an uncle in the statistics (`redis.go:66`);
* "Job not ready", the answer for a missing template, is also given when a
  broadcast has the session's job first (`handlers.go:44-50`), and the connection
  is closed;
* shares counted between the load and the reset of the submit count are forgotten
  (`miner.go:94-98`); the model keeps this, no property is about it;
* the block check takes the difficulty of the session (`miner.go:367`) and not that of
  the template; the model keeps this, too;
* a transaction that is never mined keeps the receipt loop, and all later payouts, waiting
  (`payer.go:197`); a restart during the wait forgets the hash. `Payouts` assumes that what
  was sent is mined, so no run is about either;
* the comment at `unlocker_getConstReward.go:21` names a factor of 0.7 where `reduceRate`
  is 0.5; a failing `IsMinerExists` answers 404, as `exist` is looked at before `err`
  (`server.go:260`); the session's login is the whole `address.worker`
  (`handlers.go:45`); miners are kept by worker id alone (`handlers.go:36`), which only
  mixes counters that are shown; `blockStats` is never written; `dsha256.Dsha256`, which
  `miner.go:325` calls, is not in the repository.

### Bounds and why they are enough

* `payouts`: two logins, credits of 1 and 2, threshold 1, 3 earned at most, so
  that one login is paid twice, or two in turn, with balances that change between
  read and debit. Faults and crashes are *not* bounded: every call may fail every
  time.
* `unlocker`: two rounds, one of which may be the uncle of the other's height;
  depths 2, 2 and 4 for minDepth, ImmatureDepth and Depth, the least that
  `NewBlockUnlocker` accepts for a minDepth of 2 (16 in the code); drift of one height,
  reorganisations of three blocks, two failed calls or crashes, which is enough for
  a fault in the recovery from a fault.
* `rewards`: heights to 7 cross two halvings (step 2, last period at 5); 5 Wei to
  a Shannon give every kind of remainder; two rounds, so that rounding errors
  could add up.
* `shares`: two clients, four texts of three proofs of work, two of which are blocks (one
  of them has two texts), three heights with a backlog of one, one fault or crash. A
  duplicate needs two submissions, and a RENAME under the feet of another client two
  clients. `MaxLag` ends a handler before the chain moves on further: a handler takes
  milliseconds.
* `stratum`: one session with two fetchers and two push goroutines: sessions meet
  only in the template, which the fetchers already change at any time. A session
  keeps `MaxJobs` = 3 for the code's 4; two heights, three goroutines for a
  session at most.
* `difficulty`: bytes of two bits and words of two bytes, so that a product carries
  through every word and words full of ones occur; static ports with hashes at, and one
  past, every boundary of four difficulties (1 and the greatest word among them),
  forwards for the share check and reversed for the block check; one adaptive port with
  the range 4 to 10, in which 1.3 and 0.7 lead to the limits and to values between
  them; one push goroutine, as two would only repeat what one does to the connection;
  four seconds with a wait of one, one share between adjustments; three templates, of the
  greatest difficulty of the adaptive port, of one below its range and of one above.
* `stats`: ticks of one second, clock to 5, windows 2 and 4, expiry 4, so that shares
  leave both windows and keys expire; two rigs of one account, which may also be there by
  a credit; two shares.
* `upstreams`: two nodes that change at any time, limits 3 and 2 for 5 and 5, one
  other caller, one RPC error of a healthy node.

Deadlock checking is off where a bound on time, height or rounds ends behaviours
(`rewards`, `stats`, `shares`, `difficulty`), or where the program does wait for ever: a halted
payouts processor waits for its operator, and all sessions may stay silent.
It is on in `unlocker` and `upstreams`.

### Fairness

* `Payouts`: the goroutine keeps running (WF of each of its steps); a sent
  transaction is mined at some time, which the receipt loop of `payer.go:196` waits
  for; and a call that is repeated for ever is not answered with a failure each
  time (SF of reading a balance and of the checks before a payment). A crash is never
  required not to happen, nor is an operator required to act: `PayeesServed` ends
  with a halt or a stop.
* `Unlocker`: its goroutine runs, a halted one is restarted, the chain grows.
  Without the restart a single error stops it, which `halt` documents.
* `Stratum`: goroutines that can run do. Clients and nodes owe nothing.
* `Upstreams`: the checker runs: its timer is reset after each round and calls end
  by the client's timeout. Nodes may flap for ever; `FollowsHealth` speaks of those
  that settle.
* `Shares`, `Rewards`, `Difficulty` and `Stats` state safety only.

## 4. What is proved

All the invariants and action properties of the passing runs, and both refinements, for
every value of the constants. Liveness is not (see the end of this section).

**Sums.** Five modules add up what Redis keeps: a total over logins, the entries of a
list, the shares of a round, the bytes of a hash. The prover cannot use the library's
induction theorems, whose hypothesis is a predicate. `Sums` states the induction for a
*set* instead: on the subsets of a finite set strict inclusion is well founded, so a set
of them that contains every subset whose proper subsets it contains is all of them
(`SubsetInduction`, `ElementInduction`, `UpToInduction` for `0 .. n`). From that follow
what a sum is with one element more (`SumInsert`) or one value changed (`SumIncrement`,
`SumExcept`), and that sums add, scale, compare and are integers. Everything below that is
"for any number of" miners, rounds or bytes rests on these.

`PayoutsProofs` proves, for every finite set `Logins`, every `Threshold` in Nat, every set of
positive `Credits` (the three assumptions of `Payouts`) and every bound:

| Theorem | Property |
|---|---|
| `TypeCorrect` | `TypeOK` |
| `MoneyConserved` | `Conservation`: balance + pending + paid = earned, nothing negative |
| `PaidMeansSent` | `PaidWasSent` |
| `NeverPaidTwice` | `NoDoublePay`, with a careful operator |
| `WrittenAhead` | `WriteAhead`: lock and pending entry are there before money leaves |
| `OnePaymentAtATime` | `OneAtATime`: the previous transaction is mined |
| `RoundsStartClean` | `StartsClean` |
| `PendingHasItsEntry` | `PendingIsListed`: whoever has a pending amount has its entry in `payments:pending` |
| `BooksAlwaysAgree` | `BooksAgree`: the pool's `finances` are the sums over the miners, and `paid` is that of the entries of `payments:all` |
| `ImplementsLedger` | `LedgerSpec`: `Payouts` implements `PaymentLedger` |

The argument: `Conservation` is not inductive. That `WritePayment` takes from
`pending` only what is there rests on the entry in `payments:pending` being the
loop's own; that rests on the lock and on where the loop is. `Inv` therefore says
what the loop knows of Redis at each step (`LoopInv`), that whoever has a pending
amount has its single, locked entry (`Listed`), how far the node is ahead of the
books (`SentInv`), and that the loop's last hash is mined once it moves on
(`HashInv`). Each action has a lemma that it keeps `Inv`; the action properties
and the refinement follow from `Inv` and from the one action that sends
(`OnlySendSends`) or pays (`RecordPays`). Under the mapping, `owed` is balance +
pending, so that a debit and its rollback are stutters.

`BooksAgree` becomes inductive with one fact about hashes (`BooksInv`): `payments:all` is a
set, so an entry with the hash of an earlier one would be absorbed and the total would
still grow. The hash that is about to be recorded is new because the node counts its
transactions and the loop records one before it sends the next.

`UnlockerProofs` proves, for any rounds, rewards, depths that `NewBlockUnlocker` accepts,
and any bounds:

| Theorem | Property |
|---|---|
| `TypeCorrect` | `TypeOK`: with it, a search never looks above the head |
| `EveryRoundInOnePlace` | `ExactlyOnePlace` |
| `SharesStayWithRow` | `SharesFollowRow` |
| `CreditsStayWithRow` | `ImmatureIsLogged` |
| `BalancesAreTheChains` | `BalancesFollowChain`: matured rows and balances are what the final chain pays |
| `ImplementsLedger` | `LedgerSpec`: `Unlocker` implements `RoundLedger` |

That a round has one row is not inductive: a row that is moved must still be where
the unlocker read it, and no other part of the search may hold it too. `SearchInv` says
that queue, candidate, found and orphans are disjoint parts of the list they were read
from, `PhaseInv` where each is empty, and `DepthInv` that what is searched for is deep
enough below the head, which reorganisations keep true. The refinement follows from the
invariant and one lemma for each transaction: it moves one row, with its shares and
its log, or (orphans) several.

`BalancesFollowChain` rests on `ChainInv`. The unlocker trusts two searches that each may
be wrong when they are made: a match credits the round, no match among the heights around
it orphans the block. Both are right in the end because what the second pass looks at is
too deep to change (`SettledInv`: whatever it has found is on the chain as it was found, and what it
has given up on is on no chain), and because the heights it asks for include the one where
the block is, or the next, where it is an uncle (`PlaceInv`, `RowsNear`, `FoundNear`).
`MaturedInv` and `MoneyInv` add that what is matured was settled so, and that the totals
are the sums of the rows and of the credit logs. It assumes (`ChainAssumption`) that no
reorganisation is as deep as `Depth`, where rows mature (the code's own premise; nothing
looks at a matured block again), that `MinDepth` is at least 2 (16 in the code), and that
a recorded height is off by at most one, and never so low that the search, which starts
`MinDepth` below it, misses the block.

`SharesProofs` proves, for any finite numbers of clients and shares (a nonce has 64 bits),
any blocks and faults:

| Theorem | Property |
|---|---|
| `TypeCorrect` | `TypeOK`, whose totals are sums over the clients of a round |
| `CountedSharesKept` | `SharesKept`: every counted share is in the current round or in one closed round, and `roundShares` is the current round's sum |
| `AcceptedBlocksRecorded` | `BlocksRecorded` |
| `CandidatesHaveTheirRound` | `CandidatesNameRounds` |
| `SharesCountedOnce` | `CountedOnce`: no text is counted twice, assuming `BacklogSuffices` |

The invariant follows a block: the node takes it once, so one handler at most is past
the node with it, and what that handler has not written yet is nowhere in Redis
(`NotWrittenYet`); what was accepted, or whose round was closed, has its candidate, a
handler that goes on to write it, or was given up after a failure
(`NothingForgotten`). `CountedOnce`
needs that the text of a share is still there when it comes again:
`BacklogSuffices` says that handlers lag behind the chain by no more than the backlog,
that heights are above it (below it the subtraction wraps around) and do not wrap. It says
nothing of a second text of the same proof of work, which the code counts; the node, though,
takes a block once whatever its text. `WorkAssumption` says that two texts of one proof of work are of one
height and both blocks or neither, and that no nonce makes blocks of two headers of
one height.
`SharesKept` needs `NotWrittenYet` as well: a RENAME over the key of a round that was
closed before would drop its shares, and a round's name is new because its block is. Its
part about totals is `BooksInv`, a sum of sums over the rounds.

`RewardsProofs` proves, for any finite sets of miners and pool addresses, any fee and
donation up to the whole, any Shannon, schedule, transaction fees, uncles and shares:

| Theorem | Property |
|---|---|
| `TypeCorrect` | `TypeOK`: no balance or reward is negative |
| `CreditsAreTheRevenue` | `CreditsFollowRevenue`: the credits differ from the revenue by rounding only, half a Shannon for each amount |
| `MinersAreOwedTheirPart` | `MinersGetTheirPart`: so do the miners' from the revenue less the pool's fee; an uncle is worth something, and less than the block that includes it, across a halving too |

Each amount is rounded on its own, so a bound on a total is inductive only when it counts
the amounts: `Follows(a, d, c)` says that `a` Shannon are the exact sum `d` but for half a
Shannon for each of `c` amounts. It holds for one rounded amount, adds up
(`FollowsAdds`), and holds for all shares of a round at once because their exact parts
are the whole (`SharesPart`, a sum over the miners). That an uncle is worth something needs
that the reward, halved `HeightMax \div HeightStep` times, is still 8 Wei:
`ScheduleAssumption`, true of the code's 10^21 Wei and 26 halvings; with less, the
code's integer division would give an uncle nothing.

`StratumProofs` proves, for any sessions, templates, fetchers and goroutines:

| Theorem | Property |
|---|---|
| `TypeCorrect` | `TypeOK` |
| `LastHeightKeepsItsJob` | `LastHeightHasJob`, assuming `JobsSuffice` |
| `BroadcastsAreOnTheirWay` | `DueIsOnItsWay`: a template broadcast to a session and not offered yet has a goroutine that will push its job, or mining.authorize has discarded the job |

The job for the height a session remembers could be pushed out of the list by late
jobs for other heights. The invariant counts: the jobs after it in the list, and the
goroutines that are still to append one (`Behind`), together are fewer than a session
keeps (`Kept`), until somebody is about to append it. `JobsSuffice` bounds the goroutines
that push at a time: three for the four jobs the code keeps.

`DueIsOnItsWay` is what `BroadcastArrives` rests on, without the fairness. A goroutine that
finds its height already there pushes nothing, so the invariant adds why it may: the height
a session remembers is offered or was discarded, or somebody has swapped it in and is about
to push it (`Provided`). It needs no bound on the goroutines. No run lists it: it is the
safety half of `BroadcastArrives`, which the run `stratum` checks.

The same module proves about `Upstreams` (its definitions have the prefix `Upstreams`
where both modules have the name), for any number of nodes and callers and any two rates:

| Theorem | Property |
|---|---|
| `UpstreamsTypeCorrect` | `UpstreamsTypeOK`, in which the flag of a client is its counter |
| `RecoversAfterChecksInARow` | `WellAfterChecksInARow` |

The invariant adds that `successRate` is at most the number of checks since the last
failure; the lemmas `MarkedSickOK` and `MarkedAliveOK` say what one mark does to one
client, and every step is a mark of one client or of none.

`DifficultyProofs` proves about `Targets`, for bytes, words and hashes of every width:

| Theorem | What it says |
|---|---|
| `Mul128IsExact` | `mul128` returns the two words of the product |
| `CheckIsExact` | the chain of carries in `CheckHashDifficulty` decides whether four words times a difficulty fit in four words |
| `CheckOfHash` | so it does for the number that the bytes of the hash stand for |
| `JobTargetPasses` | a hash within the four bytes of target a job is sent with passes the check by its difficulty |
| `CompactTarget` | `SetCompact` undoes `GetCompact` but for less than one part in `Precision`, and downwards; the sign bit of the mantissa is never set |

The number of a hash is a sum over its bytes, which splits where the words do
(`LittleEndianSplits`, from `Sums`); a number of n bytes is below `Power[n]`.

and about `Difficulty`, for any ports, clocks, templates and number of push goroutines:

| Theorem | Property |
|---|---|
| `TypeCorrect` | `TypeOK`, in which a difficulty is unset or in the port's range |
| `FirstJobHasDifficulty` | `DifficultyIsSet` |
| `VerdictsExact` | `VerdictsAreExact` |
| `JobTargetsHonoured` | `JobTargetHonoured` |

The invariant says what a goroutine in `updateDifficulty` knows of the session
(`KnowsInv`): that somebody prepared a job before, or that it sets the difficulty
itself; that the difficulty is set whenever the connection is out of it (`FirstIsSet`);
and that a time without a difficulty has somebody about to store it (`WillBeSet`).

`JobTargetHonoured` needs more, as the difficulty is a field that any goroutine may change
between a job and its share, and with it the header and the bound that the share is judged by. It is
about miners that hash a header with the bits of their job's target; what becomes of those that
hash the blob is among the observations of section 3. A job that was prepared alone, for the template of now, leaves the
session *quiet* (`Quiet`, `QuietInv`): `lastBlockHeight` is the template's, so whoever has
loaded this template since will stop at the swap, before the difficulty. When a job or a
share is not for the current template, nothing is claimed, and a new template makes
all of them such (`PastInv`). That
`lastBlockHeight` is the job's own height is `SwappedInv`, which rests on `KnowsInv`:
whoever is alone has nobody else between swap and job.

`StatsProofs` proves, for any rigs, accounts, windows in order, and length of a second:

| Theorem | Property |
|---|---|
| `TypeCorrect` | `TypeOK` |
| `NoShareLostFromWindows` | `WindowsKept` |
| `CachedAccountsAreFresh` | `AccountsFresh` |
| `ReportsAreRight` | `ReportsRight`: what is stored is right for one moment since it was read, when the small window is smaller than the large one |

A key outlives its last share by `Expiration`, and the bound the purge computed before
its scan only gets older (`TimeInv`); the rest is arithmetic of seconds and
milliseconds (`SecMonotone`, `SecAfter`). `ReportsRight` adds `ReadInv`: what was read and is
still to be converted is what had been written, but for what had left the window by then;
and that what was converted is right for a moment since the reading (`RightAt`), which it
stays while the call for the luck takes its time.
The small window has
to be shorter than the large one, as in the documentation's example (30 minutes and three
hours): with windows of one length a key expires within the second in which its last share
leaves the small window, and the current hash rate misses that share.

Only model-checked:

* every liveness property: `PayeesServed`, `EveryRoundSettled`, `BroadcastArrives`,
  `FollowsHealth`. Fairness and ENABLED are out of the prover's reach. What is proved
  are safety properties beside them: a payment that is under way has its entry, a round
  keeps its row, shares and log, a broadcast has a goroutine that will push its job, and
  a recovering upstream needs checks in a row;
* the counterexamples of the four runs that expect one.

No module declares a RECURSIVE operator; `Power`, `PowerOfTwo` and the sums are recursive
functions.

## 5. What is not modelled

* Several payouts processors, or unlockers, over one Redis: the documentation
  enables each in one process. Two would pay the same balance twice.
* Worker ids, the accept limit, and the mining.* requests other than authorize; a login in
  another spelling than the lower case of the API and of the fee address.
* The policy server, which nothing starts; `CheckProofOfWork`, `HashDifficulty` and
  `Uint256`, which nothing calls.
* The statistics of miners kept in memory, luck, node states, the lists of blocks
  and payments: they are shown and never read back by a decision.
* The hash function, formats, conversions and log messages.
* Redis losing acknowledged writes.
* `PROJECT.json` lists the components with the reasons, and the hazards that no
  property covers with a note.

## 6. Plan

Done, in the order of what a mistake costs: `PaymentLedger` and `Payouts`,
`RoundLedger` and `Unlocker`, `Shares`, `Stratum`, `Targets` and `Difficulty`, `Rewards`,
`Stats`, `Upstreams`, and the proofs about all of them. Next:

1. Proofs of safety properties that the liveness ones rest on, as `DueIsOnItsWay` is for
   `Stratum`: that a stuck payout has its pending entry or its halt (`Payouts`); that a job
   of a session is for a template that was current.
2. A composition of `Shares`, `Unlocker` and `Payouts` at the level of their abstract
   specifications: what was mined is paid.
3. Sessions of several logins and worker ids in `Stratum`: the login with its worker,
   the shared `Miner`, the accept limit, the mining.* requests.
