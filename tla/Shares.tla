------------------------------- MODULE Shares -------------------------------
(***************************************************************************)
(* How a submitted share is counted: handleSubmitRPC (stratum/handlers.go) *)
(* and processShare (stratum/miner.go) on the server, WriteShare and       *)
(* WriteBlock (storage/redis.go) on Redis, SubmitBlock on the node.        *)
(*                                                                         *)
(* One goroutine per client; every remote call is a step of its own, so    *)
(* that calls of several clients, new templates, failures and a crash of   *)
(* the server fall between any two of them.                                *)
(*                                                                         *)
(* A share is the text nonce:header:result that Redis knows it by; it is   *)
(* valid against the template of one height, and every share has           *)
(* difficulty 1.  One proof of work has many texts: only the low half of   *)
(* the nonce goes into the hash, and with a seed the result is kept as the *)
(* miner wrote it, in either letter case.  Shares that fail the hash or    *)
(* the difficulty check change nothing and are left out.                   *)
(***************************************************************************)
EXTENDS Integers, FiniteSets, Functions

CONSTANTS
    Clients,            \* the clients, each logged in with its own login
    ShareIds,           \* the shares that may be submitted
    Nonces,             \* the 64 bits that a share names as its nonce
    Works,              \* proofs of work: a header and the bits it hashes
    NonceOf,            \* the nonce of a share
    WorkOf,             \* the proof of work a share is a text of
    Blocks,             \* those within the target of the client's difficulty
    HeightOf,           \* the height of the template a share is valid for
    FirstHeight,        \* height of the first template
    LastHeight,         \* bound: height of the last template
    PowBacklog,         \* checkPoWExist keeps that many heights (8)
    Wrap,               \* uint64 arithmetic is modulo this number (2^64)
    MaxLag,             \* a handler ends before the chain moves further
    MaxFaults           \* bound: failed calls and crashes

ASSUME SharesAssumption ==
    /\ Blocks \subseteq ShareIds
    /\ HeightOf \in [ShareIds -> Nat]
    /\ ShareIds # {}
    /\ FirstHeight \in Nat /\ LastHeight \in Nat /\ FirstHeight <= LastHeight
    /\ PowBacklog \in Nat /\ Wrap \in Nat \ {0}
    /\ MaxLag \in Nat /\ MaxFaults \in Nat
    /\ NonceOf \in [ShareIds -> Nonces] /\ WorkOf \in [ShareIds -> Works]

\* What a share is worth is in its proof of work.  No nonce makes blocks of
\* two headers of one height: each would be a stroke of luck.
ASSUME WorkAssumption ==
    /\ \A s, t \in ShareIds : WorkOf[s] = WorkOf[t] =>
            HeightOf[s] = HeightOf[t] /\ (s \in Blocks <=> t \in Blocks)
    /\ \A s, t \in Blocks :
            NonceOf[s] = NonceOf[t] /\ HeightOf[s] = HeightOf[t] =>
                WorkOf[s] = WorkOf[t]

\* Connections are finitely many, and so are shares: a nonce has 64 bits
\* (noncePattern64Bit), the header of a job and the hash of both have 256.
ASSUME FiniteAssumption == IsFiniteSet(Clients) /\ IsFiniteSet(ShareIds)

VARIABLES
    \* --- the server ---
    height,             \* Height of the current block template
    submissions,        \* the nonces a client's jobs have seen, by job
    handler,            \* the client's goroutine and its locals
    \* --- the node ---
    accepted,           \* the blocks the node accepted
    \* --- Redis ---
    pow,                \* the sorted set pow
    roundCurrent,       \* the hash shares:roundCurrent
    roundShares,        \* the field roundShares of stats
    rounds,             \* the hashes shares:round<height>:<nonce>
    candidates,         \* blocks:candidates
    \* --- history ---
    counted,            \* how often a share was counted
    unwritten,          \* shares whose handling ended in a failed call
    faults              \* failed calls and crashes so far

redis == <<pow, roundCurrent, roundShares, rounds, candidates>>
vars == <<height, submissions, handler, accepted, redis, counted, unwritten,
          faults>>

Heights == FirstHeight .. LastHeight
Share(c) == handler[c].share
NoShares == [c \in Clients |-> 0]

\* What Job.submit remembers: a session has one job for a height.
Submission(s) == [nonce |-> NonceOf[s], height |-> HeightOf[s]]
Submissions == [nonce : Nonces, height : Nat]

\* A handler: the step it is at, the share it handles, t.Height of the
\* template it loaded and WriteBlock's totalShares.
Handler == [pc : {"idle", "check", "node", "sweep", "pow", "exec",
                  "candidate"},
            share : ShareIds, height : Heights, total : Nat]
Idle == [pc |-> "idle", share |-> CHOOSE s \in ShareIds : TRUE,
         height |-> FirstHeight, total |-> 0]

TypeOK ==
    /\ height \in Heights
    /\ submissions \in [Clients -> SUBSET Submissions]
    /\ handler \in [Clients -> Handler]
    /\ accepted \subseteq Blocks
    /\ pow \subseteq [share : ShareIds, height : Heights]
    /\ roundCurrent \in [Clients -> Nat]
    /\ roundShares \in Nat
    /\ rounds \subseteq [share : Blocks, height : Heights,
                         shares : [Clients -> Nat]]
    /\ candidates \subseteq [share : Blocks, height : Heights, total : Nat]
    /\ counted \in [ShareIds -> Nat]
    /\ unwritten \subseteq ShareIds
    /\ faults \in 0 .. MaxFaults

Init ==
    /\ height = FirstHeight
    /\ submissions = [c \in Clients |-> {}]
    /\ handler = [c \in Clients |-> Idle]
    /\ accepted = {}
    /\ pow = {} /\ roundCurrent = NoShares /\ roundShares = 0
    /\ rounds = {} /\ candidates = {}
    /\ counted = [s \in ShareIds |-> 0]
    /\ unwritten = {}
    /\ faults = 0

-----------------------------------------------------------------------------
(* Redis.                                                                    *)

\* The lowest height that the sweep keeps: a uint64 subtraction.
SweepFloor(h) == (h - PowBacklog) % Wrap

\* writeShare; the hash is created on the first share of a round.
WriteShare(c) ==
    /\ roundCurrent' = [roundCurrent EXCEPT ![c] = @ + 1]
    /\ roundShares' = roundShares + 1
    /\ UNCHANGED <<rounds, candidates>>

\* Mutant: the finder's own share is counted but not written.
ClosedRoundWithoutFinder(c) == roundCurrent

\* The round with the finder's own share.
ClosedRound(c) == [roundCurrent EXCEPT ![c] = @ + 1]

\* Mutant: the total is taken before the finder's own share is added.
TotalSharesOld(c) == SumFunction(roundCurrent)

\* The sum of the round's hash, read in the same transaction.
TotalShares(c) == SumFunction(ClosedRound(c))

\* RENAME overwrites a hash of that name: the height and the nonce.  The share
\* that closed a round is history.
Rename(c) ==
    {r \in rounds : \/ NonceOf[r.share] # NonceOf[Share(c)]
                    \/ r.height # handler[c].height} \cup
        {[share |-> Share(c), height |-> handler[c].height,
          shares |-> ClosedRound(c)]}

\* Mutant: the counter is lowered by the round's total.
WriteBlockLowersCounter(c) ==
    /\ rounds' = Rename(c)
    /\ roundCurrent' = NoShares
    /\ roundShares' = roundShares - TotalShares(c)
    /\ UNCHANGED candidates

\* The finder's share, then the current round becomes the block's.
WriteBlock(c) ==
    /\ rounds' = Rename(c)
    /\ roundCurrent' = NoShares
    /\ roundShares' = 0
    /\ UNCHANGED candidates

-----------------------------------------------------------------------------
(* The handler of one client.                                                *)

\* A remote call is done or not and its reply arrives or not.
Outcomes == {o \in [done : BOOLEAN, ok : BOOLEAN] :
                /\ o.ok => o.done
                /\ o.ok \/ faults < MaxFaults}

Count(c, o) ==
    /\ faults' = IF o.ok THEN faults ELSE faults + 1
    /\ unwritten' = IF o.ok THEN unwritten ELSE unwritten \cup {Share(c)}

At(c, step) == handler[c].pc = step
Goto(c, step) ==
    handler' = [handler EXCEPT ![c] = IF step = "idle" THEN Idle
                                      ELSE [@ EXCEPT !.pc = step]]

\* Job.submit: a nonce that the job has seen is answered at once.
Submit(c, s) ==
    /\ At(c, "idle")
    /\ Submission(s) \notin submissions[c]
    /\ submissions' = [submissions EXCEPT ![c] = @ \cup {Submission(s)}]
    /\ handler' = [handler EXCEPT ![c].pc = "check", ![c].share = s]
    /\ UNCHANGED <<height, accepted, redis, counted, unwritten,
                   faults>>

\* processShare up to its first call: a share whose result is the hash of the
\* header and which has the client's difficulty goes to the node first when it
\* is within the target, and otherwise to WriteShare at once.
FirstCall(s) == IF s \in Blocks THEN "node" ELSE "sweep"

\* The share is for the current template, or "Block expired".
Check(c) ==
    /\ At(c, "check")
    /\ IF HeightOf[Share(c)] = height
       THEN handler' = [handler EXCEPT
                ![c].height = height, ![c].pc = FirstCall(Share(c))]
       ELSE Goto(c, "idle")
    /\ UNCHANGED <<height, submissions, accepted, redis, counted, unwritten,
                   faults>>

\* The node has the proof of work of a block already.
Known(s) == \E t \in accepted : WorkOf[t] = WorkOf[s]

\* Mutant: a block that the node rejected is written like an accepted one.
SubmitBlockIgnoresReply(c) ==
    /\ At(c, "node")
    /\ \E o \in Outcomes, accepts \in BOOLEAN :
        /\ accepts => o.done /\ ~Known(Share(c))
        /\ accepted' = IF accepts THEN accepted \cup {Share(c)} ELSE accepted
        /\ Count(c, o)
        /\ Goto(c, "sweep")
    /\ UNCHANGED <<height, submissions, redis, counted>>

\* The node accepts a block once, whatever its text, or rejects it.  When the
\* call fails nothing is written, whatever the node did (miner.go:370).
SubmitBlock(c) ==
    /\ At(c, "node")
    /\ \E o \in Outcomes, accepts \in BOOLEAN :
        /\ accepts => o.done /\ ~Known(Share(c))
        /\ accepted' = IF accepts THEN accepted \cup {Share(c)} ELSE accepted
        /\ Count(c, o)
        /\ Goto(c, IF o.ok /\ accepts THEN "sweep" ELSE "idle")
    /\ UNCHANGED <<height, submissions, redis, counted>>

\* ZREMRANGEBYSCORE, whose error is ignored.
SweepPow(c) ==
    /\ At(c, "sweep")
    /\ \E done \in BOOLEAN :
        /\ done \/ faults < MaxFaults
        /\ faults' = IF done THEN faults ELSE faults + 1
        /\ pow' = IF done
                  THEN {e \in pow : e.height >= SweepFloor(handler[c].height)}
                  ELSE pow
    /\ Goto(c, "pow")
    /\ UNCHANGED <<height, submissions, accepted,
                   roundCurrent, roundShares, rounds, candidates, counted,
                   unwritten>>

\* Mutant: the result of ZADD is not looked at.
CheckPoWExistIgnored(c) ==
    /\ At(c, "pow")
    /\ \E o \in Outcomes :
        /\ Count(c, o)
        /\ pow' = IF o.done THEN pow \cup {[share |-> Share(c),
                                            height |-> handler[c].height]}
                  ELSE pow
        /\ Goto(c, IF o.ok THEN "exec" ELSE "idle")
    /\ UNCHANGED <<height, submissions, accepted,
                   roundCurrent, roundShares, rounds, candidates, counted>>

\* ZADD of the text: 0 when it is there already.
CheckPoWExist(c) ==
    /\ At(c, "pow")
    /\ \E o \in Outcomes :
        LET e == [share |-> Share(c), height |-> handler[c].height]
        IN  /\ Count(c, o)
            /\ pow' = IF o.done THEN pow \cup {e} ELSE pow
            /\ Goto(c, IF o.ok /\ e \notin pow THEN "exec" ELSE "idle")
    /\ UNCHANGED <<height, submissions, accepted,
                   roundCurrent, roundShares, rounds, candidates, counted>>

\* The MULTI/EXEC of WriteShare or WriteBlock.
Exec(c) ==
    /\ At(c, "exec")
    /\ \E o \in Outcomes :
        /\ Count(c, o)
        /\ IF ~o.done
           THEN UNCHANGED <<roundCurrent, roundShares, rounds, candidates,
                            counted>>
           ELSE /\ counted' = [counted EXCEPT ![Share(c)] = @ + 1]
                /\ IF Share(c) \in Blocks THEN WriteBlock(c) ELSE WriteShare(c)
        /\ IF o.ok /\ Share(c) \in Blocks
           THEN handler' = [handler EXCEPT ![c].pc = "candidate",
                                           ![c].total = TotalShares(c)]
           ELSE Goto(c, "idle")
    /\ UNCHANGED <<height, submissions, accepted, pow>>

\* ZADD of the candidate, after the round was closed.
AddCandidate(c) ==
    /\ At(c, "candidate")
    /\ \E o \in Outcomes :
        /\ Count(c, o)
        /\ candidates' = IF o.done
                         THEN candidates \cup {[share |-> Share(c),
                                                height |-> handler[c].height,
                                                total |-> handler[c].total]}
                         ELSE candidates
    /\ Goto(c, "idle")
    /\ UNCHANGED <<height, submissions, accepted,
                   pow, roundCurrent, roundShares, rounds, counted>>

-----------------------------------------------------------------------------
(* The rest of the world.                                                    *)

\* The client connects again: its new jobs have seen no nonce.
Reconnect(c) ==
    /\ At(c, "idle")
    /\ submissions[c] # {}
    /\ submissions' = [submissions EXCEPT ![c] = {}]
    /\ UNCHANGED <<height, handler, accepted, redis, counted, unwritten,
                   faults>>

\* A new block template, one or more heights up, not so far that a handler
\* that is under way lags more than MaxLag behind.
NewTemplate ==
    /\ \E h \in height + 1 .. LastHeight :
        /\ \A c \in Clients : ~At(c, "idle") =>
                h <= HeightOf[Share(c)] + MaxLag
        /\ height' = h
    /\ UNCHANGED <<submissions, handler, accepted, redis, counted, unwritten,
                   faults>>

\* The server dies and all its clients connect again.
Crash ==
    /\ faults < MaxFaults
    /\ faults' = faults + 1
    /\ \E c \in Clients : ~At(c, "idle")
    /\ unwritten' = unwritten \cup
                        {Share(c) : c \in {d \in Clients : ~At(d, "idle")}}
    /\ handler' = [c \in Clients |-> Idle]
    /\ submissions' = [c \in Clients |-> {}]
    /\ UNCHANGED <<height, accepted, redis, counted>>

Next ==
    \/ \E c \in Clients :
        \/ \E s \in ShareIds : Submit(c, s)
        \/ Check(c) \/ SubmitBlock(c) \/ SweepPow(c) \/ CheckPoWExist(c)
        \/ Exec(c) \/ AddCandidate(c) \/ Reconnect(c)
    \/ NewTemplate
    \/ Crash

Spec == Init /\ [][Next]_vars

-----------------------------------------------------------------------------
(* Safety.                                                                   *)

\* A text is counted at most once, whoever submits it how often and on whatever
\* connection, as long as the sweep leaves its height alone.  That is all that
\* checkPoWExist does, although its comment (redis.go:174) speaks of a pair of
\* nonce and hash: a proof of work is counted once for each of its texts.
CountedOnce == \A s \in ShareIds : counted[s] <= 1

\* Every share that was counted is in the current round or in exactly one
\* closed round: no RENAME overwrites an earlier round.  The luck statistic of
\* the round under way counts the shares of that round.
SharesKept ==
    /\ SumFunction(counted) =
        SumFunction(roundCurrent) +
        SumFunction([r \in rounds |-> SumFunction(r.shares)])
    /\ roundShares = SumFunction(roundCurrent)

\* A candidate names a closed round and the sum of that round's shares, by
\* which calculateRewardsForShares divides; a closed round has its candidate
\* unless the call that adds it failed.
CandidatesNameRounds ==
    /\ \A b \in candidates : \E r \in rounds :
        /\ r.share = b.share /\ r.height = b.height
        /\ b.total = SumFunction(r.shares)
    /\ \A r \in rounds :
        \/ \E b \in candidates : b.share = r.share /\ b.height = r.height
        \/ \E c \in Clients : At(c, "candidate") /\ Share(c) = r.share
        \/ r.share \in unwritten

\* The pool unlocks exactly the blocks that the node took: a candidate was
\* accepted, and an accepted block becomes a candidate unless a call failed.
BlocksRecorded ==
    /\ \A b \in candidates : b.share \in accepted
    /\ \A s \in accepted :
        \/ \E b \in candidates : b.share = s
        \/ \E c \in Clients : Share(c) = s /\ ~At(c, "idle")
        \/ s \in unwritten
=============================================================================
