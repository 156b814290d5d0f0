----------------------------- MODULE Difficulty -----------------------------
(***************************************************************************)
(* The difficulty of a session (stratum/miner.go): updateDifficulty before *)
(* each job, the target the job is sent with, and the verdict of           *)
(* processShare on a share.                                                *)
(*                                                                         *)
(* The fields are read and written by the goroutine of the connection      *)
(* (login, getjob, submit) and by the goroutines that push new jobs        *)
(* (getNewJob); a step is one atomic access.  A miner hashes a header that  *)
(* names a target in compact form, its bits; processShare hashes the       *)
(* header again, with the bits it takes to be right, and finds the result  *)
(* of the share when they are the miner's (there are no collisions).       *)
(* Shares.tla tells how an accepted share is counted, Stratum.tla where    *)
(* jobs come from.                                                         *)
(***************************************************************************)
EXTENDS Targets

CONSTANTS
    Pushes,             \* bound: push goroutines of the session
    Configs,            \* the configurations of a port
    MinWait,            \* seconds between two adjustments (30)
    SubmitRate,         \* shares expected per second, a fraction
    HashesFor,          \* the hashes that miners of a configuration find
    TemplateDiff,       \* the difficulty of the node's target, per height
    LastTime,           \* bound: the clock
    LastHeight,         \* bound: the templates
    MaxSubmits          \* bound: shares between two adjustments

Connection == "connection"
Threads == {Connection} \cup Pushes

\* setDifficulty ends the process when StartDifficulty > Difficulty, and
\* NewEndpoint divides by Difficulty.
ASSUME DifficultyAssumption ==
    /\ \A c \in Configs : /\ c.adaptive \in BOOLEAN
                          /\ c.start \in Nat \ {0} /\ c.max \in Nat \ {0}
                          /\ c.adaptive => c.start <= c.max
                          /\ c.max < Word
    /\ MinWait \in Nat \ {0}
    /\ SubmitRate.num \in Nat /\ SubmitRate.den \in Nat \ {0}
    /\ \A adaptive \in BOOLEAN : HashesFor[adaptive] \subseteq Hashes
    /\ LastTime \in Nat \ {0} /\ LastHeight \in Nat \ {0}
    /\ TemplateDiff \in [1 .. LastHeight -> 1 .. MaxTarget]
    /\ MaxSubmits \in Nat /\ Connection \notin Pushes

VARIABLES
    config,             \* AdaptiveDifficultyEnabled, StartDifficulty, Difficulty
    now,                \* time.Now().Unix(); 0 is before the server started
    template,           \* the height of the current template
    \* --- the session ---
    registered,         \* a broadcast reaches it
    lastBlockHeight, lastDifficulty, lastJobUnixTime, submitCount,
    jobs,               \* validJobs, those for the current template or later
    \* --- its goroutines ---
    thread,             \* where each is, and its locals
    share               \* the share submitted, and processShare's verdict on it

session == <<registered, lastBlockHeight, lastDifficulty, lastJobUnixTime,
             submitCount, jobs>>
vars == <<config, now, template, session, thread, share>>

\* diff: the difficulty whose target the job was sent with; 0 for a push,
\* which sends none.
\* alone (history): no other goroutine of the session was in getJob or
\* getNewJob from this one's load of the template to its job.
Job == [height : 1 .. LastHeight, diff : 0 .. config.max, alone : BOOLEAN]

Locals == [pc : {"idle", "swap", "diff", "time", "count", "setTime",
                 "setCount", "setDiff", "job", "verdict", "add", "reply",
                 "panic"},
           height : 0 .. LastHeight, diff : Nat, since : 0 .. LastTime,
           alone : BOOLEAN]
Idle == [pc |-> "idle", height |-> 0, diff |-> 0, since |-> 0, alone |-> TRUE]

\* The share that processShare is at: its hash, the bits of the header it is
\* of, and its job's height and difficulty.
Share == [verdict : {"none", "checked", "low", "share", "block"},
          diff : 0 .. Word - 1, height : 0 .. LastHeight, hash : Hashes,
          bits : [size : Nat, mantissa : Nat],
          jobDiff : 0 .. config.max, alone : BOOLEAN]
NoShare == [verdict |-> "none", diff |-> 1, height |-> 0,
            hash |-> [n \in 1 .. HashLen |-> 0],
            bits |-> [size |-> 0, mantissa |-> 0],
            jobDiff |-> 0, alone |-> FALSE]

TypeOK ==
    /\ config \in Configs
    /\ now \in 1 .. LastTime
    /\ template \in 1 .. LastHeight
    /\ registered \in BOOLEAN
    /\ lastBlockHeight \in 0 .. LastHeight
    /\ lastDifficulty \in {0} \cup config.start .. config.max
    /\ lastJobUnixTime \in 0 .. LastTime
    /\ submitCount \in 0 .. MaxSubmits
    /\ jobs \subseteq Job
    /\ thread \in [Threads -> Locals]
    /\ share \in Share

Init ==
    /\ config \in Configs
    /\ now = 1 /\ template = 1
    /\ registered = FALSE
    /\ lastBlockHeight = 0 /\ lastDifficulty = 0 /\ lastJobUnixTime = 0
    /\ submitCount = 0 /\ jobs = {}
    /\ thread = [t \in Threads |-> Idle]
    /\ share = NoShare

-----------------------------------------------------------------------------
(* Difficulties.                                                             *)

At(t, pc) == thread[t].pc = pc
Goto(t, pc) == thread' = [thread EXCEPT ![t].pc = pc]
InJob(t) ==
    thread[t].pc \notin {"idle", "verdict", "add", "reply", "panic"}

getDifficulty == IF config.adaptive THEN lastDifficulty ELSE config.max

\* Mutant: the difficulty is not kept within the port's range.
ClampNot(diff) == diff

\* setDifficulty's range.
Clamp(diff) == IF diff < config.start THEN config.start
               ELSE IF diff > config.max THEN config.max
               ELSE diff

Expected(seconds) == (SubmitRate.num * seconds) \div SubmitRate.den

\* int64(float64(diff) * 1.3) and * 0.7.
Raised(diff) == (diff * 13) \div 10
Lowered(diff) == (diff * 7) \div 10

\* Mutant: the first job leaves the difficulty unset.
AdjustedUnset(diff, since, count) ==
    CASE since # 0 /\ count > 2 * Expected(now - since) -> Clamp(Raised(diff))
      [] since # 0 /\ 2 * count < Expected(now - since) -> Clamp(Lowered(diff))
      [] OTHER -> 0

\* The difficulty that updateDifficulty stores, 0 for none.
Adjusted(diff, since, count) ==
    CASE since = 0 -> Clamp(config.max)
      [] since # 0 /\ count > 2 * Expected(now - since) -> Clamp(Raised(diff))
      [] since # 0 /\ 2 * count < Expected(now - since) -> Clamp(Lowered(diff))
      [] OTHER -> 0

-----------------------------------------------------------------------------
(* Jobs: login and getjob on the connection, getNewJob on a push.            *)

\* The goroutine loads the template (a login registers the session after it;
\* mining.authorize is a login that keeps the job from the miner).
Begin(t) ==
    /\ At(t, "idle")
    /\ t # Connection => registered
    /\ registered' = TRUE
    /\ thread' = [u \in Threads |->
            IF u = t THEN [Idle EXCEPT !.pc = "swap", !.height = template,
                                !.alone = \A v \in Threads : ~InJob(v)]
            ELSE IF InJob(u) THEN [thread[u] EXCEPT !.alone = FALSE]
            ELSE thread[u]]
    /\ UNCHANGED <<config, now, template, lastBlockHeight, lastDifficulty,
                   lastJobUnixTime, submitCount, jobs, share>>

\* The connection is closed, and its session with it.
Close ==
    /\ registered' = FALSE
    /\ lastBlockHeight' = 0 /\ lastDifficulty' = 0 /\ lastJobUnixTime' = 0
    /\ submitCount' = 0 /\ jobs' = {}
    /\ thread' = [t \in Threads |-> Idle]
    /\ share' = NoShare

\* Mutant: the difficulty is updated before the heights are compared.
SwapLater(t) ==
    /\ At(t, "swap")
    /\ lastBlockHeight' = thread[t].height
    /\ Goto(t, IF config.adaptive THEN "diff" ELSE "job")
    /\ UNCHANGED <<config, now, template, registered, lastDifficulty,
                   lastJobUnixTime, submitCount, jobs, share>>

\* lastBlockHeight is swapped; when it is the template's already, there is no
\* job: a push sends an empty one, a request ends the connection.
Swap(t) ==
    /\ At(t, "swap")
    /\ LET h == thread[t].height
       IN  \/ /\ lastBlockHeight = h
              /\ t = Connection
              /\ Close
           \/ /\ lastBlockHeight = h
              /\ t # Connection
              /\ thread' = [thread EXCEPT ![t] = Idle]
              /\ UNCHANGED <<session, share>>
           \/ /\ lastBlockHeight # h
              /\ lastBlockHeight' = h
              /\ Goto(t, IF config.adaptive THEN "diff" ELSE "job")
              /\ UNCHANGED <<registered, lastDifficulty, lastJobUnixTime,
                             submitCount, jobs, share>>
    /\ UNCHANGED <<config, now, template>>

\* updateDifficulty loads the difficulty, the time and the count.
LoadDifficulty(t) ==
    /\ At(t, "diff")
    /\ thread' = [thread EXCEPT ![t].pc = "time", ![t].diff = lastDifficulty]
    /\ UNCHANGED <<config, now, template, session, share>>

LoadTime(t) ==
    /\ At(t, "time")
    /\ thread' = [thread EXCEPT ![t].pc = "count",
                                ![t].since = lastJobUnixTime]
    /\ UNCHANGED <<config, now, template, session, share>>

LoadCount(t) ==
    /\ At(t, "count")
    /\ LET since == thread[t].since
       IN  thread' = IF since # 0 /\ now - since < MinWait
                     THEN [thread EXCEPT ![t].pc = "job"]
                     ELSE [thread EXCEPT ![t].pc = "setTime",
                            ![t].diff = Adjusted(@, since, submitCount)]
    /\ UNCHANGED <<config, now, template, session, share>>

\* ... and stores the time, the count and the difficulty.
StoreTime(t) ==
    /\ At(t, "setTime")
    /\ lastJobUnixTime' = now
    /\ Goto(t, "setCount")
    /\ UNCHANGED <<config, now, template, registered, lastBlockHeight,
                   lastDifficulty, submitCount, jobs, share>>

StoreCount(t) ==
    /\ At(t, "setCount")
    /\ submitCount' = 0
    /\ Goto(t, IF thread[t].diff = 0 THEN "job" ELSE "setDiff")
    /\ UNCHANGED <<config, now, template, registered, lastBlockHeight,
                   lastDifficulty, lastJobUnixTime, jobs, share>>

StoreDifficulty(t) ==
    /\ At(t, "setDiff")
    /\ lastDifficulty' = thread[t].diff
    /\ Goto(t, "job")
    /\ UNCHANGED <<config, now, template, registered, lastBlockHeight,
                   lastJobUnixTime, submitCount, jobs, share>>

\* getJob loads the difficulty again, keeps the job and replies; GetTargetHex
\* panics when the difficulty is 0.
PushJob(t) ==
    /\ At(t, "job")
    /\ IF t = Connection /\ getDifficulty = 0
       THEN Goto(t, "panic") /\ UNCHANGED jobs
       ELSE /\ thread' = [thread EXCEPT ![t] = Idle]
            /\ jobs' = jobs \cup {j \in
                    {[height |-> thread[t].height, alone |-> thread[t].alone,
                      diff |-> IF t = Connection THEN getDifficulty ELSE 0]} :
                        j.height >= template}
    /\ UNCHANGED <<config, now, template, registered, lastBlockHeight,
                   lastDifficulty, lastJobUnixTime, submitCount, share>>

-----------------------------------------------------------------------------
(* Shares.                                                                   *)

\* The bits of the header in the blob of a job are those of the template's
\* difficulty (blocks.go:71); a push (miner.go:195) and processShare take those
\* of the target of a difficulty.
BlobBits(height) == GetCompact(TemplateDiff[height])
HeaderBits(diff) == GetCompact(DiffToTarget(diff))

\* The bits that a miner may take for a job: those of the blob, those of the
\* push, or those of the difficulty its target tells.
BitsFor(job) ==
    {BlobBits(job.height), HeaderBits(TemplateDiff[job.height])} \cup
    {HeaderBits(diff) : diff \in {job.diff} \ {0}}

\* The miner submits a hash for a job of the current template; any other is
\* "Block expired".
Submit(job) ==
    /\ At(Connection, "idle")
    /\ submitCount < MaxSubmits
    /\ job.height = template
    /\ \E bits \in BitsFor(job), hash \in HashesFor[config.adaptive] :
        share' = [verdict |-> "checked", diff |-> 1, height |-> template,
                  hash |-> hash, bits |-> bits,
                  jobDiff |-> job.diff, alone |-> job.alone]
    /\ Goto(Connection, "verdict")
    /\ UNCHANGED <<config, now, template, session>>

\* The number that is compared with the target of a block: the bytes of the
\* hash as they are, read as a big-endian number.
BlockTarget(diff) == SetCompact(HeaderBits(diff))
IsBlock(hash, diff) == BigEndian(hash) <= BlockTarget(diff)

\* processShare with the difficulty of this moment, which also tells the bits
\* of the header that it hashes; the share is refused when they are not the
\* miner's.
Verdict ==
    /\ At(Connection, "verdict")
    /\ IF getDifficulty = 0
       THEN Goto(Connection, "panic") /\ UNCHANGED share
       ELSE LET hash == share.hash
                ok == /\ share.bits = HeaderBits(getDifficulty)
                      /\ CheckHashDifficulty(hash, getDifficulty)
            IN  /\ share' = [share EXCEPT !.diff = getDifficulty,
                    !.verdict = IF ~ok THEN "low"
                                ELSE IF IsBlock(hash, getDifficulty)
                                THEN "block" ELSE "share"]
                /\ Goto(Connection, IF ok THEN "add" ELSE "reply")
    /\ UNCHANGED <<config, now, template, session>>

AddSubmitCount ==
    /\ At(Connection, "add")
    /\ submitCount' = submitCount + 1
    /\ Goto(Connection, "reply")
    /\ UNCHANGED <<config, now, template, registered, lastBlockHeight,
                   lastDifficulty, lastJobUnixTime, jobs, share>>

\* "OK" or "Low difficulty share".
Reply ==
    /\ At(Connection, "reply")
    /\ share' = NoShare
    /\ Goto(Connection, "idle")
    /\ UNCHANGED <<config, now, template, session>>

-----------------------------------------------------------------------------

Tick ==
    /\ now < LastTime
    /\ now' = now + 1
    /\ UNCHANGED <<config, template, session, thread, share>>

NewTemplate ==
    /\ template < LastHeight
    /\ template' = template + 1
    /\ jobs' = {j \in jobs : j.height >= template'}
    /\ UNCHANGED <<config, now, registered, lastBlockHeight, lastDifficulty,
                   lastJobUnixTime, submitCount, thread, share>>

Disconnect ==
    /\ At(Connection, "idle")
    /\ registered
    /\ Close
    /\ UNCHANGED <<config, now, template>>

Alive == \A t \in Threads : ~At(t, "panic")

Next ==
    /\ Alive
    /\ \/ \E t \in Threads :
            \/ Begin(t) \/ Swap(t)
            \/ LoadDifficulty(t) \/ LoadTime(t) \/ LoadCount(t)
            \/ StoreTime(t) \/ StoreCount(t) \/ StoreDifficulty(t)
            \/ PushJob(t)
       \/ \E job \in jobs : Submit(job)
       \/ Verdict
       \/ AddSubmitCount
       \/ Reply
       \/ Tick
       \/ NewTemplate
       \/ Disconnect

Spec == Init /\ [][Next]_vars

-----------------------------------------------------------------------------
(* Safety.                                                                   *)

\* A target loses at most this part of itself when it is made compact.
Precision == SignBit \div Byte

\* What CheckHash promises, and what a block is: a share of the header that
\* processShare hashes is accepted exactly when its hash times the difficulty is
\* below 2^256, whatever carries there are; it is a block only within the target
\* of that difficulty, and no hash that is clearly within the target passes as a
\* mere share.  The code reads the hash forwards for one and backwards for the
\* other, and a miner that hashed another header, like that of its blob, is
\* refused whatever its hash.
VerdictsAreExact ==
    LET value == LittleEndian(share.hash)
        reversed == BigEndian(share.hash)
        target == DiffToTarget(share.diff)
        given == share.verdict \in {"low", "share", "block"}
    IN  /\ given => (share.verdict # "low" <=>
                        /\ share.bits = HeaderBits(share.diff)
                        /\ value * share.diff < Power[HashLen])
        /\ share.verdict = "block" => reversed <= target
        /\ share.verdict = "share" =>
                reversed * Precision > target * (Precision - 1)

\* A share for the current template that is within the target its job was sent
\* with, of a header with the bits of that target's difficulty, is never "Low
\* difficulty share", although the difficulty, which tells both the header and
\* the bound, may change between the job and the share, and between the check of
\* the template and that of the difficulty; unless several goroutines prepared a
\* job at the same time.
JobTargetHonoured ==
    /\ share.verdict = "low" /\ share.alone /\ share.height = template
    /\ share.jobDiff # 0 /\ share.bits = HeaderBits(share.jobDiff)
    => ~WithinJobTarget(share.hash, JobTarget(share.jobDiff))

\* "First update the difficulty" (miner.go:136, in Chinese): no job and no share
\* meets the difficulty 0 that a session begins with, by which Go would panic;
\* unless several goroutines prepared the first job at the same time.
DifficultyIsSet ==
    \A t \in Threads : At(t, "panic") => ~thread[t].alone

\* "First update the difficulty", whoever else prepares a job of a new session.
FirstUpdated == \A t \in Threads : ~At(t, "panic")
=============================================================================
