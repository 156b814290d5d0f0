-------------------------------- MODULE Stats --------------------------------
(***************************************************************************)
(* Hashrates: the sorted sets that writeShare fills, the readers that      *)
(* report them (CollectStats, CollectWorkersStats, storage/redis.go), the  *)
(* purge that keeps them small (FlushStaleStats) and the two caches of the *)
(* API (api/server.go).                                                    *)
(*                                                                         *)
(* One goroutine of the API collects and purges in turn; requests for an   *)
(* account run one at a time under minersMu; shares are written, and time  *)
(* passes, between any two calls to Redis.  A hash rate is the set of the  *)
(* shares it sums up: the division by the length of the window is left     *)
(* out, and every share has difficulty 1.  Payments and blocks, which the  *)
(* same replies carry, are left out too; so is what the unlocker and the   *)
(* payer write, but that a credit creates the account it is for.  A login  *)
(* is spelled the same by the miner and in the request, which the API      *)
(* converts to lower case.                                                 *)
(***************************************************************************)
EXTENDS Integers, FiniteSets, FiniteSetsExt

CONSTANTS
    Workers,            \* the rigs that submit shares
    Logins,             \* their accounts
    LoginOf,            \* the account of a rig
    Nobody,             \* no login
    Second,             \* ticks of the clock in a second (1000)
    SmallWindow,        \* hashrateWindow, in seconds
    LargeWindow,        \* hashrateLargeWindow, in seconds
    Expiration,         \* hashrateExpiration, in seconds
    StatsInterval,      \* statsCollectInterval, in ticks
    MaxTime,            \* bound: the clock
    MaxShares           \* bound: shares

\* The windows are the configuration's; no code checks them, but with a
\* shorter hashrateExpiration the keys go before the windows have passed.
ASSUME StatsAssumption ==
    /\ LoginOf \in [Workers -> Logins] /\ Nobody \notin Logins
    /\ Second \in Nat \ {0} /\ StatsInterval \in Nat
    /\ SmallWindow \in Nat /\ LargeWindow \in Nat /\ Expiration \in Nat
    /\ SmallWindow <= LargeWindow /\ LargeWindow <= Expiration
    /\ MaxTime \in Nat

VARIABLES
    clock,              \* util.MakeTimestamp
    \* --- Redis ---
    hashrate,           \* the sorted set hashrate
    hashrateOf,         \* the sorted sets hashrate:<login>
    expireAt,           \* when they expire
    accounts,           \* the logins with a hash miners:<login>
    \* --- the API ---
    loop,               \* the goroutine of Start and its locals
    stats,              \* the statistics of the pool
    miners,             \* the cached statistics of accounts
    request,            \* the request that holds minersMu, and its locals
    \* --- history ---
    written             \* every share

redis == <<hashrate, hashrateOf, expireAt, accounts>>
vars == <<clock, redis, loop, stats, miners, request, written>>

\* A member of the sorted sets; its score is the second of its ms.
Share == [worker : Workers, ms : 0 .. MaxTime]
Sec(t) == t \div Second
Of(l, entries) == {e \in entries : LoginOf[e.worker] = l}
By(w, entries) == {e \in entries : e.worker = w}

\* What ZREMRANGEBYSCORE of -inf to "(" s leaves.
From(s, entries) == {e \in entries : Sec(e.ms) >= s}

Status == {"absent", "online", "offline"}

\* The second of the last of some shares, or -1.
Last(entries) == Max({-1} \cup {Sec(e.ms) : e \in entries})

\* The status of each login; "absent" before there are statistics.
PoolReport == [Logins -> Status]
NoPoolReport == [l \in Logins |-> "absent"]

\* An account's cache entry: when the lock was taken, when it was read
\* (history), the status of each rig and the shares of the small window.
Report == [updatedAt : 0 .. MaxTime, readAt : 0 .. MaxTime,
           status : [Workers -> Status], small : SUBSET Share]

\* read is what an EXEC returned at readAt, known is what had been written by
\* then (history); report is what the goroutine made of it.
Waiting == [pc |-> "wait", max |-> 0, left |-> {}, read |-> {}, known |-> {},
            readAt |-> 0, report |-> NoPoolReport]
NoRequest == [pc |-> "idle", login |-> Nobody, updatedAt |-> 0, readAt |-> 0,
              read |-> {}, known |-> {}]

TypeOK ==
    /\ clock \in 0 .. MaxTime
    /\ hashrate \subseteq Share
    /\ \A l \in Logins : hashrateOf[l] \subseteq Of(l, Share)
    /\ expireAt \in [Logins -> Nat]
    /\ accounts \subseteq Logins
    /\ loop.pc \in {"wait", "convert", "luck", "store", "purge"}
    /\ loop.max \in Int /\ loop.left \subseteq Logins
    /\ loop.read \subseteq Share /\ loop.known \subseteq Share
    /\ loop.readAt \in 0 .. MaxTime /\ loop.report \in PoolReport
    /\ stats \in PoolReport
    /\ DOMAIN miners \subseteq accounts
    /\ \A l \in DOMAIN miners : miners[l] \in Report
    /\ request.pc \in {"idle", "exists", "stats", "workers", "convert"}
    /\ request.login \in Logins \cup {Nobody}
    /\ request.updatedAt \in 0 .. MaxTime /\ request.readAt \in 0 .. MaxTime
    /\ request.read \subseteq Share /\ request.known \subseteq Share
    /\ written \subseteq Share

Init ==
    /\ clock = 0
    /\ hashrate = {}
    /\ hashrateOf = [l \in Logins |-> {}]
    /\ expireAt = [l \in Logins |-> 0] /\ accounts = {}
    /\ loop = Waiting /\ stats = NoPoolReport
    /\ miners = [l \in {} |-> {}]
    /\ request = NoRequest
    /\ written = {}

-----------------------------------------------------------------------------
(* Shares, credits and time.                                                *)

\* writeShare, as far as the hashrates and lastShare go.  A second share of a rig
\* in the same millisecond is the same member.
WriteShare(w) ==
    LET e == [worker |-> w, ms |-> clock]
        l == LoginOf[w]
    IN  /\ Cardinality(written) < MaxShares
        /\ e \notin written
        /\ written' = written \cup {e}
        /\ hashrate' = hashrate \cup {e}
        /\ hashrateOf' = [hashrateOf EXCEPT ![l] = @ \cup {e}]
        /\ expireAt' = [expireAt EXCEPT ![l] = clock + Expiration * Second]
        /\ accounts' = accounts \cup {l}
        /\ UNCHANGED <<clock, loop, stats, miners, request>>

\* WriteImmatureBlock and WriteMaturedBlock: the account of a credit is there,
\* with or without shares (the pool's fee has an address of its own).
Credit(l) ==
    /\ l \notin accounts
    /\ accounts' = accounts \cup {l}
    /\ UNCHANGED <<clock, hashrate, hashrateOf, expireAt, loop, stats, miners,
                   request, written>>

\* Time passes; Redis drops the keys that expire.
Tick ==
    /\ clock < MaxTime
    /\ clock' = clock + 1
    /\ hashrateOf' = [l \in Logins |-> IF expireAt[l] < clock' THEN {}
                                       ELSE hashrateOf[l]]
    /\ UNCHANGED <<hashrate, expireAt, accounts, loop, stats, miners, request,
                   written>>

-----------------------------------------------------------------------------
(* Reports.                                                                  *)

\* Offline is who was silent for half the small window before now.
StatusOf(entries, now) ==
    IF entries = {} THEN "absent"
    ELSE IF Last(entries) < now - SmallWindow \div 2 THEN "offline"
    ELSE "online"

\* Mutant: a login is offline after the whole small window.
ConvertMinersLate(read) ==
    [l \in Logins |-> StatusOf(Of(l, read), Sec(clock) - SmallWindow \div 2)]

\* convertMinersStats: by login, with a clock of its own.
ConvertMiners(read) ==
    [l \in Logins |-> StatusOf(Of(l, read), Sec(clock))]

\* CollectWorkersStats: by rig, with the clock read before the EXEC.
WorkersOf(read, now) == [w \in Workers |-> StatusOf(By(w, read), now)]

\* convertWorkersStats: the small window, with a clock of its own.
InSmallWindow(read) == From(Sec(clock) - SmallWindow, read)

-----------------------------------------------------------------------------
(* The goroutine that collects and purges.                                   *)

\* The EXEC of CollectStats: the entries out of the small window go, the rest
\* is read.
CollectStats ==
    /\ loop.pc = "wait"
    /\ \E ok \in BOOLEAN :
        LET kept == From(Sec(clock) - SmallWindow, hashrate)
        IN  /\ hashrate' = IF ok THEN kept ELSE hashrate
            /\ loop' = IF ok
                       THEN [loop EXCEPT
                                !.pc = "convert", !.read = kept,
                                !.known = written, !.readAt = clock]
                       ELSE Waiting
    /\ UNCHANGED <<clock, hashrateOf, expireAt, accounts, stats, miners,
                   request, written>>

\* The end of CollectStats, when the reply is there.
ConvertStats ==
    /\ loop.pc = "convert"
    /\ loop' = [loop EXCEPT !.pc = "luck", !.read = {},
                            !.report = ConvertMiners(loop.read)]
    /\ UNCHANGED <<clock, redis, stats, miners, request, written>>

\* CollectLuckStats: when the call fails the old statistics stay.
CollectLuckStats ==
    /\ loop.pc = "luck"
    /\ \E ok \in BOOLEAN :
            loop' = IF ok THEN [loop EXCEPT !.pc = "store"] ELSE Waiting
    /\ UNCHANGED <<clock, redis, stats, miners, request, written>>

StoreStats ==
    /\ loop.pc = "store"
    /\ stats' = loop.report
    /\ loop' = Waiting
    /\ UNCHANGED <<clock, redis, miners, request, written>>

\* Mutant: both sets are purged by the small window.
PurgeMaxSmall == Sec(clock) - SmallWindow

\* The bound for the accounts, computed once before the scan.
PurgeMax == Sec(clock) - LargeWindow

\* FlushStaleStats: the pool's set first.
PurgePool ==
    /\ loop.pc = "wait"
    /\ \E ok \in BOOLEAN :
        /\ hashrate' = IF ok THEN From(Sec(clock) - SmallWindow, hashrate)
                       ELSE hashrate
        /\ loop' = IF ok THEN [loop EXCEPT !.pc = "purge", !.max = PurgeMax,
                                           !.left = Logins]
                   ELSE Waiting
    /\ UNCHANGED <<clock, hashrateOf, expireAt, accounts, stats, miners,
                   request, written>>

\* Then the accounts that SCAN returns, in any order, until a call fails.
\* Accounts without a key have nothing to purge.
PurgeAccount(l) ==
    /\ loop.pc = "purge" /\ l \in loop.left
    /\ \E ok \in BOOLEAN :
        /\ hashrateOf' = IF ok
                THEN [hashrateOf EXCEPT ![l] = From(loop.max, @)]
                ELSE hashrateOf
        /\ loop' = IF ok /\ loop.left # {l}
                   THEN [loop EXCEPT !.left = @ \ {l}] ELSE Waiting
    /\ UNCHANGED <<clock, hashrate, expireAt, accounts, stats, miners, request,
                   written>>

-----------------------------------------------------------------------------
(* A request for an account.                                                 *)

\* The account is cached and the entry is not stale.
Fresh(l) ==
    l \in DOMAIN miners /\ miners[l].updatedAt >= clock - StatsInterval

\* AccountIndex takes the lock; an entry that is not fresh is renewed.
AccountIndex(l) ==
    /\ request.pc = "idle"
    /\ ~Fresh(l)
    /\ request' = [NoRequest EXCEPT !.pc = "exists", !.login = l,
                                      !.updatedAt = clock]
    /\ UNCHANGED <<clock, redis, loop, stats, miners, written>>

\* A call to Redis succeeds (ok) or fails: the next step of the request, or
\* an answer without statistics.
Continue(ok, next) == request' = IF ok THEN next ELSE NoRequest

\* Mutant: the statistics of an unknown login are asked for and cached.
IsMinerExistsIgnored ==
    /\ request.pc = "exists"
    /\ \E ok \in BOOLEAN : Continue(ok, [request EXCEPT !.pc = "stats"])
    /\ UNCHANGED <<clock, redis, loop, stats, miners, written>>

\* IsMinerExists: 404 for an unknown login, and when the call fails as well.
IsMinerExists ==
    /\ request.pc = "exists"
    /\ \E ok \in BOOLEAN :
            Continue(ok, IF request.login \notin accounts THEN NoRequest
                         ELSE [request EXCEPT !.pc = "stats"])
    /\ UNCHANGED <<clock, redis, loop, stats, miners, written>>

\* GetMinerStats: payments and the like, or 500.
GetMinerStats ==
    /\ request.pc = "stats"
    /\ \E ok \in BOOLEAN :
            Continue(ok, [request EXCEPT !.pc = "workers"])
    /\ UNCHANGED <<clock, redis, loop, stats, miners, written>>

\* The EXEC of CollectWorkersStats removes what is out of the large window
\* and reads the rest, or 500.
CollectWorkersStats ==
    /\ request.pc = "workers"
    /\ \E ok \in BOOLEAN :
        LET l == request.login
            kept == From(Sec(clock) - LargeWindow, hashrateOf[l])
        IN  /\ Continue(ok, [request EXCEPT
                    !.pc = "convert", !.readAt = clock, !.read = kept,
                    !.known = Of(l, written)])
            /\ hashrateOf' = IF ok THEN [hashrateOf EXCEPT ![l] = kept]
                             ELSE hashrateOf
    /\ UNCHANGED <<clock, hashrate, expireAt, accounts, loop, stats, miners,
                   written>>

\* Mutant: the entry is as old as the moment it is stored.
StoredAtLate == clock

\* The entry is as old as the moment the lock was taken.
StoredAt == request.updatedAt

CacheAccount ==
    /\ request.pc = "convert"
    /\ LET entry == [updatedAt |-> StoredAt, readAt |-> request.readAt,
                     status |-> WorkersOf(request.read, Sec(request.readAt)),
                     small |-> InSmallWindow(request.read)]
       IN  miners' = [l \in DOMAIN miners \cup {request.login} |->
                        IF l = request.login THEN entry ELSE miners[l]]
    /\ request' = NoRequest
    /\ UNCHANGED <<clock, redis, loop, stats, written>>

Next ==
    \/ \E w \in Workers : WriteShare(w)
    \/ Tick
    \/ CollectStats \/ ConvertStats \/ CollectLuckStats \/ StoreStats
    \/ PurgePool
    \/ \E l \in Logins : Credit(l) \/ PurgeAccount(l) \/ AccountIndex(l)
    \/ IsMinerExists \/ GetMinerStats \/ CollectWorkersStats \/ CacheAccount

Spec == Init /\ [][Next]_vars

-----------------------------------------------------------------------------
(* Safety.                                                                   *)

\* Whatever is purged, read or expires meanwhile, the sets hold every share of
\* their windows.  A key may expire within the second in which its last share
\* leaves the window.
WindowsKept ==
    \A e \in written :
        /\ Sec(e.ms) >= Sec(clock) - SmallWindow => e \in hashrate
        /\ Sec(e.ms) > Sec(clock) - LargeWindow =>
                e \in hashrateOf[LoginOf[e.worker]]

\* A status is right if who is offline or absent had been silent for the time
\* that means when the shares were read, and who is online had not.
StatusRight(status, last, now, window) ==
    /\ status = "absent" => last <= now - window \/ last = -1
    /\ status = "offline" => last < now - SmallWindow \div 2
    /\ status = "online" => last >= now - SmallWindow \div 2

\* The statistics of the pool, at the moment they are stored, give every login
\* its status at one and the same moment between the EXEC that read them and
\* this store, by the shares that were there when they were read: although they
\* are purged by several clocks, converted by another one, and held back by the
\* call for the luck.  The rigs of an account have the status of the moment
\* they were read, and its current hashrate counts every share of the last
\* SmallWindow seconds that was there then.
ReportsRight ==
    [][ /\ loop.pc = "store" /\ loop'.pc = "wait" =>
            \E t \in loop.readAt .. clock : \A l \in Logins :
                StatusRight(stats'[l], Last(Of(l, loop.known)), Sec(t),
                            SmallWindow)
        /\ request.pc = "convert" /\ request'.pc = "idle" =>
            LET r == miners'[request.login]
            IN  /\ \A w \in Workers : LoginOf[w] = request.login =>
                    StatusRight(r.status[w], Last(By(w, request.known)),
                                Sec(request.readAt), LargeWindow)
                /\ r.small = From(Sec(clock) - SmallWindow, request.known)
      ]_vars

\* What AccountIndex would answer from its cache was read no longer ago than
\* the interval of the statistics.
AccountsFresh ==
    \A l \in Logins :
        Fresh(l) => miners[l].readAt >= clock - StatsInterval
=============================================================================
