----------------------------- MODULE StatsProofs -----------------------------
(***************************************************************************)
(* Proofs about Stats.tla, for any rigs, accounts, windows and clock: no   *)
(* purge and no expiry takes a share that a window still needs, a cached   *)
(* account is never answered when it is older than it says, and what the   *)
(* reports say is right by the shares there were when they were read.      *)
(***************************************************************************)
EXTENDS Stats, Sums, TLAPS

-----------------------------------------------------------------------------
(* Seconds.                                                                  *)

LEMMA Constants ==
  /\ LoginOf \in [Workers -> Logins] /\ Nobody \notin Logins
  /\ Second \in Nat /\ Second > 0 /\ StatsInterval \in Nat
  /\ SmallWindow \in Nat /\ LargeWindow \in Nat /\ Expiration \in Nat
  /\ SmallWindow <= LargeWindow /\ LargeWindow <= Expiration
  /\ MaxTime \in Nat
BY StatsAssumption

LEMMA SecDef ==
  ASSUME NEW t \in Nat
  PROVE  /\ Sec(t) \in Nat
         /\ Second * Sec(t) <= t /\ t < Second * Sec(t) + Second
<1>1. \A n, m \in Int : m > 0 =>
        n = m * (n \div m) + (n % m) /\ n % m \in 0 .. m - 1
  BY Z3
<1>2. \A n, m \in Nat : m > 0 => n \div m \in Int /\ n \div m >= 0
  BY Z3
<1>3. Sec(t) \in Nat
  BY <1>2, Constants DEF Sec
<1>4. t = Second * Sec(t) + (t % Second) /\ t % Second \in 0 .. Second - 1
  BY <1>1, Constants DEF Sec
<1>5. Second * Sec(t) \in Int
  BY <1>3, Constants
<1> QED
  BY <1>3, <1>4, <1>5, Constants

\* A second that began before another one ends is not after it.
LEMMA Quotients ==
  ASSUME NEW h \in Nat, NEW a \in Int, NEW b \in Int, h * a < h * b + h
  PROVE  a <= b
<1>1. SUFFICES ASSUME a >= b + 1 PROVE FALSE
  OBVIOUS
<1>2. h * (a - b - 1) >= 0
  BY <1>1
<1>3. h * (a - b - 1) = h * a - h * b - h
  OBVIOUS
<1> QED
  BY <1>2, <1>3

LEMMA SecMonotone ==
  ASSUME NEW s \in Nat, NEW t \in Nat, s <= t
  PROVE  Sec(s) <= Sec(t)
<1>1. /\ Sec(s) \in Nat /\ Second * Sec(s) <= s
      /\ Sec(t) \in Nat /\ t < Second * Sec(t) + Second
  BY SecDef
<1>2. Second * Sec(s) \in Int /\ Second * Sec(t) \in Int
  BY <1>1, Constants
<1>3. Second * Sec(s) < Second * Sec(t) + Second
  BY <1>1, <1>2, Constants
<1> QED
  BY <1>1, <1>3, Constants, Quotients

\* What expires after k seconds has been there for k of them.
LEMMA SecAfter ==
  ASSUME NEW s \in Nat, NEW t \in Nat, NEW k \in Nat, s + k * Second <= t
  PROVE  Sec(s) + k <= Sec(t)
<1>1. /\ Sec(s) \in Nat /\ Second * Sec(s) <= s
      /\ Sec(t) \in Nat /\ t < Second * Sec(t) + Second
  BY SecDef
<1>2. /\ Second * Sec(s) \in Int /\ Second * Sec(t) \in Int
      /\ k * Second \in Int
  BY <1>1, Constants
<1>3. Second * (Sec(s) + k) = Second * Sec(s) + k * Second
  BY <1>1, Constants
<1>4. Second * (Sec(s) + k) < Second * Sec(t) + Second
  BY <1>1, <1>2, <1>3, Constants
<1>5. Sec(s) + k \in Int /\ Sec(t) \in Int /\ Second \in Nat
  BY <1>1, Constants
<1> QED
  BY <1>4, <1>5, Quotients

-----------------------------------------------------------------------------
(* The invariant.  TypeOK, completed for the records and functions whose     *)
(* parts it names.                                                           *)

Loops == [pc : {"wait", "convert", "luck", "store", "purge"}, max : Int,
          left : SUBSET Logins, read : SUBSET Share, known : SUBSET Share,
          readAt : 0 .. MaxTime, report : PoolReport]

Requests ==
    [pc : {"idle", "exists", "stats", "workers", "convert"},
     login : Logins \cup {Nobody}, updatedAt : 0 .. MaxTime,
     readAt : 0 .. MaxTime, read : SUBSET Share,
     known : SUBSET Share]

Types ==
    /\ TypeOK
    /\ hashrateOf \in [Logins -> SUBSET Share]
    /\ loop \in Loops
    /\ request \in Requests

\* A request that goes on is for an account that is there.
RequestInv ==
    /\ request.pc # "idle" => request.login \in Logins
    /\ request.pc \in {"stats", "workers", "convert"} =>
            request.login \in accounts

\* A key outlives its last share; the goroutine's bound gets older, not newer.
TimeInv ==
    /\ \A e \in written :
        /\ e.ms <= clock
        /\ e.ms + Expiration * Second <= expireAt[LoginOf[e.worker]]
    /\ loop.pc = "purge" => loop.max <= Sec(clock) - LargeWindow

\* An entry was read after the moment it is dated.
AgeInv ==
    /\ request.updatedAt <= clock
    /\ request.pc = "convert" => request.updatedAt <= request.readAt
    /\ \A l \in DOMAIN miners : miners[l].updatedAt <= miners[l].readAt

Inv == Types /\ RequestInv /\ TimeInv /\ AgeInv /\ WindowsKept

LEMMA WaitingType == Waiting \in Loops /\ Waiting.pc = "wait"
BY Constants DEF Waiting, Loops, PoolReport, NoPoolReport, Status

LEMMA NoRequestType ==
  /\ NoRequest \in Requests
  /\ NoRequest.pc = "idle" /\ NoRequest.updatedAt = 0
BY Constants DEF NoRequest, Requests

LEMMA FromIn ==
  ASSUME NEW s, NEW entries
  PROVE  From(s, entries) \subseteq entries
BY DEF From

LEMMA StatusType ==
  ASSUME NEW entries, NEW now
  PROVE  StatusOf(entries, now) \in Status
BY DEF StatusOf, Status

LEMMA InitOK == Init => Inv
<1> SUFFICES ASSUME Init PROVE Inv
  OBVIOUS
<1>1. TypeOK
  BY Constants DEF Init, TypeOK, Of, Waiting, NoRequest, PoolReport,
     NoPoolReport, Status
<1>2. Types
  BY <1>1, Constants, WaitingType, NoRequestType DEF Init, Types
<1> QED
  BY <1>2, Constants
     DEF Inv, Init, RequestInv, TimeInv, AgeInv, WindowsKept, Waiting,
         NoRequest

-----------------------------------------------------------------------------
(* Shares and time.                                                          *)

LEMMA WriteShareKeeps ==
  ASSUME Inv, NEW w \in Workers, WriteShare(w)
  PROVE  Inv'
<1> DEFINE e == [worker |-> w, ms |-> clock]
           l == LoginOf[w]
<1> USE DEF Inv
<1>1. /\ e \in Share /\ l \in Logins
      /\ written' = written \cup {e} /\ hashrate' = hashrate \cup {e}
      /\ hashrateOf' = [hashrateOf EXCEPT ![l] = @ \cup {e}]
      /\ expireAt' = [expireAt EXCEPT ![l] = clock + Expiration * Second]
      /\ accounts' = accounts \cup {l}
      /\ UNCHANGED <<clock, loop, stats, miners, request>>
  BY Constants DEF WriteShare, Types, TypeOK, Share
<1>2. clock + Expiration * Second \in Nat /\ Expiration * Second \in Nat
  BY Constants DEF Types, TypeOK
<1>3. Types'
  <2>1. hashrateOf' \in [Logins -> SUBSET Share]
    BY <1>1 DEF Types
  <2>2. \A k \in Logins : hashrateOf'[k] \subseteq Of(k, Share)
    BY <1>1 DEF Types, TypeOK, Of
  <2>3. expireAt' \in [Logins -> Nat]
    BY <1>1, <1>2 DEF Types, TypeOK
  <2> QED
    BY <1>1, <2>1, <2>2, <2>3 DEF Types, TypeOK
<1>4. RequestInv'
  BY <1>1 DEF RequestInv, Of
<1>5. TimeInv'
  <2> SUFFICES ASSUME NEW x \in written'
               PROVE  /\ x.ms <= clock
                      /\ x.ms + Expiration * Second
                            <= expireAt'[LoginOf[x.worker]]
    BY <1>1 DEF TimeInv
  <2>1. CASE x = e
    BY <2>1, <1>1, <1>2 DEF Types, TypeOK
  <2>2. CASE x \in written
    BY <2>2, <1>1, <1>2 DEF TimeInv, Types, TypeOK, Share
  <2> QED
    BY <1>1, <2>1, <2>2
<1>6. AgeInv'
  BY <1>1 DEF AgeInv
<1>7. WindowsKept'
  <2> SUFFICES ASSUME NEW x \in written'
               PROVE  /\ Sec(x.ms) >= Sec(clock) - SmallWindow =>
                            x \in hashrate'
                      /\ Sec(x.ms) > Sec(clock) - LargeWindow =>
                            x \in hashrateOf'[LoginOf[x.worker]]
    BY <1>1 DEF WindowsKept, Sec
  <2>1. CASE x = e
    BY <2>1, <1>1 DEF Types
  <2>2. CASE x \in written
    BY <2>2, <1>1 DEF WindowsKept, Types
  <2> QED
    BY <1>1, <2>1, <2>2
<1> QED
  BY <1>3, <1>4, <1>5, <1>6, <1>7

LEMMA CreditKeeps ==
  ASSUME Inv, NEW l \in Logins, Credit(l)
  PROVE  Inv'
<1> USE DEF Inv
<1>1. /\ accounts' = accounts \cup {l}
      /\ UNCHANGED <<clock, hashrate, hashrateOf, expireAt, loop, stats,
                     miners, request, written>>
  BY DEF Credit
<1>2. Types'
  BY <1>1 DEF Types, TypeOK
<1> QED
  BY <1>1, <1>2 DEF RequestInv, TimeInv, AgeInv, WindowsKept, Of, Sec

LEMMA TickKeeps ==
  ASSUME Inv, Tick
  PROVE  Inv'
<1> USE DEF Inv
<1>1. /\ clock \in Nat /\ clock' = clock + 1 /\ clock' \in 0 .. MaxTime
      /\ hashrateOf' = [l \in Logins |-> IF expireAt[l] < clock' THEN {}
                                         ELSE hashrateOf[l]]
      /\ UNCHANGED <<hashrate, expireAt, accounts, loop, stats, miners,
                     request, written>>
  BY Constants DEF Tick, Types, TypeOK
<1>2. Sec(clock) <= Sec(clock') /\ Sec(clock) \in Int /\ Sec(clock') \in Int
  BY <1>1, SecMonotone, SecDef
<1>3. Types'
  BY <1>1 DEF Types, TypeOK, Of
<1>4. RequestInv'
  BY <1>1 DEF RequestInv, Of
<1>5. TimeInv'
  <2>1. \A e \in written : e.ms \in Nat
    BY DEF Types, TypeOK, Share
  <2>2. \A e \in written :
            /\ e.ms <= clock'
            /\ e.ms + Expiration * Second <= expireAt'[LoginOf[e.worker]]
    BY <1>1, <2>1 DEF TimeInv
  <2>3. loop'.pc = "purge" => loop'.max <= Sec(clock') - LargeWindow
    BY <1>1, <1>2, Constants DEF TimeInv, Types, Loops
  <2> QED
    BY <1>1, <2>2, <2>3 DEF TimeInv, Sec
<1>6. AgeInv'
  BY <1>1 DEF AgeInv, Types, TypeOK
<1>7. WindowsKept'
  <2> SUFFICES ASSUME NEW e \in written
               PROVE  /\ Sec(e.ms) >= Sec(clock') - SmallWindow =>
                            e \in hashrate
                      /\ Sec(e.ms) > Sec(clock') - LargeWindow =>
                            e \in hashrateOf'[LoginOf[e.worker]]
    BY <1>1 DEF WindowsKept, Sec
  <2> DEFINE l == LoginOf[e.worker]
  <2>1. /\ e.ms \in Nat /\ l \in Logins /\ expireAt[l] \in Nat
        /\ Expiration * Second \in Nat
    BY Constants DEF Types, TypeOK, Share
  <2>2. Sec(e.ms) \in Int
    BY <2>1, SecDef
  <2>3. Sec(e.ms) >= Sec(clock') - SmallWindow => e \in hashrate
    BY <1>2, <2>2, Constants DEF WindowsKept
  <2>4. ASSUME Sec(e.ms) > Sec(clock') - LargeWindow
        PROVE  e \in hashrateOf'[l]
    <3>1. e \in hashrateOf[l]
      BY <1>2, <2>2, <2>4, Constants DEF WindowsKept
    <3>2. ~(expireAt[l] < clock')
      <4>1. SUFFICES ASSUME expireAt[l] < clock' PROVE FALSE
        OBVIOUS
      <4>2. e.ms + Expiration * Second <= clock'
        BY <1>1, <2>1, <4>1 DEF TimeInv
      <4>3. Sec(e.ms) + Expiration <= Sec(clock')
        BY <1>1, <2>1, <4>2, Constants, SecAfter
      <4> QED
        BY <1>2, <2>2, <2>4, <4>3, Constants
    <3> QED
      BY <1>1, <2>1, <3>1, <3>2
  <2> QED
    BY <2>3, <2>4
<1> QED
  BY <1>3, <1>4, <1>5, <1>6, <1>7

-----------------------------------------------------------------------------
(* The goroutine that collects and purges.                                   *)

\* What leaves the pool's set is out of the small window.
LEMMA PoolPurged ==
  ASSUME Inv, UNCHANGED <<clock, hashrateOf, expireAt, written>>,
         \/ hashrate' = hashrate
         \/ hashrate' = From(Sec(clock) - SmallWindow, hashrate)
  PROVE  WindowsKept'
<1>1. \A e \in written : e \in hashrate
            /\ Sec(e.ms) >= Sec(clock) - SmallWindow => e \in hashrate'
  BY DEF From
<1> QED
  BY <1>1 DEF Inv, WindowsKept, Sec

LEMMA CollectStatsKeeps ==
  ASSUME Inv, CollectStats
  PROVE  Inv'
<1> DEFINE kept == From(Sec(clock) - SmallWindow, hashrate)
<1> USE DEF Inv
<1>1. /\ \/ hashrate' = hashrate
         \/ hashrate' = kept
      /\ \/ loop' = Waiting
         \/ loop' = [loop EXCEPT !.pc = "convert", !.read = kept,
                                 !.known = written, !.readAt = clock]
      /\ UNCHANGED <<clock, hashrateOf, expireAt, accounts, stats, miners,
                     request, written>>
  BY DEF CollectStats
<1>2. kept \subseteq hashrate
  BY FromIn
<1>3. loop' \in Loops /\ loop'.pc # "purge"
  <2>1. CASE loop' = Waiting
    BY <2>1, WaitingType
  <2>2. CASE loop' = [loop EXCEPT !.pc = "convert", !.read = kept,
                                  !.known = written, !.readAt = clock]
    BY <2>2, <1>2 DEF Types, TypeOK, Loops
  <2> QED
    BY <1>1, <2>1, <2>2
<1>4. Types'
  <2>1. /\ loop'.pc \in {"wait", "convert", "luck", "store", "purge"}
        /\ loop'.max \in Int /\ loop'.left \subseteq Logins
        /\ loop'.read \subseteq Share /\ loop'.known \subseteq Share
        /\ loop'.readAt \in 0 .. MaxTime /\ loop'.report \in PoolReport
    BY <1>3 DEF Loops
  <2> QED
    BY <1>1, <1>2, <1>3, <2>1 DEF Types, TypeOK
<1>5. RequestInv' /\ TimeInv' /\ AgeInv'
  BY <1>1, <1>3 DEF RequestInv, TimeInv, AgeInv, Of
<1>6. WindowsKept'
  BY <1>1, PoolPurged
<1> QED
  BY <1>4, <1>5, <1>6

\* After the EXEC the goroutine touches nothing in Redis until it purges.
LEMMA ReportKeeps ==
  ASSUME Inv, UNCHANGED <<clock, redis, miners, request, written>>,
         loop' \in Loops, loop'.pc # "purge", stats' \in PoolReport
  PROVE  Inv'
<1> USE DEF Inv, redis
<1>1. /\ loop'.pc \in {"wait", "convert", "luck", "store", "purge"}
      /\ loop'.max \in Int /\ loop'.left \subseteq Logins
      /\ loop'.read \subseteq Share /\ loop'.known \subseteq Share
      /\ loop'.readAt \in 0 .. MaxTime /\ loop'.report \in PoolReport
  BY DEF Loops
<1>2. Types'
  BY <1>1 DEF Types, TypeOK
<1> QED
  BY <1>2 DEF RequestInv, TimeInv, AgeInv, WindowsKept, Of, Sec

LEMMA ConvertStatsKeeps ==
  ASSUME Inv, ConvertStats
  PROVE  Inv'
<1>1. ConvertMiners(loop.read) \in PoolReport
  BY StatusType DEF ConvertMiners, PoolReport
<1>2. loop' \in Loops /\ loop'.pc = "luck"
  BY <1>1 DEF ConvertStats, Inv, Types, Loops
<1>3. UNCHANGED <<clock, redis, miners, request, written>>
  BY DEF ConvertStats
<1>4. stats' \in PoolReport
  BY DEF ConvertStats, Inv, Types, TypeOK
<1> QED
  BY <1>2, <1>3, <1>4, ReportKeeps

LEMMA CollectLuckStatsKeeps ==
  ASSUME Inv, CollectLuckStats
  PROVE  Inv'
<1>1. loop' \in Loops /\ loop'.pc # "purge"
  BY WaitingType DEF CollectLuckStats, Inv, Types, Loops
<1>2. UNCHANGED <<clock, redis, miners, request, written>>
  BY DEF CollectLuckStats
<1>3. stats' \in PoolReport
  BY DEF CollectLuckStats, Inv, Types, TypeOK
<1> QED
  BY <1>1, <1>2, <1>3, ReportKeeps

LEMMA StoreStatsKeeps ==
  ASSUME Inv, StoreStats
  PROVE  Inv'
<1>1. loop' \in Loops /\ loop'.pc # "purge"
  BY WaitingType DEF StoreStats
<1>2. UNCHANGED <<clock, redis, miners, request, written>>
  BY DEF StoreStats
<1>3. stats' \in PoolReport
  BY DEF StoreStats, Inv, Types, TypeOK
<1> QED
  BY <1>1, <1>2, <1>3, ReportKeeps

LEMMA PurgePoolKeeps ==
  ASSUME Inv, PurgePool
  PROVE  Inv'
<1> DEFINE kept == From(Sec(clock) - SmallWindow, hashrate)
<1> USE DEF Inv
<1>1. /\ \/ hashrate' = hashrate
         \/ hashrate' = kept
      /\ \/ loop' = Waiting
         \/ loop' = [loop EXCEPT !.pc = "purge", !.max = PurgeMax,
                                 !.left = Logins]
      /\ UNCHANGED <<clock, hashrateOf, expireAt, accounts, stats, miners,
                     request, written>>
  BY DEF PurgePool
<1>2. kept \subseteq hashrate
  BY FromIn
<1>3. PurgeMax \in Int /\ PurgeMax = Sec(clock) - LargeWindow
  BY SecDef, Constants DEF PurgeMax, Types, TypeOK
<1>4. /\ loop' \in Loops
      /\ loop'.pc = "purge" => loop'.max = PurgeMax
  <2>1. CASE loop' = Waiting
    BY <2>1, WaitingType
  <2>2. CASE loop' = [loop EXCEPT !.pc = "purge", !.max = PurgeMax,
                                  !.left = Logins]
    BY <2>2, <1>3 DEF Types, Loops
  <2> QED
    BY <1>1, <2>1, <2>2
<1>5. Types'
  <2>1. /\ loop'.pc \in {"wait", "convert", "luck", "store", "purge"}
        /\ loop'.max \in Int /\ loop'.left \subseteq Logins
        /\ loop'.read \subseteq Share /\ loop'.known \subseteq Share
        /\ loop'.readAt \in 0 .. MaxTime /\ loop'.report \in PoolReport
    BY <1>4 DEF Loops
  <2> QED
    BY <1>1, <1>2, <1>4, <2>1 DEF Types, TypeOK
<1>6. RequestInv' /\ AgeInv'
  BY <1>1 DEF RequestInv, AgeInv, Of
<1>7. TimeInv'
  BY <1>1, <1>3, <1>4 DEF TimeInv, Sec
<1>8. WindowsKept'
  BY <1>1, PoolPurged
<1> QED
  BY <1>5, <1>6, <1>7, <1>8

\* What leaves an account's set is out of the large window.
LEMMA AccountPurged ==
  ASSUME Inv, UNCHANGED <<clock, hashrate, expireAt, written>>,
         NEW l \in Logins, NEW max \in Int,
         max <= Sec(clock) - LargeWindow,
         \/ hashrateOf' = hashrateOf
         \/ hashrateOf' = [hashrateOf EXCEPT ![l] = From(max, @)]
  PROVE  /\ WindowsKept'
         /\ hashrateOf' \in [Logins -> SUBSET Share]
         /\ \A k \in Logins : hashrateOf'[k] \subseteq Of(k, Share)
<1> USE DEF Inv
<1>1. \A k \in Logins : hashrateOf'[k] \subseteq hashrateOf[k]
  BY FromIn DEF Types
<1>2. hashrateOf' \in [Logins -> SUBSET Share]
  BY FromIn DEF Types
<1>3. WindowsKept'
  <2> SUFFICES ASSUME NEW e \in written
               PROVE  /\ Sec(e.ms) >= Sec(clock) - SmallWindow =>
                            e \in hashrate
                      /\ Sec(e.ms) > Sec(clock) - LargeWindow =>
                            e \in hashrateOf'[LoginOf[e.worker]]
    BY DEF WindowsKept, Sec
  <2>1. /\ e.ms \in Nat /\ LoginOf[e.worker] \in Logins
        /\ Sec(e.ms) \in Int /\ Sec(clock) \in Int
    BY Constants, SecDef DEF Types, TypeOK, Share
  <2>2. ASSUME Sec(e.ms) > Sec(clock) - LargeWindow
        PROVE  e \in hashrateOf'[LoginOf[e.worker]]
    <3>1. e \in hashrateOf[LoginOf[e.worker]]
      BY <2>2 DEF WindowsKept
    <3>2. Sec(e.ms) >= max
      BY <2>1, <2>2, Constants
    <3> QED
      BY <2>1, <3>1, <3>2 DEF From, Types
  <2> QED
    BY <2>2 DEF WindowsKept
<1> QED
  BY <1>1, <1>2, <1>3 DEF Types, TypeOK

LEMMA PurgeAccountKeeps ==
  ASSUME Inv, NEW l \in Logins, PurgeAccount(l)
  PROVE  Inv'
<1> USE DEF Inv
<1>1. /\ loop.pc = "purge" /\ loop.max \in Int
      /\ loop.max <= Sec(clock) - LargeWindow
      /\ \/ hashrateOf' = hashrateOf
         \/ hashrateOf' = [hashrateOf EXCEPT ![l] = From(loop.max, @)]
      /\ \/ loop' = Waiting
         \/ loop' = [loop EXCEPT !.left = @ \ {l}]
      /\ UNCHANGED <<clock, hashrate, expireAt, accounts, stats, miners,
                     request, written>>
  BY DEF PurgeAccount, TimeInv, Types, Loops
<1>2. /\ WindowsKept'
      /\ hashrateOf' \in [Logins -> SUBSET Share]
      /\ \A k \in Logins : hashrateOf'[k] \subseteq Of(k, Share)
  BY <1>1, AccountPurged
<1>3. /\ loop' \in Loops
      /\ loop'.pc = "purge" => loop'.max = loop.max
  <2>1. CASE loop' = Waiting
    BY <2>1, WaitingType
  <2>2. CASE loop' = [loop EXCEPT !.left = @ \ {l}]
    BY <2>2 DEF Types, Loops
  <2> QED
    BY <1>1, <2>1, <2>2
<1>4. Types'
  <2>1. /\ loop'.pc \in {"wait", "convert", "luck", "store", "purge"}
        /\ loop'.max \in Int /\ loop'.left \subseteq Logins
        /\ loop'.read \subseteq Share /\ loop'.known \subseteq Share
        /\ loop'.readAt \in 0 .. MaxTime /\ loop'.report \in PoolReport
    BY <1>3 DEF Loops
  <2> QED
    BY <1>1, <1>2, <1>3, <2>1 DEF Types, TypeOK
<1>5. RequestInv' /\ AgeInv'
  BY <1>1 DEF RequestInv, AgeInv, Of
<1>6. TimeInv'
  BY <1>1, <1>3 DEF TimeInv, Sec
<1> QED
  BY <1>2, <1>4, <1>5, <1>6

-----------------------------------------------------------------------------
(* A request for an account.                                                 *)

\* A step of the request that touches nothing else.
LEMMA RequestKeeps ==
  ASSUME Inv, UNCHANGED <<clock, redis, loop, stats, miners, written>>,
         request' \in Requests, request'.pc # "convert",
         request'.pc # "idle" => request'.login \in Logins,
         request'.pc \in {"stats", "workers"} =>
                request'.login \in accounts,
         request'.updatedAt <= clock
  PROVE  Inv'
<1> USE DEF Inv, redis
<1>1. /\ request'.pc \in {"idle", "exists", "stats", "workers", "convert"}
      /\ request'.login \in Logins \cup {Nobody}
      /\ request'.updatedAt \in 0 .. MaxTime
      /\ request'.readAt \in 0 .. MaxTime
      /\ request'.read \subseteq Share /\ request'.known \subseteq Share
  BY DEF Requests
<1>2. Types'
  BY <1>1 DEF Types, TypeOK
<1>3. RequestInv' /\ TimeInv' /\ AgeInv' /\ WindowsKept'
  BY DEF RequestInv, TimeInv, AgeInv, WindowsKept, Of, Sec
<1> QED
  BY <1>2, <1>3

\* After a call that fails there is no request.
LEMMA FailedKeeps ==
  ASSUME Inv, UNCHANGED <<clock, redis, loop, stats, miners, written>>,
         request' = NoRequest
  PROVE  Inv'
<1>1. 0 <= clock
  BY DEF Inv, Types, TypeOK
<1> QED
  BY <1>1, NoRequestType, RequestKeeps

LEMMA AccountIndexKeeps ==
  ASSUME Inv, NEW l \in Logins, AccountIndex(l)
  PROVE  Inv'
<1>1. request' = [NoRequest EXCEPT !.pc = "exists", !.login = l,
                                   !.updatedAt = clock]
  BY DEF AccountIndex
<1>2. clock \in 0 .. MaxTime /\ clock <= clock
  BY Constants DEF Inv, Types, TypeOK
<1>3. /\ request' \in Requests /\ request'.pc = "exists"
      /\ request'.login = l /\ request'.updatedAt = clock
  BY <1>1, <1>2, NoRequestType DEF Requests
<1>4. UNCHANGED <<clock, redis, loop, stats, miners, written>>
  BY DEF AccountIndex
<1> QED
  BY <1>2, <1>3, <1>4, RequestKeeps

LEMMA IsMinerExistsKeeps ==
  ASSUME Inv, IsMinerExists
  PROVE  Inv'
<1>1. UNCHANGED <<clock, redis, loop, stats, miners, written>>
  BY DEF IsMinerExists
<1>2. \/ request' = NoRequest
      \/ /\ request.login \in accounts
         /\ request' = [request EXCEPT !.pc = "stats"]
  BY DEF IsMinerExists, Continue
<1>3. CASE /\ request.login \in accounts
           /\ request' = [request EXCEPT !.pc = "stats"]
  <2>1. /\ request \in Requests /\ request.login \in Logins
        /\ request.updatedAt <= clock
    BY DEF IsMinerExists, Inv, Types, RequestInv, AgeInv
  <2>2. /\ request' \in Requests /\ request'.pc = "stats"
        /\ request'.login = request.login
        /\ request'.updatedAt = request.updatedAt
    BY <1>3, <2>1 DEF Requests
  <2> QED
    BY <1>1, <1>3, <2>1, <2>2, RequestKeeps
<1> QED
  BY <1>1, <1>2, <1>3, FailedKeeps

LEMMA GetMinerStatsKeeps ==
  ASSUME Inv, GetMinerStats
  PROVE  Inv'
<1>1. UNCHANGED <<clock, redis, loop, stats, miners, written>>
  BY DEF GetMinerStats
<1>2. \/ request' = NoRequest
      \/ request' = [request EXCEPT !.pc = "workers"]
  BY DEF GetMinerStats, Continue
<1>3. CASE request' = [request EXCEPT !.pc = "workers"]
  <2>1. /\ request \in Requests /\ request.login \in Logins
        /\ request.updatedAt <= clock /\ request.login \in accounts
    BY DEF GetMinerStats, Inv, Types, RequestInv, AgeInv
  <2>2. /\ request' \in Requests /\ request'.pc = "workers"
        /\ request'.login = request.login
        /\ request'.updatedAt = request.updatedAt
    BY <1>3, <2>1 DEF Requests
  <2> QED
    BY <1>1, <2>1, <2>2, RequestKeeps
<1> QED
  BY <1>1, <1>2, <1>3, FailedKeeps

LEMMA CollectWorkersStatsKeeps ==
  ASSUME Inv, CollectWorkersStats
  PROVE  Inv'
<1> DEFINE l == request.login
           max == Sec(clock) - LargeWindow
           kept == From(max, hashrateOf[l])
           read == [request EXCEPT !.pc = "convert", !.readAt = clock,
                                   !.read = kept, !.known = Of(l, written)]
<1> USE DEF Inv
<1>1. /\ request.pc = "workers" /\ l \in Logins
      /\ l \in accounts /\ request.updatedAt <= clock
  BY DEF CollectWorkersStats, RequestInv, AgeInv
<1>2. /\ \/ request' = NoRequest
         \/ request' = read
      /\ \/ hashrateOf' = hashrateOf
         \/ hashrateOf' = [hashrateOf EXCEPT ![l] = From(max, @)]
      /\ UNCHANGED <<clock, hashrate, expireAt, accounts, loop, stats,
                     miners, written>>
  BY DEF CollectWorkersStats, Continue
<1>3. max \in Int /\ max <= Sec(clock) - LargeWindow
  BY SecDef, Constants DEF Types, TypeOK
<1>4. /\ WindowsKept'
      /\ hashrateOf' \in [Logins -> SUBSET Share]
      /\ \A k \in Logins : hashrateOf'[k] \subseteq Of(k, Share)
  BY <1>1, <1>2, <1>3, AccountPurged
<1>5. kept \subseteq Share /\ Of(l, written) \subseteq Share
  BY <1>1, FromIn DEF Types, TypeOK, Of
<1>6. /\ request' \in Requests
      /\ \/ request'.pc = "idle" /\ request'.updatedAt = 0
         \/ /\ request'.pc = "convert" /\ request'.login = l
            /\ request'.updatedAt = request.updatedAt
            /\ request'.readAt = clock
  <2>1. CASE request' = NoRequest
    BY <2>1, NoRequestType
  <2>2. CASE request' = read
    BY <2>2, <1>5 DEF Types, TypeOK, Requests
  <2> QED
    BY <1>2, <2>1, <2>2
<1>7. Types'
  <2>1. /\ request'.pc \in {"idle", "exists", "stats", "workers", "convert"}
        /\ request'.login \in Logins \cup {Nobody}
        /\ request'.updatedAt \in 0 .. MaxTime
        /\ request'.readAt \in 0 .. MaxTime
        /\ request'.read \subseteq Share /\ request'.known \subseteq Share
    BY <1>6 DEF Requests
  <2> QED
    BY <1>2, <1>4, <1>6, <2>1 DEF Types, TypeOK
<1>8. RequestInv'
  BY <1>1, <1>2, <1>6 DEF RequestInv, Of
<1>9. TimeInv'
  BY <1>2 DEF TimeInv, Sec
<1>10. AgeInv'
  BY <1>1, <1>2, <1>6 DEF AgeInv, Types, TypeOK
<1> QED
  BY <1>4, <1>7, <1>8, <1>9, <1>10

LEMMA CacheAccountKeeps ==
  ASSUME Inv, CacheAccount
  PROVE  Inv'
<1> DEFINE entry == [updatedAt |-> StoredAt, readAt |-> request.readAt,
                     status |-> WorkersOf(request.read, Sec(request.readAt)),
                     small |-> InSmallWindow(request.read)]
<1> USE DEF Inv
<1>1. /\ request.pc = "convert" /\ request.login \in Logins
      /\ request.login \in accounts
      /\ request.updatedAt <= request.readAt
  BY DEF CacheAccount, RequestInv, AgeInv
<1>2. /\ miners' = [l \in DOMAIN miners \cup {request.login} |->
                        IF l = request.login THEN entry ELSE miners[l]]
      /\ request' = NoRequest
      /\ UNCHANGED <<clock, redis, loop, stats, written>>
  BY DEF CacheAccount
<1>3. entry \in Report
  <2>1. WorkersOf(request.read, Sec(request.readAt)) \in [Workers -> Status]
    BY StatusType DEF WorkersOf
  <2>2. InSmallWindow(request.read) \subseteq Share
    BY FromIn DEF InSmallWindow, Types, Requests
  <2> QED
    BY <2>1, <2>2 DEF Report, StoredAt, Types, Requests
<1>4. entry.updatedAt <= entry.readAt
  BY <1>1 DEF StoredAt
<1> HIDE DEF entry
<1>5. DOMAIN miners' \subseteq accounts
  BY <1>1, <1>2 DEF Of, Types, TypeOK
<1>6. \A l \in DOMAIN miners' : /\ miners'[l] \in Report
                                /\ miners'[l].updatedAt <= miners'[l].readAt
  BY <1>2, <1>3, <1>4 DEF Types, TypeOK, AgeInv
<1>7. Types'
  <2>1. /\ request'.pc \in {"idle", "exists", "stats", "workers", "convert"}
        /\ request'.login \in Logins \cup {Nobody}
        /\ request'.updatedAt \in 0 .. MaxTime
        /\ request'.readAt \in 0 .. MaxTime
        /\ request'.read \subseteq Share /\ request'.known \subseteq Share
        /\ request' \in Requests
    BY <1>2, NoRequestType DEF Requests
  <2> QED
    BY <1>2, <1>5, <1>6, <2>1 DEF Types, TypeOK, redis
<1>8. RequestInv' /\ TimeInv' /\ WindowsKept'
  <2>1. RequestInv'
    BY <1>2, NoRequestType DEF RequestInv
  <2>2. TimeInv' /\ WindowsKept'
    BY <1>2 DEF TimeInv, WindowsKept, Sec, redis
  <2> QED
    BY <2>1, <2>2
<1>9. AgeInv'
  <2>1. clock' = clock /\ 0 <= clock
    BY <1>2 DEF Types, TypeOK
  <2>2. request'.pc = "idle" /\ request'.updatedAt = 0
    BY <1>2, NoRequestType
  <2> QED
    BY <1>6, <2>1, <2>2 DEF AgeInv
<1> QED
  BY <1>7, <1>8, <1>9

LEMMA NextKeeps == Inv /\ [Next]_vars => Inv'
<1> SUFFICES ASSUME Inv, [Next]_vars PROVE Inv'
  OBVIOUS
<1>1. CASE UNCHANGED vars
  BY <1>1 DEF Inv, Types, TypeOK, RequestInv, TimeInv, AgeInv, WindowsKept,
     vars, redis, Of, Sec
<1>2. CASE \E w \in Workers : WriteShare(w)
  BY <1>2, WriteShareKeeps
<1>3. CASE Tick
  BY <1>3, TickKeeps
<1>4. CASE \/ CollectStats \/ ConvertStats \/ CollectLuckStats
           \/ StoreStats \/ PurgePool
  BY <1>4, CollectStatsKeeps, ConvertStatsKeeps, CollectLuckStatsKeeps,
     StoreStatsKeeps, PurgePoolKeeps
<1>5. CASE \E l \in Logins : Credit(l) \/ PurgeAccount(l)
  BY <1>5, CreditKeeps, PurgeAccountKeeps
<1>6. CASE \/ \E l \in Logins : AccountIndex(l)
           \/ IsMinerExists
           \/ GetMinerStats
  BY <1>6, AccountIndexKeeps, IsMinerExistsKeeps, GetMinerStatsKeeps
<1>7. CASE CollectWorkersStats
  BY <1>7, CollectWorkersStatsKeeps
<1>8. CASE CacheAccount
  BY <1>8, CacheAccountKeeps
<1> QED
  BY <1>1, <1>2, <1>3, <1>4, <1>5, <1>6, <1>7, <1>8 DEF Next

-----------------------------------------------------------------------------

LEMMA Invariance == Spec => []Inv
<1>1. Init => Inv
  BY InitOK
<1>2. Inv /\ [Next]_vars => Inv'
  BY NextKeeps
<1> QED
  BY <1>1, <1>2, PTL DEF Spec

\* Every variable keeps its type, and only accounts that are in
\* Redis (by a share or by a credit) are cached.
THEOREM TypeCorrect == Spec => []TypeOK
<1>1. Inv => TypeOK
  BY DEF Inv, Types
<1> QED
  BY <1>1, Invariance, PTL

\* Whatever FlushStaleStats, CollectStats and CollectWorkersStats remove, by
\* whichever clock, and whenever a key expires, the sets hold every share of
\* their windows.
THEOREM NoShareLostFromWindows == Spec => []WindowsKept
<1>1. Inv => WindowsKept
  BY DEF Inv
<1> QED
  BY <1>1, Invariance, PTL

\* AccountIndex never answers from an entry that was read longer ago than the
\* interval of the statistics.
THEOREM CachedAccountsAreFresh == Spec => []AccountsFresh
<1>1. Inv => AccountsFresh
  <2> SUFFICES ASSUME Inv, NEW l \in Logins, Fresh(l)
               PROVE  miners[l].readAt >= clock - StatsInterval
    BY DEF AccountsFresh
  <2>1. /\ l \in DOMAIN miners /\ miners[l] \in Report
        /\ miners[l].updatedAt >= clock - StatsInterval
        /\ miners[l].updatedAt <= miners[l].readAt
    BY DEF Inv, AgeInv, Types, TypeOK, Fresh
  <2>2. /\ miners[l].updatedAt \in Int /\ miners[l].readAt \in Int
        /\ clock \in Int /\ StatsInterval \in Int
    BY <2>1, Constants DEF Report, Inv, Types, TypeOK
  <2> QED
    BY <2>1, <2>2
<1> QED
  BY <1>1, Invariance, PTL

-----------------------------------------------------------------------------
(* Reports.  The last of some shares is there, because the clock is bounded. *)

LEMMA LastIsMax ==
  ASSUME NEW S, IsFiniteSet(S), S \subseteq Int, S # {}
  PROVE  Max(S) \in S /\ \A y \in S : y <= Max(S)
<1> DEFINE G == {T \in SUBSET S :
                    T # {} => \E x \in T : \A y \in T : y <= x}
<1>1. {} \in G
  OBVIOUS
<1>2. ASSUME NEW T \in SUBSET S, NEW a \in T, T \ {a} \in G
      PROVE  T \in G
  <2>1. CASE T = {a}
    BY <2>1
  <2>2. CASE T # {a}
    <3>1. PICK b \in T \ {a} : \A y \in T \ {a} : y <= b
      BY <1>2, <2>2
    <3>2. a \in Int /\ b \in Int /\ T \subseteq Int
      OBVIOUS
    <3>3. \E x \in T : \A y \in T : y <= x
      <4>1. CASE a <= b
        BY <3>1, <3>2, <4>1
      <4>2. CASE b <= a
        BY <3>1, <3>2, <4>2
      <4> QED
        BY <3>2, <4>1, <4>2
    <3> QED
      BY <3>3
  <2> QED
    BY <2>1, <2>2
<1> HIDE DEF G
<1>3. \A T \in SUBSET S : T \in G
  BY <1>1, <1>2, ElementInduction
<1>4. \E x \in S : \A y \in S : y <= x
  BY <1>3 DEF G
<1>5. \E x \in S : \A y \in S : x >= y
  BY <1>4
<1> QED
  BY <1>5 DEF Max

LEMMA LastIs ==
  ASSUME NEW E \in SUBSET Share
  PROVE  /\ Last(E) \in Int
         /\ Last(E) >= -1
         /\ \A e \in E : Sec(e.ms) \in Nat /\ Sec(e.ms) <= Last(E)
         /\ Last(E) = -1 \/ \E e \in E : Last(E) = Sec(e.ms)
<1> DEFINE S == {-1} \cup {Sec(e.ms) : e \in E}
<1>1. \A e \in E : e.ms \in 0 .. MaxTime /\ e.ms \in Nat
  BY Constants DEF Share
<1>2. \A e \in E : Sec(e.ms) \in Nat /\ Sec(e.ms) <= Sec(MaxTime)
  BY <1>1, Constants, SecDef, SecMonotone
<1>3. Sec(MaxTime) \in Nat
  BY Constants, SecDef
<1>4. S \subseteq -1 .. Sec(MaxTime)
  BY <1>2, <1>3
<1>5. IsFiniteSet(S)
  <2>1. IsFiniteSet(-1 .. Sec(MaxTime))
    BY <1>3, FS_Interval
  <2> QED
    BY <1>4, <2>1, FS_Subset
<1>6. S \subseteq Int /\ S # {}
  BY <1>4
<1>7. Max(S) \in S /\ \A y \in S : y <= Max(S)
  BY <1>5, <1>6, LastIsMax
<1>8. Last(E) = Max(S)
  BY DEF Last
<1> QED
  BY <1>2, <1>6, <1>7, <1>8

\* The status by the shares that were read is the status by all there were,
\* when those that were not read are out of the window, and too old to count
\* or no newer than one that was read.
LEMMA StatusByRead ==
  ASSUME NEW K \in SUBSET Share, NEW R \in SUBSET K, NEW now \in Int,
         NEW window \in Nat,
         \A e \in K \ R : /\ Sec(e.ms) <= now - window
                          /\ \/ Sec(e.ms) < now - SmallWindow \div 2
                             \/ \A r \in R : Sec(e.ms) <= Sec(r.ms)
  PROVE  StatusRight(StatusOf(R, now), Last(K), now, window)
<1> DEFINE half == SmallWindow \div 2
<1>1. half \in Nat
  BY Constants
<1>2. /\ Last(K) \in Int /\ Last(K) >= -1
      /\ \A e \in K : Sec(e.ms) \in Nat /\ Sec(e.ms) <= Last(K)
      /\ Last(K) = -1 \/ \E e \in K : Last(K) = Sec(e.ms)
  BY LastIs
<1>3. /\ Last(R) \in Int /\ Last(R) >= -1
      /\ \A e \in R : Sec(e.ms) \in Nat /\ Sec(e.ms) <= Last(R)
      /\ Last(R) = -1 \/ \E e \in R : Last(R) = Sec(e.ms)
  <2>1. R \in SUBSET Share
    OBVIOUS
  <2> QED
    BY <2>1, LastIs
<1>4. Last(R) <= Last(K)
  BY <1>2, <1>3
<1> HIDE DEF half
<1>5. CASE R = {}
  <2>1. StatusOf(R, now) = "absent"
    BY <1>5 DEF StatusOf
  <2>2. Last(K) <= now - window \/ Last(K) = -1
    BY <1>2, <1>5
  <2> QED
    BY <2>1, <2>2 DEF StatusRight
<1>6. CASE R # {} /\ Last(R) < now - half
  <2>1. StatusOf(R, now) = "offline"
    BY <1>6 DEF StatusOf, half
  <2>2. PICK r \in R : Sec(r.ms) \in Nat /\ Sec(r.ms) <= Last(R)
    BY <1>3, <1>6
  <2>3. Last(K) # -1
    BY <1>2, <2>2
  <2>4. PICK e \in K : Last(K) = Sec(e.ms)
    BY <1>2, <2>3
  <2>5. Last(K) < now - half
    <3>1. CASE e \in R
      BY <1>1, <1>2, <1>3, <1>6, <2>4, <3>1
    <3>2. CASE e \notin R /\ Sec(e.ms) < now - SmallWindow \div 2
      BY <2>4, <3>2 DEF half
    <3>3. CASE e \notin R /\ \A q \in R : Sec(e.ms) <= Sec(q.ms)
      BY <1>1, <1>2, <1>3, <1>6, <2>2, <2>4, <3>3
    <3> QED
      BY <3>1, <3>2, <3>3
  <2> QED
    BY <2>1, <2>5 DEF StatusRight, half
<1>7. CASE R # {} /\ ~(Last(R) < now - half)
  <2>1. StatusOf(R, now) = "online"
    BY <1>7 DEF StatusOf, half
  <2>2. Last(K) >= now - half
    BY <1>1, <1>2, <1>3, <1>4, <1>7
  <2> QED
    BY <2>1, <2>2 DEF StatusRight, half
<1> QED
  BY <1>5, <1>6, <1>7

\* The goroutine's report is that of the moment t.
RightAt(t) ==
    \A l \in Logins :
        StatusRight(loop.report[l], Last(Of(l, loop.known)), Sec(t),
                    SmallWindow)

\* What was read is what had been written, but for what is too old.
ReadInv ==
    /\ hashrate \subseteq written
    /\ \A l \in Logins : hashrateOf[l] \subseteq written
    /\ loop.pc = "convert" =>
        /\ loop.readAt <= clock
        /\ loop.read \subseteq loop.known
        /\ \A e \in loop.known :
                Sec(e.ms) >= Sec(clock) - SmallWindow => e \in loop.read
    /\ loop.pc \in {"luck", "store"} =>
        \E t \in loop.readAt .. clock : RightAt(t)
    /\ request.pc = "convert" =>
        /\ request.readAt <= clock
        /\ request.read \subseteq request.known
        /\ \A e \in request.known :
                Sec(e.ms) > Sec(request.readAt) - LargeWindow =>
                    e \in request.read
        /\ \A e \in request.read :
                Sec(e.ms) >= Sec(request.readAt) - LargeWindow

LEMMA ReportStays ==
  ASSUME ReadInv, UNCHANGED <<clock, loop>>
  PROVE  loop'.pc \in {"luck", "store"} =>
            \E t \in loop'.readAt .. clock' : RightAt(t)'
BY DEF ReadInv, RightAt, StatusRight, Last, Of, Sec

LEMMA InitReads == Init => ReadInv
BY DEF Init, ReadInv, Waiting, NoRequest

\* A purge of the sets takes nothing from what was read.
LEMMA SetsKeepReads ==
  ASSUME Inv, ReadInv, UNCHANGED <<clock, request, written>>,
         hashrate' \subseteq hashrate,
         \A l \in Logins : hashrateOf'[l] \subseteq hashrateOf[l],
         loop'.pc \in {"wait", "purge"}
  PROVE  ReadInv'
<1>1. /\ hashrate' \subseteq written'
      /\ \A l \in Logins : hashrateOf'[l] \subseteq written'
  BY DEF ReadInv
<1> QED
  BY <1>1 DEF ReadInv, Sec

LEMMA WriteShareKeepsReads ==
  ASSUME Inv, ReadInv, NEW w \in Workers, WriteShare(w)
  PROVE  ReadInv'
<1> DEFINE e == [worker |-> w, ms |-> clock]
           l == LoginOf[w]
<1>1. /\ written' = written \cup {e} /\ hashrate' = hashrate \cup {e}
      /\ hashrateOf' = [hashrateOf EXCEPT ![l] = @ \cup {e}]
      /\ UNCHANGED <<clock, loop, request>>
  BY DEF WriteShare
<1>2. hashrate' \subseteq written'
  BY <1>1 DEF ReadInv
<1>3. \A k \in Logins : hashrateOf'[k] \subseteq written'
  BY <1>1 DEF ReadInv, Inv, Types
<1> QED
  BY <1>1, <1>2, <1>3, ReportStays DEF ReadInv, Sec

LEMMA TickKeepsReads ==
  ASSUME Inv, ReadInv, Tick
  PROVE  ReadInv'
<1>1. /\ clock \in Nat /\ clock' = clock + 1 /\ clock' \in Nat
      /\ hashrateOf' = [l \in Logins |-> IF expireAt[l] < clock' THEN {}
                                         ELSE hashrateOf[l]]
      /\ UNCHANGED <<hashrate, loop, request, written>>
  BY Constants DEF Tick, Inv, Types, TypeOK
<1>2. Sec(clock) <= Sec(clock') /\ Sec(clock) \in Int /\ Sec(clock') \in Int
  BY <1>1, SecMonotone, SecDef
<1>3. hashrate' \subseteq written'
  BY <1>1 DEF ReadInv
<1>4. \A l \in Logins : hashrateOf'[l] \subseteq written'
  BY <1>1 DEF ReadInv
<1>5. ASSUME loop'.pc = "convert"
      PROVE  /\ loop'.readAt <= clock'
             /\ loop'.read \subseteq loop'.known
             /\ \A e \in loop'.known :
                  Sec(e.ms) >= Sec(clock') - SmallWindow => e \in loop'.read
  <2>1. \A e \in loop.known : Sec(e.ms) \in Int
    BY Constants, SecDef DEF Inv, Types, TypeOK, Share
  <2>2. loop.readAt \in Int
    BY Constants DEF Inv, Types, TypeOK
  <2> QED
    BY <1>1, <1>2, <1>5, <2>1, <2>2, Constants DEF ReadInv
<1>6. request.pc = "convert" => request.readAt <= clock'
  BY <1>1 DEF ReadInv, Inv, Types, TypeOK
<1>7. ASSUME loop'.pc \in {"luck", "store"}
      PROVE  \E t \in loop'.readAt .. clock' : RightAt(t)'
  <2>1. PICK t \in loop.readAt .. clock : RightAt(t)
    BY <1>1, <1>7 DEF ReadInv
  <2>2. t \in loop'.readAt .. clock'
    BY <1>1 DEF Inv, Types, TypeOK
  <2>3. RightAt(t)'
    BY <1>1, <2>1 DEF RightAt, StatusRight, Last, Of, Sec
  <2> QED
    BY <2>2, <2>3
<1> QED
  BY <1>1, <1>3, <1>4, <1>5, <1>6, <1>7 DEF ReadInv, Sec

LEMMA CollectStatsKeepsReads ==
  ASSUME Inv, ReadInv, CollectStats
  PROVE  ReadInv'
<1> DEFINE kept == From(Sec(clock) - SmallWindow, hashrate)
<1>1. UNCHANGED <<clock, hashrateOf, request, written>>
  BY DEF CollectStats
<1>2. kept \subseteq hashrate
  BY FromIn
<1>3. CASE hashrate' = hashrate /\ loop' = Waiting
  BY <1>1, <1>3, WaitingType, SetsKeepReads
<1>4. CASE /\ hashrate' = kept
           /\ loop' = [loop EXCEPT !.pc = "convert", !.read = kept,
                                   !.known = written, !.readAt = clock]
  <2>1. /\ loop'.read = kept /\ loop'.known = written
        /\ loop'.readAt = clock /\ loop'.pc = "convert"
    BY <1>4 DEF Inv, Types, Loops
  <2>2. \A e \in written :
            Sec(e.ms) >= Sec(clock) - SmallWindow => e \in kept
    BY DEF Inv, WindowsKept, From
  <2>3. hashrate' \subseteq written'
    BY <1>1, <1>2, <1>4 DEF ReadInv
  <2>4. loop'.read \subseteq loop'.known
    BY <1>2, <2>1 DEF ReadInv
  <2>5. loop'.readAt <= clock'
    BY <1>1, <2>1 DEF Inv, Types, TypeOK
  <2> QED
    BY <1>1, <2>1, <2>2, <2>3, <2>4, <2>5 DEF ReadInv, Sec
<1> QED
  BY <1>3, <1>4 DEF CollectStats

\* The statistics of the pool are right at the moment of the conversion.
LEMMA ConvertedRight ==
  ASSUME Inv, ReadInv, ConvertStats
  PROVE  RightAt(clock)'
<1> SUFFICES ASSUME NEW l \in Logins
             PROVE  StatusRight(loop'.report[l], Last(Of(l, loop.known)),
                                Sec(clock), SmallWindow)
  BY DEF RightAt, ConvertStats, Inv, Types, Loops, StatusRight, Last, Of, Sec
<1> DEFINE K == Of(l, loop.known)
           R == Of(l, loop.read)
<1>1. loop'.report[l] = StatusOf(R, Sec(clock))
  BY DEF ConvertStats, ConvertMiners, Inv, Types, Loops
<1>2. Sec(clock) \in Int /\ SmallWindow \in Nat
  BY Constants, SecDef DEF Inv, Types, TypeOK
<1>3. loop.pc = "convert" /\ loop.known \subseteq Share
  BY DEF ConvertStats, Inv, Types, TypeOK
<1>4. K \in SUBSET Share /\ R \in SUBSET K
  BY <1>3 DEF ReadInv, Of
<1>5. ASSUME NEW e \in K \ R
      PROVE  /\ Sec(e.ms) <= Sec(clock) - SmallWindow
             /\ Sec(e.ms) < Sec(clock) - SmallWindow \div 2
  <2>1. e \in loop.known /\ ~ (Sec(e.ms) >= Sec(clock) - SmallWindow)
    BY <1>3 DEF ReadInv, Of
  <2>2. Sec(e.ms) \in Int
    BY <1>3, <2>1, Constants, SecDef DEF Share
  <2>3. SmallWindow \div 2 \in Int /\ SmallWindow \div 2 <= SmallWindow
    BY <1>2
  <2> QED
    BY <1>2, <2>1, <2>2, <2>3
<1> HIDE DEF K, R
<1>6. StatusRight(StatusOf(R, Sec(clock)), Last(K), Sec(clock), SmallWindow)
  BY <1>2, <1>4, <1>5, StatusByRead
<1> QED
  BY <1>1, <1>6 DEF K

LEMMA ConvertStatsKeepsReads ==
  ASSUME Inv, ReadInv, ConvertStats
  PROVE  ReadInv'
<1>1. UNCHANGED <<clock, hashrate, hashrateOf, request, written>>
  BY DEF ConvertStats, redis
<1>2. loop'.pc = "luck" /\ loop'.readAt = loop.readAt
  BY DEF ConvertStats, Inv, Types, Loops
<1>3. clock \in loop'.readAt .. clock'
  BY <1>1, <1>2 DEF ConvertStats, ReadInv, Inv, Types, TypeOK
<1>4. \E t \in loop'.readAt .. clock' : RightAt(t)'
  BY <1>1, <1>3, ConvertedRight DEF RightAt
<1> QED
  BY <1>1, <1>2, <1>4 DEF ReadInv, Sec

LEMMA CollectLuckStatsKeepsReads ==
  ASSUME Inv, ReadInv, CollectLuckStats
  PROVE  ReadInv'
<1>1. UNCHANGED <<clock, hashrate, hashrateOf, request, written>>
  BY DEF CollectLuckStats, redis
<1>2. CASE loop' = Waiting
  BY <1>1, <1>2, WaitingType, SetsKeepReads
<1>3. CASE loop' = [loop EXCEPT !.pc = "store"]
  <2>1. /\ loop'.pc = "store" /\ loop'.readAt = loop.readAt
        /\ loop'.report = loop.report /\ loop'.known = loop.known
    BY <1>3 DEF Inv, Types, Loops
  <2>2. PICK t \in loop.readAt .. clock : RightAt(t)
    BY DEF CollectLuckStats, ReadInv
  <2>3. RightAt(t)' /\ t \in loop'.readAt .. clock'
    BY <1>1, <2>1, <2>2 DEF RightAt, StatusRight, Last, Of, Sec
  <2>4. \E u \in loop'.readAt .. clock' : RightAt(u)'
    BY <2>3
  <2> QED
    BY <1>1, <2>1, <2>4 DEF ReadInv, Sec
<1> QED
  BY <1>2, <1>3 DEF CollectLuckStats

LEMMA LoopKeepsReads ==
  ASSUME Inv, ReadInv,
         StoreStats \/ PurgePool \/ \E l \in Logins : PurgeAccount(l)
  PROVE  ReadInv'
<1>1. CASE StoreStats
  <2>1. loop'.pc \in {"wait", "purge"}
    BY <1>1, WaitingType DEF StoreStats
  <2> QED
    BY <1>1, <2>1, SetsKeepReads DEF StoreStats, redis
<1>2. CASE PurgePool
  <2>1. hashrate' \subseteq hashrate
    BY <1>2, FromIn DEF PurgePool
  <2>2. loop'.pc \in {"wait", "purge"}
    BY <1>2, WaitingType DEF PurgePool, Inv, Types, Loops
  <2>3. UNCHANGED <<clock, hashrateOf, request, written>>
    BY <1>2 DEF PurgePool
  <2> QED
    BY <2>1, <2>2, <2>3, SetsKeepReads
<1>3. ASSUME NEW l \in Logins, PurgeAccount(l) PROVE ReadInv'
  <2>1. \A k \in Logins : hashrateOf'[k] \subseteq hashrateOf[k]
    BY <1>3, FromIn DEF PurgeAccount, Inv, Types
  <2>2. loop'.pc \in {"wait", "purge"}
    BY <1>3, WaitingType DEF PurgeAccount, Inv, Types, Loops
  <2>3. UNCHANGED <<clock, hashrate, request, written>>
    BY <1>3 DEF PurgeAccount
  <2> QED
    BY <2>1, <2>2, <2>3, SetsKeepReads
<1> QED
  BY <1>1, <1>2, <1>3

\* A request reads nothing but in CollectWorkersStats.
LEMMA OtherRequestsKeepReads ==
  ASSUME Inv, ReadInv,
         UNCHANGED <<clock, hashrate, loop, written>>,
         \A l \in Logins : hashrateOf'[l] \subseteq hashrateOf[l],
         request'.pc # "convert"
  PROVE  ReadInv'
<1>1. \A l \in Logins : hashrateOf'[l] \subseteq written'
  BY DEF ReadInv
<1> QED
  BY <1>1, ReportStays DEF ReadInv, Sec

LEMMA CollectWorkersStatsKeepsReads ==
  ASSUME Inv, ReadInv, CollectWorkersStats
  PROVE  ReadInv'
<1> DEFINE l == request.login
           max == Sec(clock) - LargeWindow
           kept == From(max, hashrateOf[l])
           read == [request EXCEPT !.pc = "convert", !.readAt = clock,
                                   !.read = kept, !.known = Of(l, written)]
<1>1. UNCHANGED <<clock, hashrate, loop, written>>
  BY DEF CollectWorkersStats
<1>2. kept \subseteq hashrateOf[l] /\ l \in Logins
  BY FromIn DEF CollectWorkersStats, Inv, RequestInv
<1>3. CASE request' = NoRequest /\ hashrateOf' = hashrateOf
  BY <1>1, <1>3, NoRequestType, OtherRequestsKeepReads
<1>4. CASE request' = read /\ hashrateOf' = [hashrateOf EXCEPT ![l] = kept]
  <2>1. /\ request'.readAt = clock /\ request'.read = kept
        /\ request'.known = Of(l, written)
    BY <1>4 DEF Inv, Types, Requests
  <2>2. \A e \in Of(l, written) : Sec(e.ms) > max => e \in kept
    <3> SUFFICES ASSUME NEW e \in written, LoginOf[e.worker] = l,
                        Sec(e.ms) > max
                 PROVE  e \in kept
      BY DEF Of
    <3>1. e \in hashrateOf[l]
      BY DEF Inv, WindowsKept
    <3>2. Sec(e.ms) >= max
      BY Constants, SecDef DEF Inv, Types, TypeOK, Share
    <3> QED
      BY <3>1, <3>2 DEF From
  <2>3. \A e \in kept : Sec(e.ms) >= max
    BY DEF From
  <2>4. kept \subseteq Of(l, written)
    BY <1>2 DEF ReadInv, Of, Inv, Types, TypeOK
  <2>5. \A k \in Logins : hashrateOf'[k] \subseteq written'
    BY <1>1, <1>2, <1>4 DEF ReadInv, Inv, Types
  <2>6. clock <= clock /\ max = Sec(clock) - LargeWindow
    BY DEF Inv, Types, TypeOK
  <2> HIDE DEF max, kept
  <2>7. /\ request'.readAt <= clock'
        /\ request'.read \subseteq request'.known
        /\ \A e \in request'.known :
                Sec(e.ms) > Sec(request'.readAt) - LargeWindow =>
                    e \in request'.read
        /\ \A e \in request'.read :
                Sec(e.ms) >= Sec(request'.readAt) - LargeWindow
    BY <1>1, <2>1, <2>2, <2>3, <2>4, <2>6
  <2> QED
    BY <1>1, <2>5, <2>7, ReportStays DEF ReadInv, Sec
<1> QED
  BY <1>3, <1>4 DEF CollectWorkersStats, Continue

LEMMA RequestsKeepReads ==
  ASSUME Inv, ReadInv,
         \/ \E l \in Logins : AccountIndex(l)
         \/ IsMinerExists \/ GetMinerStats \/ CacheAccount
  PROVE  ReadInv'
<1>1. /\ UNCHANGED <<clock, hashrate, loop, written>>
      /\ \A l \in Logins : hashrateOf'[l] \subseteq hashrateOf[l]
  BY DEF AccountIndex, IsMinerExists, GetMinerStats, CacheAccount, redis
<1>2. request'.pc # "convert"
  <2>1. CASE \E l \in Logins : AccountIndex(l)
    BY <2>1, NoRequestType DEF AccountIndex, Requests
  <2>2. CASE IsMinerExists \/ GetMinerStats \/ CacheAccount
    BY <2>2, NoRequestType
       DEF IsMinerExists, GetMinerStats, CacheAccount, Continue, Inv, Types,
           Requests
  <2> QED
    BY <2>1, <2>2
<1> QED
  BY <1>1, <1>2, OtherRequestsKeepReads

LEMMA NextKeepsReads == Inv /\ ReadInv /\ [Next]_vars => ReadInv'
<1> SUFFICES ASSUME Inv, ReadInv, [Next]_vars PROVE ReadInv'
  OBVIOUS
<1>1. CASE UNCHANGED vars
  BY <1>1, ReportStays DEF ReadInv, vars, redis, Sec
<1>2. CASE Next
  <2>1. CASE \E l \in Logins : Credit(l)
    BY <1>2, <2>1, ReportStays DEF Credit, ReadInv, Sec
  <2> QED
    BY <1>2, <2>1, WriteShareKeepsReads, TickKeepsReads,
       CollectStatsKeepsReads, ConvertStatsKeepsReads,
       CollectLuckStatsKeepsReads, LoopKeepsReads,
       CollectWorkersStatsKeepsReads, RequestsKeepReads
       DEF Next
<1> QED
  BY <1>1, <1>2

-----------------------------------------------------------------------------

\* The rigs of an account, and its current hashrate.
LEMMA AccountReportRight ==
  ASSUME Inv, ReadInv, CacheAccount
  PROVE  LET r == miners'[request.login]
         IN  /\ \A w \in Workers : LoginOf[w] = request.login =>
                    StatusRight(r.status[w], Last(By(w, request.known)),
                                Sec(request.readAt), LargeWindow)
             /\ SmallWindow < LargeWindow =>
                    r.small = From(Sec(clock) - SmallWindow, request.known)
<1> DEFINE now == Sec(request.readAt)
           r == miners'[request.login]
<1>1. /\ r.status = WorkersOf(request.read, now)
      /\ r.small = InSmallWindow(request.read)
  BY DEF CacheAccount
<1>2. /\ request.pc = "convert" /\ request.known \subseteq Share
      /\ request.readAt \in Nat /\ clock \in Nat /\ request.readAt <= clock
  BY Constants DEF CacheAccount, Inv, Types, TypeOK, ReadInv
<1>3. /\ now \in Int /\ Sec(clock) \in Int /\ now <= Sec(clock)
      /\ LargeWindow \in Nat /\ SmallWindow \in Nat
  BY <1>2, Constants, SecDef, SecMonotone
<1>4. /\ request.read \subseteq request.known
      /\ \A e \in request.known :
                Sec(e.ms) > now - LargeWindow => e \in request.read
      /\ \A e \in request.read : Sec(e.ms) >= now - LargeWindow
  BY <1>2 DEF ReadInv
<1>5. \A e \in request.known : Sec(e.ms) \in Int
  BY <1>2, Constants, SecDef DEF Share
<1> HIDE DEF now
<1>6. ASSUME NEW w \in Workers
      PROVE  StatusRight(r.status[w], Last(By(w, request.known)), now,
                         LargeWindow)
  <2> DEFINE K == By(w, request.known)
             R == By(w, request.read)
  <2>1. K \in SUBSET Share /\ R \in SUBSET K
    BY <1>2, <1>4 DEF By
  <2>2. ASSUME NEW e \in K \ R
        PROVE  /\ Sec(e.ms) <= now - LargeWindow
               /\ \A q \in R : Sec(e.ms) <= Sec(q.ms)
    <3>1. e \in request.known /\ e \notin request.read
      BY DEF By
    <3>2. Sec(e.ms) <= now - LargeWindow
      BY <1>3, <1>4, <1>5, <3>1
    <3>3. \A q \in R : Sec(q.ms) >= now - LargeWindow /\ Sec(q.ms) \in Int
      BY <1>4, <1>5 DEF By
    <3> QED
      BY <1>3, <1>5, <3>1, <3>2, <3>3
  <2> HIDE DEF K, R
  <2>3. StatusRight(StatusOf(R, now), Last(K), now, LargeWindow)
    BY <1>3, <2>1, <2>2, StatusByRead
  <2> QED
    BY <1>1, <2>3 DEF WorkersOf, K, R
<1>7. ASSUME SmallWindow < LargeWindow
      PROVE  r.small = From(Sec(clock) - SmallWindow, request.known)
  <2>1. \A e \in request.known :
            Sec(e.ms) >= Sec(clock) - SmallWindow => e \in request.read
    BY <1>3, <1>4, <1>5, <1>7
  <2> QED
    BY <1>1, <1>4, <2>1 DEF InSmallWindow, From
<1> QED
  BY <1>6, <1>7 DEF now

\* The pool's statistics are, when they are stored, those of one moment since
\* they were read, and an account's entry that of the moment it was read, by
\* every share that was there then (CollectStats, CollectWorkersStats,
\* convertMinersStats, convertWorkersStats), whatever is purged meanwhile.
\* SmallWindow has to be shorter than LargeWindow: with three equal windows a
\* key expires within the second in which its last share leaves the small one,
\* and the current hashrate misses that share.
THEOREM ReportsAreRight == SmallWindow < LargeWindow => (Spec => ReportsRight)
<1> SUFFICES ASSUME SmallWindow < LargeWindow PROVE Spec => ReportsRight
  OBVIOUS
<1> DEFINE Pool ==
             loop.pc = "store" /\ loop'.pc = "wait" =>
                \E t \in loop.readAt .. clock : \A l \in Logins :
                    StatusRight(stats'[l], Last(Of(l, loop.known)),
                                Sec(t), SmallWindow)
           Account ==
             request.pc = "convert" /\ request'.pc = "idle" =>
                LET r == miners'[request.login]
                IN  /\ \A w \in Workers : LoginOf[w] = request.login =>
                        StatusRight(r.status[w], Last(By(w, request.known)),
                                    Sec(request.readAt), LargeWindow)
                    /\ r.small = From(Sec(clock) - SmallWindow,
                                      request.known)
<1>1. Init => Inv /\ ReadInv
  BY InitOK, InitReads
<1>2. Inv /\ ReadInv /\ [Next]_vars => Inv' /\ ReadInv'
  BY NextKeeps, NextKeepsReads
<1>3. ASSUME Inv, ReadInv, [Next]_vars PROVE Pool
  <2>1. StoreStats \/ loop' = loop \/ loop.pc # "store"
    BY <1>3 DEF Next, WriteShare, Credit, Tick, CollectStats, ConvertStats,
       CollectLuckStats, PurgePool, PurgeAccount, AccountIndex, IsMinerExists,
       GetMinerStats, CollectWorkersStats, CacheAccount, vars
  <2>2. CASE StoreStats
    <3>1. PICK t \in loop.readAt .. clock : RightAt(t)
      BY <1>3, <2>2 DEF StoreStats, ReadInv
    <3>2. stats' = loop.report
      BY <2>2 DEF StoreStats
    <3> QED
      BY <3>1, <3>2 DEF RightAt
  <2> QED
    BY <2>1, <2>2
<1>4. ASSUME Inv, ReadInv, [Next]_vars PROVE Account
  <2>1. CacheAccount \/ request' = request \/ request.pc # "convert"
    BY <1>4 DEF Next, WriteShare, Credit, Tick, CollectStats, ConvertStats,
       CollectLuckStats, StoreStats, PurgePool, PurgeAccount, AccountIndex,
       IsMinerExists, GetMinerStats, CollectWorkersStats, vars
  <2>2. CASE CacheAccount
    BY <1>4, <2>2, AccountReportRight
  <2> QED
    BY <2>1, <2>2
<1>5. Inv /\ ReadInv /\ [Next]_vars => Pool /\ Account
  BY <1>3, <1>4
<1> QED
  BY <1>1, <1>2, <1>5, PTL DEF Spec, ReportsRight
=============================================================================
