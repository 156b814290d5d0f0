------------------------------ MODULE Payouts ------------------------------
(***************************************************************************)
(* The payouts processor (payouts/payer.go) over the Redis keys it works   *)
(* on (storage/redis.go) and the node that sends its transactions.         *)
(*                                                                         *)
(* process() is a loop of remote calls: Redis transactions and node RPCs.  *)
(* Each call is one step, so that the unlocker's credits, a crash of the   *)
(* process and a restart can fall between any two of them, and each call   *)
(* has the three outcomes a remote call has: done, not done, and done with *)
(* the reply lost.  MULTI/EXEC blocks are atomic.                          *)
(*                                                                         *)
(* One processor works on the keys (the deployment README.md describes     *)
(* enables payouts in one process).  Amounts are in Shannon.               *)
(***************************************************************************)
EXTENDS Integers, FiniteSets, Functions

CONSTANTS
    Logins,         \* the miners' addresses
    Threshold,      \* config.Threshold
    Credits,        \* the amounts a matured block may credit to a login
    MaxEarned       \* bound: what a login earns in one behaviour

ASSUME LoginsAssumption == IsFiniteSet(Logins)
ASSUME ThresholdAssumption == Threshold \in Nat
ASSUME CreditsAssumption == Credits \subseteq Nat \ {0}

VARIABLES
    \* --- Redis ---
    balance,        \* miners:<login> balance
    pending,        \* miners:<login> pending
    paid,           \* miners:<login> paid
    finances,       \* the hash finances: balance, pending and paid totals
    payments,       \* the sorted set payments:pending
    lock,           \* payments:lock, as the set of the values it holds
    payLog,         \* the sorted set payments:all
    \* --- the node ---
    outgoing,       \* what the node sent to each address so far
    nonce,          \* transactions sent so far; the hash of a transaction
    unmined,        \* the hashes that have no receipt yet
    \* --- the process ---
    pc,             \* the step the payouts goroutine is at
    halt,           \* u.halt
    payees,         \* what is left of GetPayees' result
    login, amount,  \* the loop's current payee and amount
    txHash,         \* the last hash SendTransaction returned, 0 for none
    todo,           \* resolvePayouts: what is left of GetPendingPayments
    \* --- history ---
    earned,         \* what WriteMaturedBlock ever credited to a login
    careless        \* RESOLVE_PAYOUT ran without looking at the explorer

redis == <<balance, pending, paid, finances, payments, lock, payLog>>
node == <<outgoing, nonce, unmined>>
loop == <<payees, login, amount, txHash>>
vars == <<redis, node, pc, halt, loop, todo, earned, careless>>

Payment == [login : Logins, amount : Nat]
Pay(l, a) == [login |-> l, amount |-> a]

\* The steps at which the loop of process() can be.
Paying == {"scan", "check", "lock", "debit", "send", "record", "await"}
Steps == Paying \cup {"down", "idle", "rollback", "unlock", "resolved"}

\* No field of Redis that holds an amount is ever overdrawn.
TypeOK ==
    /\ balance \in [Logins -> Nat]
    /\ pending \in [Logins -> Nat]
    /\ paid \in [Logins -> Nat]
    /\ finances \in [balance : Nat, pending : Nat, paid : Nat]
    /\ payments \subseteq Payment
    /\ lock \subseteq Payment
    /\ payLog \subseteq [hash : Nat, login : Logins, amount : Nat]
    /\ outgoing \in [Logins -> Nat]
    /\ nonce \in Nat
    /\ unmined \subseteq 1 .. nonce
    /\ pc \in Steps
    /\ halt \in BOOLEAN
    /\ payees \subseteq Logins
    /\ login \in Logins
    /\ amount \in Nat
    /\ txHash \in 0 .. nonce
    /\ todo \subseteq Payment
    /\ earned \in [Logins -> Nat]
    /\ careless \in BOOLEAN

Init ==
    /\ balance = [l \in Logins |-> 0]
    /\ pending = [l \in Logins |-> 0]
    /\ paid = [l \in Logins |-> 0]
    /\ finances = [balance |-> 0, pending |-> 0, paid |-> 0]
    /\ payments = {}
    /\ lock = {}
    /\ payLog = {}
    /\ outgoing = [l \in Logins |-> 0]
    /\ nonce = 0
    /\ unmined = {}
    /\ pc = "down"
    /\ halt = FALSE
    /\ payees = {}
    /\ login \in Logins
    /\ amount = 0
    /\ txHash = 0
    /\ todo = {}
    /\ earned = [l \in Logins |-> 0]
    /\ careless = FALSE

-----------------------------------------------------------------------------
(* What each transaction of storage/redis.go does when Redis executes it.   *)

UpdateBalance(l, a) ==
    /\ balance' = [balance EXCEPT ![l] = @ - a]
    /\ pending' = [pending EXCEPT ![l] = @ + a]
    /\ finances' = [balance |-> finances.balance - a,
                  pending |-> finances.pending + a,
                  paid |-> finances.paid]
    /\ payments' = payments \cup {Pay(l, a)}
    /\ UNCHANGED <<paid, lock, payLog>>

\* Mutant: the miner's pending field is not given back.
RollbackBalanceKeepsPending(l, a) ==
    /\ balance' = [balance EXCEPT ![l] = @ + a]
    /\ finances' = [balance |-> finances.balance + a,
                  pending |-> finances.pending - a,
                  paid |-> finances.paid]
    /\ payments' = payments \ {Pay(l, a)}
    /\ UNCHANGED <<pending, paid, lock, payLog>>

\* Mutant: the pool's totals are not given back.
RollbackBalanceKeepsTotals(l, a) ==
    /\ balance' = [balance EXCEPT ![l] = @ + a]
    /\ pending' = [pending EXCEPT ![l] = @ - a]
    /\ payments' = payments \ {Pay(l, a)}
    /\ UNCHANGED <<paid, finances, lock, payLog>>

\* Mutant: the entry stays in payments:pending.
RollbackBalanceKeepsEntry(l, a) ==
    /\ balance' = [balance EXCEPT ![l] = @ + a]
    /\ pending' = [pending EXCEPT ![l] = @ - a]
    /\ finances' = [balance |-> finances.balance + a,
                  pending |-> finances.pending - a,
                  paid |-> finances.paid]
    /\ UNCHANGED <<paid, payments, lock, payLog>>

RollbackBalance(l, a) ==
    /\ balance' = [balance EXCEPT ![l] = @ + a]
    /\ pending' = [pending EXCEPT ![l] = @ - a]
    /\ finances' = [balance |-> finances.balance + a,
                  pending |-> finances.pending - a,
                  paid |-> finances.paid]
    /\ payments' = payments \ {Pay(l, a)}
    /\ UNCHANGED <<paid, lock, payLog>>

\* Mutant: the payment is added to paid but stays pending.
WritePaymentKeepsPending(l, h, a) ==
    /\ paid' = [paid EXCEPT ![l] = @ + a]
    /\ finances' = [finances EXCEPT !.paid = @ + a]
    /\ payLog' = payLog \cup {[hash |-> h, login |-> l, amount |-> a]}
    /\ payments' = payments \ {Pay(l, a)}
    /\ lock' = {}
    /\ UNCHANGED <<balance, pending>>

WritePayment(l, h, a) ==
    /\ pending' = [pending EXCEPT ![l] = @ - a]
    /\ paid' = [paid EXCEPT ![l] = @ + a]
    /\ finances' = [balance |-> finances.balance,
                  pending |-> finances.pending - a,
                  paid |-> finances.paid + a]
    /\ payLog' = payLog \cup {[hash |-> h, login |-> l, amount |-> a]}
    /\ payments' = payments \ {Pay(l, a)}
    /\ lock' = {}
    /\ UNCHANGED balance

LockPayouts(l, a) ==
    /\ lock' = IF lock = {} THEN {Pay(l, a)} ELSE lock
    /\ UNCHANGED <<balance, pending, paid, finances, payments, payLog>>

UnlockPayouts ==
    /\ lock' = {}
    /\ UNCHANGED <<balance, pending, paid, finances, payments, payLog>>

\* A failed read of the pending payments is an empty list, and a failed read
\* of a balance is 0.
GetPendingPayments(readable) == IF readable THEN payments ELSE {}
GetBalance(l, readable) == IF readable THEN balance[l] ELSE 0
IsPayoutsLocked == lock # {}

\* A remote call is done or not, and its reply arrives or not; a reply that
\* says "done" is true.
Outcomes == {o \in [done : BOOLEAN, ok : BOOLEAN] : o.ok => o.done}

\* break out of the payees' loop: process() returns to the timer.
Return(halted) ==
    /\ pc' = "idle"
    /\ halt' = halted

\* Mutant: a failed call is tried again instead of halting.
ContinueRetries(ok, next) == pc' = (IF ok THEN next ELSE pc) /\ UNCHANGED halt

\* The step after a call: go on when it succeeded, else halt and break.
Continue(ok, next) == IF ok THEN pc' = next /\ UNCHANGED halt ELSE Return(TRUE)

-----------------------------------------------------------------------------
(* The processor.                                                           *)

\* Mutant: the lock is not looked at.
StartIgnoresLock(readable) ==
    /\ pc \in {"down", "resolved"}
    /\ GetPendingPayments(readable) = {}
    /\ pc' = "scan"
    /\ payees' = Logins
    /\ UNCHANGED <<redis, node, halt, login, amount, txHash, todo, earned,
                   careless>>

\* Start() without RESOLVE_PAYOUT: refuse to run over a previous failure,
\* else process at once.  A failing IsPayoutsLocked refuses too.
Start(readable) ==
    /\ pc \in {"down", "resolved"}
    /\ GetPendingPayments(readable) = {}
    /\ ~IsPayoutsLocked
    /\ pc' = "scan"
    /\ payees' = Logins
    /\ UNCHANGED <<redis, node, halt, login, amount, txHash, todo, earned,
                   careless>>

\* The timer fires and GetPayees answers; a halted processor does nothing.
Tick ==
    /\ pc = "idle"
    /\ ~halt
    /\ pc' = "scan"
    /\ payees' = Logins
    /\ UNCHANGED <<redis, node, halt, login, amount, txHash, todo, earned,
                   careless>>

ReachedThreshold(a) == Threshold < a

\* The loop takes the next payee and reads its balance (0 when Redis fails).
NextPayee(l, readable) ==
    /\ pc = "scan"
    /\ l \in payees
    /\ payees' = payees \ {l}
    /\ LET a == GetBalance(l, readable)
       IN  IF ReachedThreshold(a)
           THEN pc' = "check" /\ login' = l /\ amount' = a
           ELSE UNCHANGED <<pc, login, amount>>
    /\ UNCHANGED <<redis, node, halt, txHash, todo, earned, careless>>

ProcessEnds ==
    /\ pc = "scan"
    /\ payees = {}
    /\ Return(halt)
    /\ UNCHANGED <<redis, node, loop, todo, earned, careless>>

\* checkPeers, isUnlockedAccount and the node's GetBalance all say yes.
ChecksPass ==
    /\ pc = "check"
    /\ pc' = "lock"
    /\ UNCHANGED <<redis, node, halt, loop, todo, earned, careless>>

\* Too few peers or a locked account end the round; no funds halt for good.
ChecksFail ==
    /\ pc = "check"
    /\ \E noFunds \in BOOLEAN : Return(noFunds)
    /\ UNCHANGED <<redis, node, loop, todo, earned, careless>>

\* Mutant: the result of SetNX is not looked at.
LockIgnoresResult ==
    /\ pc = "lock"
    /\ \E o \in Outcomes :
        IF o.done THEN LockPayouts(login, amount) ELSE UNCHANGED redis
    /\ Continue(TRUE, "debit")
    /\ UNCHANGED <<node, loop, todo, earned, careless>>

\* SetNX: fails when the key exists, and takes an error for "exists".
Lock ==
    /\ pc = "lock"
    /\ \E o \in Outcomes :
        /\ IF o.done THEN LockPayouts(login, amount) ELSE UNCHANGED redis
        /\ Continue(o.ok /\ lock = {}, "debit")
    /\ UNCHANGED <<node, loop, todo, earned, careless>>

\* Mutant: the error of UpdateBalance is logged and ignored.
DebitIgnoresError ==
    /\ pc = "debit"
    /\ \E o \in Outcomes :
        IF o.done THEN UpdateBalance(login, amount) ELSE UNCHANGED redis
    /\ Continue(TRUE, "send")
    /\ UNCHANGED <<node, loop, todo, earned, careless>>

Debit ==
    /\ pc = "debit"
    /\ \E o \in Outcomes :
        /\ IF o.done THEN UpdateBalance(login, amount) ELSE UNCHANGED redis
        /\ Continue(o.ok, "send")
    /\ UNCHANGED <<node, loop, todo, earned, careless>>

SendTransaction(l, a) ==
    /\ outgoing' = [outgoing EXCEPT ![l] = @ + a]
    /\ nonce' = nonce + 1
    /\ unmined' = unmined \cup {nonce + 1}

\* Mutant: the payment is recorded although the call failed.
SendIgnoresError ==
    /\ pc = "send"
    /\ \E o \in Outcomes :
        /\ IF o.done THEN SendTransaction(login, amount) ELSE UNCHANGED node
        /\ txHash' = IF o.ok THEN nonce + 1 ELSE txHash
    /\ Continue(TRUE, "record")
    /\ UNCHANGED <<redis, payees, login, amount, todo, earned, careless>>

Send ==
    /\ pc = "send"
    /\ \E o \in Outcomes :
        /\ IF o.done THEN SendTransaction(login, amount) ELSE UNCHANGED node
        /\ txHash' = IF o.ok THEN nonce + 1 ELSE txHash
        /\ Continue(o.ok, "record")
    /\ UNCHANGED <<redis, payees, login, amount, todo, earned, careless>>

Record ==
    /\ pc = "record"
    /\ \E o \in Outcomes :
        /\ IF o.done THEN WritePayment(login, txHash, amount)
           ELSE UNCHANGED redis
        /\ Continue(o.ok, "await")
    /\ UNCHANGED <<node, loop, todo, earned, careless>>

\* Mutant: the receipt is asked for once and not waited for.
AwaitPollsOnce ==
    /\ pc = "await"
    /\ pc' = "scan"
    /\ UNCHANGED <<redis, node, halt, loop, todo, earned, careless>>

\* GetTxReceipt is polled until the transaction is mined, whatever its status.
Await ==
    /\ pc = "await"
    /\ txHash \notin unmined
    /\ pc' = "scan"
    /\ UNCHANGED <<redis, node, halt, loop, todo, earned, careless>>

-----------------------------------------------------------------------------
(* The operator's RESOLVE_PAYOUT=1 run.                                     *)

\* The explorer shows no transfer to a pending payee that is not recorded.
NothingSent == \A p \in payments : outgoing[p.login] = paid[p.login]

\* resolvePayouts reads the pending payments (none when Redis fails).  The
\* message of payer.go:176 tells the operator to look at the explorer first;
\* an operator who does not is careless (at most once in a behaviour).
StartResolve ==
    /\ pc \in {"down", "resolved"}
    /\ \/ NothingSent /\ UNCHANGED careless
       \/ ~careless /\ careless' = TRUE
    /\ \E readable \in BOOLEAN : todo' = GetPendingPayments(readable)
    /\ pc' = IF todo' = {} THEN "resolved" ELSE "rollback"
    /\ UNCHANGED <<redis, node, halt, loop, earned>>

Rollback ==
    /\ pc = "rollback"
    /\ \E p \in todo, o \in Outcomes :
        /\ IF o.done THEN RollbackBalance(p.login, p.amount)
           ELSE UNCHANGED redis
        /\ todo' = IF o.ok THEN todo \ {p} ELSE {}
        /\ pc' = IF ~o.ok THEN "down"
                 ELSE IF todo' = {} THEN "unlock" ELSE "rollback"
    /\ UNCHANGED <<node, halt, loop, earned, careless>>

Unlock ==
    /\ pc = "unlock"
    /\ \E o \in Outcomes :
        /\ IF o.done THEN UnlockPayouts ELSE UNCHANGED redis
        /\ pc' = IF o.ok THEN "resolved" ELSE "down"
    /\ UNCHANGED <<node, halt, loop, todo, earned, careless>>

-----------------------------------------------------------------------------
(* The rest of the world.                                                   *)

\* The process dies, and with it everything that is not in Redis.
Crash ==
    /\ pc' = "down"
    /\ pc # "down"
    /\ halt' = FALSE
    /\ payees' = {}
    /\ todo' = {}
    /\ amount' = 0
    /\ txHash' = 0
    /\ UNCHANGED <<redis, node, login, earned, careless>>

\* The unlocker credits a matured block (WriteMaturedBlock).
Credit(l, a) ==
    /\ earned[l] + a <= MaxEarned
    /\ earned' = [earned EXCEPT ![l] = @ + a]
    /\ balance' = [balance EXCEPT ![l] = @ + a]
    /\ finances' = [finances EXCEPT !.balance = @ + a]
    /\ UNCHANGED <<pending, paid, payments, lock, payLog, node, pc, halt,
                   loop, todo, careless>>

Mine ==
    /\ \E h \in unmined : unmined' = unmined \ {h}
    /\ UNCHANGED <<redis, outgoing, nonce, pc, halt, loop, todo, earned,
                   careless>>

Processor ==
    \/ \E readable \in BOOLEAN :
        \/ Start(readable)
        \/ \E l \in Logins : NextPayee(l, readable)
    \/ Tick \/ ProcessEnds \/ ChecksPass \/ ChecksFail
    \/ Lock \/ Debit \/ Send \/ Record \/ Await
    \/ StartResolve \/ Rollback \/ Unlock

Next ==
    \/ Processor
    \/ Crash
    \/ \E l \in Logins, a \in Credits : Credit(l, a)
    \/ Mine

Spec == Init /\ [][Next]_vars

(* Fairness.  The goroutine keeps running, a transaction of the pool is      *)
(* mined sooner or later, and neither Redis nor the node fails every time it *)
(* is asked: what fails does not depend on the payee.  Nothing is assumed of *)
(* the operator, of crashes or of credits.                                   *)
Fairness ==
    /\ WF_vars(Tick)
    /\ WF_vars(ProcessEnds)
    /\ WF_vars(Lock)
    /\ WF_vars(Debit)
    /\ WF_vars(Send)
    /\ WF_vars(Record)
    /\ WF_vars(Await)
    /\ WF_vars(Mine)
    /\ \A l \in Logins :
        /\ WF_vars(NextPayee(l, FALSE))
        /\ SF_vars(NextPayee(l, TRUE))
        /\ SF_vars(login = l /\ ChecksPass)

FairSpec == Spec /\ Fairness

-----------------------------------------------------------------------------
(* Safety.                                                                   *)

\* What a login earned is in its balance, reserved for the payment under way
\* or paid: no crash, lost reply or rollback makes or loses a Shannon, and no
\* part of it is ever negative (the balance read at line 119 is stale by the
\* time line 165 debits it).
Conservation ==
    \A l \in Logins :
        /\ balance[l] + pending[l] + paid[l] = earned[l]
        /\ balance[l] >= 0 /\ pending[l] >= 0 /\ paid[l] >= 0

\* A miner's pending field is the amount of its entry in payments:pending, so
\* RESOLVE_PAYOUT gives back exactly what was taken; there is one entry at
\* most, and the lock names it.
PendingIsListed ==
    /\ payments # {} => lock = payments
    /\ Cardinality(payments) <= 1
    /\ \A l \in Logins :
        \/ pending[l] = 0 /\ \A p \in payments : p.login # l
        \/ Pay(l, pending[l]) \in payments

\* The entries of payments:all, by payee, and what a set of them adds up to.
EntriesOf(l) == {x \in payLog : x.login = l}
AmountOf(entries) == SumFunction([x \in entries |-> x.amount])

\* The books that a payment is written to agree: the pool's totals are the
\* sums of the miners' fields, and payments:all shows what was paid, with one
\* entry per transaction, of a transaction that was sent.
BooksAgree ==
    /\ finances.balance = SumFunction(balance)
    /\ finances.pending = SumFunction(pending)
    /\ finances.paid = SumFunction(paid)
    /\ \A x, y \in payLog : x.hash = y.hash => x = y
    /\ \A x \in payLog : x.hash \in 1 .. nonce
    /\ \A l \in Logins : paid[l] = AmountOf(EntriesOf(l))

\* Nobody is sent more than it earned, whatever is lost or crashes, as long as
\* the operator looks at the explorer before RESOLVE_PAYOUT (payer.go:176).
NoDoublePay == ~careless => \A l \in Logins : outgoing[l] <= earned[l]

\* Whatever is marked paid left the pool's account.
PaidWasSent == \A l \in Logins : paid[l] <= outgoing[l]

\* No money leaves before its lock and its pending entry are in Redis, so that
\* a crash right after the call is seen by the next start.
WriteAhead ==
    [][nonce' # nonce =>
        /\ lock = {Pay(login, amount)}
        /\ payments = lock
        /\ outgoing'[login] - outgoing[login] = amount]_vars

\* "Wait for TX confirmation before further payouts" (line 196), within the
\* life of a process.
OneAtATime == [][nonce' # nonce => txHash \notin unmined]_vars

\* No round of payouts begins over an unfinished payment, even when the read
\* of the pending payments fails (lines 72-87).
StartsClean ==
    [][pc \notin Paying /\ pc' \in Paying =>
        /\ payments = {}
        /\ lock = {}
        /\ \A l \in Logins : pending[l] = 0]_vars

\* The miners' view: credits and payments, nothing else.
Ledger == INSTANCE PaymentLedger
              WITH owed <- [l \in Logins |-> balance[l] + pending[l]]

LedgerSpec == Ledger!Spec

\* The last line of resolvePayouts says "Payouts unlocked" (payer.go:298).
UnlockedWhenReported == pc = "resolved" => lock = {}

(* Liveness.                                                                 *)

\* A balance over the threshold is paid out, unless the processor halts or is
\* stopped: no payee starves behind the others.
PayeesServed ==
    \A l \in Logins :
        ReachedThreshold(balance[l]) ~>
            \/ ~ReachedThreshold(balance[l])
            \/ halt
            \/ pc \in {"down", "rollback", "unlock", "resolved"}

=============================================================================
