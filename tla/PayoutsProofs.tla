--------------------------- MODULE PayoutsProofs ---------------------------
(***************************************************************************)
(* Proofs about Payouts.tla, for every set of logins, threshold, credits   *)
(* and bound: type correctness, that no money is made, lost or paid twice, *)
(* that a payment is written ahead of its transaction, and that the        *)
(* processor implements PaymentLedger.tla.                                 *)
(***************************************************************************)
EXTENDS Payouts, Sums

USE DEF Payment, Pay, Steps, Paying, Outcomes, redis, node, loop,
        GetPendingPayments, GetBalance, IsPayoutsLocked

-----------------------------------------------------------------------------
(* The inductive invariant.  Conservation alone is not inductive: that       *)
(* WritePayment takes from pending what is there rests on the entry in       *)
(* payments:pending being the loop's own, and that rests on where the loop   *)
(* is and on the lock.                                                       *)

\* Whoever has a pending amount has its entry, there is one, and it is locked.
Listed ==
    /\ \A p, q \in payments : p = q
    /\ payments # {} => lock = payments
    /\ \A p \in payments : p.amount > 0
    /\ \A l \in Logins :
        \/ pending[l] = 0 /\ \A p \in payments : p.login # l
        \/ Pay(l, pending[l]) \in payments

\* What the loop knows of Redis at each of its steps.
LoopInv ==
    /\ pc \in {"scan", "check", "lock", "await"} => payments = {} /\ lock = {}
    /\ pc = "idle" /\ ~halt => payments = {} /\ lock = {}
    /\ pc \in {"check", "lock", "debit"} =>
        amount > 0 /\ amount <= balance[login]
    /\ pc = "debit" => payments = {} /\ lock = {Pay(login, amount)}
    /\ pc \in {"send", "record"} =>
        payments = {Pay(login, amount)} /\ lock = {Pay(login, amount)}
    /\ pc = "record" => paid[login] + amount <= outgoing[login]
    /\ pc = "rollback" => todo # {} /\ todo \subseteq payments
    /\ pc = "unlock" => payments = {}

\* With a careful operator the node has sent what is paid, and at most the
\* pending amount on top of it.
SentInv ==
    ~careless =>
        /\ \A l \in Logins :
            \/ outgoing[l] = paid[l]
            \/ /\ Pay(l, pending[l]) \in payments
               /\ outgoing[l] = paid[l] + pending[l]
        /\ pc = "send" => outgoing[login] = paid[login]
        /\ pc = "rollback" => \A p \in todo : outgoing[p.login] = paid[p.login]

\* The hash the loop remembers is mined before it goes on.
HashInv ==
    pc \notin {"record", "await"} /\ ~(pc = "idle" /\ halt)
        => txHash \notin unmined

\* TypeOK without the signs, which Conservation and the books tell.
Types ==
    /\ balance \in [Logins -> Int]
    /\ pending \in [Logins -> Int]
    /\ paid \in [Logins -> Int]
    /\ finances \in [balance : Int, pending : Int, paid : Int]
    /\ payments \subseteq Payment
    /\ lock \subseteq Payment
    /\ payLog \subseteq [hash : Nat, login : Logins, amount : Nat]
    /\ outgoing \in [Logins -> Nat]
    /\ nonce \in Nat
    /\ unmined \subseteq 1 .. nonce
    /\ pc \in Steps
    /\ halt \in BOOLEAN
    /\ payees \subseteq Logins
    /\ login \in Logins
    /\ amount \in Nat
    /\ txHash \in 0 .. nonce
    /\ todo \subseteq Payment
    /\ earned \in [Logins -> Nat]
    /\ careless \in BOOLEAN

Inv ==
    /\ Types
    /\ Conservation
    /\ Listed
    /\ LoopInv
    /\ PaidWasSent
    /\ SentInv
    /\ HashInv

-----------------------------------------------------------------------------
(* The steps that write nothing to Redis and send nothing.                   *)

LEMMA InitInv ==
  ASSUME Init
  PROVE  Inv
<1>1. Types
  <2>1. halt \in BOOLEAN /\ careless \in BOOLEAN
    BY DEF Init
  <2>2. finances \in [balance : Int, pending : Int, paid : Int]
    BY DEF Init
  <2>3. txHash \in 0 .. nonce /\ unmined \subseteq 1 .. nonce
    BY DEF Init
  <2> QED
    BY <2>1, <2>2, <2>3 DEF Init, Types
<1>2. Conservation /\ Listed /\ PaidWasSent /\ SentInv
  BY DEF Init, Conservation, Listed, PaidWasSent, SentInv
<1>3. LoopInv /\ HashInv
  BY DEF Init, LoopInv, HashInv
<1> QED
  BY <1>1, <1>2, <1>3 DEF Inv

LEMMA StutterKeepsInv == Inv /\ UNCHANGED vars => Inv'
  BY DEF vars, Inv, Types, Conservation, Listed, LoopInv, PaidWasSent,
         SentInv, HashInv

LEMMA StartKeepsInv ==
  ASSUME Inv, NEW readable \in BOOLEAN, Start(readable)
  PROVE  Inv'
  BY DEF Start, Inv, Types, Conservation, Listed, LoopInv,
         PaidWasSent, SentInv, HashInv

LEMMA NextPayeeKeepsInv ==
  ASSUME Inv, NEW l \in Logins, NEW readable \in BOOLEAN,
         NextPayee(l, readable)
  PROVE  Inv'
  BY ThresholdAssumption DEF NextPayee, ReachedThreshold, Inv, Types, Conservation, Listed, LoopInv,
         PaidWasSent, SentInv, HashInv

LEMMA TickKeepsInv ==
  ASSUME Inv, Tick
  PROVE  Inv'
  BY DEF Tick, Inv, Types, Conservation, Listed, LoopInv,
         PaidWasSent, SentInv, HashInv

LEMMA ProcessEndsKeepsInv ==
  ASSUME Inv, ProcessEnds
  PROVE  Inv'
  BY DEF ProcessEnds, Return, Inv, Types, Conservation, Listed, LoopInv,
         PaidWasSent, SentInv, HashInv

LEMMA ChecksPassKeepsInv ==
  ASSUME Inv, ChecksPass
  PROVE  Inv'
  BY DEF ChecksPass, Inv, Types, Conservation, Listed, LoopInv,
         PaidWasSent, SentInv, HashInv

LEMMA ChecksFailKeepsInv ==
  ASSUME Inv, ChecksFail
  PROVE  Inv'
  BY DEF ChecksFail, Return, Inv, Types, Conservation, Listed, LoopInv,
         PaidWasSent, SentInv, HashInv

LEMMA AwaitKeepsInv ==
  ASSUME Inv, Await
  PROVE  Inv'
  BY DEF Await, Inv, Types, Conservation, Listed, LoopInv,
         PaidWasSent, SentInv, HashInv

LEMMA StartResolveKeepsInv ==
  ASSUME Inv, StartResolve
  PROVE  Inv'
<1>1. careless' \in BOOLEAN /\ (~careless' => ~careless /\ NothingSent)
  <2>1. careless' = TRUE \/ (careless' = careless /\ NothingSent)
    BY DEF StartResolve
  <2>2. careless \in BOOLEAN
    BY DEF Inv, Types
  <2>3. careless' \in BOOLEAN
    BY <2>1, <2>2, Zenon
  <2>4. ~careless' => ~careless /\ NothingSent
    BY <2>1, Zenon
  <2> QED
    BY <2>3, <2>4
<1>2. /\ todo' \subseteq payments /\ pc' \in {"resolved", "rollback"}
      /\ pc' = "rollback" => todo' # {}
  BY DEF StartResolve
<1>3. UNCHANGED <<redis, node, halt, loop, earned>>
  BY DEF StartResolve
<1>4. Types'
  BY <1>1, <1>2, <1>3 DEF Inv, Types
<1>5. SentInv'
  BY <1>1, <1>2, <1>3 DEF Inv, SentInv, NothingSent
<1>6. Conservation' /\ Listed' /\ PaidWasSent'
  BY <1>3 DEF Inv, Conservation, Listed, PaidWasSent
<1>7. LoopInv' /\ HashInv'
  BY <1>2, <1>3 DEF StartResolve, Inv, LoopInv, HashInv
<1> QED
  BY <1>4, <1>5, <1>6, <1>7 DEF Inv

LEMMA CrashKeepsInv ==
  ASSUME Inv, Crash
  PROVE  Inv'
<1>1. Types'
  <2>1. halt' \in BOOLEAN /\ pc' \in Steps
    BY DEF Crash
  <2>2. txHash' \in 0 .. nonce'
    BY DEF Crash, Inv, Types
  <2> QED
    BY <2>1, <2>2 DEF Crash, Inv, Types
<1>2. Conservation' /\ Listed' /\ PaidWasSent'
  BY DEF Inv, Conservation, Listed, PaidWasSent, Crash
<1>3. LoopInv' /\ SentInv' /\ HashInv'
  BY DEF Inv, Types, LoopInv, SentInv, HashInv, Crash
<1> QED
  BY <1>1, <1>2, <1>3 DEF Inv

LEMMA MineKeepsInv ==
  ASSUME Inv, Mine
  PROVE  Inv'
<1>1. Types' /\ HashInv'
  BY DEF Inv, Types, HashInv, Mine
<1>2. Conservation' /\ Listed' /\ PaidWasSent'
  BY DEF Inv, Conservation, Listed, PaidWasSent, Mine
<1>3. LoopInv' /\ SentInv'
  BY DEF Inv, LoopInv, SentInv, Mine
<1> QED
  BY <1>1, <1>2, <1>3 DEF Inv

-----------------------------------------------------------------------------
(* The steps that write to Redis or send a transaction.  Each has a case for *)
(* a call that was not done: Redis and the node are as they were.            *)

LEMMA LockKeepsInv ==
  ASSUME Inv, Lock
  PROVE  Inv'
<1>1. PICK o \in Outcomes :
        /\ IF o.done THEN LockPayouts(login, amount) ELSE UNCHANGED redis
        /\ Continue(o.ok /\ lock = {}, "debit")
  BY DEF Lock
<1>2. UNCHANGED <<balance, pending, paid, finances, payments, payLog,
                  outgoing, nonce, unmined, payees, login, amount, txHash,
                  todo, earned, careless>>
  BY <1>1 DEF Lock, LockPayouts
<1>3. lock' \in {lock, {Pay(login, amount)}} /\ payments = {} /\ lock = {}
  BY <1>1 DEF LockPayouts, Inv, LoopInv, Lock
<1>4. \/ pc' = "debit" /\ lock' = {Pay(login, amount)} /\ UNCHANGED halt
      \/ pc' = "idle" /\ halt' = TRUE
  BY <1>1, <1>3 DEF LockPayouts, Continue, Return
<1>5. Types'
  <2>1. halt' \in BOOLEAN /\ pc' \in Steps
    BY <1>4 DEF Inv, Types
  <2>2. lock' \subseteq Payment
    BY <1>3 DEF Inv, Types
  <2> QED
    BY <1>2, <2>1, <2>2 DEF Inv, Types
<1>6. Conservation' /\ Listed' /\ PaidWasSent'
  BY <1>2, <1>3 DEF Inv, Conservation, Listed, PaidWasSent
<1>7. LoopInv' /\ SentInv' /\ HashInv'
  BY <1>2, <1>3, <1>4 DEF Inv, Lock, LoopInv, SentInv, HashInv
<1> QED
  BY <1>5, <1>6, <1>7 DEF Inv

LEMMA DebitKeepsInv ==
  ASSUME Inv, Debit
  PROVE  Inv'
<1>1. PICK o \in Outcomes :
        /\ IF o.done THEN UpdateBalance(login, amount) ELSE UNCHANGED redis
        /\ Continue(o.ok, "send")
  BY DEF Debit
<1>2. UNCHANGED <<node, loop, todo, earned, careless>>
  BY DEF Debit
<1>3. /\ payments = {} /\ lock = {Pay(login, amount)}
      /\ amount > 0 /\ amount <= balance[login]
  BY DEF Inv, LoopInv, Debit
<1>4. CASE ~o.done
  <2>1. pc' = "idle" /\ halt' = TRUE /\ UNCHANGED redis
    BY <1>1, <1>4 DEF Continue, Return
  <2> QED
    BY <1>2, <2>1 DEF Inv, Types, Conservation, Listed, LoopInv,
       PaidWasSent, SentInv, HashInv
<1>5. CASE o.done
  <2>1. UpdateBalance(login, amount)
    BY <1>1, <1>5
  <2>2. \/ pc' = "send" /\ UNCHANGED halt
        \/ pc' = "idle" /\ halt' = TRUE
    BY <1>1 DEF Continue, Return
  <2>3. Types'
    <3>1. finances' \in [balance : Int, pending : Int, paid : Int]
      BY <2>1 DEF UpdateBalance, Inv, Types
    <3>2. halt' \in BOOLEAN /\ pc' \in Steps
      BY <2>2 DEF Inv, Types
    <3>3. /\ balance' \in [Logins -> Int] /\ pending' \in [Logins -> Int]
          /\ payments' \subseteq Payment
      BY <2>1 DEF UpdateBalance, Inv, Types
    <3> QED
      BY <1>2, <2>1, <3>1, <3>2, <3>3 DEF UpdateBalance, Inv, Types
  <2>4. Conservation'
    BY <1>2, <1>3, <2>1 DEF UpdateBalance, Inv, Types, Conservation
  <2>5. Listed'
    <3>1. payments' = {Pay(login, amount)} /\ lock' = payments'
      BY <1>3, <2>1 DEF UpdateBalance
    <3>2. \A l \in Logins : pending[l] = 0
      BY <1>3 DEF Inv, Listed
    <3>3. \A l \in Logins : pending'[l] = IF l = login THEN amount ELSE 0
      BY <2>1, <3>2 DEF UpdateBalance, Inv, Types
    <3> QED
      BY <1>3, <3>1, <3>3 DEF Listed
  <2>6. LoopInv' /\ PaidWasSent' /\ HashInv'
    BY <1>2, <1>3, <2>1, <2>2
    DEF UpdateBalance, Inv, Types, LoopInv, PaidWasSent, HashInv, Debit
  <2>7. SentInv'
    <3>1. ~careless => \A l \in Logins : outgoing[l] = paid[l]
      BY <1>3 DEF Inv, SentInv
    <3> QED
      BY <1>2, <2>1, <2>2, <3>1 DEF UpdateBalance, Inv, Types, SentInv
  <2> QED
    BY <2>3, <2>4, <2>5, <2>6, <2>7 DEF Inv
<1> QED
  BY <1>4, <1>5

LEMMA SendKeepsInv ==
  ASSUME Inv, Send
  PROVE  Inv'
<1>1. PICK o \in Outcomes :
        /\ IF o.done THEN SendTransaction(login, amount) ELSE UNCHANGED node
        /\ txHash' = IF o.ok THEN nonce + 1 ELSE txHash
        /\ Continue(o.ok, "record")
  BY DEF Send
<1>2. UNCHANGED <<redis, payees, login, amount, todo, earned, careless>>
  BY DEF Send
<1>3. payments = {Pay(login, amount)} /\ lock = {Pay(login, amount)}
  BY DEF Inv, LoopInv, Send
<1>4. CASE ~o.done
  <2>1. pc' = "idle" /\ halt' = TRUE /\ UNCHANGED <<node, txHash>>
    BY <1>1, <1>4 DEF Continue, Return
  <2> QED
    BY <1>2, <2>1 DEF Inv, Types, Conservation, Listed, LoopInv,
       PaidWasSent, SentInv, HashInv
<1>5. CASE o.done
  <2>1. SendTransaction(login, amount)
    BY <1>1, <1>5
  <2>2. \/ pc' = "record" /\ UNCHANGED halt
        \/ pc' = "idle" /\ halt' = TRUE
    BY <1>1 DEF Continue, Return
  <2>3. Types'
    <3>1. outgoing' \in [Logins -> Nat] /\ nonce' \in Nat
      BY <2>1 DEF SendTransaction, Inv, Types
    <3>2. unmined' \subseteq 1 .. nonce' /\ txHash' \in 0 .. nonce'
      BY <1>1, <2>1 DEF SendTransaction, Inv, Types
    <3>3. halt' \in BOOLEAN
      BY <2>2 DEF Inv, Types
    <3> QED
      BY <1>2, <2>2, <3>1, <3>2, <3>3 DEF Inv, Types
  <2>4. Conservation' /\ Listed' /\ HashInv'
    BY <1>2, <2>2 DEF Inv, Conservation, Listed, HashInv
  <2>5. \A l \in Logins :
          outgoing'[l] = IF l = login THEN outgoing[l] + amount ELSE outgoing[l]
    BY <2>1 DEF SendTransaction, Inv, Types
  <2>6. LoopInv' /\ PaidWasSent'
    BY <1>2, <1>3, <2>2, <2>5 DEF Inv, Types, LoopInv, PaidWasSent
  <2>7. SentInv'
    <3>1. pending[login] = amount
      BY <1>3 DEF Inv, Types, Listed
    <3>2. ASSUME ~careless, NEW l \in Logins
          PROVE  \/ outgoing'[l] = paid[l]
                 \/ /\ Pay(l, pending[l]) \in payments
                    /\ outgoing'[l] = paid[l] + pending[l]
      <4>1. CASE l = login
        BY <1>3, <2>5, <3>1, <3>2, <4>1 DEF Inv, SentInv, Send
      <4>2. CASE l # login
        BY <2>5, <3>2, <4>2 DEF Inv, SentInv
      <4> QED
        BY <4>1, <4>2
    <3> QED
      BY <1>2, <2>2, <3>2 DEF SentInv
  <2> QED
    BY <2>3, <2>4, <2>6, <2>7 DEF Inv
<1> QED
  BY <1>4, <1>5

LEMMA RecordKeepsInv ==
  ASSUME Inv, Record
  PROVE  Inv'
<1>1. PICK o \in Outcomes :
        /\ IF o.done THEN WritePayment(login, txHash, amount)
           ELSE UNCHANGED redis
        /\ Continue(o.ok, "await")
  BY DEF Record
<1>2. UNCHANGED <<node, loop, todo, earned, careless>>
  BY DEF Record
<1>3. payments = {Pay(login, amount)} /\ lock = {Pay(login, amount)}
  BY DEF Inv, LoopInv, Record
<1>4. CASE ~o.done
  <2>1. pc' = "idle" /\ halt' = TRUE /\ UNCHANGED redis
    BY <1>1, <1>4 DEF Continue, Return
  <2> QED
    BY <1>2, <2>1 DEF Inv, Types, Conservation, Listed, LoopInv,
       PaidWasSent, SentInv, HashInv
<1>5. CASE o.done
  <2>1. WritePayment(login, txHash, amount)
    BY <1>1, <1>5
  <2>2. \/ pc' = "await" /\ UNCHANGED halt
        \/ pc' = "idle" /\ halt' = TRUE
    BY <1>1 DEF Continue, Return
  <2>3. /\ payments' = {} /\ lock' = {}
        /\ pending[login] = amount
        /\ \A l \in Logins \ {login} : pending[l] = 0
    BY <1>3, <2>1 DEF WritePayment, Inv, Types, Listed
  <2>4. \A l \in Logins :
          /\ pending'[l] = 0
          /\ paid'[l] = IF l = login THEN paid[l] + amount ELSE paid[l]
    BY <2>1, <2>3 DEF WritePayment, Inv, Types
  <2>5. Types'
    <3>1. finances' \in [balance : Int, pending : Int, paid : Int]
      BY <2>1 DEF WritePayment, Inv, Types
    <3>2. payLog' \subseteq [hash : Nat, login : Logins, amount : Nat]
      BY <2>1 DEF WritePayment, Inv, Types
    <3>3. pending' \in [Logins -> Int] /\ paid' \in [Logins -> Int]
      BY <2>1 DEF WritePayment, Inv, Types
    <3>4. halt' \in BOOLEAN /\ pc' \in Steps
      BY <2>2 DEF Inv, Types
    <3> QED
      BY <1>2, <2>1, <2>3, <3>1, <3>2, <3>3, <3>4
      DEF WritePayment, Inv, Types
  <2>6. Conservation'
    BY <1>2, <2>1, <2>3, <2>4 DEF WritePayment, Inv, Types, Conservation
  <2>7. Listed' /\ LoopInv' /\ HashInv'
    BY <1>2, <2>2, <2>3, <2>4 DEF Inv, Listed, LoopInv, HashInv
  <2>8. PaidWasSent'
    BY <1>2, <2>4 DEF Inv, LoopInv, PaidWasSent, Record
  <2>9. SentInv'
    <3>1. ASSUME ~careless, NEW l \in Logins
          PROVE  outgoing[l] = paid'[l]
      <4>1. CASE l = login
        <5>1. paid[l] + amount <= outgoing[l]
          BY <4>1 DEF Inv, LoopInv, Record
        <5>2. outgoing[l] \in {paid[l], paid[l] + amount}
          BY <2>3, <3>1, <4>1 DEF Inv, SentInv
        <5> QED
          BY <1>3, <2>4, <4>1, <5>1, <5>2 DEF Inv, Types, Listed
      <4>2. CASE l # login
        BY <1>3, <2>4, <3>1, <4>2 DEF Inv, SentInv
      <4> QED
        BY <4>1, <4>2
    <3> QED
      BY <1>2, <2>2, <3>1 DEF SentInv
  <2> QED
    BY <2>5, <2>6, <2>7, <2>8, <2>9 DEF Inv
<1> QED
  BY <1>4, <1>5

LEMMA RollbackKeepsInv ==
  ASSUME Inv, Rollback
  PROVE  Inv'
<1>1. PICK p \in todo, o \in Outcomes :
        /\ IF o.done THEN RollbackBalance(p.login, p.amount)
           ELSE UNCHANGED redis
        /\ todo' = IF o.ok THEN todo \ {p} ELSE {}
        /\ pc' = IF ~o.ok THEN "down"
                 ELSE IF todo' = {} THEN "unlock" ELSE "rollback"
  BY DEF Rollback
<1>2. UNCHANGED <<node, halt, loop, earned, careless>>
  BY DEF Rollback
<1>3. payments = {p} /\ todo = {p} /\ p \in Payment /\ p.amount > 0
  BY DEF Inv, Types, Listed, LoopInv, Rollback
<1>4. todo' = {} /\ pc' \in {"down", "unlock"}
  BY <1>1, <1>3
<1>5. CASE ~o.done
  <2>1. pc' = "down" /\ UNCHANGED redis
    BY <1>1, <1>5
  <2> QED
    BY <1>2, <1>4, <2>1 DEF Rollback, Inv, Types, Conservation, Listed,
       LoopInv, PaidWasSent, SentInv, HashInv
<1>6. CASE o.done
  <2>1. RollbackBalance(p.login, p.amount)
    BY <1>1, <1>6
  <2>2. /\ payments' = {}
        /\ pending[p.login] = p.amount
        /\ \A l \in Logins \ {p.login} : pending[l] = 0
    BY <1>3, <2>1 DEF RollbackBalance, Inv, Types, Listed
  <2>3. \A l \in Logins :
          /\ pending'[l] = 0
          /\ balance'[l] = IF l = p.login THEN balance[l] + p.amount
                           ELSE balance[l]
    BY <1>3, <2>1, <2>2 DEF RollbackBalance, Inv, Types
  <2>4. Types'
    <3>1. finances' \in [balance : Int, pending : Int, paid : Int]
      BY <1>3, <2>1 DEF RollbackBalance, Inv, Types
    <3>2. pending' \in [Logins -> Int] /\ balance' \in [Logins -> Int]
      BY <1>3, <2>1 DEF RollbackBalance, Inv, Types
    <3> QED
      BY <1>2, <1>4, <2>1, <2>2, <3>1, <3>2 DEF RollbackBalance, Inv, Types
  <2>5. Conservation'
    BY <1>2, <1>3, <2>1, <2>2, <2>3
    DEF RollbackBalance, Inv, Types, Conservation
  <2>6. Listed' /\ LoopInv' /\ HashInv'
    BY <1>2, <1>4, <2>2, <2>3 DEF Rollback, Inv, Listed, LoopInv, HashInv
  <2>7. PaidWasSent' /\ SentInv'
    BY <1>2, <1>3, <1>4, <2>1, <2>2
    DEF Rollback, RollbackBalance, Inv, PaidWasSent, SentInv
  <2> QED
    BY <2>4, <2>5, <2>6, <2>7 DEF Inv
<1> QED
  BY <1>5, <1>6

LEMMA UnlockKeepsInv ==
  ASSUME Inv, Unlock
  PROVE  Inv'
<1>1. /\ lock' \in {lock, {}} /\ pc' \in {"down", "resolved"}
      /\ UNCHANGED <<balance, pending, paid, finances, payments, payLog,
                     node, halt, loop, todo, earned, careless>>
  BY DEF Unlock, UnlockPayouts
<1>2. payments = {}
  BY DEF Unlock, Inv, LoopInv
<1> QED
  BY <1>1, <1>2 DEF Unlock, Inv, Types, Conservation, Listed, LoopInv,
     PaidWasSent, SentInv, HashInv

LEMMA CreditKeepsInv ==
  ASSUME Inv, NEW l \in Logins, NEW a \in Credits, Credit(l, a)
  PROVE  Inv'
<1>1. a \in Nat
  BY CreditsAssumption
<1>2. finances' \in [balance : Int, pending : Int, paid : Int]
  BY <1>1 DEF Credit, Inv, Types
<1>3. balance' \in [Logins -> Int] /\ earned' \in [Logins -> Nat]
  BY <1>1 DEF Credit, Inv, Types
<1>4. Types'
  BY <1>2, <1>3 DEF Credit, Inv, Types
<1>5. Conservation'
  BY <1>1 DEF Credit, Inv, Types, Conservation
<1>6. LoopInv'
  BY <1>1 DEF Credit, Inv, Types, LoopInv
<1>7. Listed' /\ PaidWasSent' /\ SentInv' /\ HashInv'
  BY DEF Credit, Inv, Listed, PaidWasSent, SentInv, HashInv
<1> QED
  BY <1>4, <1>5, <1>6, <1>7 DEF Inv

-----------------------------------------------------------------------------
LEMMA NextKeepsInv == Inv /\ [Next]_vars => Inv'
  BY StutterKeepsInv, StartKeepsInv, NextPayeeKeepsInv, TickKeepsInv,
     ProcessEndsKeepsInv, ChecksPassKeepsInv, ChecksFailKeepsInv,
     AwaitKeepsInv, StartResolveKeepsInv, CrashKeepsInv, MineKeepsInv,
     LockKeepsInv, DebitKeepsInv, SendKeepsInv, RecordKeepsInv,
     RollbackKeepsInv, UnlockKeepsInv, CreditKeepsInv
  DEF Next, Processor

LEMMA Invariance == Spec => []Inv
  BY InitInv, NextKeepsInv, PTL DEF Spec

\* No Shannon a miner earned is made or lost, and no field is overdrawn,
\* whatever calls fail, wherever the processor crashes (payer.go:104-227).
THEOREM MoneyConserved == Spec => []Conservation
  BY Invariance, PTL DEF Inv

\* RESOLVE_PAYOUT gives back exactly what was taken: a pending amount has its
\* one entry in payments:pending, with its own lock (redis.go:396-447).
THEOREM PendingHasItsEntry == Spec => []PendingIsListed
<1>1. Inv => PendingIsListed
  <2> SUFFICES ASSUME Inv PROVE PendingIsListed
    OBVIOUS
  <2>1. Cardinality(payments) <= 1
    <3>1. CASE payments = {}
      BY <3>1, FS_EmptySet
    <3>2. CASE payments # {}
      <4>1. PICK p \in payments : TRUE
        BY <3>2
      <4>2. payments = {p}
        BY <4>1 DEF Inv, Listed
      <4>3. Cardinality({p}) = 1
        BY FS_Singleton, Zenon
      <4> QED
        BY <4>2, <4>3
    <3> QED
      BY <3>1, <3>2
  <2> QED
    BY <2>1 DEF Inv, Listed, PendingIsListed
<1> QED
  BY <1>1, Invariance, PTL

\* Whatever is marked paid was sent (payer.go:174-190).
THEOREM PaidMeansSent == Spec => []PaidWasSent
  BY Invariance, PTL DEF Inv

\* Nobody is sent more than it earned while the operator looks at the explorer
\* before RESOLVE_PAYOUT (payer.go:174-181, 272-299).
THEOREM NeverPaidTwice == Spec => []NoDoublePay
<1>1. Inv => NoDoublePay
  <2>1. SUFFICES ASSUME Inv, ~careless, NEW l \in Logins
                 PROVE  outgoing[l] <= earned[l]
    BY DEF NoDoublePay
  <2>2. outgoing[l] = paid[l] \/ outgoing[l] = paid[l] + pending[l]
    BY <2>1 DEF Inv, SentInv
  <2> QED
    BY <2>1, <2>2 DEF Inv, Types, Conservation
<1> QED
  BY <1>1, Invariance, PTL

-----------------------------------------------------------------------------
(* The pool's totals.  That they are the sums of the miners' fields needs no *)
(* more than that every transaction moves them by the same amount; that paid *)
(* is the sum of the entries of payments:all needs, besides, that no entry   *)
(* is overwritten: the hash about to be recorded is new.                     *)

BooksInv ==
    /\ BooksAgree
    /\ IsFiniteSet(payLog)
    /\ pc = "record" =>
        txHash \in 1 .. nonce /\ \A x \in payLog : x.hash # txHash

\* HINCRBY on one miner's field.
LEMMA FieldIncrement ==
  ASSUME NEW f \in [Logins -> Int], NEW l \in Logins, NEW a \in Int, NEW g,
         g = [f EXCEPT ![l] = f[l] + a]
  PROVE  SumFunction(f) \in Int /\ SumFunction(g) = SumFunction(f) + a
  BY LoginsAssumption, SumIncrement

LEMMA FieldDecrement ==
  ASSUME NEW f \in [Logins -> Int], NEW l \in Logins, NEW a \in Int, NEW g,
         g = [f EXCEPT ![l] = f[l] - a]
  PROVE  SumFunction(f) \in Int /\ SumFunction(g) = SumFunction(f) - a
<1>1. f[l] \in Int /\ f[l] - a \in Int
  OBVIOUS
<1>2. SumFunction(f) \in Int
  BY LoginsAssumption, SumInt DEF SumFunction
<1>3. SumFunction(g) = SumFunction(f) + (f[l] - a) - f[l]
  BY <1>1, LoginsAssumption, SumExcept
<1> QED
  BY <1>1, <1>2, <1>3

LEMMA InitBooks ==
  ASSUME Init
  PROVE  BooksInv
<1>1. \A f : f = [l \in Logins |-> 0] => SumFunction(f) = 0
  BY LoginsAssumption, SumZero DEF SumFunction
<1>2. SumFunction(balance) = 0 /\ SumFunction(pending) = 0
      /\ SumFunction(paid) = 0
  BY <1>1 DEF Init
<1>3. finances.balance = 0 /\ finances.pending = 0 /\ finances.paid = 0
  BY DEF Init
<1>4. payLog = {} /\ IsFiniteSet(payLog)
  BY FS_EmptySet DEF Init
<1>5. \A l \in Logins : EntriesOf(l) = {}
  BY <1>4 DEF EntriesOf
<1>6. AmountOf({}) = 0
  BY SumEmpty, Zenon DEF AmountOf, SumFunction
<1>7. \A l \in Logins : paid[l] = AmountOf(EntriesOf(l))
  BY <1>5, <1>6 DEF Init
<1>8. pc # "record"
  BY DEF Init
<1> QED
  BY <1>2, <1>3, <1>4, <1>7, <1>8 DEF BooksInv, BooksAgree

\* A step that writes none of the books, and asks for no new record.
LEMMA QuietKeepsBooks ==
  ASSUME Inv, BooksInv, UNCHANGED <<balance, pending, paid, finances, payLog>>,
         nonce' \in Nat, nonce <= nonce',
         pc' = "record" =>
            \/ pc = "record" /\ txHash' = txHash
            \/ txHash' \in nonce + 1 .. nonce'
  PROVE  BooksInv'
<1>1. nonce \in Nat /\ txHash \in 0 .. nonce
  BY DEF Inv, Types
<1>2. \A x \in payLog : x.hash \in 1 .. nonce /\ x.hash \in 1 .. nonce'
  BY <1>1 DEF BooksInv, BooksAgree
<1>3. BooksAgree'
  BY <1>2 DEF BooksInv, BooksAgree, EntriesOf
<1>4. pc' = "record" =>
        txHash' \in 1 .. nonce' /\ \A x \in payLog' : x.hash # txHash'
  BY <1>1, <1>2 DEF BooksInv
<1> QED
  BY <1>3, <1>4 DEF BooksInv

\* A transaction that moves a from the balance to pending (a < 0: back).
LEMMA TransferKeepsBooks ==
  ASSUME Inv, BooksInv, NEW l \in Logins, NEW a \in Int,
         balance' = [balance EXCEPT ![l] = @ - a],
         pending' = [pending EXCEPT ![l] = @ + a],
         finances' = [balance |-> finances.balance - a,
                      pending |-> finances.pending + a,
                      paid |-> finances.paid],
         UNCHANGED <<paid, payLog, nonce>>, pc' # "record"
  PROVE  BooksInv'
<1>1. balance \in [Logins -> Int] /\ pending \in [Logins -> Int]
  BY DEF Inv, Types
<1>2. pending' = [pending EXCEPT ![l] = pending[l] + a]
  OBVIOUS
<1>3. SumFunction(balance) \in Int
      /\ SumFunction(balance') = SumFunction(balance) - a
  <2>1. balance' = [balance EXCEPT ![l] = balance[l] - a]
    OBVIOUS
  <2> QED
    BY <1>1, <2>1, FieldDecrement, Zenon
<1>4. SumFunction(pending') = SumFunction(pending) + a
  BY <1>1, <1>2, FieldIncrement, Zenon
<1>5. finances.balance \in Int /\ finances.pending \in Int
  BY DEF Inv, Types
<1>6. finances'.balance = SumFunction(balance')
      /\ finances'.pending = SumFunction(pending')
  BY <1>3, <1>4, <1>5 DEF BooksInv, BooksAgree
<1>7. finances'.paid = SumFunction(paid')
  BY DEF BooksInv, BooksAgree
<1> QED
  BY <1>6, <1>7 DEF BooksInv, BooksAgree, EntriesOf

\* One more entry in payments:all, for login e.login.
LEMMA EntryAddsAmount ==
  ASSUME NEW S, IsFiniteSet(S), \A x \in S : x.amount \in Int,
         NEW e, e \notin S, e.amount \in Int
  PROVE  AmountOf(S \cup {e}) = e.amount + AmountOf(S)
<1> DEFINE f == [x \in S |-> x.amount]
           g == [x \in S \cup {e} |-> x.amount]
<1>1. \A x \in S : f[x] \in Int /\ g[x] = f[x]
  OBVIOUS
<1>2. g[e] = e.amount
  OBVIOUS
<1>3. AmountOf(S) = SumFunctionOnSet(f, S)
  BY DEF AmountOf, SumFunction
<1>4. AmountOf(S \cup {e}) = SumFunctionOnSet(g, S \cup {e})
  BY DEF AmountOf, SumFunction
<1> HIDE DEF f, g
<1>5. SumFunctionOnSet(g, S \cup {e}) = g[e] + SumFunctionOnSet(f, S)
  BY <1>1, <1>2, SumInsert
<1> QED
  BY <1>2, <1>3, <1>4, <1>5

LEMMA PaymentKeepsBooks ==
  ASSUME Inv, BooksInv, pc = "record", WritePayment(login, txHash, amount),
         UNCHANGED nonce, pc' # "record"
  PROVE  BooksInv'
<1> DEFINE e == [hash |-> txHash, login |-> login, amount |-> amount]
<1>1. pending \in [Logins -> Int] /\ paid \in [Logins -> Int]
      /\ login \in Logins /\ amount \in Nat /\ amount \in Int
  BY DEF Inv, Types
<1>2. /\ pending' = [pending EXCEPT ![login] = @ - amount]
      /\ paid' = [paid EXCEPT ![login] = @ + amount]
      /\ finances' = [balance |-> finances.balance,
                      pending |-> finances.pending - amount,
                      paid |-> finances.paid + amount]
      /\ payLog' = payLog \cup {e}
      /\ balance' = balance
  BY DEF WritePayment
<1>3. /\ pending[login] \in Int /\ paid[login] \in Int
      /\ finances.pending \in Int /\ finances.paid \in Int
  BY <1>1 DEF Inv, Types
<1>4. SumFunction(pending') = SumFunction(pending) - amount
  <2>1. pending' = [pending EXCEPT ![login] = pending[login] - amount]
    BY <1>2
  <2>2. pending \in [Logins -> Int] /\ login \in Logins /\ amount \in Int
    BY <1>1
  <2> QED
    BY <2>1, <2>2, FieldDecrement, Zenon
<1>5. SumFunction(paid') = SumFunction(paid) + amount
  <2>1. paid' = [paid EXCEPT ![login] = paid[login] + amount]
    BY <1>2
  <2>2. paid \in [Logins -> Int] /\ login \in Logins /\ amount \in Int
    BY <1>1
  <2> QED
    BY <2>1, <2>2, FieldIncrement, Zenon
<1>6. /\ finances'.balance = SumFunction(balance')
      /\ finances'.pending = SumFunction(pending')
      /\ finances'.paid = SumFunction(paid')
  BY <1>1, <1>2, <1>3, <1>4, <1>5 DEF BooksInv, BooksAgree
<1>7. \A x \in payLog : x.hash # txHash
  BY DEF BooksInv
<1>8. e \notin payLog
  BY <1>7
<1>9. /\ \A x, y \in payLog' : x.hash = y.hash => x = y
      /\ \A x \in payLog' : x.hash \in 1 .. nonce'
  BY <1>2, <1>7 DEF BooksInv, BooksAgree
<1>10. IsFiniteSet(payLog')
  BY <1>2, FS_AddElement DEF BooksInv
<1>11. ASSUME NEW l \in Logins PROVE paid'[l] = AmountOf(EntriesOf(l)')
  <2>1. paid[l] = AmountOf(EntriesOf(l))
    BY DEF BooksInv, BooksAgree
  <2>2. CASE l # login
    <3>1. EntriesOf(l)' = EntriesOf(l)
      BY <1>2, <2>2 DEF EntriesOf
    <3>2. paid'[l] = paid[l]
      BY <1>1, <1>2, <2>2
    <3> QED
      BY <2>1, <3>1, <3>2
  <2>3. CASE l = login
    <3>1. EntriesOf(l)' = EntriesOf(l) \cup {e}
      BY <1>2, <2>3 DEF EntriesOf
    <3>2. IsFiniteSet(EntriesOf(l)) /\ e \notin EntriesOf(l)
      BY <1>8, FS_Subset DEF EntriesOf, BooksInv
    <3>3. \A x \in EntriesOf(l) : x.amount \in Int
      BY DEF EntriesOf, Inv, Types
    <3>4. e.amount = amount
      OBVIOUS
    <3>5. AmountOf(EntriesOf(l) \cup {e}) = amount + AmountOf(EntriesOf(l))
      <4> HIDE DEF e
      <4> QED
        BY <1>1, <3>2, <3>3, <3>4, EntryAddsAmount
    <3>6. paid'[l] = paid[l] + amount
      BY <1>1, <1>2, <2>3
    <3> QED
      BY <1>1, <1>3, <2>1, <2>3, <3>1, <3>5, <3>6
  <2> QED
    BY <2>2, <2>3
<1>12. BooksAgree'
  BY <1>6, <1>9, <1>11 DEF BooksAgree
<1> QED
  BY <1>10, <1>12 DEF BooksInv

LEMMA CreditKeepsBooks ==
  ASSUME Inv, BooksInv, NEW l \in Logins, NEW a \in Credits, Credit(l, a)
  PROVE  BooksInv'
<1>1. balance \in [Logins -> Int] /\ a \in Int
  BY CreditsAssumption DEF Inv, Types
<1>2. balance' = [balance EXCEPT ![l] = balance[l] + a]
  BY DEF Credit
<1>4. SumFunction(balance') = SumFunction(balance) + a
  BY <1>1, <1>2, FieldIncrement, Zenon
<1>5. finances' = [balance |-> finances.balance + a,
                   pending |-> finances.pending, paid |-> finances.paid]
  BY DEF Credit, Inv, Types
<1>6. finances.balance \in Int
  BY DEF Inv, Types
<1>7. /\ finances'.balance = SumFunction(balance')
      /\ finances'.pending = SumFunction(pending')
      /\ finances'.paid = SumFunction(paid')
  BY <1>4, <1>5, <1>6 DEF Credit, BooksInv, BooksAgree
<1>8. UNCHANGED <<paid, payLog, nonce, pc, txHash>>
  BY DEF Credit
<1> QED
  BY <1>7, <1>8 DEF BooksInv, BooksAgree, EntriesOf

LEMMA NextKeepsBooks == Inv /\ Inv' /\ BooksInv /\ [Next]_vars => BooksInv'
<1> SUFFICES ASSUME Inv, Inv', BooksInv, [Next]_vars PROVE BooksInv'
  OBVIOUS
<1>1. nonce \in Nat /\ login \in Logins /\ amount \in Int
  BY DEF Inv, Types
<1>2. CASE UNCHANGED vars
  BY <1>1, <1>2, QuietKeepsBooks DEF vars
<1>3. ASSUME NEW readable \in BOOLEAN, Start(readable) PROVE BooksInv'
  BY <1>1, <1>3, QuietKeepsBooks DEF Start
<1>4. ASSUME NEW readable \in BOOLEAN, NEW l \in Logins,
             NextPayee(l, readable)
      PROVE  BooksInv'
  BY <1>1, <1>4, QuietKeepsBooks DEF NextPayee
<1>5. CASE Tick \/ ProcessEnds \/ ChecksPass \/ ChecksFail \/ Await
  BY <1>1, <1>5, QuietKeepsBooks
  DEF Tick, ProcessEnds, ChecksPass, ChecksFail, Await, Return
<1>6. CASE Lock \/ Unlock
  BY <1>1, <1>6, QuietKeepsBooks
  DEF Lock, Unlock, LockPayouts, UnlockPayouts, Continue, Return
<1>7. CASE Debit
  <2>1. pc' # "record" /\ UNCHANGED node
    BY <1>7 DEF Debit, Continue, Return
  <2>2. CASE UNCHANGED redis
    BY <1>1, <2>1, <2>2, QuietKeepsBooks
  <2>3. CASE UpdateBalance(login, amount)
    BY <1>1, <2>1, <2>3, TransferKeepsBooks DEF UpdateBalance
  <2> QED
    BY <1>7, <2>2, <2>3 DEF Debit
<1>8. CASE Send
  <2>1. PICK o \in Outcomes :
          /\ IF o.done THEN SendTransaction(login, amount) ELSE UNCHANGED node
          /\ txHash' = IF o.ok THEN nonce + 1 ELSE txHash
          /\ Continue(o.ok, "record")
    BY <1>8 DEF Send
  <2>2. nonce' = nonce \/ nonce' = nonce + 1
    BY <2>1 DEF SendTransaction
  <2>3. pc' = "record" => txHash' = nonce + 1 /\ nonce' = nonce + 1
    BY <2>1 DEF SendTransaction, Continue, Return
  <2>4. QED
    <3>1. /\ UNCHANGED <<balance, pending, paid, finances, payLog>>
          /\ nonce' \in Nat /\ nonce <= nonce'
      BY <1>1, <1>8, <2>2 DEF Send
    <3>2. pc' = "record" => txHash' \in nonce + 1 .. nonce'
      BY <1>1, <2>3
    <3> QED
      BY <3>1, <3>2, QuietKeepsBooks
<1>9. CASE Record
  <2>1. pc = "record" /\ pc' # "record" /\ UNCHANGED <<nonce, txHash>>
    BY <1>9 DEF Record, Continue, Return
  <2>2. CASE UNCHANGED redis
    BY <1>1, <2>1, <2>2, QuietKeepsBooks
  <2>3. CASE WritePayment(login, txHash, amount)
    BY <2>1, <2>3, PaymentKeepsBooks
  <2> QED
    BY <1>9, <2>2, <2>3 DEF Record
<1>10. CASE StartResolve
  BY <1>1, <1>10, QuietKeepsBooks DEF StartResolve
<1>11. CASE Rollback
  <2>1. PICK p \in todo, o \in Outcomes :
          IF o.done THEN RollbackBalance(p.login, p.amount)
          ELSE UNCHANGED redis
    BY <1>11 DEF Rollback
  <2>2. pc' # "record" /\ UNCHANGED node
    BY <1>11 DEF Rollback
  <2>3. CASE UNCHANGED redis
    BY <1>1, <2>2, <2>3, QuietKeepsBooks
  <2>4. CASE RollbackBalance(p.login, p.amount)
    <3>1. p.login \in Logins /\ p.amount \in Int /\ -p.amount \in Int
      BY DEF Inv, Types
    <3>2. /\ balance \in [Logins -> Int] /\ pending \in [Logins -> Int]
          /\ finances.balance \in Int /\ finances.pending \in Int
      BY DEF Inv, Types
    <3> DEFINE a == -p.amount
    <3>3. /\ \A n \in Int : n + p.amount = n - a
          /\ \A n \in Int : n - p.amount = n + a
      BY <3>1
    <3>4. /\ balance' = [balance EXCEPT ![p.login] = @ - a]
          /\ pending' = [pending EXCEPT ![p.login] = @ + a]
      BY <2>4, <3>1, <3>2, <3>3 DEF RollbackBalance
    <3>5. finances' = [balance |-> finances.balance - a,
                       pending |-> finances.pending + a,
                       paid |-> finances.paid]
      BY <2>4, <3>2, <3>3 DEF RollbackBalance
    <3>6. UNCHANGED <<paid, payLog, nonce>>
      BY <2>2, <2>4 DEF RollbackBalance
    <3>7. a \in Int
      BY <3>1
    <3> HIDE DEF a
    <3> QED
      BY <2>2, <3>1, <3>4, <3>5, <3>6, <3>7, TransferKeepsBooks
  <2> QED
    BY <2>1, <2>3, <2>4
<1>12. CASE Crash
  BY <1>1, <1>12, QuietKeepsBooks DEF Crash
<1>13. ASSUME NEW l \in Logins, NEW a \in Credits, Credit(l, a)
       PROVE  BooksInv'
  BY <1>13, CreditKeepsBooks
<1>14. CASE Mine
  BY <1>1, <1>14, QuietKeepsBooks DEF Mine
<1> QED
  BY <1>2, <1>3, <1>4, <1>5, <1>6, <1>7, <1>8, <1>9, <1>10, <1>11, <1>12,
     <1>13, <1>14
  DEF Next, Processor

\* The books agree in every reachable state, for any finite set of logins: the
\* totals in the hash finances are the sums over the miners, payments:all has
\* one entry per recorded transaction, and the entries of a login add up to
\* what it was paid (UpdateBalance, RollbackBalance, WritePayment and
\* WriteMaturedBlock of storage/redis.go, whichever replies are lost).
THEOREM BooksAlwaysAgree == Spec => []BooksAgree
<1>1. Init => BooksInv
  BY InitBooks
<1>2. BooksInv => BooksAgree
  BY DEF BooksInv
<1> QED
  BY <1>1, <1>2, Invariance, NextKeepsBooks, PTL DEF Spec

\* Every variable keeps its type; no amount in Redis, the pool's totals
\* included, is ever overdrawn (redis.go:396-447).
THEOREM TypeCorrect == Spec => []TypeOK
<1>1. Init => BooksInv
  BY InitBooks
<1>2. ASSUME Inv, BooksInv PROVE TypeOK
  <2>1. /\ balance \in [Logins -> Nat] /\ pending \in [Logins -> Nat]
        /\ paid \in [Logins -> Nat]
    BY <1>2 DEF Inv, Types, Conservation
  <2>2. \A f \in [Logins -> Nat] : SumFunction(f) \in Nat
    BY LoginsAssumption, SumNat DEF SumFunction
  <2>3. finances \in [balance : Nat, pending : Nat, paid : Nat]
    BY <1>2, <2>1, <2>2 DEF Inv, Types, BooksInv, BooksAgree
  <2> QED
    BY <1>2, <2>1, <2>3 DEF Inv, Types, TypeOK
<1> QED
  BY <1>1, <1>2, Invariance, NextKeepsBooks, PTL DEF Spec

-----------------------------------------------------------------------------
(* Action properties.                                                        *)

\* Only Send talks to the node's transaction pool.
LEMMA OnlySendSends ==
  ASSUME [Next]_vars, nonce' # nonce
  PROVE  Send
  BY DEF Next, Processor, vars, Start, NextPayee, Tick, ProcessEnds,
     ChecksPass, ChecksFail, Lock, Debit, Record, Await, StartResolve,
     Rollback, Unlock, Crash, Credit, Mine

\* No transaction is sent before its lock and pending entry are in Redis
\* (payer.go:154-174).
THEOREM WrittenAhead == Spec => WriteAhead
<1>1. ASSUME Inv, [Next]_vars, nonce' # nonce
      PROVE  /\ lock = {Pay(login, amount)}
             /\ payments = lock
             /\ outgoing'[login] - outgoing[login] = amount
  <2>1. Send
    BY <1>1, OnlySendSends
  <2>2. lock = {Pay(login, amount)} /\ payments = lock
    BY <1>1, <2>1 DEF Inv, LoopInv, Send
  <2>3. SendTransaction(login, amount)
    BY <1>1, <2>1 DEF Send
  <2> QED
    BY <1>1, <2>2, <2>3 DEF SendTransaction, Inv, Types
<1> QED
  BY <1>1, Invariance, PTL DEF Spec, WriteAhead

\* One process never has two unconfirmed payments (payer.go:196-214).
THEOREM OnePaymentAtATime == Spec => OneAtATime
<1>1. ASSUME Inv, [Next]_vars, nonce' # nonce
      PROVE  txHash \notin unmined
  BY <1>1, OnlySendSends DEF Send, Inv, HashInv
<1> QED
  BY <1>1, Invariance, PTL DEF Spec, OneAtATime

\* A round of payouts never begins over an unfinished payment
\* (payer.go:72-87, 105-108).
THEOREM RoundsStartClean == Spec => StartsClean
<1>1. ASSUME Inv, [Next]_vars, pc \notin Paying, pc' \in Paying
      PROVE  /\ payments = {} /\ lock = {}
             /\ \A l \in Logins : pending[l] = 0
  <2>1. Tick \/ \E readable \in BOOLEAN : Start(readable)
    BY <1>1 DEF Next, Processor, vars, NextPayee, ProcessEnds, ChecksPass,
       ChecksFail, Lock, Debit, Send, Record, Await, StartResolve, Rollback,
       Unlock, Crash, Credit, Mine
  <2>2. lock = {} /\ payments = {}
    BY <1>1, <2>1 DEF Tick, Start, Inv, LoopInv, Listed
  <2> QED
    BY <1>1, <2>2 DEF Inv, Listed
<1> QED
  BY <1>1, Invariance, PTL DEF Spec, StartsClean

-----------------------------------------------------------------------------
(* Refinement.                                                               *)

owed == [l \in Logins |-> balance[l] + pending[l]]

LEMMA CreditEarns ==
  ASSUME Inv, NEW l \in Logins, NEW a \in Credits, Credit(l, a)
  PROVE  Ledger!Earn(l)
<1>1. a \in Nat /\ a > 0
  BY CreditsAssumption
<1>2. owed' = [owed EXCEPT ![l] = @ + a]
  <2>1. \A k \in Logins : balance'[k] + pending'[k] =
          IF k = l THEN balance[k] + pending[k] + a ELSE balance[k] + pending[k]
    BY <1>1 DEF Credit, Inv, Types
  <2> QED
    BY <2>1 DEF owed
<1>3. owed'[l] - owed[l] = a
  BY <1>1, <1>2 DEF owed, Inv, Types
<1> QED
  BY <1>1, <1>2, <1>3 DEF Ledger!Earn, Credit, owed

LEMMA RecordPays ==
  ASSUME Inv, Record
  PROVE  (\E l \in Logins : Ledger!Pay(l)) \/ UNCHANGED <<owed, paid>>
<1>1. PICK o \in Outcomes : IF o.done THEN WritePayment(login, txHash, amount)
                           ELSE UNCHANGED redis
  BY DEF Record
<1>2. CASE ~o.done
  BY <1>1, <1>2 DEF owed
<1>3. CASE o.done
  <2>1. PICK l \in Logins, a \in Nat : l = login /\ a = amount
    BY DEF Inv, Types
  <2>2. /\ paid' = [paid EXCEPT ![l] = @ + a]
        /\ pending' = [pending EXCEPT ![l] = @ - a]
        /\ UNCHANGED balance
    BY <1>1, <1>3, <2>1 DEF WritePayment
  <2>3. pending[l] = a /\ a > 0
    <3>1. payments = {Pay(l, a)}
      BY <2>1 DEF Record, Inv, LoopInv
    <3> QED
      BY <3>1 DEF Inv, Listed
  <2>4. paid'[l] - paid[l] = a
    BY <2>2 DEF Inv, Types
  <2>5. owed' = [owed EXCEPT ![l] = @ - a]
    <3>1. \A k \in Logins : balance'[k] + pending'[k] =
            IF k = l THEN (balance[k] + pending[k]) - a
            ELSE balance[k] + pending[k]
      BY <2>2 DEF Inv, Types
    <3> QED
      BY <3>1 DEF owed
  <2>6. a <= owed[l]
    BY <2>3 DEF owed, Inv, Types, Conservation
  <2>7. Ledger!Pay(l)
    BY <2>2, <2>3, <2>4, <2>5, <2>6 DEF Ledger!Pay, owed
  <2> QED
    BY <2>7
<1> QED
  BY <1>2, <1>3

\* To a miner, the processor with its locks, failures and crashes is a ledger
\* that only ever credits what is earned and pays what is owed.
THEOREM ImplementsLedger == Spec => LedgerSpec
<1>1. Init => Ledger!Init
  BY DEF Init, Ledger!Init
<1>2. ASSUME Inv, [Next]_vars
      PROVE  [Ledger!Next]_<<owed, paid>>
  <2>1. CASE \E l \in Logins, a \in Credits : Credit(l, a)
    BY <1>2, <2>1, CreditEarns DEF Ledger!Next
  <2>2. CASE Record
    BY <1>2, <2>2, RecordPays DEF Ledger!Next
  <2>3. CASE Debit
    <3>1. \A k \in Logins : balance'[k] + pending'[k] = balance[k] + pending[k]
      BY <1>2, <2>3 DEF Debit, UpdateBalance, Inv, Types
    <3>2. UNCHANGED paid
      BY <2>3 DEF Debit, UpdateBalance
    <3> QED
      BY <3>1, <3>2 DEF owed
  <2>4. CASE Rollback
    <3>1. todo \subseteq Payment
      BY <1>2 DEF Inv, Types
    <3>2. \A k \in Logins : balance'[k] + pending'[k] = balance[k] + pending[k]
      BY <1>2, <2>4, <3>1 DEF Rollback, RollbackBalance, Inv, Types
    <3>3. UNCHANGED paid
      BY <2>4 DEF Rollback, RollbackBalance
    <3> QED
      BY <3>2, <3>3 DEF owed
  <2>5. CASE UNCHANGED <<balance, pending, paid>>
    BY <2>5 DEF owed
  <2>6. \/ \E l \in Logins, a \in Credits : Credit(l, a)
        \/ Record \/ Debit \/ Rollback
        \/ UNCHANGED <<balance, pending, paid>>
    BY <1>2 DEF Next, Processor, vars, Start, NextPayee, Tick, ProcessEnds,
       ChecksPass, ChecksFail, Lock, LockPayouts, Send, Await, StartResolve,
       Unlock, UnlockPayouts, Crash, Mine
  <2> QED
    BY <2>1, <2>2, <2>3, <2>4, <2>5, <2>6
<1> QED
  BY <1>1, <1>2, Invariance, PTL DEF Spec, LedgerSpec, Ledger!Spec, owed
=============================================================================
