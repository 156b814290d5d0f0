----------------------------- MODULE RoundLedger -----------------------------
(***************************************************************************)
(* What the pool promises the miners of its rounds: every solution is one  *)
(* round; it is settled once, after it was looked at twice; nothing but    *)
(* settling a round changes a balance, and by one reward at most.          *)
(* Unlocker.tla implements it.                                             *)
(***************************************************************************)
EXTENDS Integers

CONSTANTS
    Rounds,
    Amounts             \* what a round may be worth

VARIABLES
    status,             \* of each round
    expected,           \* what its miners have as immature
    balance             \* what the miners of all rounds were given
vars == <<status, expected, balance>>

Init ==
    /\ status = [r \in Rounds |-> "none"]
    /\ expected = [r \in Rounds |-> 0]
    /\ balance = 0

Mine(r) ==
    /\ status[r] = "none"
    /\ status' = [status EXCEPT ![r] = "candidate"]
    /\ UNCHANGED <<expected, balance>>

\* The solution is on the chain and worth amount, for now.
Expect(r, amount) ==
    /\ status[r] = "candidate"
    /\ status' = [status EXCEPT ![r] = "immature"]
    /\ expected' = [expected EXCEPT ![r] = amount]
    /\ UNCHANGED balance

\* Solutions are not on the chain, for now.
Doubt(rs) ==
    /\ \A r \in rs : status[r] = "candidate"
    /\ status' = [r \in Rounds |-> IF r \in rs THEN "immature" ELSE status[r]]
    /\ UNCHANGED <<expected, balance>>

\* What was expected counts no more, only what the solution is worth now.
Settle(r, amount) ==
    /\ status[r] = "immature"
    /\ status' = [status EXCEPT ![r] = "settled"]
    /\ expected' = [expected EXCEPT ![r] = 0]
    /\ balance' = balance + amount

Next ==
    \/ \E r \in Rounds :
        \/ Mine(r)
        \/ \E amount \in Amounts : Expect(r, amount)
        \/ \E amount \in Amounts \cup {0} : Settle(r, amount)
    \/ \E rs \in SUBSET Rounds : Doubt(rs)

Spec == Init /\ [][Next]_vars
==============================================================================
