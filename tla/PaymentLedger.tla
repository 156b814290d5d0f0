--------------------------- MODULE PaymentLedger ---------------------------
(***************************************************************************)
(* What the payouts subsystem promises to a miner, with no Redis keys, no  *)
(* lock, no node and no failures: the pool owes every login some amount,   *)
(* a credit raises it, and a payment moves a positive part of what is owed *)
(* to what is paid.  Nothing else ever changes either number.              *)
(*                                                                         *)
(* Payouts.tla implements this specification, with owed = balance +        *)
(* pending: a debit that is rolled back is invisible here.                 *)
(***************************************************************************)
EXTENDS Integers

CONSTANT Logins

VARIABLES owed, paid

Init ==
    /\ owed = [l \in Logins |-> 0]
    /\ paid = [l \in Logins |-> 0]

\* The amounts are read off the step itself.
Earn(l) ==
    LET a == owed'[l] - owed[l]
    IN  /\ a > 0
        /\ owed' = [owed EXCEPT ![l] = @ + a]
        /\ UNCHANGED paid

Pay(l) ==
    LET a == paid'[l] - paid[l]
    IN  /\ a > 0 /\ a <= owed[l]
        /\ owed' = [owed EXCEPT ![l] = @ - a]
        /\ paid' = [paid EXCEPT ![l] = @ + a]

Next == \E l \in Logins : Earn(l) \/ Pay(l)

Spec == Init /\ [][Next]_<<owed, paid>>
=============================================================================
