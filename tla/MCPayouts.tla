------------------------------ MODULE MCPayouts -----------------------------
(* Payouts.tla on two miners, for TLC. *)
EXTENDS Payouts

CONSTANTS alice, bob

MCLogins == {alice, bob}
=============================================================================
