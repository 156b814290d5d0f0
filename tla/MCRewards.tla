----------------------------- MODULE MCRewards -----------------------------
(* Rewards.tla on two miners and two rounds, for TLC. *)
EXTENDS Rewards

CONSTANTS alice, bob, pool, dev
=============================================================================
