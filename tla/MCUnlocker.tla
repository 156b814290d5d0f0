----------------------------- MODULE MCUnlocker -----------------------------
(* Unlocker.tla on two rounds, for TLC. *)
EXTENDS Unlocker, TLC

CONSTANTS first, second

Symmetry == Permutations(Rounds)
=============================================================================
