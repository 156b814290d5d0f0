----------------------------- MODULE MCStratum ------------------------------
(* Stratum.tla on one session, two fetching and two pushing goroutines. *)
EXTENDS Stratum

CONSTANTS first, timer, found, push1, push2
=============================================================================
