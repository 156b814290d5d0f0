---------------------------- MODULE MCUpstreams -----------------------------
(* Upstreams.tla on two nodes and one caller besides the checker. *)
EXTENDS Upstreams

CONSTANTS caller
=============================================================================
