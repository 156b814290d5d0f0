------------------------------ MODULE MCStats ------------------------------
(* Stats.tla on two rigs of one account, for TLC. *)
EXTENDS Stats, TLC

CONSTANTS alice, rig1, rig2

MCLoginOf == [w \in Workers |-> alice]

Symmetry == Permutations(Workers)
=============================================================================
