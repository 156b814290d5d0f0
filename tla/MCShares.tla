------------------------------ MODULE MCShares ------------------------------
(* Shares.tla on two clients and four shares at three heights, for TLC. *)
EXTENDS Shares, TLC

CONSTANTS alice, bob, plain, again, block, late

MCHeightOf ==
    [s \in ShareIds |-> IF s = late THEN FirstHeight + 2 ELSE FirstHeight]

\* again is block with the result in the other letter case: the same nonce and
\* the same proof of work.
MCWorkOf == [s \in ShareIds |-> IF s = again THEN block ELSE s]

Symmetry == Permutations(Clients)
=============================================================================
