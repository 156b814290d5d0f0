---------------------------- MODULE MCDifficulty ----------------------------
(* Difficulty.tla with bytes of two bits and words of two bytes, for TLC:    *)
(* static ports with all kinds of hashes and difficulties, and an adaptive   *)
(* port with hashes about its targets.                                       *)
EXTENDS Difficulty

MCConfigs ==
    [adaptive : {FALSE}, start : {1}, max : {1, 3, 11, 15}] \cup
    {[adaptive |-> TRUE, start |-> 4, max |-> 10]}

MCSubmitRate == [num |-> 1, den |-> 2]

\* That of the adaptive port at first, one below its range, and one above.
MCTemplateDiff == <<10, 3, 200>>

\* The bytes of a number, the least significant one first, and reversed.
Bytes(v) == [n \in 1 .. HashLen |-> (v \div Byte ^ (n - 1)) % Byte]
BytesReversed(v) == [n \in 1 .. HashLen |-> Bytes(v)[HashLen + 1 - n]]

\* The last hash that has a difficulty, the first that has not, and the same
\* about the target of a block; and hashes about the targets of the jobs.
Boundary(d) == {(Byte ^ HashLen - 1) \div d + n : n \in {0, 1}}
BlockBoundary(d) == {DiffToTarget(d) + n : n \in {0, 1}}

MCHashesFor ==
    [adaptive \in BOOLEAN |->
        IF adaptive THEN {Bytes(4096 * n + 4095) : n \in 0 .. 2}
        ELSE LET D == {c.max : c \in MCConfigs}
             IN  {Bytes(v) : v \in UNION {Boundary(d) : d \in D}} \cup
                 {BytesReversed(v) : v \in UNION {BlockBoundary(d) : d \in D}}]
=============================================================================
