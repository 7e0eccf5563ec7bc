-------------------------------- MODULE MCSST -------------------------------
(* Two tables and a cache that holds the blocks of one or of both. *)
EXTENDS SST, TLC

KeyLengths == [k \in Key |-> k]
ValueLengths == [v \in Value |-> 12 * v]

\* A table with a gap, and one with longer values.
TwoContents == {[k \in {1, 3} |-> 1], [k \in {2} |-> 2]}

\* Seeds that give key 2 only bits of keys 1 and 3.
OneHash == {[k \in Key |-> IF k = 2 THEN {1, 13} ELSE {k, k + 10}]}

Threads == Permutations(Thread)
=============================================================================
