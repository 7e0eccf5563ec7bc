------------------------------- MODULE MCBatch ------------------------------
(* Small memtables for TLC. *)
EXTENDS Batch

Lengths == [n \in Key |-> n]
ValueLengths == [v \in Value |-> 2 * v]
=============================================================================
