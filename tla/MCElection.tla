----------------------------- MODULE MCElection -----------------------------
(* Small clusters for TLC. *)
EXTENDS Election, TLC

CONSTANTS n1, n2, n3

\* Every raft.cfg lists the whole cluster, as DEPLOYMENT.md shows it.
ListAll == [s \in Server |-> Server]

\* Nodes are interchangeable as long as the same ones may start elections.
Symmetry == Permutations(Electors) \cup Permutations(Server \ Electors)
=============================================================================
