------------------------------- MODULE MCPod --------------------------------
(* Small clusters for TLC. *)
EXTENDS Pod, TLC

CONSTANTS n1, n2, n3

\* Every raft.cfg lists the whole cluster, as DEPLOYMENT.md shows it.
ListAll == [s \in Server |-> Server]

\* Every raft.cfg lists the other nodes only.
ListPeers == [s \in Server |-> Server \ {s}]

NegOne == -1

\* Nodes are interchangeable as long as the same ones may start elections.
Symmetry == Permutations(Electors) \cup Permutations(Server \ Electors)
=============================================================================
