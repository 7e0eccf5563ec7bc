------------------------------ MODULE MCClient ------------------------------
(* A small cluster and its clients for TLC. *)
EXTENDS Client

CONSTANTS n1, n2, n3, p1

\* Every raft.cfg lists the other nodes only, so that the third node of three
\* may miss an election and learn of the leader by its heartbeats.
ListPeers == [s \in Server |-> Server \ {s}]

NegOne == -1

Configured == <<n1, n2>>
Requests == Process \X (1..3)
=============================================================================
