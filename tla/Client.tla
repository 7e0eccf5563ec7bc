------------------------------- MODULE Client --------------------------------
(***************************************************************************)
(* The client library (db_client.hpp) in front of a cluster of Pods.  A    *)
(* call of Put tries the nodes one after the other, each with a deadline,  *)
(* follows one redirection to the leader, and then gives up.  A request    *)
(* whose deadline passed is not cancelled: its handler may run later, or   *)
(* poll on, while the library already tries another node.                  *)
(*                                                                         *)
(* Module Pod knows a write by the request that carries it, so a Value is  *)
(* a pair: the call of Put and the number of the request within the call.  *)
(* All requests of a call carry the same key and value.                    *)
(***************************************************************************)
EXTENDS Pod

CONSTANTS
    Process,  \* the client processes, each with a DBClient of its own
    all_pod   \* all_pod_, the nodes in the order of the configuration

\* The requests a Put may send.  Bound: one Put for each process.
Pods  == DOMAIN all_pod
Tries == 1..(Len(all_pod) + 1)

ASSUME ClientAssumption ==
    /\ all_pod \in Seq(Server) /\ Len(all_pod) > 0
    /\ Value = Process \X Tries

VARIABLES
    client,    \* the main loop of each process and the call it is in
    request    \* the node each Put request is on its way to

clientVars == <<client, request>>

(***************************************************************************)
(* pc: idle between two calls, in the loop of Put, in the redirected call  *)
(* of Put, in the loop of one of the reads, in the redirected call of      *)
(* SyncGet, or aborted.  at: the position in all_pod_.  leader: the node a *)
(* read was redirected to.  tries, hops, ok: the requests sent by Put, how *)
(* many of them were redirected, and the result of Put.                    *)
(***************************************************************************)
ClientState ==
    [pc : {"idle", "put", "putLeader", "get", "optget", "sget", "sgetLeader", "aborted"},
     at : Nat, leader : Server \cup {None}, tries : Nat, hops : Nat, ok : BOOLEAN]

\* Positions and results are those the loops of DBClient can have.
ClientTypeOK ==
    /\ client \in [Process -> ClientState]
    /\ request \in [Value -> Server \cup {None}]

ClientInit ==
    /\ PodInit
    /\ client = [p \in Process |-> [pc |-> "idle", at |-> 0, leader |-> None,
                                    tries |-> 0, hops |-> 0, ok |-> FALSE]]
    /\ request = [r \in Value |-> None]

\* A call of process p is over.
Idle(c) == [c EXCEPT !.pc = "idle", !.at = 0, !.leader = None]

(***************************************************************************)
(* DBClient::Put.  requests is what becomes of the requests under way      *)
(* before the next one is sent.                                            *)
(***************************************************************************)
Send(p, c, s, requests) ==
    /\ client' = [client EXCEPT ![p] = [c EXCEPT !.tries = @ + 1]]
    /\ request' = [requests EXCEPT ![<<p, c.tries + 1>>] = s]

Return(p, ok, requests) ==
    /\ client' = [client EXCEPT ![p] = [Idle(@) EXCEPT !.ok = ok]]
    /\ request' = requests

\* Mutant: the loop calls the first node every time.
TryNext_FirstPod(p, requests) ==
    LET at == client[p].at + 1 IN
    IF client[p].pc # "putLeader" /\ at \in Pods
    THEN Send(p, [client[p] EXCEPT !.pc = "put", !.at = at], all_pod[1], requests)
    ELSE Return(p, FALSE, requests)

\* The request failed: go on with the next node.  After a redirection the loop
\* is left, whatever came of it.
TryNext(p, requests) ==
    LET at == client[p].at + 1 IN
    IF client[p].pc # "putLeader" /\ at \in Pods
    THEN Send(p, [client[p] EXCEPT !.pc = "put", !.at = at], all_pod[at], requests)
    ELSE Return(p, FALSE, requests)

\* rsp has code -2: the loop over s_client calls the pod with that address.
Redirect(p, addr, requests) ==
    IF addr \in Range(all_pod)
    THEN Send(p, [client[p] EXCEPT !.pc = "putLeader", !.hops = @ + 1], addr, requests)
    ELSE Return(p, FALSE, requests)

PutBegin(p) ==
    /\ client[p].pc = "idle" /\ client[p].tries = 0
    /\ TryNext(p, request)
    /\ UNCHANGED podVars

InPut(p) == client[p].pc \in {"put", "putLeader"}

\* Its process still waits for request r.
Waits(r) == InPut(r[1]) /\ client[r[1]].tries = r[2]

\* The leader starts the handler of r.
PutAccepted(r) ==
    /\ request[r] # None
    /\ PutCheck(r, request[r])
    /\ request' = [request EXCEPT ![r] = None]
    /\ UNCHANGED client

\* The leader's address, as far as node s knows a leader and lists it.
LeaderAddr(s) == IF leader_id[s] \in Followers[s] THEN leader_id[s] ELSE None

\* Node s does not lead: it answers -2 with the leader's address, or -1.
PutRefused(r) ==
    LET p        == r[1]
        s        == request[r]
        requests == [request EXCEPT ![r] = None]
    IN  /\ s # None
        /\ MutexFree(s) /\ status[s] # "Leader"
        /\ \/ ~ Waits(r) /\ request' = requests /\ UNCHANGED client
           \/ /\ Waits(r)
              /\ LeaderAddr(s) = None \/ client[p].pc = "putLeader"
              /\ TryNext(p, requests)
           \/ /\ Waits(r)
              /\ LeaderAddr(s) # None /\ client[p].pc = "put"
              /\ Redirect(p, LeaderAddr(s), requests)
        /\ UNCHANGED podVars

\* The leader's handler has returned: code 0, or -1 if the log was full.
PutAnswered(r) ==
    /\ Waits(r)
    /\ \/ put[r].stage = "acked" /\ Return(r[1], TRUE, request)
       \/ put[r].stage = "failed" /\ TryNext(r[1], request)
    /\ UNCHANGED podVars

\* Mutant: status.ok() is not looked at, and the code of an empty answer is 0.
PutDeadline_Unchecked(p) ==
    /\ InPut(p)
    /\ Return(p, TRUE, request)
    /\ UNCHANGED podVars

\* Mutant: the context gets no deadline.
PutDeadline_None(p) == FALSE /\ UNCHANGED <<podVars, clientVars>>

\* No answer within the deadline: the request stays where it is.
PutDeadline(p) ==
    /\ InPut(p)
    /\ TryNext(p, request)
    /\ UNCHANGED podVars

(***************************************************************************)
(* Reads: Get (get), Get from one pod (optget) and SyncGet (sget).  The    *)
(* handlers change nothing, so a request that comes too late is as good as *)
(* lost and a call that is answered is one step.                           *)
(***************************************************************************)
ReadTo(p, c) ==
    /\ client' = [client EXCEPT ![p] = c]
    /\ UNCHANGED <<podVars, request>>

ReadBegin(p, op) ==
    /\ client[p].pc = "idle"
    /\ \E at \in IF op = "optget" THEN Pods ELSE {1} :
          ReadTo(p, [client[p] EXCEPT !.pc = op, !.at = at])

\* What the database of s has for the key.  A missing key is answered with code
\* 0 and the empty value: the Base with code 1 is never put into the answer.
DbGet(s) == LET writes == {i \in DOMAIN applied[s] : applied[s][i] # Empty}
            IN  IF writes = {} THEN Empty ELSE applied[s][Max(writes)]

Asked(p) == IF client[p].pc = "sgetLeader" THEN client[p].leader ELSE all_pod[client[p].at]

\* Code 0: the read returns true with the value.
ReadAnswered(p) ==
    /\ \/ client[p].pc \in {"get", "optget"}
       \/ client[p].pc \in {"sget", "sgetLeader"} /\ status[Asked(p)] = "Leader"
    /\ ReadTo(p, Idle(client[p]))

\* The addresses an answer -2 to a read may have.  Where the node knows no
\* leader, the pointer to the address is not initialised: any address, or none.
ReadAddrs(s) == IF LeaderAddr(s) # None THEN {LeaderAddr(s)} ELSE Server \cup {None}

\* Code -2: SyncGet follows the address once.
ReadRefused(p) ==
    /\ client[p].pc \in {"sget", "sgetLeader"}
    /\ status[Asked(p)] # "Leader"
    /\ \E addr \in ReadAddrs(Asked(p)) :
          ReadTo(p, IF client[p].pc = "sget" /\ addr \in Range(all_pod)
                    THEN [client[p] EXCEPT !.pc = "sgetLeader", !.at = 0, !.leader = addr]
                    ELSE Idle(client[p]))

\* The call fails or its deadline passes.  Get then calls the next node with a
\* context it has used before, for which gRPC aborts the process, if it checks.
ReadFails(p) ==
    /\ client[p].pc \in {"get", "optget", "sget", "sgetLeader"}
    /\ IF client[p].pc \in {"get", "sget"} /\ client[p].at + 1 \in Pods
       THEN \/ ReadTo(p, [client[p] EXCEPT !.at = @ + 1])
            \/ client[p].pc = "get" /\ ReadTo(p, [Idle(client[p]) EXCEPT !.pc = "aborted"])
       ELSE ReadTo(p, Idle(client[p]))

-----------------------------------------------------------------------------
ClusterStep ==
    /\ \/ \E s \in Server : NodeStep(s)
       \/ \E s, f \in Server : SyncStep(s, f)
       \/ LateStep
       \/ \E r \in Value : InnerPut(r) \/ PutReturn(r)
    /\ UNCHANGED clientVars

WriteStep ==
    \/ \E p \in Process : PutBegin(p) \/ PutDeadline(p)
    \/ \E r \in Value : PutAccepted(r) \/ PutRefused(r) \/ PutAnswered(r)

ReadStep ==
    \E p \in Process :
        \/ \E op \in {"get", "optget", "sget"} : ReadBegin(p, op)
        \/ ReadAnswered(p) \/ ReadRefused(p) \/ ReadFails(p)

ClientNext == ClusterStep \/ WriteStep \/ ReadStep

allVars == <<podVars, clientVars>>

\* A process that is in a call goes on, at the latest when the deadline of its
\* request passes; nothing is assumed of the cluster or the network.
ClientSpec ==
    /\ ClientInit
    /\ [][ClientNext]_allVars
    /\ \A p \in Process : WF_allVars(PutDeadline(p)) /\ WF_allVars(ReadFails(p))

-----------------------------------------------------------------------------
\* The nodes whose log holds the write of request r.
Logged(r) == {s \in Server : \E i \in 1..LogIndex(s) : At(log[s], i).val = r}

(***************************************************************************)
(* If Put returns true, one of its requests was appended to a log, however *)
(* many of them timed out, were refused or are still under way.            *)
(***************************************************************************)
TrueMeansLogged ==
    \A p \in Process : client[p].ok => \E k \in Tries : Logged(<<p, k>>) # {}

(***************************************************************************)
(* While one node leads, a Put that went through the nodes without being   *)
(* redirected is logged at most once, and one that was redirected at most  *)
(* twice: retries that may each run late do not pile up.                   *)
(***************************************************************************)
LoggedOncePerTry ==
    \A p \in Process :
        Cardinality({k \in Tries : Logged(<<p, k>>) # {}}) <= 1 + client[p].hops

(***************************************************************************)
(* A value that any of the three reads returns is in the logs of a         *)
(* majority, although it comes from the database of one node, perhaps not  *)
(* the leader, while writes are in progress or being retried.              *)
(***************************************************************************)
ReadsCommited ==
    [][\A p \in Process :
          ReadAnswered(p) =>
              LET value == DbGet(Asked(p)) IN value = Empty \/ Majority(Logged(value))]_allVars

(***************************************************************************)
(* Every call of the library returns or aborts, whatever the cluster does. *)
(***************************************************************************)
CallReturns ==
    \A p \in Process : client[p].pc # "idle" ~> client[p].pc \in {"idle", "aborted"}

(***************************************************************************)
(* Once Put has returned, nothing more is written for it.                  *)
(***************************************************************************)
NoLateWrite ==
    [][\A p \in Process, k \in Tries :
          ~ InPut(p) /\ Logged(<<p, k>>) = {} => Logged(<<p, k>>)' = {}]_allVars
=============================================================================
