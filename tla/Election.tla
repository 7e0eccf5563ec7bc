------------------------------ MODULE Election ------------------------------
(***************************************************************************)
(* Leader election among the Pods of a cluster (raft/pod.hpp): the Vote    *)
(* handler, the election thread with its RequestVote loop and its          *)
(* heartbeat loop, and the part of SolveAppend that runs under             *)
(* election_mutex_.                                                        *)
(*                                                                         *)
(* The replicated log is abstracted to the one thing the election reads of *)
(* it, its last index, which is a parameter of the actions; the module Pod *)
(* composes them with the real log.  A client put, a sync thread or an     *)
(* apply step leaves all variables of this module alone.                   *)
(*                                                                         *)
(* Every RPC is a blocking call with a two second deadline.  A vote call   *)
(* is made with the caller's election_mutex_ held, so call[s] # None is    *)
(* both "s waits for an answer" and "the mutex of s is held": handlers of  *)
(* s that need the mutex are not enabled.  When the deadline passes the    *)
(* caller goes on, and the request is lost or stays in lateVote to be      *)
(* handled at any later time; nobody waits for that answer any more.       *)
(*                                                                         *)
(* The handlers of a node exclude each other by its mutex, but the node's  *)
(* own election thread executes ++term_ without it, and a handler reads    *)
(* the atomic term_ several times.  A handler's action therefore takes the *)
(* moment of that increment as a parameter.  Nothing else of a node can    *)
(* come between: after the increment the election thread needs the mutex,  *)
(* before it the thread only writes Candidate to status_, which no handler *)
(* tells from Follower, and the term_ of a candidate leaves its node only  *)
(* with calls that are made under the mutex.                               *)
(***************************************************************************)
EXTENDS Integers, FiniteSets

CONSTANTS
    Server,      \* the ids of the Pods
    Followers,   \* Followers[s]: the addresses raft.cfg gives to s; the
                 \* documented files list s itself as well
    None,        \* no outstanding call, no known leader
    Electors,    \* bound: the nodes whose election timer may run out
    MaxTerm,     \* bound: elections are started up to this term
    MaxIndex,    \* bound: largest log index used by the abstract log
    MaxLateVote, \* bound: vote requests alive after their caller gave up
    MaxLateBeat  \* bound: heartbeats alive after their caller gave up

ASSUME ServerAssumption == IsFiniteSet(Server) /\ None \notin Server
ASSUME FollowersAssumption == Followers \in [Server -> SUBSET Server]
ASSUME BoundsAssumption ==
    Electors \subseteq Server /\ MaxTerm \in Nat /\ MaxIndex \in Nat /\ MaxLateVote \in Nat /\ MaxLateBeat \in Nat

VARIABLES
    term,        \* term_
    voted,       \* voted_
    status,      \* status_
    leader_id,   \* leader_id_, None while the field is uninitialized
    pc,          \* where the election thread is
    left,        \* followers the current loop has not reached yet
    ticket,      \* followers that answered code 0; ticket_num = 1 + their number
    call,        \* the outstanding RequestVote call, with election_mutex_ held
    lateVote,    \* vote requests whose caller gave up
    lateBeat,    \* heartbeats whose caller gave up
    granted,     \* history: every vote a Vote handler granted
    leaders      \* history: every election won, with the voters counted

votingVars  == <<term, voted, status, leader_id>>
threadVars  == <<pc, left, ticket, call>>
electionVars == <<votingVars, threadVars, lateVote, lateBeat, granted, leaders>>

PodStatus == {"Candidate", "Leader", "Follower"}

VoteReq == [from : Server, to : Server, term : Nat, index : Nat]
BeatReq == [from : Server, to : Server, term : Nat, commited : Nat]
ASSUME NoneAssumption == None \notin VoteReq

\* own: the voter's term_ when the handler returned; it is above the term of the
\* vote if the voter's own ++term_ came while the handler was checking.
Grant   == [voter : Server, term : Nat, cand : Server, own : Nat]
Victory == [node : Server, term : Nat, voters : SUBSET Server]

\* The variables hold what their declarations in Pod allow; history is well formed.
ElectionTypeOK ==
    /\ term \in [Server -> Nat]
    /\ voted \in [Server -> BOOLEAN]
    /\ status \in [Server -> PodStatus]
    /\ leader_id \in [Server -> Server \cup {None}]
    /\ pc \in [Server -> {"wait", "candidate", "asking", "calling", "beating"}]
    /\ left \in [Server -> SUBSET Server]
    /\ ticket \in [Server -> SUBSET Server]
    /\ call \in [Server -> VoteReq \cup {None}]
    /\ lateVote \subseteq VoteReq
    /\ lateBeat \subseteq BeatReq
    /\ granted \subseteq Grant
    /\ leaders \subseteq Victory

\* A Pod starts as a follower of term 0 that has not voted.
ElectionInit ==
    /\ term = [s \in Server |-> 0]
    /\ voted = [s \in Server |-> FALSE]
    /\ status = [s \in Server |-> "Follower"]
    /\ leader_id = [s \in Server |-> None]
    /\ pc = [s \in Server |-> "wait"]
    /\ left = [s \in Server |-> {}]
    /\ ticket = [s \in Server |-> {}]
    /\ call = [s \in Server |-> None]
    /\ lateVote = {}
    /\ lateBeat = {}
    /\ granted = {}
    /\ leaders = {}

(***************************************************************************)
(* The election mutex, and what becomes of a request nobody waits for.     *)
(***************************************************************************)
MutexFree(s) == call[s] = None

\* What a set of late requests becomes: req is kept in it or lost.
Abandoned(late, max, req) ==
    {late} \cup (IF Cardinality(late) < max THEN {late \cup {req}} ELSE {})

(***************************************************************************)
(* The accesses of a handler to term_ have the numbers 1 to 5, the last    *)
(* one being the store: Vote reads at 1 to 4, SolveAppend at 3 and 4.      *)
(* Moment n of the increment: the accesses from n on come after it.  Only  *)
(* the election thread of a candidate is about to increment; AfterStore is *)
(* a handler that it does not run into.                                    *)
(***************************************************************************)
AfterStore == 6
Moments(v) == IF pc[v] = "candidate" THEN 1..AfterStore ELSE {AfterStore}

TermRead(v, i, n) == IF i < n THEN term[v] ELSE term[v] + 1

\* The election thread's place, after it executed ++term_ during a handler of v.
Asking(place, v, n) == [place EXCEPT ![v] = IF n = AfterStore THEN @ ELSE "asking"]

(***************************************************************************)
(* Vote(req), run by node v whose log ends at index.                       *)
(***************************************************************************)
\* Mutant: voted_ is not looked at.
RefusesVote_NoVotedCheck(v, req, index, n) ==
    \/ req.term < TermRead(v, 1, n)
    \/ req.term = TermRead(v, 2, n) /\ req.index < index

RefusesVote(v, req, index, n) ==
    \/ req.term < TermRead(v, 1, n)
    \/ req.term = TermRead(v, 2, n) /\ req.index < index
    \/ req.term = TermRead(v, 3, n) /\ voted[v]

\* Mutant: voted_ is not set.
GrantVote_NotRemembered(v, req, n) ==
    LET higher == req.term > TermRead(v, 4, n)
        own    == IF higher THEN req.term ELSE TermRead(v, 5, n)
    IN  /\ term' = [term EXCEPT ![v] = own]
        /\ status' = [status EXCEPT ![v] = IF higher THEN "Follower" ELSE @]
        /\ granted' = granted \cup
              {[voter |-> v, term |-> req.term, cand |-> req.from, own |-> own]}
        /\ UNCHANGED voted

\* A higher term makes v a follower of that term, whether or not its thread just
\* incremented the old one; the vote is cast either way.
GrantVote(v, req, n) ==
    LET higher == req.term > TermRead(v, 4, n)
        own    == IF higher THEN req.term ELSE TermRead(v, 5, n)
    IN  /\ term' = [term EXCEPT ![v] = own]
        /\ status' = [status EXCEPT ![v] = IF higher THEN "Follower" ELSE @]
        /\ voted' = [voted EXCEPT ![v] = TRUE]
        /\ granted' = granted \cup
              {[voter |-> v, term |-> req.term, cand |-> req.from, own |-> own]}

Vote(v, req, index, n) ==
    /\ MutexFree(v)
    /\ \/ /\ RefusesVote(v, req, index, n)
          /\ term' = [term EXCEPT ![v] = TermRead(v, 5, n)]
          /\ UNCHANGED <<status, voted, granted>>
       \/ /\ ~ RefusesVote(v, req, index, n)
          /\ GrantVote(v, req, n)

(***************************************************************************)
(* The election thread of a node that is not the leader.                   *)
(***************************************************************************)

\* The five seconds are over but a message arrived meanwhile: wait again.
NotTimedOut(s) ==
    /\ pc[s] = "wait"
    /\ status[s] # "Leader"
    /\ UNCHANGED electionVars

\* status_ = Candidate is written without the mutex, and RequestVote is entered.
ElectionTimeout(s) ==
    /\ pc[s] = "wait"
    /\ status[s] # "Leader"
    /\ s \in Electors /\ term[s] < MaxTerm
    /\ pc' = [pc EXCEPT ![s] = "candidate"]
    /\ status' = [status EXCEPT ![s] = "Candidate"]
    /\ left' = [left EXCEPT ![s] = Followers[s]]
    /\ ticket' = [ticket EXCEPT ![s] = {}]
    /\ UNCHANGED <<term, voted, leader_id, call, lateVote, lateBeat, granted, leaders>>

\* Mutant: --term_.
RequestVote_TermDown(s) ==
    /\ pc[s] = "candidate"
    /\ term' = [term EXCEPT ![s] = @ - 1]
    /\ pc' = [pc EXCEPT ![s] = "asking"]
    /\ UNCHANGED <<voted, status, leader_id, left, ticket, call, lateVote, lateBeat, granted,
                   leaders>>

\* ++term_ happens whatever status_ has become; voted_ is not touched.  This is
\* the increment between two handlers; Moments has those during one.
RequestVote(s) ==
    /\ pc[s] = "candidate"
    /\ term' = [term EXCEPT ![s] = @ + 1]
    /\ pc' = [pc EXCEPT ![s] = "asking"]
    /\ UNCHANGED <<voted, status, leader_id, left, ticket, call, lateVote, lateBeat, granted,
                   leaders>>

\* Lock election_mutex_, check that s is still a candidate, and call f.
VoteCall(s, f, index) ==
    /\ pc[s] = "asking"
    /\ f \in left[s]
    /\ status[s] = "Candidate"
    /\ pc' = [pc EXCEPT ![s] = "calling"]
    /\ left' = [left EXCEPT ![s] = @ \ {f}]
    /\ call' = [call EXCEPT ![s] = [from |-> s, to |-> f, term |-> term[s], index |-> index]]
    /\ UNCHANGED <<votingVars, ticket, lateVote, lateBeat, granted, leaders>>

\* Mutant: every answer counts as a ticket, code 0 or not.
VoteAnswer_CountsAll(s, index) ==
    /\ pc[s] = "calling"
    /\ \E n \in Moments(call[s].to) :
          /\ Vote(call[s].to, call[s], index, n)
          /\ pc' = Asking([pc EXCEPT ![s] = "asking"], call[s].to, n)
    /\ ticket' = [ticket EXCEPT ![s] = @ \cup {call[s].to}]
    /\ call' = [call EXCEPT ![s] = None]
    /\ UNCHANGED <<leader_id, left, lateVote, lateBeat, leaders>>

\* The callee runs Vote within the deadline and the caller counts the answer.
VoteAnswer(s, index) ==
    /\ pc[s] = "calling"
    /\ LET req == call[s] IN
       \E n \in Moments(req.to) :
          /\ Vote(req.to, req, index, n)
          /\ ticket' = [ticket EXCEPT ![s] =
                IF RefusesVote(req.to, req, index, n) THEN @ ELSE @ \cup {req.to}]
          /\ pc' = Asking([pc EXCEPT ![s] = "asking"], req.to, n)
    /\ call' = [call EXCEPT ![s] = None]
    /\ UNCHANGED <<leader_id, left, lateVote, lateBeat, leaders>>

\* Mutant: the context gets no deadline.
VoteTimeout_NoDeadline(s) == FALSE /\ UNCHANGED electionVars

\* No answer within two seconds: the loop continues with the next follower.
VoteTimeout(s) ==
    /\ pc[s] = "calling"
    /\ lateVote' \in Abandoned(lateVote, MaxLateVote, call[s])
    /\ call' = [call EXCEPT ![s] = None]
    /\ pc' = [pc EXCEPT ![s] = "asking"]
    /\ UNCHANGED <<votingVars, left, ticket, lateBeat, granted, leaders>>

\* Vote runs after its caller gave up.
VoteLate(req, index) ==
    /\ req \in lateVote
    /\ \E n \in Moments(req.to) :
          Vote(req.to, req, index, n) /\ pc' = Asking(pc, req.to, n)
    /\ lateVote' = lateVote \ {req}
    /\ UNCHANGED <<leader_id, left, ticket, call, lateBeat, leaders>>

\* RequestVote returns; its locals go out of scope.
LeaveRequestVote(s) ==
    /\ pc' = [pc EXCEPT ![s] = "wait"]
    /\ left' = [left EXCEPT ![s] = {}]
    /\ ticket' = [ticket EXCEPT ![s] = {}]

\* RequestVote returns false: a handler made s a follower meanwhile.
VoteAbort(s) ==
    /\ pc[s] = "asking"
    /\ status[s] # "Candidate"
    /\ LeaveRequestVote(s)
    /\ UNCHANGED <<votingVars, call, lateVote, lateBeat, granted, leaders>>

\* Mutant: half of the tickets are enough.
EnoughTickets_Half(s) == 1 + Cardinality(ticket[s]) >= (1 + Cardinality(Followers[s])) \div 2

EnoughTickets(s) == 1 + Cardinality(ticket[s]) > (1 + Cardinality(Followers[s])) \div 2

BecomeLeader(s) ==
    /\ pc[s] = "asking"
    /\ left[s] = {}
    /\ status[s] = "Candidate"
    /\ EnoughTickets(s)
    /\ status' = [status EXCEPT ![s] = "Leader"]
    /\ leaders' = leaders \cup {[node |-> s, term |-> term[s], voters |-> ticket[s]]}
    /\ LeaveRequestVote(s)
    /\ UNCHANGED <<term, voted, leader_id, call, lateVote, lateBeat, granted>>

\* Too few tickets: RequestVote returns false and s stays a candidate.
LoseElection(s) ==
    /\ pc[s] = "asking"
    /\ left[s] = {}
    /\ status[s] = "Candidate"
    /\ ~ EnoughTickets(s)
    /\ LeaveRequestVote(s)
    /\ UNCHANGED <<votingVars, call, lateVote, lateBeat, granted, leaders>>

(***************************************************************************)
(* The part of SolveAppend that runs under election_mutex_, on node f for  *)
(* a request of node from carrying term t.  beyond: the request carries an *)
(* entry past the end of the log of f.                                     *)
(***************************************************************************)
\* Mutant: an entry past the end of the log is adopted whatever its term.
Adopts_AnyTerm(f, t, beyond, n) == t > TermRead(f, 3, n) \/ beyond

Adopts(f, t, beyond, n) == t > TermRead(f, 3, n) \/ (t = TermRead(f, 4, n) /\ beyond)

\* The store overwrites an increment that came after the test.
SolveAppendTerm(f, from, t, beyond) ==
    \E n \in Moments(f) :
        /\ MutexFree(f)
        /\ \/ /\ ~ Adopts(f, t, beyond, n)
              /\ term' = [term EXCEPT ![f] = TermRead(f, 5, n)]
              /\ UNCHANGED <<voted, status, leader_id>>
           \/ /\ Adopts(f, t, beyond, n)
              /\ term' = [term EXCEPT ![f] = t]
              /\ voted' = [voted EXCEPT ![f] = FALSE]
              /\ status' = [status EXCEPT ![f] = "Follower"]
              /\ leader_id' = [leader_id EXCEPT ![f] = from]
        /\ pc' = Asking(pc, f, n)

(***************************************************************************)
(* The election thread of a leader.  The status is read before the one     *)
(* second wait and never again: a node deposed during the wait or between  *)
(* two calls goes on sending, with the term_ it has by then.               *)
(***************************************************************************)
BeatStart(s) ==
    /\ pc[s] = "wait"
    /\ status[s] = "Leader"
    /\ pc' = [pc EXCEPT ![s] = "beating"]
    /\ left' = [left EXCEPT ![s] = Followers[s]]
    /\ UNCHANGED <<votingVars, ticket, call, lateVote, lateBeat, granted, leaders>>

BeatTo(s, f) ==
    /\ pc[s] = "beating"
    /\ f \in left[s]
    /\ left' = [left EXCEPT ![s] = @ \ {f}]
    /\ UNCHANGED <<ticket, call, lateVote, granted, leaders>>

\* f handles the heartbeat within the deadline.
SendHeartBeat(s, f) ==
    /\ BeatTo(s, f)
    /\ SolveAppendTerm(f, s, term[s], FALSE)
    /\ UNCHANGED lateBeat

\* The deadline passes first: the heartbeat is lost or handled later.
HeartBeatTimeout(s, f, commited) ==
    /\ BeatTo(s, f)
    /\ lateBeat' \in Abandoned(lateBeat, MaxLateBeat,
                     [from |-> s, to |-> f, term |-> term[s], commited |-> commited])
    /\ UNCHANGED <<votingVars, pc>>

HeartBeatLate(req) ==
    /\ req \in lateBeat
    /\ SolveAppendTerm(req.to, req.from, req.term, FALSE)
    /\ lateBeat' = lateBeat \ {req}
    /\ UNCHANGED <<left, ticket, call, lateVote, granted, leaders>>

BeatDone(s) ==
    /\ pc[s] = "beating"
    /\ left[s] = {}
    /\ pc' = [pc EXCEPT ![s] = "wait"]
    /\ UNCHANGED <<votingVars, left, ticket, call, lateVote, lateBeat, granted, leaders>>

\* An Append that carries an entry.  Follower::Run leaves the request's term
\* unset, so the handler reads 0; only a node that once led has sent any.
AppendEntry(f, from, beyond) ==
    /\ \E l \in leaders : l.node = from
    /\ SolveAppendTerm(f, from, 0, beyond)
    /\ UNCHANGED <<left, ticket, call, lateVote, lateBeat, granted, leaders>>

(***************************************************************************)
(* The process of s is killed and started again.  Nothing of the election  *)
(* state is on disk.  Requests to the old process die with its connections *)
(* (a node waiting for an answer sees its call fail first, VoteTimeout);   *)
(* a request it had sent itself may still be handled by the others.        *)
(***************************************************************************)
ElectionRestart(s) ==
    /\ \A t \in Server \ {s} : call[t] # None => call[t].to # s
    /\ term' = [term EXCEPT ![s] = 0]
    /\ voted' = [voted EXCEPT ![s] = FALSE]
    /\ status' = [status EXCEPT ![s] = "Follower"]
    /\ leader_id' = [leader_id EXCEPT ![s] = None]
    /\ pc' = [pc EXCEPT ![s] = "wait"]
    /\ left' = [left EXCEPT ![s] = {}]
    /\ ticket' = [ticket EXCEPT ![s] = {}]
    /\ call' = [call EXCEPT ![s] = None]
    /\ LET open == {req \in lateVote : req.to # s} IN
       lateVote' \in IF call[s] = None \/ call[s].to = s
                       THEN {open}
                       ELSE Abandoned(open, MaxLateVote, call[s])
    /\ lateBeat' = {req \in lateBeat : req.to # s}
    /\ UNCHANGED <<granted, leaders>>

-----------------------------------------------------------------------------
ElectionThread(s) ==
    \/ NotTimedOut(s)
    \/ ElectionTimeout(s)
    \/ RequestVote(s)
    \/ \E f \in Server, index \in 0..MaxIndex : VoteCall(s, f, index)
    \/ \E index \in 0..MaxIndex : VoteAnswer(s, index)
    \/ VoteTimeout(s)
    \/ VoteAbort(s)
    \/ BecomeLeader(s)
    \/ LoseElection(s)
    \/ BeatStart(s)
    \/ \E f \in Server : SendHeartBeat(s, f)
    \/ \E f \in Server, commited \in 0..MaxIndex : HeartBeatTimeout(s, f, commited)
    \/ BeatDone(s)

LateHandler ==
    \/ \E req \in lateVote, index \in 0..MaxIndex : VoteLate(req, index)
    \/ \E req \in lateBeat : HeartBeatLate(req)

EntryHandler == \E f, from \in Server, beyond \in BOOLEAN : AppendEntry(f, from, beyond)

ElectionNext == (\E s \in Server : ElectionThread(s)) \/ LateHandler \/ EntryHandler

\* No process is restarted.
ElectionSpec == ElectionInit /\ [][ElectionNext]_electionVars

\* Processes may be killed and restarted at any time.
RestartNext == ElectionNext \/ \E s \in Server : ElectionRestart(s)
RestartSpec == ElectionInit /\ [][RestartNext]_electionVars

(***************************************************************************)
(* Fairness: the election thread of every node keeps running, and a call   *)
(* in progress ends because gRPC enforces its deadline.  Nothing is        *)
(* assumed of the network or of the handlers.                              *)
(***************************************************************************)
ThreadProgress(s) ==
    \/ RequestVote(s)
    \/ \E f \in Server, index \in 0..MaxIndex : VoteCall(s, f, index)
    \/ VoteTimeout(s)
    \/ VoteAbort(s)
    \/ BecomeLeader(s)
    \/ LoseElection(s)

FairElectionSpec == ElectionSpec /\ \A s \in Server : WF_electionVars(ThreadProgress(s))

-----------------------------------------------------------------------------
(***************************************************************************)
(* What makes the election work, as an inductive invariant.                *)
(***************************************************************************)

\* The mutex is held exactly during a call, which asks for the caller's term.
CallInv ==
    \A s \in Server :
        /\ pc[s] = "calling" <=> call[s] # None
        /\ call[s] # None => call[s].from = s /\ call[s].term = term[s] /\ call[s].term > 0
        /\ pc[s] = "asking" /\ status[s] = "Candidate" => term[s] > 0
        /\ pc[s] \in {"candidate", "asking", "calling"} => status[s] # "Leader"

LateInv == \A req \in lateVote : req.term > 0

\* A vote is cast in the voter's term or, across its own ++term_, for the term
\* before; and voted_ remembers that a vote was cast in the present term.
GrantInv ==
    \A g \in granted :
        /\ 0 < g.term /\ g.own \in {g.term, g.term + 1} /\ g.own <= term[g.voter]
        /\ g.own = term[g.voter] => voted[g.voter]

\* Node v granted its vote to c in term t.
HasVote(c, t, v) == \E g \in granted : g.voter = v /\ g.term = t /\ g.cand = c

\* While s is still a candidate its tickets are votes of its own term.
TicketInv ==
    \A s \in Server :
        /\ pc[s] = "candidate" => ticket[s] = {}
        /\ pc[s] \in {"asking", "calling"} /\ status[s] = "Candidate" =>
              \A v \in ticket[s] : HasVote(s, term[s], v)

\* A won election is backed by enough votes, and a leader has won its term.
VictoryInv ==
    /\ \A l \in leaders :
          /\ \A v \in l.voters : HasVote(l.node, l.term, v)
          /\ 1 + Cardinality(l.voters) > (1 + Cardinality(Followers[l.node])) \div 2
    /\ \A s \in Server :
          status[s] = "Leader" => \E l \in leaders : l.node = s /\ l.term = term[s]

\* Together they are preserved by every step of the threads and handlers.
ElectionInv == CallInv /\ LateInv /\ GrantInv /\ TicketInv /\ VictoryInv

(***************************************************************************)
(* While a node is in a term its Vote handler grants at most one vote, in  *)
(* whichever order requests, late requests and heartbeats reach it, and    *)
(* wherever in the handler its own ++term_ happens (voted_ and the reads   *)
(* of term_ in Vote and SolveAppend).                                      *)
(***************************************************************************)
VoteOncePerTerm ==
    \A g, h \in granted : g.voter = h.voter /\ g.own = h.own => g = h

(***************************************************************************)
(* The cluster DEPLOYMENT.md describes: every raft.cfg lists the whole     *)
(* cluster, the node itself included, and the number of nodes is odd.      *)
(***************************************************************************)
DocumentedCluster ==
    /\ \A s \in Server : Followers[s] = Server
    /\ Cardinality(Server) % 2 = 1

\* The second vote of v for term t: v passed the checks of Vote in term t and had
\* moved on to the next term, by its own timer, when it granted the vote.
CrossedVote(v, t) == \E g \in granted : g.voter = v /\ g.term = t /\ g.own > t

(***************************************************************************)
(* Two nodes win the election of one term only with the votes of a node    *)
(* that voted for both, for one of them across its own ++term_.  Without   *)
(* that unlocked increment at most one node wins a term.                   *)
(***************************************************************************)
ElectionSafety ==
    \A l, m \in leaders :
        l.term = m.term /\ l.node # m.node =>
            \E v \in l.voters \cap m.voters : CrossedVote(v, l.term)

(***************************************************************************)
(* Two nodes are leaders of the same term at the same time only if the     *)
(* timer of a third node has run out as well and that node cast its second *)
(* vote of the term across its own ++term_.                                *)
(***************************************************************************)
OneLeaderPerTerm ==
    \A s, t \in Server :
        status[s] = "Leader" /\ status[t] = "Leader" /\ term[s] = term[t] /\ s # t =>
            \E v \in Electors \ {s, t} : CrossedVote(v, term[s])

\* The strict claim: at most one node is leader in a term at the same time.
NoTwoLeaders ==
    \A s, t \in Server :
        status[s] = "Leader" /\ status[t] = "Leader" /\ term[s] = term[t] => s = t

TermStep ==
    \A s \in Server :
        /\ term'[s] >= term[s]
        /\ status[s] = "Leader" /\ status'[s] = "Leader" => term'[s] = term[s]
        /\ pc[s] = "candidate" /\ pc'[s] = "asking" /\ status'[s] = "Candidate" =>
              term'[s] = term[s] + 1

(***************************************************************************)
(* What the unlocked ++term_ may do when it meets the stores of the        *)
(* handlers: no handler leaves a term behind that is lower than the one it *)
(* found.  A store may take the increment back (SolveAppend with the term  *)
(* 0 of an entry request, from 1 to 0), but then the election has asked    *)
(* nobody yet and never will; an election that goes on has the next term.  *)
(* A node that stays leader does not change its term.                      *)
(***************************************************************************)
TermDiscipline == [][TermStep]_electionVars

(***************************************************************************)
(* Every RequestVote ends, although it calls nodes that may be calling it  *)
(* with their mutex held and, where raft.cfg lists the node itself, calls  *)
(* its own Vote, which waits for the mutex the caller holds.               *)
(***************************************************************************)
ElectionEnds ==
    \A s \in Server : pc[s] \in {"candidate", "asking", "calling"} ~> pc[s] = "wait"
=============================================================================
