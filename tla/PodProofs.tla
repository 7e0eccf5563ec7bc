------------------------------ MODULE PodProofs -----------------------------
(***************************************************************************)
(* Proofs about a cluster of Pods, for every cluster, every address list   *)
(* and every value of the bounds. Part 1 is about the election of module   *)
(* Election; part 2 shows that the cluster implements that election and    *)
(* inherits its theorems, and what the logs, sync threads and apply        *)
(* threads keep through lost and late calls and through restarts; part 3   *)
(* is about the agreement of the logs; part 4 about clients in front of    *)
(* the cluster.                                                            *)
(***************************************************************************)
EXTENDS Client, Extrema, FiniteSetTheorems, SequenceTheorems, TLAPS

(***************************************************************************)
(* Part 1. Leader election.                                                *)
(***************************************************************************)

AllInv == ElectionTypeOK /\ ElectionInv /\ VoteOncePerTerm

\* A set of late requests grows by at most the abandoned one.
LEMMA AbandonedBound ==
    ASSUME NEW late, NEW max, NEW req, NEW after \in Abandoned(late, max, req)
    PROVE  after \subseteq late \cup {req}
BY DEF Abandoned

\* The initial state satisfies the invariant.
LEMMA InitAll == ElectionInit => AllInv
BY DEF ElectionInit, AllInv, ElectionTypeOK, ElectionInv, CallInv, LateInv, GrantInv,
       TicketInv, VictoryInv, VoteOncePerTerm, PodStatus

\* The election thread's steps outside the Vote and Append handlers.
LEMMA ThreadType ==
    ASSUME ElectionTypeOK, CallInv, NEW s \in Server,
           \/ ElectionTimeout(s) \/ RequestVote(s)
           \/ \E f \in Server, index \in 0..MaxIndex : VoteCall(s, f, index)
           \/ VoteTimeout(s) \/ VoteAbort(s) \/ BecomeLeader(s) \/ LoseElection(s)
           \/ BeatStart(s) \/ BeatDone(s)
           \/ \E f \in Server, commited \in 0..MaxIndex : HeartBeatTimeout(s, f, commited)
    PROVE  ElectionTypeOK'
<1>. USE ServerAssumption, FollowersAssumption, BoundsAssumption
     DEF ElectionTypeOK, PodStatus
<1>1. CASE ElectionTimeout(s)
  BY <1>1 DEF ElectionTimeout
<1>2. CASE RequestVote(s)
  BY <1>2 DEF RequestVote
<1>3. ASSUME NEW f \in Server, NEW index \in 0..MaxIndex, VoteCall(s, f, index)
      PROVE  ElectionTypeOK'
  <2>1. [from |-> s, to |-> f, term |-> term[s], index |-> index] \in VoteReq
    BY DEF VoteReq
  <2>. QED
    BY <1>3, <2>1 DEF VoteCall, votingVars
<1>4. CASE VoteTimeout(s)
  <2>1. call[s] \in VoteReq
    BY <1>4 DEF VoteTimeout, CallInv
  <2>2. lateVote' \subseteq VoteReq
    BY <1>4, <2>1, AbandonedBound DEF VoteTimeout
  <2>. QED
    BY <1>4, <2>2 DEF VoteTimeout, votingVars
<1>5. CASE VoteAbort(s)
  BY <1>5 DEF VoteAbort, LeaveRequestVote, votingVars
<1>6. CASE BecomeLeader(s)
  <2>1. [node |-> s, term |-> term[s], voters |-> ticket[s]] \in Victory
    BY DEF Victory
  <2>. QED
    BY <1>6, <2>1 DEF BecomeLeader, LeaveRequestVote
<1>7. CASE LoseElection(s)
  BY <1>7 DEF LoseElection, LeaveRequestVote, votingVars
<1>8. CASE BeatStart(s)
  BY <1>8 DEF BeatStart, votingVars
<1>9. CASE BeatDone(s)
  BY <1>9 DEF BeatDone, votingVars
<1>10. ASSUME NEW f \in Server, NEW commited \in 0..MaxIndex, HeartBeatTimeout(s, f, commited)
       PROVE  ElectionTypeOK'
  <2>1. [from |-> s, to |-> f, term |-> term[s], commited |-> commited] \in BeatReq
    BY DEF BeatReq
  <2>2. lateBeat' \subseteq BeatReq
    BY <1>10, <2>1, AbandonedBound DEF HeartBeatTimeout
  <2>. QED
    BY <1>10, <2>2 DEF HeartBeatTimeout, BeatTo, votingVars
<1>. QED
  BY <1>1, <1>2, <1>3, <1>4, <1>5, <1>6, <1>7, <1>8, <1>9, <1>10

\* The reads of term_ by a handler that the increment may run into.
LEMMA Reads ==
    ASSUME NEW v \in Server, term[v] \in Nat, NEW n \in Moments(v)
    PROVE  /\ TermRead(v, 1, n) \in Nat /\ TermRead(v, 2, n) \in Nat /\ TermRead(v, 3, n) \in Nat
           /\ TermRead(v, 4, n) \in Nat /\ TermRead(v, 5, n) \in Nat
           /\ term[v] <= TermRead(v, 1, n) /\ TermRead(v, 1, n) <= TermRead(v, 2, n)
           /\ TermRead(v, 2, n) <= TermRead(v, 3, n) /\ TermRead(v, 3, n) <= TermRead(v, 4, n)
           /\ TermRead(v, 4, n) <= TermRead(v, 5, n)
           /\ TermRead(v, 5, n) = IF n = AfterStore THEN term[v] ELSE term[v] + 1
           /\ n # AfterStore => pc[v] = "candidate"
BY DEF Moments, TermRead, AfterStore

\* What Vote leaves behind has the types of the variables.
LEMMA VoteType ==
    ASSUME ElectionTypeOK, NEW v \in Server, NEW req \in VoteReq, NEW index,
           NEW n \in Moments(v), Vote(v, req, index, n)
    PROVE  /\ term' \in [Server -> Nat] /\ voted' \in [Server -> BOOLEAN]
           /\ status' \in [Server -> PodStatus] /\ granted' \subseteq Grant
<1>. USE DEF ElectionTypeOK, PodStatus
<1>0. /\ TermRead(v, 5, n) \in Nat /\ req.term \in Nat /\ req.from \in Server
  BY Reads DEF VoteReq
<1>1. CASE /\ term' = [term EXCEPT ![v] = TermRead(v, 5, n)]
           /\ UNCHANGED <<status, voted, granted>>
  BY <1>0, <1>1
<1>2. CASE GrantVote(v, req, n)
  <2>. DEFINE own == IF req.term > TermRead(v, 4, n) THEN req.term ELSE TermRead(v, 5, n)
              new == [voter |-> v, term |-> req.term, cand |-> req.from, own |-> own]
  <2>1. own \in Nat /\ new \in Grant
    BY <1>0 DEF Grant
  <2>2. /\ term' = [term EXCEPT ![v] = own]
        /\ status' = [status EXCEPT ![v] = IF req.term > TermRead(v, 4, n) THEN "Follower" ELSE @]
        /\ voted' = [voted EXCEPT ![v] = TRUE]
        /\ granted' = granted \cup {new}
    BY <1>2 DEF GrantVote
  <2>. HIDE DEF own
  <2>. QED
    BY <2>1, <2>2
<1>. QED
  BY <1>1, <1>2 DEF Vote

\* So does the part of SolveAppend under the mutex.
LEMMA AppendType ==
    ASSUME ElectionTypeOK, NEW f \in Server, NEW from \in Server, NEW t \in Nat, NEW beyond,
           SolveAppendTerm(f, from, t, beyond)
    PROVE  /\ term' \in [Server -> Nat] /\ voted' \in [Server -> BOOLEAN]
           /\ status' \in [Server -> PodStatus]
           /\ leader_id' \in [Server -> Server \cup {None}]
<1>. USE DEF ElectionTypeOK, PodStatus
<1>1. PICK n \in Moments(f) :
        \/ /\ term' = [term EXCEPT ![f] = TermRead(f, 5, n)]
           /\ UNCHANGED <<voted, status, leader_id>>
        \/ /\ term' = [term EXCEPT ![f] = t]
           /\ voted' = [voted EXCEPT ![f] = FALSE]
           /\ status' = [status EXCEPT ![f] = "Follower"]
           /\ leader_id' = [leader_id EXCEPT ![f] = from]
  BY Zenon DEF SolveAppendTerm
<1>2. TermRead(f, 5, n) \in Nat
  BY Reads
<1>3. CASE /\ term' = [term EXCEPT ![f] = TermRead(f, 5, n)]
           /\ UNCHANGED <<voted, status, leader_id>>
  BY <1>2, <1>3
<1>4. CASE /\ term' = [term EXCEPT ![f] = t]
           /\ voted' = [voted EXCEPT ![f] = FALSE]
           /\ status' = [status EXCEPT ![f] = "Follower"]
           /\ leader_id' = [leader_id EXCEPT ![f] = from]
  BY <1>4
<1>. QED
  BY <1>1, <1>3, <1>4

\* The place of the election thread is one of its places after a handler, too.
LEMMA AskingType ==
    ASSUME ElectionTypeOK, NEW v, NEW n,
           NEW place \in [Server -> {"wait", "candidate", "asking", "calling", "beating"}]
    PROVE  /\ Asking(place, v, n) \in [Server -> {"wait", "candidate", "asking", "calling", "beating"}]
           /\ \A s \in Server : s # v => Asking(place, v, n)[s] = place[s]
BY DEF Asking

\* The handlers.
LEMMA HandlerType ==
    ASSUME ElectionTypeOK, CallInv,
           \/ \E s \in Server, index \in 0..MaxIndex : VoteAnswer(s, index)
           \/ \E req \in lateVote, index \in 0..MaxIndex : VoteLate(req, index)
           \/ \E s, f \in Server : SendHeartBeat(s, f)
           \/ \E req \in lateBeat : HeartBeatLate(req)
           \/ EntryHandler
    PROVE  ElectionTypeOK'
<1>0. ASSUME NEW f \in Server, NEW from, NEW t, NEW beyond, SolveAppendTerm(f, from, t, beyond)
      PROVE  pc' \in [Server -> {"wait", "candidate", "asking", "calling", "beating"}]
  <2>1. PICK n \in Moments(f) : pc' = Asking(pc, f, n)
    BY <1>0 DEF SolveAppendTerm
  <2>. QED
    BY <2>1, AskingType DEF ElectionTypeOK
<1>3. ASSUME NEW s \in Server, NEW index \in 0..MaxIndex, VoteAnswer(s, index)
      PROVE  ElectionTypeOK'
  <2>1. call[s] \in VoteReq /\ call[s].to \in Server
    BY <1>3 DEF VoteAnswer, CallInv, VoteReq, ElectionTypeOK
  <2>2. PICK n \in Moments(call[s].to) :
          /\ Vote(call[s].to, call[s], index, n)
          /\ ticket' = [ticket EXCEPT ![s] =
                IF RefusesVote(call[s].to, call[s], index, n) THEN @ ELSE @ \cup {call[s].to}]
          /\ pc' = Asking([pc EXCEPT ![s] = "asking"], call[s].to, n)
    BY <1>3 DEF VoteAnswer
  <2>3. ticket' \in [Server -> SUBSET Server]
    BY <2>1, <2>2 DEF ElectionTypeOK
  <2>4. pc' \in [Server -> {"wait", "candidate", "asking", "calling", "beating"}]
    BY <2>2, AskingType DEF ElectionTypeOK
  <2>5. /\ term' \in [Server -> Nat] /\ voted' \in [Server -> BOOLEAN]
        /\ status' \in [Server -> PodStatus] /\ granted' \subseteq Grant
    BY <2>1, <2>2, VoteType
  <2>. QED
    BY <1>3, <2>3, <2>4, <2>5 DEF VoteAnswer, ElectionTypeOK
<1>4. ASSUME NEW req \in lateVote, NEW index \in 0..MaxIndex, VoteLate(req, index)
      PROVE  ElectionTypeOK'
  <2>1. req \in VoteReq /\ req.to \in Server
    BY DEF VoteReq, ElectionTypeOK
  <2>2. PICK n \in Moments(req.to) : Vote(req.to, req, index, n) /\ pc' = Asking(pc, req.to, n)
    BY <1>4 DEF VoteLate
  <2>3. pc' \in [Server -> {"wait", "candidate", "asking", "calling", "beating"}]
    BY <2>2, AskingType DEF ElectionTypeOK
  <2>4. /\ term' \in [Server -> Nat] /\ voted' \in [Server -> BOOLEAN]
        /\ status' \in [Server -> PodStatus] /\ granted' \subseteq Grant
    BY <2>1, <2>2, VoteType
  <2>. QED
    BY <1>4, <2>3, <2>4 DEF VoteLate, ElectionTypeOK
<1>5. ASSUME NEW s \in Server, NEW f \in Server, SendHeartBeat(s, f)
      PROVE  ElectionTypeOK'
  <2>1. term[s] \in Nat /\ SolveAppendTerm(f, s, term[s], FALSE)
    BY <1>5 DEF SendHeartBeat, ElectionTypeOK
  <2>. QED
    BY <1>0, <1>5, <2>1, AppendType DEF SendHeartBeat, BeatTo, ElectionTypeOK
<1>6. ASSUME NEW req \in lateBeat, HeartBeatLate(req)
      PROVE  ElectionTypeOK'
  <2>1. req.to \in Server /\ req.from \in Server /\ req.term \in Nat
    BY DEF BeatReq, ElectionTypeOK
  <2>2. SolveAppendTerm(req.to, req.from, req.term, FALSE)
    BY <1>6 DEF HeartBeatLate
  <2>. QED
    BY <1>0, <1>6, <2>1, <2>2, AppendType DEF HeartBeatLate, ElectionTypeOK
<1>7. ASSUME NEW f \in Server, NEW from \in Server, NEW beyond \in BOOLEAN,
             AppendEntry(f, from, beyond)
      PROVE  ElectionTypeOK'
  BY <1>0, <1>7, AppendType DEF AppendEntry, ElectionTypeOK
<1>. QED
  BY <1>3, <1>4, <1>5, <1>6, <1>7 DEF EntryHandler

-----------------------------------------------------------------------------
(***************************************************************************)
(* What a handler does to the node v it runs on, n being the moment of     *)
(* v's own ++term_: v does not hold its mutex, no other node changes, and  *)
(* v keeps its status and what its thread made of its term, or is a        *)
(* follower of a term that is not lower.                                   *)
(***************************************************************************)
HandlerEffect(v, n) ==
    /\ call[v] = None
    /\ n # AfterStore => pc[v] = "candidate"
    /\ \A s \in Server \ {v} : term'[s] = term[s] /\ status'[s] = status[s]
    /\ term'[v] >= term[v]
    /\ \/ status'[v] = "Follower"
       \/ /\ status'[v] = status[v]
          /\ term'[v] = IF n = AfterStore THEN term[v] ELSE term[v] + 1
    /\ granted \subseteq granted'

\* Vote has this effect, whatever votes were cast before.
LEMMA VoteMoves ==
    ASSUME ElectionTypeOK, NEW v \in Server, NEW req \in VoteReq, NEW index,
           NEW n \in Moments(v), Vote(v, req, index, n)
    PROVE  HandlerEffect(v, n)
<1>. USE DEF ElectionTypeOK
<1>0. req.term \in Nat /\ call[v] = None
  BY DEF Vote, MutexFree, VoteReq
<1>1. CASE /\ term' = [term EXCEPT ![v] = TermRead(v, 5, n)]
           /\ UNCHANGED <<status, voted, granted>>
  BY <1>0, <1>1, Reads DEF HandlerEffect
<1>2. CASE GrantVote(v, req, n)
  <2>1. CASE req.term > TermRead(v, 4, n)
    BY <1>0, <1>2, <2>1, Reads DEF HandlerEffect, GrantVote
  <2>2. CASE ~ (req.term > TermRead(v, 4, n))
    BY <1>0, <1>2, <2>2, Reads DEF HandlerEffect, GrantVote
  <2>. QED
    BY <2>1, <2>2
<1>. QED
  BY <1>1, <1>2 DEF Vote

\* The vote HasVote speaks of, after the step.
HasVoteAfter(c, t, v) == \E g \in granted' : g.voter = v /\ g.term = t /\ g.cand = c

\* Vote casts at most one vote while its node is in a term.
LEMMA VoteEffect ==
    ASSUME ElectionTypeOK, GrantInv, VoteOncePerTerm,
           NEW v \in Server, NEW req \in VoteReq, req.term > 0, NEW index,
           NEW n \in Moments(v), Vote(v, req, index, n)
    PROVE  /\ GrantInv' /\ VoteOncePerTerm'
           /\ ~ RefusesVote(v, req, index, n) => HasVoteAfter(req.from, req.term, v)
<1>. USE DEF ElectionTypeOK
<1>0. term[v] \in Nat /\ req.term \in Nat
  BY DEF VoteReq
<1>1. CASE RefusesVote(v, req, index, n)
  <2>1. /\ term' = [term EXCEPT ![v] = TermRead(v, 5, n)]
        /\ voted' = voted /\ granted' = granted
    BY <1>1 DEF Vote
  <2>2. \A g \in granted : g.voter \in Server /\ g.own \in Nat
    BY DEF Grant
  <2>3. GrantInv'
    BY <1>0, <2>1, <2>2, Reads DEF GrantInv
  <2>. QED
    BY <1>1, <2>1, <2>3 DEF VoteOncePerTerm
<1>2. CASE ~ RefusesVote(v, req, index, n)
  <2>. DEFINE own == IF req.term > TermRead(v, 4, n) THEN req.term ELSE TermRead(v, 5, n)
              new == [voter |-> v, term |-> req.term, cand |-> req.from, own |-> own]
  <2>1. /\ term' = [term EXCEPT ![v] = own]
        /\ voted' = [voted EXCEPT ![v] = TRUE]
        /\ granted' = granted \cup {new}
    BY <1>2 DEF Vote, GrantVote
  <2>2. /\ req.term >= TermRead(v, 1, n)
        /\ req.term = TermRead(v, 3, n) => ~ voted[v]
    BY <1>0, <1>2, Reads DEF RefusesVote
  <2>3. /\ own \in Nat /\ own >= term[v] /\ own \in {req.term, req.term + 1}
        /\ own = term[v] => ~ voted[v]
    BY <1>0, <2>2, Reads
  <2>4. /\ new.voter = v /\ new.term = req.term /\ new.cand = req.from /\ new.own = own
        /\ new \in Grant
    BY <2>3 DEF VoteReq, Grant
  <2>. HIDE DEF own, new
  <2>5. \A g \in granted : g.voter \in Server /\ g.term \in Nat /\ g.own \in Nat
    BY DEF Grant
  <2>6. \A g \in granted : g.voter = v => g.own < own
    BY <1>0, <2>3, <2>5 DEF GrantInv
  <2>7. GrantInv'
    <3>. SUFFICES ASSUME NEW g \in granted'
                  PROVE  /\ 0 < g.term /\ g.own \in {g.term, g.term + 1} /\ g.own <= term'[g.voter]
                         /\ g.own = term'[g.voter] => voted'[g.voter]
      BY DEF GrantInv
    <3>1. CASE g = new
      BY <1>0, <2>1, <2>3, <2>4, <3>1
    <3>2. CASE g \in granted /\ g.voter = v
      BY <2>1, <2>3, <2>5, <2>6, <3>2 DEF GrantInv
    <3>3. CASE g \in granted /\ g.voter # v
      BY <2>1, <2>5, <3>3 DEF GrantInv
    <3>. QED
      BY <2>1, <3>1, <3>2, <3>3
  <2>8. VoteOncePerTerm'
    <3>1. \A g \in granted : g.voter = v => g.own # own
      BY <2>3, <2>5, <2>6
    <3>. QED
      BY <2>1, <2>4, <3>1, Zenon DEF VoteOncePerTerm
  <2>9. HasVoteAfter(req.from, req.term, v)
    BY <2>1, <2>4 DEF HasVoteAfter
  <2>. QED
    BY <2>7, <2>8, <2>9
<1>. QED
  BY <1>1, <1>2

\* The part of SolveAppend under the mutex has the effect of a handler.
LEMMA AppendMoves ==
    ASSUME ElectionTypeOK, NEW f \in Server, NEW from, NEW t \in Nat, NEW beyond,
           SolveAppendTerm(f, from, t, beyond), granted' = granted
    PROVE  \E n \in Moments(f) : HandlerEffect(f, n) /\ pc' = Asking(pc, f, n)
<1>. USE DEF ElectionTypeOK
<1>1. PICK n \in Moments(f) :
        /\ MutexFree(f)
        /\ \/ /\ term' = [term EXCEPT ![f] = TermRead(f, 5, n)]
              /\ UNCHANGED <<voted, status, leader_id>>
           \/ /\ Adopts(f, t, beyond, n)
              /\ term' = [term EXCEPT ![f] = t]
              /\ voted' = [voted EXCEPT ![f] = FALSE]
              /\ status' = [status EXCEPT ![f] = "Follower"]
              /\ leader_id' = [leader_id EXCEPT ![f] = from]
        /\ pc' = Asking(pc, f, n)
  BY Zenon DEF SolveAppendTerm
<1>2. CASE term' = [term EXCEPT ![f] = TermRead(f, 5, n)] /\ status' = status
  BY <1>1, <1>2, Reads DEF HandlerEffect, MutexFree
<1>3. CASE /\ Adopts(f, t, beyond, n)
           /\ term' = [term EXCEPT ![f] = t]
           /\ status' = [status EXCEPT ![f] = "Follower"]
  <2>1. t >= term[f]
    BY <1>3, Reads DEF Adopts
  <2>. QED
    BY <1>1, <1>3, <2>1, Reads DEF HandlerEffect, MutexFree
<1>. QED
  BY <1>1, <1>2, <1>3

\* SolveAppend forgets a vote only when it moves to a term without votes.
LEMMA AppendEffect ==
    ASSUME ElectionTypeOK, GrantInv, VoteOncePerTerm,
           NEW f \in Server, NEW from \in Server, NEW t \in Nat, NEW beyond \in BOOLEAN,
           beyond => t = 0, SolveAppendTerm(f, from, t, beyond), granted' = granted
    PROVE  GrantInv' /\ VoteOncePerTerm'
<1>. USE DEF ElectionTypeOK
<1>1. VoteOncePerTerm'
  BY DEF VoteOncePerTerm
<1>2. PICK n \in Moments(f) :
        \/ /\ term' = [term EXCEPT ![f] = TermRead(f, 5, n)]
           /\ UNCHANGED <<voted, status, leader_id>>
        \/ /\ Adopts(f, t, beyond, n)
           /\ term' = [term EXCEPT ![f] = t]
           /\ voted' = [voted EXCEPT ![f] = FALSE]
           /\ status' = [status EXCEPT ![f] = "Follower"]
           /\ leader_id' = [leader_id EXCEPT ![f] = from]
  BY Zenon DEF SolveAppendTerm
<1>3. \A g \in granted : g.voter \in Server /\ g.own \in Nat /\ g.term \in Nat
  BY DEF Grant
<1>4. CASE term' = [term EXCEPT ![f] = TermRead(f, 5, n)] /\ voted' = voted
  BY <1>1, <1>3, <1>4, Reads DEF GrantInv
<1>5. CASE /\ Adopts(f, t, beyond, n)
           /\ term' = [term EXCEPT ![f] = t]
           /\ voted' = [voted EXCEPT ![f] = FALSE]
  <2>1. t > term[f] \/ (t = 0 /\ term[f] = 0)
    BY <1>5, Reads DEF Adopts
  <2>2. ASSUME NEW g \in granted
        PROVE  /\ 0 < g.term /\ g.own \in {g.term, g.term + 1} /\ g.own <= term'[g.voter]
               /\ g.own = term'[g.voter] => voted'[g.voter]
    <3>1. CASE g.voter = f
      BY <1>3, <1>5, <2>1, <3>1 DEF GrantInv
    <3>2. CASE g.voter # f
      BY <1>3, <1>5, <3>2 DEF GrantInv
    <3>. QED
      BY <3>1, <3>2
  <2>. QED
    BY <1>1, <2>2 DEF GrantInv
<1>. QED
  BY <1>2, <1>4, <1>5

\* A vote that was cast stays cast.
LEMMA VotesStay ==
    ASSUME NEW c, NEW t, NEW v, HasVote(c, t, v), granted \subseteq granted'
    PROVE  HasVoteAfter(c, t, v)
BY DEF HasVote, HasVoteAfter

\* A handler keeps what is known of victories.
LEMMA HandlerKeepsVictories ==
    ASSUME ElectionTypeOK, CallInv, VictoryInv, NEW v \in Server, NEW n, HandlerEffect(v, n),
           leaders' = leaders
    PROVE  VictoryInv'
<1>1. \A l \in leaders : \A w \in l.voters : HasVoteAfter(l.node, l.term, w)
  BY VotesStay DEF VictoryInv, HandlerEffect
<1>2. ASSUME NEW s \in Server, status'[s] = "Leader"
      PROVE  \E l \in leaders : l.node = s /\ l.term = term'[s]
  BY <1>2 DEF VictoryInv, CallInv, HandlerEffect
<1>. QED
  BY <1>1, <1>2 DEF VictoryInv, HasVote, HasVoteAfter

\* A handler without a waiting caller keeps what is known of calls and tickets.
LEMMA HandlerKeeps ==
    ASSUME ElectionTypeOK, CallInv, TicketInv,
           NEW v \in Server, NEW n, HandlerEffect(v, n), term' \in [Server -> Nat],
           pc' = Asking(pc, v, n), call' = call, ticket' = ticket
    PROVE  CallInv' /\ TicketInv'
<1>. USE DEF ElectionTypeOK
<1>1. /\ \A s \in Server \ {v} : pc'[s] = pc[s]
      /\ pc'[v] = IF n = AfterStore THEN pc[v] ELSE "asking"
  BY DEF Asking
<1>2. CallInv'
  BY <1>1 DEF CallInv, HandlerEffect
<1>3. \A s \in Server : pc'[s] = "candidate" => ticket'[s] = {}
  BY <1>1 DEF TicketInv
<1>4. ASSUME NEW s \in Server, pc'[s] \in {"asking", "calling"}, status'[s] = "Candidate",
             NEW w \in ticket'[s]
      PROVE  HasVoteAfter(s, term'[s], w)
  <2>1. pc[s] \in {"asking", "calling"} /\ status[s] = "Candidate" /\ term'[s] = term[s]
    BY <1>1, <1>4 DEF HandlerEffect, TicketInv
  <2>. QED
    BY <1>4, <2>1, VotesStay DEF TicketInv, HandlerEffect
<1>5. TicketInv'
  BY <1>3, <1>4 DEF TicketInv, HasVote, HasVoteAfter
<1>. QED
  BY <1>2, <1>5

\* The election thread's own steps keep the invariant.
LEMMA ThreadKeeps ==
    ASSUME AllInv, NEW s \in Server,
           \/ ElectionTimeout(s) \/ RequestVote(s)
           \/ \E f \in Server, index \in 0..MaxIndex : VoteCall(s, f, index)
           \/ VoteTimeout(s) \/ VoteAbort(s) \/ BecomeLeader(s) \/ LoseElection(s)
           \/ BeatStart(s) \/ BeatDone(s)
           \/ \E f \in Server, commited \in 0..MaxIndex : HeartBeatTimeout(s, f, commited)
    PROVE  ElectionInv' /\ VoteOncePerTerm'
<1>. USE DEF AllInv, ElectionTypeOK, ElectionInv, HasVote
<1>0. granted' = granted /\ voted' = voted
  BY DEF ElectionTimeout, RequestVote, VoteCall, VoteTimeout, VoteAbort, BecomeLeader,
         LoseElection, BeatStart, BeatDone, HeartBeatTimeout, BeatTo, votingVars
<1>1. VoteOncePerTerm'
  BY <1>0 DEF VoteOncePerTerm
<1>2. GrantInv'
  <2>1. \A t \in Server : term'[t] \in Nat /\ (term'[t] = term[t] \/ term'[t] > term[t])
    <3>1. CASE RequestVote(s)
      BY <3>1 DEF RequestVote
    <3>2. CASE ~ RequestVote(s)
      <4>1. term' = term
        BY <3>2 DEF ElectionTimeout, VoteCall, VoteTimeout, VoteAbort, BecomeLeader,
               LoseElection, BeatStart, BeatDone, HeartBeatTimeout, BeatTo, votingVars
      <4>. QED
        BY <4>1
    <3>. QED
      BY <3>1, <3>2
  <2>2. ASSUME NEW g \in granted
        PROVE  /\ 0 < g.term /\ g.own \in {g.term, g.term + 1} /\ g.own <= term'[g.voter]
               /\ g.own = term'[g.voter] => voted[g.voter]
    <3>1. g.voter \in Server /\ g.term \in Nat /\ g.own \in Nat /\ term[g.voter] \in Nat
      BY DEF Grant
    <3>2. /\ 0 < g.term /\ g.own \in {g.term, g.term + 1} /\ g.own <= term[g.voter]
          /\ g.own = term[g.voter] => voted[g.voter]
      BY DEF GrantInv
    <3>. QED
      BY <2>1, <3>1, <3>2
  <2>. QED
    BY <1>0, <2>2 DEF GrantInv
<1>3. CASE ElectionTimeout(s)
  BY <1>0, <1>1, <1>2, <1>3
     DEF ElectionTimeout, CallInv, LateInv, TicketInv, VictoryInv
<1>4. CASE RequestVote(s)
  <2>1. status[s] # "Leader"
    BY <1>4 DEF RequestVote, CallInv
  <2>2. CallInv' /\ LateInv'
    BY <1>4, <2>1 DEF RequestVote, CallInv, LateInv
  <2>3. TicketInv'
    <3>1. /\ pc' = [pc EXCEPT ![s] = "asking"] /\ ticket' = ticket /\ status' = status
          /\ \A t \in Server \ {s} : term'[t] = term[t]
          /\ ticket[s] = {}
      BY <1>4 DEF RequestVote, TicketInv
    <3>. QED
      BY <1>0, <3>1 DEF TicketInv
  <2>4. VictoryInv'
    BY <1>0, <1>4, <2>1 DEF RequestVote, VictoryInv
  <2>. QED
    BY <1>1, <1>2, <2>2, <2>3, <2>4
<1>5. ASSUME NEW f \in Server, NEW index \in 0..MaxIndex, VoteCall(s, f, index)
      PROVE  ElectionInv'
  <2>. DEFINE req == [from |-> s, to |-> f, term |-> term[s], index |-> index]
  <2>1. req \in VoteReq /\ req # None /\ req.from = s /\ req.term = term[s]
    BY NoneAssumption, BoundsAssumption DEF VoteReq
  <2>2. CallInv' /\ LateInv'
    BY <1>5, <2>1 DEF VoteCall, CallInv, LateInv, votingVars
  <2>3. TicketInv' /\ VictoryInv'
    BY <1>0, <1>5 DEF VoteCall, TicketInv, VictoryInv, votingVars
  <2>. QED
    BY <1>2, <2>2, <2>3
<1>6. CASE VoteTimeout(s)
  <2>1. call[s] \in VoteReq /\ call[s].term > 0
    BY <1>6 DEF VoteTimeout, CallInv
  <2>2. LateInv'
    BY <1>6, <2>1, AbandonedBound DEF VoteTimeout, LateInv
  <2>3. CallInv'
    BY <1>6 DEF VoteTimeout, CallInv, votingVars
  <2>4. TicketInv' /\ VictoryInv'
    BY <1>0, <1>6 DEF VoteTimeout, TicketInv, VictoryInv, votingVars
  <2>. QED
    BY <1>1, <1>2, <2>2, <2>3, <2>4
<1>7. CASE VoteAbort(s) \/ LoseElection(s)
  BY <1>0, <1>1, <1>2, <1>7
     DEF VoteAbort, LoseElection, LeaveRequestVote, votingVars, CallInv, LateInv,
         TicketInv, VictoryInv
<1>8. CASE BecomeLeader(s)
  <2>. DEFINE new == [node |-> s, term |-> term[s], voters |-> ticket[s]]
  <2>1. /\ new.node = s /\ new.term = term[s] /\ new.voters = ticket[s]
        /\ leaders' = leaders \cup {new} /\ term' = term
    BY <1>8 DEF BecomeLeader
  <2>2. /\ \A v \in new.voters : HasVote(new.node, new.term, v)
        /\ 1 + Cardinality(new.voters) > (1 + Cardinality(Followers[new.node])) \div 2
    BY <1>8, <2>1 DEF BecomeLeader, TicketInv, EnoughTickets
  <2>3. VictoryInv'
    <3>1. \A t \in Server \ {s} : status'[t] = status[t]
      BY <1>8 DEF BecomeLeader
    <3>2. \A l \in leaders' :
            /\ \A v \in l.voters : HasVote(l.node, l.term, v)'
            /\ 1 + Cardinality(l.voters) > (1 + Cardinality(Followers[l.node])) \div 2
      <4>1. \A l \in leaders' : l \in leaders \/ l = new
        BY <2>1
      <4>2. \A l \in leaders' :
              /\ \A v \in l.voters : HasVote(l.node, l.term, v)
              /\ 1 + Cardinality(l.voters) > (1 + Cardinality(Followers[l.node])) \div 2
        BY <2>2, <4>1 DEF VictoryInv
      <4>. QED
        BY <1>0, <4>2
    <3>3. \A t \in Server : status'[t] = "Leader" =>
            \E l \in leaders' : l.node = t /\ l.term = term'[t]
      BY <2>1, <3>1 DEF VictoryInv
    <3>. QED
      BY <3>2, <3>3 DEF VictoryInv
  <2>4. CallInv' /\ LateInv' /\ TicketInv'
    BY <1>0, <1>8 DEF BecomeLeader, LeaveRequestVote, CallInv, LateInv, TicketInv
  <2>. QED
    BY <1>1, <1>2, <2>3, <2>4
<1>9. CASE BeatStart(s) \/ BeatDone(s)
  BY <1>0, <1>1, <1>2, <1>9
     DEF BeatStart, BeatDone, votingVars, CallInv, LateInv, TicketInv, VictoryInv
<1>10. ASSUME NEW f \in Server, NEW commited \in 0..MaxIndex, HeartBeatTimeout(s, f, commited)
       PROVE  ElectionInv'
  BY <1>0, <1>2, <1>10
     DEF HeartBeatTimeout, BeatTo, votingVars, CallInv, LateInv, TicketInv, VictoryInv
<1>. QED
  BY <1>1, <1>3, <1>4, <1>5, <1>6, <1>7, <1>8, <1>9, <1>10

\* What a handler does that answers a waiting caller s, or nobody.
AnswerMoves(s, v, n) ==
    /\ pc[s] = "calling" /\ s # v
    /\ pc' = Asking([pc EXCEPT ![s] = "asking"], v, n)
    /\ call' = [call EXCEPT ![s] = None]

\* An answered call keeps what is known of calls.
LEMMA AnswerKeepsCalls ==
    ASSUME ElectionTypeOK, CallInv, NEW s \in Server, NEW v \in Server, NEW n,
           HandlerEffect(v, n), AnswerMoves(s, v, n), term' \in [Server -> Nat]
    PROVE  /\ CallInv'
           /\ \A t \in Server : pc'[t] \in {"asking", "calling"} =>
                 pc[t] \in {"asking", "calling"} \/ (t = v /\ pc[t] = "candidate" /\ n # AfterStore)
           /\ \A t \in Server : pc'[t] = "candidate" => pc[t] = "candidate"
<1>. USE DEF ElectionTypeOK
<1>1. /\ \A t \in Server \ {s, v} : pc'[t] = pc[t]
      /\ pc'[s] = "asking"
      /\ pc'[v] = IF n = AfterStore THEN pc[v] ELSE "asking"
  BY DEF Asking, AnswerMoves
<1>2. /\ call'[s] = None
      /\ \A t \in Server \ {s} : call'[t] = call[t]
  BY DEF AnswerMoves
<1>3. pc[s] = "calling" /\ s # v /\ (n # AfterStore => pc[v] = "candidate")
  BY DEF AnswerMoves, HandlerEffect
<1>4. CallInv'
  BY <1>1, <1>2, <1>3 DEF CallInv, HandlerEffect
<1>. QED
  BY <1>1, <1>3, <1>4

\* Every handler keeps the invariant.
LEMMA HandlersKeep ==
    ASSUME AllInv,
           \/ \E s \in Server, index \in 0..MaxIndex : VoteAnswer(s, index)
           \/ \E req \in lateVote, index \in 0..MaxIndex : VoteLate(req, index)
           \/ \E s, f \in Server : SendHeartBeat(s, f)
           \/ \E req \in lateBeat : HeartBeatLate(req)
           \/ EntryHandler
    PROVE  ElectionInv' /\ VoteOncePerTerm'
<1>0. ElectionTypeOK'
  BY HandlerType DEF AllInv, ElectionInv
<1>. USE DEF AllInv, ElectionTypeOK, ElectionInv
<1>1. ASSUME NEW s \in Server, NEW index \in 0..MaxIndex, VoteAnswer(s, index)
      PROVE  ElectionInv' /\ VoteOncePerTerm'
  <2>0. PICK v : v = call[s].to
    OBVIOUS
  <2>1. /\ call[s] \in VoteReq /\ v \in Server /\ pc[s] = "calling" /\ call[s] # None
        /\ call[s].term > 0 /\ call[s].term = term[s] /\ call[s].from = s
    BY <1>1, <2>0 DEF VoteAnswer, CallInv, VoteReq
  <2>2. PICK n \in Moments(v) :
          /\ Vote(v, call[s], index, n)
          /\ ticket' = [ticket EXCEPT ![s] =
                IF RefusesVote(v, call[s], index, n) THEN @ ELSE @ \cup {v}]
          /\ pc' = Asking([pc EXCEPT ![s] = "asking"], v, n)
    BY <1>1, <2>0 DEF VoteAnswer
  <2>3. HandlerEffect(v, n)
    BY <2>1, <2>2, VoteMoves
  <2>4. /\ GrantInv' /\ VoteOncePerTerm'
        /\ ~ RefusesVote(v, call[s], index, n) => HasVoteAfter(s, term[s], v)
    BY <2>1, <2>2, VoteEffect
  <2>5. s # v
    BY <2>1, <2>3 DEF HandlerEffect
  <2>6. /\ term'[s] = term[s] /\ status'[s] = status[s]
        /\ leaders' = leaders /\ lateVote' = lateVote
        /\ AnswerMoves(s, v, n)
    BY <1>1, <2>1, <2>2, <2>3, <2>5 DEF VoteAnswer, HandlerEffect, AnswerMoves
  <2>7. CallInv' /\ LateInv'
    BY <1>0, <2>1, <2>3, <2>6, AnswerKeepsCalls DEF LateInv
  <2>8. TicketInv'
    <3>1. ASSUME NEW t \in Server, pc'[t] = "candidate" PROVE ticket'[t] = {}
      <4>1. pc[t] = "candidate"
        BY <1>0, <2>1, <2>3, <2>6, <3>1, AnswerKeepsCalls
      <4>2. t # s /\ ticket'[t] = ticket[t]
        BY <2>1, <2>2, <4>1
      <4>. QED
        BY <4>1, <4>2 DEF TicketInv
    <3>2. ASSUME NEW t \in Server, pc'[t] \in {"asking", "calling"},
                 status'[t] = "Candidate", NEW w \in ticket'[t]
          PROVE  HasVoteAfter(t, term'[t], w)
      <4>1. CASE t = s /\ w \notin ticket[s]
        <5>1. w = v /\ ~ RefusesVote(v, call[s], index, n)
          BY <2>2, <3>2, <4>1
        <5>. QED
          BY <2>4, <2>6, <4>1, <5>1
      <4>2. CASE t # s \/ w \in ticket[s]
        <5>1. w \in ticket[t]
          BY <2>2, <3>2, <4>2
        <5>2. pc[t] \in {"asking", "calling"} \/ (t = v /\ pc[t] = "candidate" /\ n # AfterStore)
          BY <1>0, <2>1, <2>3, <2>6, <3>2, AnswerKeepsCalls
        <5>3. pc[t] \in {"asking", "calling"}
          BY <5>1, <5>2 DEF TicketInv
        <5>4. status[t] = "Candidate" /\ term'[t] = term[t]
          BY <2>3, <3>2, <5>3 DEF HandlerEffect
        <5>. QED
          BY <2>3, <5>1, <5>3, <5>4, VotesStay DEF TicketInv, HandlerEffect
      <4>. QED
        BY <4>1, <4>2
    <3>. QED
      BY <3>1, <3>2 DEF TicketInv, HasVote, HasVoteAfter
  <2>9. VictoryInv'
    BY <2>1, <2>3, <2>6, HandlerKeepsVictories
  <2>. QED
    BY <2>4, <2>7, <2>8, <2>9
<1>2. ASSUME NEW req \in lateVote, NEW index \in 0..MaxIndex, VoteLate(req, index)
      PROVE  ElectionInv' /\ VoteOncePerTerm'
  <2>1. req \in VoteReq /\ req.to \in Server /\ req.term > 0
    BY DEF VoteReq, LateInv
  <2>2. PICK n \in Moments(req.to) : Vote(req.to, req, index, n) /\ pc' = Asking(pc, req.to, n)
    BY <1>2 DEF VoteLate
  <2>3. HandlerEffect(req.to, n)
    BY <2>1, <2>2, VoteMoves
  <2>4. GrantInv' /\ VoteOncePerTerm'
    BY <2>1, <2>2, VoteEffect
  <2>5. CallInv' /\ TicketInv' /\ VictoryInv'
    BY <1>0, <1>2, <2>1, <2>2, <2>3, HandlerKeeps, HandlerKeepsVictories DEF VoteLate
  <2>6. LateInv'
    BY <1>2 DEF VoteLate, LateInv
  <2>. QED
    BY <2>4, <2>5, <2>6
<1>3. ASSUME NEW f \in Server, NEW from \in Server, NEW t \in Nat, NEW beyond \in BOOLEAN,
             beyond => t = 0, SolveAppendTerm(f, from, t, beyond),
             UNCHANGED <<call, ticket, granted, leaders, lateVote>>
      PROVE  ElectionInv' /\ VoteOncePerTerm'
  <2>1. GrantInv' /\ VoteOncePerTerm'
    BY <1>3, AppendEffect
  <2>2. PICK n \in Moments(f) : HandlerEffect(f, n) /\ pc' = Asking(pc, f, n)
    BY <1>3, AppendMoves
  <2>3. CallInv' /\ TicketInv' /\ VictoryInv'
    BY <1>0, <1>3, <2>2, HandlerKeeps, HandlerKeepsVictories
  <2>. QED
    BY <1>3, <2>1, <2>3 DEF LateInv
<1>4. ASSUME NEW s \in Server, NEW f \in Server, SendHeartBeat(s, f)
      PROVE  ElectionInv' /\ VoteOncePerTerm'
  BY <1>3, <1>4 DEF SendHeartBeat, BeatTo
<1>5. ASSUME NEW req \in lateBeat, HeartBeatLate(req)
      PROVE  ElectionInv' /\ VoteOncePerTerm'
  <2>1. req.to \in Server /\ req.from \in Server /\ req.term \in Nat
    BY DEF BeatReq
  <2>. QED
    BY <1>3, <1>5, <2>1 DEF HeartBeatLate
<1>6. ASSUME NEW f \in Server, NEW from \in Server, NEW beyond \in BOOLEAN,
             AppendEntry(f, from, beyond)
      PROVE  ElectionInv' /\ VoteOncePerTerm'
  BY <1>3, <1>6 DEF AppendEntry
<1>. QED
  BY <1>1, <1>2, <1>4, <1>5, <1>6 DEF EntryHandler

(***************************************************************************)
(* The invariant holds throughout every behaviour without restarts.        *)
(***************************************************************************)
LEMMA Invariance == ElectionSpec => []AllInv
<1>1. ElectionInit => AllInv
  BY InitAll
<1>2. ASSUME AllInv, [ElectionNext]_electionVars PROVE AllInv'
  <2>1. CASE UNCHANGED electionVars
    BY <1>2, <2>1 DEF electionVars, votingVars, threadVars, AllInv, ElectionTypeOK,
       ElectionInv, CallInv, LateInv, GrantInv, TicketInv, VictoryInv, VoteOncePerTerm, HasVote
  <2>2. CASE LateHandler \/ EntryHandler
    BY <1>2, <2>2, HandlersKeep, HandlerType DEF LateHandler, AllInv, ElectionInv
  <2>3. ASSUME NEW s \in Server, ElectionThread(s) PROVE AllInv'
    <3>1. CASE NotTimedOut(s)
      BY <2>1, <3>1 DEF NotTimedOut
    <3>2. CASE (\E index \in 0..MaxIndex : VoteAnswer(s, index))
               \/ \E f \in Server : SendHeartBeat(s, f)
      BY <1>2, <3>2, HandlersKeep, HandlerType DEF AllInv, ElectionInv
    <3>3. CASE \/ ElectionTimeout(s) \/ RequestVote(s)
               \/ \E f \in Server, index \in 0..MaxIndex : VoteCall(s, f, index)
               \/ VoteTimeout(s) \/ VoteAbort(s) \/ BecomeLeader(s) \/ LoseElection(s)
               \/ BeatStart(s) \/ BeatDone(s)
               \/ \E f \in Server, commited \in 0..MaxIndex : HeartBeatTimeout(s, f, commited)
      BY <1>2, <3>3, ThreadKeeps, ThreadType DEF AllInv, ElectionInv
    <3>. QED
      BY <2>3, <3>1, <3>2, <3>3 DEF ElectionThread
  <2>. QED
    BY <1>2, <2>1, <2>2, <2>3 DEF ElectionNext
<1>. QED
  BY <1>1, <1>2, PTL DEF ElectionSpec

(***************************************************************************)
(* The state of the election is well typed in every reachable state.       *)
(***************************************************************************)
THEOREM TypeCorrect == ElectionSpec => []ElectionTypeOK
BY Invariance, PTL DEF AllInv

(***************************************************************************)
(* Whatever the address lists are, the Vote handler of a node that is not  *)
(* restarted grants at most one vote while the node is in a term, also     *)
(* when the node's own ++term_ falls between its reads of term_.           *)
(***************************************************************************)
THEOREM VotesAreUnique == ElectionSpec => []VoteOncePerTerm
BY Invariance, PTL DEF AllInv

\* A handler moves terms as TermStep allows.
LEMMA HandlerTermStep ==
    ASSUME ElectionTypeOK, CallInv, NEW v \in Server, NEW n, HandlerEffect(v, n),
           \A s \in Server : pc[s] = "candidate" /\ pc'[s] = "asking" => s = v /\ n # AfterStore
    PROVE  TermStep
<1>1. \A s \in Server : term[s] \in Nat
  BY DEF ElectionTypeOK
<1>2. ASSUME NEW s \in Server
      PROVE  /\ term'[s] >= term[s]
             /\ status[s] = "Leader" /\ status'[s] = "Leader" => term'[s] = term[s]
             /\ pc[s] = "candidate" /\ pc'[s] = "asking" /\ status'[s] = "Candidate" =>
                   term'[s] = term[s] + 1
  BY <1>1, <1>2 DEF HandlerEffect, CallInv
<1>. QED
  BY <1>2 DEF TermStep

\* Every step does.
LEMMA StepKeepsTerms ==
    ASSUME AllInv, ElectionNext
    PROVE  TermStep
<1>. USE DEF AllInv, ElectionInv
<1>0. \A s \in Server : term[s] \in Nat
  BY DEF ElectionTypeOK
<1>1. ASSUME NEW s \in Server, RequestVote(s) PROVE TermStep
  <2>1. status[s] # "Leader"
    BY <1>1 DEF RequestVote, CallInv
  <2>. QED
    BY <1>1, <2>1 DEF RequestVote, TermStep, ElectionTypeOK
<1>2. ASSUME NEW s \in Server, NEW index \in 0..MaxIndex, VoteAnswer(s, index) PROVE TermStep
  <2>1. call[s] \in VoteReq /\ call[s].to \in Server /\ pc[s] = "calling"
    BY <1>2 DEF VoteAnswer, CallInv, VoteReq, ElectionTypeOK
  <2>2. PICK n \in Moments(call[s].to) :
          /\ Vote(call[s].to, call[s], index, n)
          /\ pc' = Asking([pc EXCEPT ![s] = "asking"], call[s].to, n)
    BY <1>2 DEF VoteAnswer
  <2>3. HandlerEffect(call[s].to, n)
    BY <2>1, <2>2, VoteMoves
  <2>4. \A t \in Server : pc[t] = "candidate" /\ pc'[t] = "asking" =>
          t = call[s].to /\ n # AfterStore
    BY <2>1, <2>2 DEF Asking, ElectionTypeOK
  <2>. QED
    BY <2>1, <2>3, <2>4, HandlerTermStep
<1>3. ASSUME NEW req \in lateVote, NEW index \in 0..MaxIndex, VoteLate(req, index) PROVE TermStep
  <2>1. req \in VoteReq /\ req.to \in Server
    BY DEF VoteReq, ElectionTypeOK
  <2>2. PICK n \in Moments(req.to) : Vote(req.to, req, index, n) /\ pc' = Asking(pc, req.to, n)
    BY <1>3 DEF VoteLate
  <2>3. \A t \in Server : pc[t] = "candidate" /\ pc'[t] = "asking" =>
          t = req.to /\ n # AfterStore
    BY <2>2 DEF Asking, ElectionTypeOK
  <2>. QED
    BY <2>1, <2>2, <2>3, VoteMoves, HandlerTermStep
<1>4. ASSUME NEW f \in Server, NEW from, NEW t \in Nat, NEW beyond,
             SolveAppendTerm(f, from, t, beyond), granted' = granted
      PROVE  TermStep
  <2>1. PICK n \in Moments(f) : HandlerEffect(f, n) /\ pc' = Asking(pc, f, n)
    BY <1>4, AppendMoves
  <2>2. \A s \in Server : pc[s] = "candidate" /\ pc'[s] = "asking" => s = f /\ n # AfterStore
    BY <2>1 DEF Asking, ElectionTypeOK
  <2>. QED
    BY <2>1, <2>2, HandlerTermStep
<1>5. ASSUME NEW s \in Server, NEW f \in Server, SendHeartBeat(s, f) PROVE TermStep
  BY <1>0, <1>4, <1>5 DEF SendHeartBeat, BeatTo
<1>6. ASSUME NEW req \in lateBeat, HeartBeatLate(req) PROVE TermStep
  <2>1. req.to \in Server /\ req.term \in Nat
    BY DEF BeatReq, ElectionTypeOK
  <2>. QED
    BY <1>4, <1>6, <2>1 DEF HeartBeatLate
<1>7. CASE EntryHandler
  BY <1>4, <1>7 DEF EntryHandler, AppendEntry
<1>8. ASSUME term' = term, \A s \in Server : pc[s] = "candidate" => pc'[s] # "asking"
      PROVE  TermStep
  BY <1>0, <1>8 DEF TermStep
<1>9. ASSUME NEW s \in Server,
             \/ NotTimedOut(s) \/ ElectionTimeout(s)
             \/ \E f \in Server, index \in 0..MaxIndex : VoteCall(s, f, index)
             \/ VoteTimeout(s) \/ VoteAbort(s) \/ BecomeLeader(s) \/ LoseElection(s)
             \/ BeatStart(s) \/ BeatDone(s)
             \/ \E f \in Server, commited \in 0..MaxIndex : HeartBeatTimeout(s, f, commited)
      PROVE  TermStep
  <2>1. term' = term
    BY <1>9 DEF NotTimedOut, ElectionTimeout, VoteCall, VoteTimeout, VoteAbort, BecomeLeader,
       LoseElection, BeatStart, BeatDone, HeartBeatTimeout, BeatTo, electionVars, votingVars
  <2>2. pc' = pc \/ (pc[s] # "candidate" /\ \E x : pc' = [pc EXCEPT ![s] = x])
    BY <1>9, Zenon DEF NotTimedOut, ElectionTimeout, VoteCall, VoteTimeout, VoteAbort,
       BecomeLeader, LoseElection, LeaveRequestVote, BeatStart, BeatDone, HeartBeatTimeout,
       electionVars, threadVars
  <2>3. \A t \in Server : pc[t] = "candidate" => pc'[t] # "asking"
    BY <2>2 DEF ElectionTypeOK
  <2>. QED
    BY <1>8, <2>1, <2>3
<1>. QED
  BY <1>1, <1>2, <1>3, <1>5, <1>6, <1>7, <1>9 DEF ElectionNext, ElectionThread, LateHandler

(***************************************************************************)
(* No handler leaves a lower term than it found, on a node that is not     *)
(* restarted, although ++term_ runs between its test and its store; an     *)
(* election that is not aborted asks for the next term; and a leader's     *)
(* term stays as it is.                                                    *)
(***************************************************************************)
THEOREM TermsOnlyGrow == ElectionSpec => TermDiscipline
<1>1. AllInv /\ [ElectionNext]_electionVars => [TermStep]_electionVars
  BY StepKeepsTerms
<1>. QED
  BY <1>1, Invariance, PTL DEF ElectionSpec, TermDiscipline

\* In the documented cluster any two sets of counted voters meet.
LEMMA VotersMeet ==
    ASSUME DocumentedCluster, ElectionTypeOK, VictoryInv,
           NEW l \in leaders, NEW m \in leaders
    PROVE  l.voters \cap m.voters # {}
<1>. DEFINE N == Cardinality(Server)
<1>1. /\ l.voters \subseteq Server /\ m.voters \subseteq Server
      /\ l.node \in Server /\ m.node \in Server
  BY DEF ElectionTypeOK, Victory
<1>2. N \in Nat /\ Cardinality(l.voters) \in Nat /\ Cardinality(m.voters) \in Nat
  BY <1>1, ServerAssumption, FS_Subset, FS_CardinalityType
<1>3. /\ 1 + Cardinality(l.voters) > (1 + N) \div 2
      /\ 1 + Cardinality(m.voters) > (1 + N) \div 2
      /\ N % 2 = 1
  BY <1>1 DEF VictoryInv, DocumentedCluster
<1>4. 2 * ((1 + N) \div 2) = 1 + N
  <2>. HIDE DEF N
  <2>. QED
    BY <1>2, <1>3
<1>5. Cardinality(l.voters) + Cardinality(m.voters) > N
  <2>. HIDE DEF N
  <2>. QED
    BY <1>2, <1>3, <1>4
<1>. QED
  BY <1>1, <1>5, ServerAssumption, FS_MajoritiesIntersect

\* Of two votes of one node for one term, one was cast across an increment.
LEMMA TwoVotes ==
    ASSUME AllInv, NEW v, NEW t, NEW c, NEW d, c # d, HasVote(c, t, v), HasVote(d, t, v)
    PROVE  CrossedVote(v, t)
<1>1. PICK g \in granted : g.voter = v /\ g.term = t /\ g.cand = c
  BY DEF HasVote
<1>2. PICK h \in granted : h.voter = v /\ h.term = t /\ h.cand = d
  BY DEF HasVote
<1>3. g.own # h.own
  BY <1>1, <1>2 DEF AllInv, VoteOncePerTerm
<1>4. g.term \in Nat /\ h.term \in Nat
  BY DEF AllInv, ElectionTypeOK, Grant
<1>5. g.own \in {t, t + 1} /\ h.own \in {t, t + 1}
  BY <1>1, <1>2 DEF AllInv, ElectionInv, GrantInv
<1>6. g.own > t \/ h.own > t
  BY <1>1, <1>3, <1>4, <1>5
<1>. QED
  BY <1>1, <1>2, <1>6 DEF CrossedVote

\* The invariant gives election safety.
LEMMA WinnersShareCrossed ==
    ASSUME DocumentedCluster, AllInv
    PROVE  ElectionSafety
<1>. SUFFICES ASSUME NEW l \in leaders, NEW m \in leaders, l.term = m.term, l.node # m.node
              PROVE  \E v \in l.voters \cap m.voters : CrossedVote(v, l.term)
  BY DEF ElectionSafety
<1>1. PICK v : v \in l.voters /\ v \in m.voters
  BY VotersMeet DEF AllInv, ElectionInv
<1>2. HasVote(l.node, l.term, v) /\ HasVote(m.node, l.term, v)
  BY <1>1 DEF AllInv, ElectionInv, VictoryInv
<1>. QED
  BY <1>1, <1>2, TwoVotes

(***************************************************************************)
(* In the cluster DEPLOYMENT.md describes, of any odd size, two nodes win  *)
(* the election of one term only if a node counted by both cast its second *)
(* vote across its own unlocked ++term_: the only way to a second winner.  *)
(* A candidate does not vote for itself: its own raft.cfg line raises the  *)
(* number of tickets it needs, and its call to itself never answers.       *)
(***************************************************************************)
THEOREM OneWinnerPerTerm ==
    ASSUME DocumentedCluster
    PROVE  ElectionSpec => []ElectionSafety
<1>1. AllInv => ElectionSafety
  BY WinnersShareCrossed
<1>. QED
  BY <1>1, Invariance, PTL

-----------------------------------------------------------------------------
\* Only a node whose timer may run out is ever about to increment its term, and
\* only such a node votes across an increment.
ElectorInv ==
    /\ \A s \in Server : pc[s] = "candidate" => s \in Electors
    /\ \A g \in granted : g.own > g.term => g.voter \in Electors

\* A vote across an increment is one of a candidate.
LEMMA CrossedGrant ==
    ASSUME ElectionTypeOK, NEW v \in Server, NEW req \in VoteReq, NEW index, NEW n \in Moments(v),
           Vote(v, req, index, n), NEW g \in granted', g \notin granted, g.own > g.term
    PROVE  g.voter = v /\ pc[v] = "candidate"
<1>. DEFINE own == IF req.term > TermRead(v, 4, n) THEN req.term ELSE TermRead(v, 5, n)
            new == [voter |-> v, term |-> req.term, cand |-> req.from, own |-> own]
<1>1. ~ RefusesVote(v, req, index, n) /\ granted' = granted \cup {new}
  BY DEF Vote, GrantVote
<1>2. g.voter = v /\ g.term = req.term /\ g.own = own
  BY <1>1
<1>3. req.term \in Nat /\ term[v] \in Nat
  BY DEF VoteReq, ElectionTypeOK
<1>4. req.term >= TermRead(v, 1, n)
  BY <1>1, <1>3, Reads DEF RefusesVote
<1>5. n # AfterStore
  BY <1>2, <1>3, <1>4, Reads
<1>. QED
  BY <1>2, <1>3, <1>5, Reads

\* Every step keeps this.
LEMMA ElectorStep ==
    ASSUME AllInv, ElectorInv, [ElectionNext]_electionVars
    PROVE  ElectorInv'
<1>. USE DEF AllInv, ElectionInv
<1>1. ASSUME granted' = granted,
             \A s \in Server : pc'[s] = "candidate" => pc[s] = "candidate" \/ s \in Electors
      PROVE  ElectorInv'
  BY <1>1 DEF ElectorInv
<1>2. CASE UNCHANGED electionVars
  BY <1>1, <1>2 DEF electionVars, threadVars
<1>3. ASSUME NEW v \in Server, NEW req \in VoteReq, NEW index, NEW n \in Moments(v),
             Vote(v, req, index, n),
             \A s \in Server : pc'[s] = "candidate" => pc[s] = "candidate"
      PROVE  ElectorInv'
  BY <1>3, CrossedGrant DEF ElectorInv
<1>4. ASSUME NEW s \in Server, NEW index \in 0..MaxIndex, VoteAnswer(s, index) PROVE ElectorInv'
  <2>1. call[s] \in VoteReq /\ call[s].to \in Server
    BY <1>4 DEF VoteAnswer, CallInv, VoteReq, ElectionTypeOK
  <2>2. PICK n \in Moments(call[s].to) :
          /\ Vote(call[s].to, call[s], index, n)
          /\ pc' = Asking([pc EXCEPT ![s] = "asking"], call[s].to, n)
    BY <1>4 DEF VoteAnswer
  <2>3. \A t \in Server : pc'[t] = "candidate" => pc[t] = "candidate"
    BY <2>2 DEF Asking, ElectionTypeOK
  <2>. QED
    BY <1>3, <2>1, <2>2, <2>3
<1>5. ASSUME NEW req \in lateVote, NEW index \in 0..MaxIndex, VoteLate(req, index)
      PROVE  ElectorInv'
  <2>1. req \in VoteReq /\ req.to \in Server
    BY DEF VoteReq, ElectionTypeOK
  <2>2. PICK n \in Moments(req.to) : Vote(req.to, req, index, n) /\ pc' = Asking(pc, req.to, n)
    BY <1>5 DEF VoteLate
  <2>3. \A t \in Server : pc'[t] = "candidate" => pc[t] = "candidate"
    BY <2>2 DEF Asking, ElectionTypeOK
  <2>. QED
    BY <1>3, <2>1, <2>2, <2>3
<1>6. ASSUME NEW f, NEW from, NEW t, NEW beyond, SolveAppendTerm(f, from, t, beyond),
             granted' = granted
      PROVE  ElectorInv'
  <2>1. PICK n \in Moments(f) : pc' = Asking(pc, f, n)
    BY <1>6 DEF SolveAppendTerm
  <2>2. \A s \in Server : pc'[s] = "candidate" => pc[s] = "candidate"
    BY <2>1 DEF Asking, ElectionTypeOK
  <2>. QED
    BY <1>1, <1>6, <2>2
<1>7. CASE LateHandler \/ EntryHandler
  BY <1>5, <1>6, <1>7 DEF LateHandler, HeartBeatLate, EntryHandler, AppendEntry
<1>8. ASSUME NEW s \in Server,
             \/ NotTimedOut(s) \/ ElectionTimeout(s) \/ RequestVote(s)
             \/ \E f \in Server, index \in 0..MaxIndex : VoteCall(s, f, index)
             \/ VoteTimeout(s) \/ VoteAbort(s) \/ BecomeLeader(s) \/ LoseElection(s)
             \/ BeatStart(s) \/ BeatDone(s)
             \/ \E f \in Server, commited \in 0..MaxIndex : HeartBeatTimeout(s, f, commited)
      PROVE  ElectorInv'
  <2>1. granted' = granted
    BY <1>8 DEF NotTimedOut, ElectionTimeout, RequestVote, VoteCall, VoteTimeout, VoteAbort,
       BecomeLeader, LoseElection, BeatStart, BeatDone, HeartBeatTimeout, BeatTo, electionVars
  <2>2. pc' = pc \/ \E x : pc' = [pc EXCEPT ![s] = x] /\ (x = "candidate" => s \in Electors)
    BY <1>8, Zenon DEF NotTimedOut, ElectionTimeout, RequestVote, VoteCall, VoteTimeout, VoteAbort,
       BecomeLeader, LoseElection, LeaveRequestVote, BeatStart, BeatDone, HeartBeatTimeout,
       electionVars, threadVars
  <2>. QED
    BY <1>1, <2>1, <2>2 DEF ElectionTypeOK
<1>9. ASSUME NEW s \in Server, NEW f \in Server, SendHeartBeat(s, f) PROVE ElectorInv'
  BY <1>6, <1>9 DEF SendHeartBeat, BeatTo
<1>. QED
  BY <1>2, <1>4, <1>7, <1>8, <1>9 DEF ElectionNext, ElectionThread

(***************************************************************************)
(* In the same cluster two nodes are leaders of one term at once only if a *)
(* third node, whose timer ran out as well, voted across its increment:    *)
(* the leaders themselves cannot have.                                     *)
(***************************************************************************)
THEOREM OneLeaderAtATime ==
    ASSUME DocumentedCluster
    PROVE  ElectionSpec => []OneLeaderPerTerm
<1>1. ElectionInit => ElectorInv
  BY DEF ElectionInit, ElectorInv
<1>2. ElectionSpec => []ElectorInv
  BY <1>1, ElectorStep, Invariance, PTL DEF ElectionSpec
<1>3. ASSUME AllInv, ElectorInv PROVE OneLeaderPerTerm
  <2>. SUFFICES ASSUME NEW s \in Server, NEW t \in Server, s # t, status[s] = "Leader",
                       status[t] = "Leader", term[s] = term[t]
                PROVE  \E v \in Electors \ {s, t} : CrossedVote(v, term[s])
    BY DEF OneLeaderPerTerm
  <2>1. PICK l \in leaders : l.node = s /\ l.term = term[s]
    BY <1>3 DEF AllInv, ElectionInv, VictoryInv
  <2>2. PICK m \in leaders : m.node = t /\ m.term = term[s]
    BY <1>3 DEF AllInv, ElectionInv, VictoryInv
  <2>3. PICK v : CrossedVote(v, term[s])
    BY <1>3, <2>1, <2>2, WinnersShareCrossed DEF ElectionSafety
  <2>4. PICK g \in granted : g.voter = v /\ g.term = term[s] /\ g.own > term[s]
    BY <2>3 DEF CrossedVote
  <2>5. v \in Electors
    BY <1>3, <2>4 DEF ElectorInv
  <2>6. g.own <= term[v] /\ g.own \in Nat /\ term[s] \in Nat /\ term[v] \in Nat
    BY <1>3, <2>4 DEF AllInv, ElectionInv, GrantInv, ElectionTypeOK, Grant
  <2>7. v # s /\ v # t
    BY <2>4, <2>6
  <2>. QED
    BY <2>3, <2>5, <2>7
<1>. QED
  BY <1>2, <1>3, Invariance, PTL

-----------------------------------------------------------------------------
(***************************************************************************)
(* With restarts votes are forgotten, and with them most of the invariant. *)
(* What is left: types, the mutex, and that requests and leaders have a    *)
(* term above 0.                                                           *)
(***************************************************************************)
LeaderTermInv == \A s \in Server : status[s] = "Leader" => term[s] > 0

CoreInv == ElectionTypeOK /\ CallInv /\ LateInv /\ LeaderTermInv

\* Every handler keeps the core of the invariant.
LEMMA HandlersKeepCore ==
    ASSUME CoreInv,
           \/ \E s \in Server, index \in 0..MaxIndex : VoteAnswer(s, index)
           \/ \E req \in lateVote, index \in 0..MaxIndex : VoteLate(req, index)
           \/ \E s, f \in Server : SendHeartBeat(s, f)
           \/ \E req \in lateBeat : HeartBeatLate(req)
           \/ EntryHandler
    PROVE  CoreInv'
<1>0. ElectionTypeOK'
  BY HandlerType DEF CoreInv
<1>. USE DEF CoreInv, ElectionTypeOK
<1>1. ASSUME NEW v \in Server, NEW n, HandlerEffect(v, n)
      PROVE  LeaderTermInv'
  BY <1>0, <1>1 DEF CallInv, LeaderTermInv, HandlerEffect
<1>2. ASSUME NEW v \in Server, NEW n, HandlerEffect(v, n), pc' = Asking(pc, v, n), call' = call
      PROVE  CallInv'
  <2>1. /\ \A s \in Server \ {v} : pc'[s] = pc[s]
        /\ pc'[v] = IF n = AfterStore THEN pc[v] ELSE "asking"
    BY <1>2 DEF Asking
  <2>. QED
    BY <1>0, <1>2, <2>1 DEF CallInv, HandlerEffect
<1>3. ASSUME NEW s \in Server, NEW index \in 0..MaxIndex, VoteAnswer(s, index)
      PROVE  CallInv' /\ LeaderTermInv' /\ LateInv'
  <2>0. PICK v : v = call[s].to
    OBVIOUS
  <2>1. call[s] \in VoteReq /\ v \in Server /\ pc[s] = "calling" /\ call[s] # None
    BY <1>3, <2>0 DEF VoteAnswer, CallInv, VoteReq
  <2>2. PICK n \in Moments(v) :
          /\ Vote(v, call[s], index, n)
          /\ pc' = Asking([pc EXCEPT ![s] = "asking"], v, n)
    BY <1>3, <2>0 DEF VoteAnswer
  <2>3. HandlerEffect(v, n)
    BY <2>1, <2>2, VoteMoves
  <2>4. s # v
    BY <2>1, <2>3 DEF HandlerEffect
  <2>5. AnswerMoves(s, v, n) /\ lateVote' = lateVote
    BY <1>3, <2>1, <2>2, <2>4 DEF VoteAnswer, AnswerMoves
  <2>. QED
    BY <1>0, <1>1, <2>1, <2>3, <2>5, AnswerKeepsCalls DEF LateInv
<1>4. ASSUME NEW req \in lateVote, NEW index \in 0..MaxIndex, VoteLate(req, index)
      PROVE  CallInv' /\ LeaderTermInv' /\ LateInv'
  <2>1. req \in VoteReq /\ req.to \in Server
    BY DEF VoteReq
  <2>2. PICK n \in Moments(req.to) : Vote(req.to, req, index, n) /\ pc' = Asking(pc, req.to, n)
    BY <1>4 DEF VoteLate
  <2>3. HandlerEffect(req.to, n)
    BY <2>1, <2>2, VoteMoves
  <2>. QED
    BY <1>1, <1>2, <1>4, <2>1, <2>2, <2>3 DEF VoteLate, LateInv
<1>5. ASSUME NEW f \in Server, NEW from, NEW t \in Nat, NEW beyond,
             SolveAppendTerm(f, from, t, beyond), UNCHANGED <<call, granted, lateVote>>
      PROVE  CallInv' /\ LeaderTermInv' /\ LateInv'
  <2>1. PICK n \in Moments(f) : HandlerEffect(f, n) /\ pc' = Asking(pc, f, n)
    BY <1>5, AppendMoves
  <2>. QED
    BY <1>1, <1>2, <1>5, <2>1 DEF LateInv
<1>6. ASSUME NEW s \in Server, NEW f \in Server, SendHeartBeat(s, f)
      PROVE  CallInv' /\ LeaderTermInv' /\ LateInv'
  BY <1>5, <1>6 DEF SendHeartBeat, BeatTo
<1>7. ASSUME NEW req \in lateBeat, HeartBeatLate(req)
      PROVE  CallInv' /\ LeaderTermInv' /\ LateInv'
  <2>1. req.to \in Server /\ req.from \in Server /\ req.term \in Nat
    BY DEF BeatReq
  <2>. QED
    BY <1>5, <1>7, <2>1 DEF HeartBeatLate
<1>8. ASSUME NEW f \in Server, NEW from \in Server, NEW beyond \in BOOLEAN,
             AppendEntry(f, from, beyond)
      PROVE  CallInv' /\ LeaderTermInv' /\ LateInv'
  BY <1>5, <1>8 DEF AppendEntry
<1>. QED
  BY <1>0, <1>3, <1>4, <1>6, <1>7, <1>8 DEF EntryHandler

\* So do the steps of the election thread.
LEMMA ThreadKeepsCore ==
    ASSUME CoreInv, NEW s \in Server,
           \/ ElectionTimeout(s) \/ RequestVote(s)
           \/ \E f \in Server, index \in 0..MaxIndex : VoteCall(s, f, index)
           \/ VoteTimeout(s) \/ VoteAbort(s) \/ BecomeLeader(s) \/ LoseElection(s)
           \/ BeatStart(s) \/ BeatDone(s)
           \/ \E f \in Server, commited \in 0..MaxIndex : HeartBeatTimeout(s, f, commited)
    PROVE  CoreInv'
<1>0. ElectionTypeOK'
  BY ThreadType DEF CoreInv
<1>. USE DEF CoreInv, ElectionTypeOK
<1>1. CASE ElectionTimeout(s) \/ RequestVote(s)
  BY <1>0, <1>1 DEF ElectionTimeout, RequestVote, CallInv, LateInv, LeaderTermInv
<1>2. ASSUME NEW f \in Server, NEW index \in 0..MaxIndex, VoteCall(s, f, index)
      PROVE  CoreInv'
  <2>. DEFINE req == [from |-> s, to |-> f, term |-> term[s], index |-> index]
  <2>1. req \in VoteReq /\ req # None /\ req.from = s /\ req.term = term[s]
    BY NoneAssumption, BoundsAssumption DEF VoteReq
  <2>. QED
    BY <1>0, <1>2, <2>1 DEF VoteCall, CallInv, LateInv, LeaderTermInv, votingVars
<1>3. CASE VoteTimeout(s)
  <2>1. call[s] \in VoteReq /\ call[s].term > 0
    BY <1>3 DEF VoteTimeout, CallInv
  <2>2. LateInv'
    BY <1>3, <2>1, AbandonedBound DEF VoteTimeout, LateInv
  <2>. QED
    BY <1>0, <1>3, <2>2 DEF VoteTimeout, CallInv, LeaderTermInv, votingVars
<1>4. CASE VoteAbort(s) \/ LoseElection(s) \/ BecomeLeader(s)
  BY <1>0, <1>4 DEF VoteAbort, LoseElection, BecomeLeader, LeaveRequestVote, votingVars,
                    CallInv, LateInv, LeaderTermInv
<1>5. CASE BeatStart(s) \/ BeatDone(s)
  BY <1>0, <1>5 DEF BeatStart, BeatDone, votingVars, CallInv, LateInv, LeaderTermInv
<1>6. ASSUME NEW f \in Server, NEW commited \in 0..MaxIndex, HeartBeatTimeout(s, f, commited)
      PROVE  CoreInv'
  BY <1>0, <1>6 DEF HeartBeatTimeout, BeatTo, votingVars, CallInv, LateInv, LeaderTermInv
<1>. QED
  BY <1>1, <1>2, <1>3, <1>4, <1>5, <1>6

\* And so does a restart.
LEMMA RestartKeepsCore ==
    ASSUME CoreInv, NEW s \in Server, ElectionRestart(s)
    PROVE  CoreInv'
<1>. USE DEF CoreInv, ElectionTypeOK
<1>1. /\ lateVote' \subseteq VoteReq /\ LateInv'
  <2>. DEFINE open == {req \in lateVote : req.to # s}
  <2>1. CASE lateVote' = open
    BY <2>1 DEF LateInv
  <2>2. CASE call[s] # None /\ lateVote' \in Abandoned(open, MaxLateVote, call[s])
    <3>1. call[s] \in VoteReq /\ call[s].term > 0
      BY <2>2 DEF CallInv
    <3>. QED
      BY <2>2, <3>1, AbandonedBound DEF LateInv
  <2>. QED
    BY <2>1, <2>2 DEF ElectionRestart
<1>2. ElectionTypeOK'
  BY <1>1, ServerAssumption DEF ElectionRestart, PodStatus
<1>. QED
  BY <1>1, <1>2 DEF ElectionRestart, CallInv, LeaderTermInv

\* Every step of the election, restarts included, keeps the core of the invariant.
LEMMA CoreStep ==
    ASSUME CoreInv, [RestartNext]_electionVars
    PROVE  CoreInv'
<1>1. CASE UNCHANGED electionVars
  BY <1>1 DEF electionVars, votingVars, threadVars, CoreInv, ElectionTypeOK, CallInv, LateInv,
              LeaderTermInv
<1>2. CASE LateHandler \/ EntryHandler
  BY <1>2, HandlersKeepCore DEF LateHandler
<1>3. ASSUME NEW s \in Server, ElectionThread(s) PROVE CoreInv'
  BY <1>1, <1>3, HandlersKeepCore, ThreadKeepsCore DEF ElectionThread, NotTimedOut
<1>4. ASSUME NEW s \in Server, ElectionRestart(s) PROVE CoreInv'
  BY <1>4, RestartKeepsCore
<1>. QED
  BY <1>1, <1>2, <1>3, <1>4 DEF RestartNext, ElectionNext

\* The initial state has the core of the invariant.
LEMMA InitCore == ElectionInit => CoreInv
BY DEF ElectionInit, CoreInv, ElectionTypeOK, CallInv, LateInv, LeaderTermInv, PodStatus

(***************************************************************************)
(* The state of the election stays well typed, and the mutex is held by    *)
(* exactly the nodes that are in a call, also when processes are killed    *)
(* and started again at any time (ElectionRestart).                        *)
(***************************************************************************)
THEOREM CoreHoldsThroughRestarts == RestartSpec => [](ElectionTypeOK /\ CallInv)
<1>1. RestartSpec => []CoreInv
  BY InitCore, CoreStep, PTL DEF RestartSpec
<1>. QED
  BY <1>1, PTL DEF CoreInv

(***************************************************************************)
(* The invariant the runs check is inductive: mutex and calls, late        *)
(* requests, votes, tickets and victories fit together in every reachable  *)
(* state of a cluster whose processes are not restarted.                   *)
(***************************************************************************)
THEOREM InvariantHolds == ElectionSpec => []ElectionInv
BY Invariance, PTL DEF AllInv

-----------------------------------------------------------------------------
(***************************************************************************)
(* Every win is of a term of its own.                                      *)
(***************************************************************************)

\* A candidate asks for votes in a term above those it has won.
WinInv ==
    \A l \in leaders :
        /\ l.term <= term[l.node]
        /\ pc[l.node] \in {"asking", "calling"} /\ status[l.node] = "Candidate" =>
              l.term < term[l.node]

\* Node s asks for votes in an election that is not aborted.
Asks(place, state, s) == place[s] \in {"asking", "calling"} /\ state[s] = "Candidate"

\* No handler brings a node to ask for votes but by its own increment.
LEMMA HandlerAsks ==
    ASSUME ElectionTypeOK, NEW v \in Server, NEW n, HandlerEffect(v, n), NEW s \in Server,
           Asks(pc', status', s),
           \/ pc' = Asking(pc, v, n)
           \/ \E t \in Server : pc[t] = "calling" /\ pc' = Asking([pc EXCEPT ![t] = "asking"], v, n)
    PROVE  Asks(pc, status, s) \/ (pc[s] = "candidate" /\ pc'[s] = "asking")
<1>1. status[s] = "Candidate"
  BY DEF HandlerEffect, Asks
<1>2. pc[s] \in {"asking", "calling"} \/ (pc[s] = "candidate" /\ pc'[s] = "asking")
  BY DEF Asks, Asking, HandlerEffect, ElectionTypeOK
<1>. QED
  BY <1>1, <1>2 DEF Asks

\* A node asks for votes because it did before, or because it just incremented.
LEMMA StepAsks ==
    ASSUME AllInv, ElectionNext, NEW s \in Server, Asks(pc', status', s)
    PROVE  Asks(pc, status, s) \/ (pc[s] = "candidate" /\ pc'[s] = "asking")
<1>. DEFINE Goal == Asks(pc, status, s) \/ (pc[s] = "candidate" /\ pc'[s] = "asking")
<1>0. ElectionTypeOK /\ CallInv
  BY DEF AllInv, ElectionInv
<1>1. ASSUME NEW t \in Server, NEW index \in 0..MaxIndex, VoteAnswer(t, index) PROVE Goal
  <2>1. call[t] \in VoteReq /\ call[t].to \in Server /\ pc[t] = "calling"
    BY <1>0, <1>1 DEF VoteAnswer, CallInv, VoteReq, ElectionTypeOK
  <2>2. PICK n \in Moments(call[t].to) :
          /\ Vote(call[t].to, call[t], index, n)
          /\ pc' = Asking([pc EXCEPT ![t] = "asking"], call[t].to, n)
    BY <1>1 DEF VoteAnswer
  <2>. QED
    BY <1>0, <2>1, <2>2, VoteMoves, HandlerAsks
<1>2. ASSUME NEW req \in lateVote, NEW index \in 0..MaxIndex, VoteLate(req, index) PROVE Goal
  <2>1. req \in VoteReq /\ req.to \in Server
    BY <1>0 DEF VoteReq, ElectionTypeOK
  <2>2. PICK n \in Moments(req.to) : Vote(req.to, req, index, n) /\ pc' = Asking(pc, req.to, n)
    BY <1>2 DEF VoteLate
  <2>. QED
    BY <1>0, <2>1, <2>2, VoteMoves, HandlerAsks
<1>3. ASSUME NEW f \in Server, NEW from, NEW t \in Nat, NEW beyond,
             SolveAppendTerm(f, from, t, beyond), granted' = granted
      PROVE  Goal
  BY <1>0, <1>3, AppendMoves, HandlerAsks
<1>4. ASSUME NEW t \in Server, NEW f \in Server, SendHeartBeat(t, f) PROVE Goal
  BY <1>0, <1>3, <1>4 DEF SendHeartBeat, BeatTo, ElectionTypeOK
<1>5. ASSUME NEW req \in lateBeat, HeartBeatLate(req) PROVE Goal
  <2>1. req.to \in Server /\ req.term \in Nat
    BY <1>0 DEF BeatReq, ElectionTypeOK
  <2>. QED
    BY <1>3, <1>5, <2>1 DEF HeartBeatLate
<1>6. CASE EntryHandler
  BY <1>3, <1>6 DEF EntryHandler, AppendEntry
<1>7. ASSUME NEW t \in Server, \/ NotTimedOut(t) \/ ElectionTimeout(t) \/ RequestVote(t)
                               \/ BeatStart(t) \/ BeatDone(t) \/ VoteTimeout(t)
      PROVE  Goal
  BY <1>0, <1>7 DEF NotTimedOut, ElectionTimeout, RequestVote, BeatStart, BeatDone, VoteTimeout,
     Asks, electionVars, votingVars, threadVars, ElectionTypeOK
<1>8. ASSUME NEW t \in Server,
             \/ \E f \in Server, index \in 0..MaxIndex : VoteCall(t, f, index)
             \/ VoteAbort(t) \/ BecomeLeader(t) \/ LoseElection(t)
             \/ \E f \in Server, commited \in 0..MaxIndex : HeartBeatTimeout(t, f, commited)
      PROVE  Goal
  <2>1. /\ pc' = pc \/ (pc[t] = "asking" /\ \E x : pc' = [pc EXCEPT ![t] = x])
        /\ status' = status \/ status' = [status EXCEPT ![t] = "Leader"]
    BY <1>8, Zenon DEF VoteCall, VoteAbort, BecomeLeader, LoseElection, LeaveRequestVote,
       HeartBeatTimeout, votingVars
  <2>. QED
    BY <1>0, <2>1 DEF Asks, ElectionTypeOK
<1>. QED
  BY <1>1, <1>2, <1>4, <1>5, <1>6, <1>7, <1>8 DEF ElectionNext, ElectionThread, LateHandler

\* A step keeps it.
LEMMA WinInvStep ==
    ASSUME AllInv, AllInv', WinInv, [ElectionNext]_electionVars
    PROVE  WinInv'
<1>0. ElectionTypeOK
  BY DEF AllInv
<1>1. \A l \in leaders : l.node \in Server /\ l.term \in Nat /\ term[l.node] \in Nat
  BY <1>0 DEF ElectionTypeOK, Victory
<1>2. CASE UNCHANGED electionVars
  BY <1>2 DEF WinInv, electionVars, votingVars, threadVars
<1>3. CASE ElectionNext
  <2>1. \A s \in Server : term'[s] \in Nat /\ term'[s] >= term[s]
    BY <1>3, StepKeepsTerms DEF TermStep, AllInv, ElectionTypeOK
  <2>2. \A s \in Server : Asks(pc', status', s) => Asks(pc, status, s) \/ term'[s] > term[s]
    <3>. SUFFICES ASSUME NEW s \in Server, Asks(pc', status', s), ~ Asks(pc, status, s)
                  PROVE  term'[s] > term[s]
      OBVIOUS
    <3>1. pc[s] = "candidate" /\ pc'[s] = "asking" /\ status'[s] = "Candidate"
      BY <1>3, StepAsks DEF Asks
    <3>2. term'[s] = term[s] + 1 /\ term[s] \in Nat
      BY <1>0, <1>3, <3>1, StepKeepsTerms DEF TermStep, ElectionTypeOK
    <3>. QED
      BY <3>2
  <2>3. ASSUME NEW s \in Server, BecomeLeader(s) PROVE WinInv'
    <3>1. /\ leaders' = leaders \cup {[node |-> s, term |-> term[s], voters |-> ticket[s]]}
          /\ term' = term /\ pc' = [pc EXCEPT ![s] = "wait"]
          /\ status' = [status EXCEPT ![s] = "Leader"]
      BY <2>3 DEF BecomeLeader, LeaveRequestVote
    <3>. QED
      BY <1>0, <1>1, <2>1, <3>1 DEF WinInv, ElectionTypeOK
  <2>4. ASSUME \A s \in Server : ~ BecomeLeader(s) PROVE leaders' = leaders
    BY <1>3, <2>4 DEF ElectionNext, ElectionThread, NotTimedOut, ElectionTimeout, RequestVote,
       VoteCall, VoteAnswer, VoteTimeout, VoteAbort, LoseElection, BeatStart, SendHeartBeat,
       BeatTo, HeartBeatTimeout, BeatDone, electionVars, LateHandler, VoteLate, HeartBeatLate,
       EntryHandler, AppendEntry
  <2>5. ASSUME leaders' = leaders PROVE WinInv'
    BY <1>1, <2>1, <2>2, <2>5 DEF WinInv, Asks
  <2>. QED
    BY <2>3, <2>4, <2>5
<1>. QED
  BY <1>2, <1>3

\* It holds in every reachable state of a cluster without restarts.
LEMMA WinsAreOfNewTerms == ElectionSpec => []WinInv
<1>1. ElectionInit => WinInv
  BY DEF ElectionInit, WinInv
<1>. QED
  BY <1>1, WinInvStep, Invariance, PTL DEF ElectionSpec

\* One election has been won, or none.
OneVictory == \A l, m \in leaders : l = m

(***************************************************************************)
(* A cluster in which only e starts elections.                             *)
(***************************************************************************)
SoleInv(e) ==
    /\ \A s \in Server : term[s] <= term[e]
    /\ \A s \in Server \ {e} : status[s] = "Follower" /\ pc[s] = "wait"
    /\ \A req \in lateVote : req.term <= term[e]
    /\ \A req \in lateBeat : req.term <= term[e]
    /\ leaders # {} => status[e] = "Leader"
    /\ OneVictory

\* A handler of the cluster leaves the lead of e alone, and nobody ahead of it.
SoleEffect(e) ==
    /\ term'[e] >= term[e]
    /\ \A s \in Server : term'[s] <= term'[e]
    /\ \A s \in Server \ {e} : status'[s] = "Follower"
    /\ status[e] = "Leader" => status'[e] = "Leader"

\* The election thread of another node than e increments nothing.
LEMMA SoleMoments ==
    ASSUME NEW e \in Server, SoleInv(e), NEW v \in Server, NEW n \in Moments(v), v # e
    PROVE  n = AfterStore
BY DEF SoleInv, Moments

\* No vote request is of a term above that of e.
LEMMA SoleVote ==
    ASSUME CoreInv, NEW e \in Server, SoleInv(e), NEW v \in Server, NEW req \in VoteReq,
           req.term <= term[e], NEW index, NEW n \in Moments(v), Vote(v, req, index, n)
    PROVE  SoleEffect(e)
<1>0. /\ term \in [Server -> Nat] /\ term' \in [Server -> Nat] /\ req.term \in Nat
      /\ HandlerEffect(v, n)
  BY VoteType, VoteMoves DEF CoreInv, ElectionTypeOK, VoteReq
<1>1. \A s \in Server : term[s] <= term[e]
  BY DEF SoleInv
<1>2. \/ term'[v] = TermRead(v, 5, n) /\ status' = status
      \/ req.term > TermRead(v, 4, n) /\ term'[v] = req.term
  BY <1>0 DEF Vote, GrantVote, CoreInv, ElectionTypeOK
<1>3. CASE v = e
  <2>1. ~ (req.term > TermRead(e, 4, n))
    BY <1>0, <1>3, Reads
  <2>2. status' = status
    BY <1>2, <1>3, <2>1
  <2>. QED
    BY <1>0, <1>1, <1>3, <2>2 DEF SoleEffect, SoleInv, HandlerEffect
<1>4. CASE v # e
  <2>1. n = AfterStore
    BY <1>4, SoleMoments
  <2>2. term'[v] <= term[e]
    BY <1>0, <1>1, <1>2, <2>1, Reads
  <2>. QED
    BY <1>0, <1>1, <1>4, <2>2 DEF SoleEffect, SoleInv, HandlerEffect
<1>. QED
  BY <1>3, <1>4

\* An entry carries term 0, and e has a larger term when it leads.
LEMMA SoleAppend ==
    ASSUME CoreInv, NEW e \in Server, SoleInv(e), NEW f \in Server, NEW from \in Server,
           NEW t \in Nat, t <= term[e], NEW beyond, beyond => t = 0,
           SolveAppendTerm(f, from, t, beyond), granted' = granted
    PROVE  /\ SoleEffect(e)
           /\ \A s \in Server \ {e} : pc'[s] = pc[s]
<1>0. term \in [Server -> Nat] /\ term' \in [Server -> Nat]
  BY AppendType DEF CoreInv, ElectionTypeOK
<1>1. PICK n \in Moments(f) :
        /\ \/ /\ term' = [term EXCEPT ![f] = TermRead(f, 5, n)]
              /\ UNCHANGED <<voted, status, leader_id>>
           \/ /\ Adopts(f, t, beyond, n)
              /\ term' = [term EXCEPT ![f] = t]
              /\ voted' = [voted EXCEPT ![f] = FALSE]
              /\ status' = [status EXCEPT ![f] = "Follower"]
              /\ leader_id' = [leader_id EXCEPT ![f] = from]
        /\ pc' = Asking(pc, f, n)
  BY Zenon DEF SolveAppendTerm
<1>2. \A s \in Server : term[s] <= term[e]
  BY DEF SoleInv
<1>3. f # e => n = AfterStore
  BY SoleMoments
<1>4. \A s \in Server \ {e} : pc'[s] = pc[s]
  BY <1>1, <1>3 DEF Asking, CoreInv, ElectionTypeOK
<1>5. CASE term' = [term EXCEPT ![f] = TermRead(f, 5, n)] /\ status' = status
  BY <1>0, <1>2, <1>3, <1>4, <1>5, Reads DEF SoleEffect, SoleInv
<1>6. CASE /\ Adopts(f, t, beyond, n)
           /\ term' = [term EXCEPT ![f] = t]
           /\ status' = [status EXCEPT ![f] = "Follower"]
  <2>1. f = e => status[e] # "Leader" /\ t = term[e]
    BY <1>0, <1>6, Reads DEF Adopts, CoreInv, LeaderTermInv
  <2>2. status'[f] = "Follower" /\ \A s \in Server \ {f} : status'[s] = status[s]
    BY <1>6 DEF CoreInv, ElectionTypeOK
  <2>. QED
    BY <1>0, <1>2, <1>4, <1>6, <2>1, <2>2 DEF SoleEffect, SoleInv
<1>. QED
  BY <1>1, <1>5, <1>6

\* Every step keeps the invariant.
LEMMA SoleStep ==
    ASSUME CoreInv, NEW e \in Server, Electors \subseteq {e}, SoleInv(e),
           [ElectionNext]_electionVars
    PROVE  SoleInv(e)'
<1>0. ElectionTypeOK /\ CallInv
  BY DEF CoreInv
<1>1. ASSUME SoleEffect(e), \A s \in Server \ {e} : pc'[s] = pc[s], ElectionTypeOK',
             lateVote' \subseteq lateVote, lateBeat' \subseteq lateBeat, leaders' = leaders
      PROVE  SoleInv(e)'
  <2>1. term[e] \in Nat /\ term'[e] \in Nat /\ term'[e] >= term[e]
    BY <1>0, <1>1 DEF SoleEffect, ElectionTypeOK
  <2>2. \A req \in lateVote' : req.term \in Nat /\ req.term <= term[e]
    BY <1>0, <1>1 DEF SoleInv, ElectionTypeOK, VoteReq
  <2>3. \A req \in lateBeat' : req.term \in Nat /\ req.term <= term[e]
    BY <1>0, <1>1 DEF SoleInv, ElectionTypeOK, BeatReq
  <2>. QED
    BY <1>0, <1>1, <2>1, <2>2, <2>3 DEF SoleInv, SoleEffect, OneVictory
<1>2. CASE UNCHANGED electionVars
  BY <1>2 DEF SoleInv, OneVictory, electionVars, votingVars, threadVars
<1>3. ASSUME NEW s \in Server, ElectionThread(s) PROVE SoleInv(e)'
  <2>1. CASE NotTimedOut(s)
    BY <1>2, <2>1 DEF NotTimedOut
  <2>2. CASE ElectionTimeout(s) \/ RequestVote(s)
    <3>1. s = e /\ leaders = {}
      BY <1>0, <2>2 DEF ElectionTimeout, RequestVote, SoleInv, CallInv
    <3>2. /\ term'[e] \in Nat /\ term'[e] >= term[e] /\ \A t \in Server \ {e} : term'[t] = term[t]
          /\ \A t \in Server \ {e} : status'[t] = status[t] /\ pc'[t] = pc[t]
          /\ UNCHANGED <<lateVote, lateBeat, leaders>>
      BY <1>0, <2>2, <3>1 DEF ElectionTimeout, RequestVote, ElectionTypeOK
    <3>. QED
      BY <1>0, <3>1, <3>2 DEF SoleInv, OneVictory, ElectionTypeOK, VoteReq, BeatReq
  <2>3. CASE \/ \E f \in Server, index \in 0..MaxIndex : VoteCall(s, f, index)
             \/ VoteAbort(s) \/ LoseElection(s) \/ BeatStart(s) \/ BeatDone(s)
    <3>1. /\ s = e /\ UNCHANGED <<term, status, lateVote, lateBeat, leaders>>
          /\ \A t \in Server \ {e} : pc'[t] = pc[t]
      BY <1>0, <2>3 DEF VoteCall, VoteAbort, LoseElection, LeaveRequestVote, BeatStart, BeatDone,
         SoleInv, votingVars, ElectionTypeOK
    <3>. QED
      BY <3>1 DEF SoleInv, OneVictory
  <2>4. CASE VoteTimeout(s)
    <3>1. /\ s = e /\ UNCHANGED <<term, status, lateBeat, leaders>>
          /\ \A t \in Server \ {e} : pc'[t] = pc[t]
      BY <1>0, <2>4 DEF VoteTimeout, SoleInv, votingVars, ElectionTypeOK
    <3>2. call[e].term = term[e] /\ term[e] \in Nat
      BY <1>0, <2>4, <3>1 DEF VoteTimeout, CallInv, ElectionTypeOK
    <3>3. \A req \in lateVote' : req \in lateVote \/ req = call[e]
      BY <2>4, <3>1, AbandonedBound DEF VoteTimeout
    <3>4. \A req \in lateVote' : req.term <= term'[e]
      BY <3>1, <3>2, <3>3 DEF SoleInv
    <3>. QED
      BY <3>1, <3>4 DEF SoleInv, OneVictory
  <2>5. ASSUME NEW index \in 0..MaxIndex, VoteAnswer(s, index) PROVE SoleInv(e)'
    <3>1. /\ s = e /\ call[s] \in VoteReq /\ call[s].to \in Server /\ call[s].term = term[e]
          /\ term[e] \in Nat
      BY <1>0, <2>5 DEF VoteAnswer, SoleInv, CallInv, ElectionTypeOK, VoteReq
    <3>2. PICK n \in Moments(call[s].to) :
            /\ Vote(call[s].to, call[s], index, n)
            /\ pc' = Asking([pc EXCEPT ![s] = "asking"], call[s].to, n)
      BY <2>5 DEF VoteAnswer
    <3>3. SoleEffect(e)
      <4>1. call[s].term <= term[e]
        BY <3>1
      <4>. QED
        BY <3>1, <3>2, <4>1, SoleVote
    <3>4. \A t \in Server \ {e} : pc'[t] = pc[t]
      BY <1>0, <3>1, <3>2, SoleMoments DEF Asking, ElectionTypeOK
    <3>5. ElectionTypeOK'
      BY <1>0, <2>5, HandlerType
    <3>. QED
      BY <1>1, <2>5, <3>3, <3>4, <3>5 DEF VoteAnswer
  <2>6. CASE BecomeLeader(s)
    <3>1. /\ s = e /\ leaders = {} /\ UNCHANGED <<term, lateVote, lateBeat>>
          /\ status' = [status EXCEPT ![e] = "Leader"] /\ pc' = [pc EXCEPT ![e] = "wait"]
          /\ leaders' = {[node |-> e, term |-> term[e], voters |-> ticket[e]]}
      BY <2>6 DEF BecomeLeader, LeaveRequestVote, SoleInv
    <3>. QED
      BY <1>0, <3>1 DEF SoleInv, OneVictory, ElectionTypeOK
  <2>7. ASSUME NEW f \in Server, SendHeartBeat(s, f) PROVE SoleInv(e)'
    <3>1. s = e /\ term[e] \in Nat
      BY <1>0, <2>7 DEF SendHeartBeat, BeatTo, SoleInv, ElectionTypeOK
    <3>2. SolveAppendTerm(f, e, term[e], FALSE) /\ granted' = granted
      BY <2>7, <3>1, Zenon DEF SendHeartBeat, BeatTo
    <3>3. SoleEffect(e) /\ \A t \in Server \ {e} : pc'[t] = pc[t]
      <4>1. term[e] <= term[e] /\ (FALSE => term[e] = 0)
        BY <3>1
      <4>. QED
        BY <3>1, <3>2, <4>1, SoleAppend
    <3>4. ElectionTypeOK'
      BY <1>0, <2>7, HandlerType
    <3>. QED
      BY <1>1, <2>7, <3>3, <3>4 DEF SendHeartBeat, BeatTo
  <2>8. ASSUME NEW f \in Server, NEW commited \in 0..MaxIndex, HeartBeatTimeout(s, f, commited)
        PROVE  SoleInv(e)'
    <3>. DEFINE beat == [from |-> s, to |-> f, term |-> term[s], commited |-> commited]
    <3>1. s = e /\ UNCHANGED <<term, status, pc, lateVote, leaders>>
      BY <2>8 DEF HeartBeatTimeout, BeatTo, SoleInv, votingVars
    <3>2. \A req \in lateBeat' : req \in lateBeat \/ req = beat
      BY <2>8, AbandonedBound DEF HeartBeatTimeout
    <3>3. beat.term <= term[e]
      BY <1>0, <3>1 DEF ElectionTypeOK
    <3>. QED
      BY <3>1, <3>2, <3>3 DEF SoleInv, OneVictory
  <2>. QED
    BY <1>3, <2>1, <2>2, <2>3, <2>4, <2>5, <2>6, <2>7, <2>8 DEF ElectionThread
<1>4. ASSUME NEW req \in lateVote, NEW index \in 0..MaxIndex, VoteLate(req, index)
      PROVE  SoleInv(e)'
  <2>1. req \in VoteReq /\ req.to \in Server /\ req.term <= term[e]
    BY <1>0 DEF ElectionTypeOK, VoteReq, SoleInv
  <2>2. PICK n \in Moments(req.to) : Vote(req.to, req, index, n) /\ pc' = Asking(pc, req.to, n)
    BY <1>4 DEF VoteLate
  <2>3. SoleEffect(e)
    BY <2>1, <2>2, SoleVote
  <2>4. \A t \in Server \ {e} : pc'[t] = pc[t]
    BY <1>0, <2>1, <2>2, SoleMoments DEF Asking, ElectionTypeOK
  <2>5. ElectionTypeOK'
    BY <1>0, <1>4, HandlerType
  <2>. QED
    BY <1>1, <1>4, <2>3, <2>4, <2>5 DEF VoteLate
<1>5. ASSUME NEW req \in lateBeat, HeartBeatLate(req) PROVE SoleInv(e)'
  <2>1. req.to \in Server /\ req.from \in Server /\ req.term \in Nat /\ req.term <= term[e]
    BY <1>0 DEF ElectionTypeOK, BeatReq, SoleInv
  <2>2. SoleEffect(e) /\ \A t \in Server \ {e} : pc'[t] = pc[t]
    BY <1>5, <2>1, SoleAppend DEF HeartBeatLate
  <2>3. ElectionTypeOK'
    BY <1>0, <1>5, HandlerType
  <2>. QED
    BY <1>1, <1>5, <2>2, <2>3 DEF HeartBeatLate
<1>6. ASSUME NEW f \in Server, NEW from \in Server, NEW beyond \in BOOLEAN, AppendEntry(f, from, beyond)
      PROVE  SoleInv(e)'
  <2>1. 0 <= term[e]
    BY <1>0 DEF ElectionTypeOK
  <2>2. SoleEffect(e) /\ \A t \in Server \ {e} : pc'[t] = pc[t]
    BY <1>6, <2>1, SoleAppend DEF AppendEntry
  <2>3. ElectionTypeOK'
    BY <1>0, <1>6, HandlerType DEF EntryHandler
  <2>. QED
    BY <1>1, <1>6, <2>2, <2>3 DEF AppendEntry
<1>. QED
  BY <1>2, <1>3, <1>4, <1>5, <1>6 DEF ElectionNext, LateHandler, EntryHandler

(***************************************************************************)
(* If the election timer of one node only ever runs out, that node wins    *)
(* once and leads for ever: no handler, late request or heartbeat deposes  *)
(* it.                                                                     *)
(***************************************************************************)
THEOREM SoleElectorWinsOnce ==
    ASSUME NEW e \in Server, Electors \subseteq {e}
    PROVE  ElectionSpec => [](OneVictory /\ (leaders # {} => status[e] = "Leader"))
<1>1. ElectionInit => SoleInv(e)
  BY DEF ElectionInit, SoleInv, OneVictory
<1>2. ElectionInit => CoreInv
  BY InitCore
<1>3. CoreInv /\ [ElectionNext]_electionVars => CoreInv'
  BY CoreStep DEF RestartNext
<1>4. CoreInv /\ SoleInv(e) /\ [ElectionNext]_electionVars => SoleInv(e)'
  BY SoleStep
<1>5. SoleInv(e) => OneVictory /\ (leaders # {} => status[e] = "Leader")
  BY DEF SoleInv
<1>. QED
  BY <1>1, <1>2, <1>3, <1>4, <1>5, PTL DEF ElectionSpec

-----------------------------------------------------------------------------
(***************************************************************************)
(* Part 2. The cluster: refinement of Election, types, threads and logs.   *)
(***************************************************************************)

(***************************************************************************)
(* The inductive invariant.                                                *)
(***************************************************************************)

\* The apply thread is not ahead of commited_, nor behind the start of the log.
LogOK(l) ==
    /\ l \in Log
    /\ Index(l) <= MaxIndex
    /\ l.start <= l.last_append /\ l.last_append <= l.commited /\ l.commited <= MaxIndex

LogInv == log \in [Server -> Log] /\ \A s \in Server : LogOK(log[s])

\* A process starts from the commit index of the last clean stop, and the database
\* files of that stop are not ahead of it.
SavedInv ==
    \A s \in Server :
        /\ log[s].start = saved[s].commited
        /\ Len(saved[s].applied) <= saved[s].commited

ReqOK(req) == req \in AppendReq /\ req.index <= MaxIndex /\ req.commited <= MaxIndex

SyncType ==
    /\ nextindex \in [Server -> [Server -> Int]]
    /\ sync \in [Server -> [Server -> SyncState]]
    /\ sent \in [Server -> [Server -> AppendReq \cup {None}]]
    /\ lateAppend \subseteq AppendReq

\* Nothing past the end of the longest log is sent.
SyncInv ==
    /\ \A s, f \in Server :
          /\ nextindex[s][f] <= MaxIndex
          /\ sync[s][f] \in {"sending", "calling", "ok", "nak"} => nextindex[s][f] < MaxIndex
          /\ sync[s][f] = "calling" => ReqOK(sent[s][f])
    /\ \A req \in lateAppend : ReqOK(req)

\* Puts, databases and files are well typed, and a handler runs on a node.
RestType ==
    /\ applied \in [Server -> Seq(Payload)]
    /\ put \in [Value -> PutState]
    /\ polling \in [Server -> SUBSET Nat]
    /\ saved \in [Server -> [commited : Nat, applied : Seq(Payload)]]
    /\ \A v \in Value : put[v].stage \in {"checked", "waiting"} => put[v].node \in Server

PodInv ==
    /\ CoreInv
    /\ LogInv
    /\ SyncType /\ SyncInv /\ SyncOnlyWhileLeading
    /\ RestType /\ SavedInv /\ AppliedAtMostOnce

-----------------------------------------------------------------------------
(***************************************************************************)
(* What the operations of RaftLog do to a log.                             *)
(***************************************************************************)

\* m is l after operations that only add: entries, and progress of the indexes.
Grown(l, m) ==
    /\ m.start = l.start
    /\ m.last_append >= l.last_append
    /\ m.commited >= l.commited
    /\ Len(m.queue) >= Len(l.queue)
    /\ \A i \in 1..Len(l.queue) : m.queue[i] = l.queue[i]

\* A log that is not touched has grown by nothing.
LEMMA GrownReflexive ==
    ASSUME NEW l \in Log
    PROVE  Grown(l, l)
BY DEF Grown, Log

\* One growth after another is a growth.
LEMMA GrownTransitive ==
    ASSUME NEW k \in Log, NEW l \in Log, NEW m \in Log, Grown(k, l), Grown(l, m)
    PROVE  Grown(k, m)
BY DEF Grown, Log

\* A converted index is a natural, and a small one is not changed.
LEMMA SizeTType ==
    ASSUME NEW n \in Int
    PROVE  /\ SizeT(n) \in Nat
           /\ 0 <= n /\ n < SizeMod => SizeT(n) = n
BY CapacityAssumption DEF SizeT

\* UpdateCommit moves commited_ forward, never past the end of the log.
LEMMA UpdateCommitOK ==
    ASSUME NEW l, LogOK(l), NEW commit \in Nat
    PROVE  LogOK(UpdateCommit(l, commit)) /\ Grown(l, UpdateCommit(l, commit))
<1>. DEFINE m == UpdateCommit(l, commit)
<1>1. Len(l.queue) \in Nat /\ Index(l) \in Nat
  BY DEF LogOK, Log, Index
<1>2. PICK c \in Nat : m = [l EXCEPT !.commited = c] /\ c >= l.commited /\ c <= MaxIndex
  BY <1>1, BoundsAssumption DEF UpdateCommit, LogOK, Log
<1>. QED
  BY <1>1, <1>2 DEF LogOK, Grown, Log, Index

\* The leader's own append adds one entry, or none to a full ring buffer.
LEMMA PutLocalOK ==
    ASSUME NEW l, LogOK(l), NEW entry \in Entry, Index(l) < MaxIndex
    PROVE  LogOK(PutLocal(l, entry)) /\ Grown(l, PutLocal(l, entry))
<1>1. CASE ~ HasRoom(l)
  BY <1>1, GrownReflexive DEF PutLocal, LogOK
<1>2. CASE HasRoom(l)
  <2>. DEFINE q == Append(l.queue, entry)
  <2>1. /\ q \in Seq(Entry) /\ Len(q) = Len(l.queue) + 1 /\ Len(l.queue) \in Nat
        /\ \A i \in 1..Len(l.queue) : q[i] = l.queue[i]
    BY AppendProperties DEF LogOK, Log
  <2>2. PutLocal(l, entry) = [l EXCEPT !.queue = q]
    BY <1>2 DEF PutLocal
  <2>. HIDE DEF q
  <2>. QED
    BY <2>1, <2>2, BoundsAssumption, SMTT(30) DEF LogOK, Grown, Log, Index
<1>. QED
  BY <1>1, <1>2

\* An entry from the leader is added, and commited_ with it moves forward.
LEMMA PutEntryOK ==
    ASSUME NEW l, LogOK(l), NEW entry \in Entry, Index(l) < MaxIndex,
           NEW commited \in Nat, commited <= MaxIndex
    PROVE  LogOK(PutEntry(l, entry, commited)) /\ Grown(l, PutEntry(l, entry, commited))
<1>1. CASE ~ HasRoom(l)
  BY <1>1, GrownReflexive DEF PutEntry, LogOK
<1>2. CASE HasRoom(l)
  <2>. DEFINE q == Append(l.queue, entry)
              c == IF commited > l.commited THEN commited ELSE l.commited
  <2>1. /\ q \in Seq(Entry) /\ Len(q) = Len(l.queue) + 1 /\ Len(l.queue) \in Nat
        /\ \A i \in 1..Len(l.queue) : q[i] = l.queue[i]
    BY AppendProperties DEF LogOK, Log
  <2>2. c \in Nat /\ c >= l.commited /\ c <= MaxIndex
    BY DEF LogOK, Log
  <2>3. PutEntry(l, entry, commited) = [l EXCEPT !.queue = q, !.commited = c]
    BY <1>2 DEF PutEntry, LogOK, Log
  <2>. DEFINE m == PutEntry(l, entry, commited)
  <2>4. /\ m \in Log /\ m.queue = q /\ m.commited = c
        /\ m.start = l.start /\ m.last_append = l.last_append
    BY <2>1, <2>2, <2>3 DEF LogOK, Log
  <2>. HIDE DEF q, c, m
  <2>5. LogOK(m) /\ Grown(l, m)
    BY <2>1, <2>2, <2>4, BoundsAssumption DEF LogOK, Grown, Log, Index
  <2>. QED
    BY <2>5 DEF m
<1>. QED
  BY <1>1, <1>2

\* The entry At finds, in the ring buffer or outside of it, is an entry.
LEMMA AtType ==
    ASSUME NEW l \in Log, NEW index \in Int
    PROVE  At(l, index) \in Entry
<1>1. DefaultEntry \in Entry /\ WildEntry \in Entry
  BY DEF DefaultEntry, WildEntry, Entry, Payload
<1>. QED
  BY <1>1 DEF At, Slot, Log

\* Reset is never reached: a commit index of 0 is not above any other.
LEMMA ResetUnreached ==
    ASSUME NEW l, LogOK(l), NEW req
    PROVE  ResetLog(l, req) = l
BY DEF ResetLog, LeaderCommit, LogOK, Log

\* UpdateRaftLog appends the entry behind the last one, or does nothing.
LEMMA UpdateRaftLogOK ==
    ASSUME NEW l, LogOK(l), NEW req, ReqOK(req)
    PROVE  LogOK(UpdateRaftLog(l, req)) /\ Grown(l, UpdateRaftLog(l, req))
<1>1. ResetLog(l, req) = l /\ l \in Log
  BY ResetUnreached DEF LogOK
<1>2. CASE ~ Matches(l, req)
  BY <1>1, <1>2, GrownReflexive DEF UpdateRaftLog
<1>3. CASE Matches(l, req)
  <2>1. Index(l) \in Nat /\ req.index \in Int /\ req.index = Index(l) + 1
    BY <1>1, <1>3 DEF Matches, Index, Log, ReqOK, AppendReq
  <2>2. Index(l) < MaxIndex /\ req.entry \in Entry /\ req.commited \in Nat /\ req.commited <= MaxIndex
    BY <2>1, BoundsAssumption DEF ReqOK, AppendReq
  <2>3. UpdateRaftLog(l, req) = PutEntry(l, req.entry, req.commited)
    BY <1>1, <1>3 DEF UpdateRaftLog
  <2>. QED
    BY <2>2, <2>3, PutEntryOK
<1>. QED
  BY <1>2, <1>3

\* What the sync threads of s still do when they are stopped.
LEMMA StoppedLogOK ==
    ASSUME LogInv, SyncType, NEW s \in Server
    PROVE  LogOK(StoppedLog(s)) /\ Grown(log[s], StoppedLog(s))
<1>. DEFINE l == log[s]
            C == {l.commited} \cup {CommitCheck(l, s, f, nextindex[s]).commited : f \in InnerLoop(s)}
<1>1. LogOK(l) /\ l \in Log /\ l.commited \in Nat /\ l.commited <= MaxIndex
  BY DEF LogInv, LogOK, Log
<1>2. ASSUME NEW f \in InnerLoop(s)
      PROVE  LogOK(CommitCheck(l, s, f, nextindex[s]))
  <2>1. nextindex[s][f] \in Int
    BY FollowersAssumption DEF InnerLoop, SyncType
  <2>2. SizeT(nextindex[s][f]) \in Nat
    BY <2>1, SizeTType
  <2>. QED
    BY <1>1, <2>2, UpdateCommitOK DEF CommitCheck
<1>3. C \subseteq Nat /\ C # {} /\ \A c \in C : c <= MaxIndex
  BY <1>1, <1>2 DEF LogOK, Log
<1>4. Max(C) \in C /\ \A c \in C : c <= Max(C)
  BY <1>3, MaxOfBounded, BoundsAssumption
<1>5. Max(C) \in Nat /\ Max(C) <= MaxIndex /\ Max(C) >= l.commited
  BY <1>3, <1>4
<1>6. StoppedLog(s) = [l EXCEPT !.commited = Max(C)]
  BY <1>1 DEF StoppedLog, Log
<1>. HIDE DEF C
<1>. QED
  BY <1>1, <1>5, <1>6, BoundsAssumption DEF LogOK, Grown, Log, Index

\* A handler finds the log as it was, or as the stopped sync threads leave it.
LEMMA AfterStopOK ==
    ASSUME LogInv, SyncType, NEW s \in Server
    PROVE  LogOK(AfterStop(s)) /\ Grown(log[s], AfterStop(s))
BY StoppedLogOK, GrownReflexive DEF AfterStop, LogInv, LogOK

-----------------------------------------------------------------------------
(***************************************************************************)
(* Every step of the cluster is a step of the election or leaves it alone. *)
(***************************************************************************)

\* A request in the hands of a sync thread names two nodes.
LEMMA RequestNodes ==
    ASSUME NEW req, ReqOK(req)
    PROVE  req.from \in Server /\ req.to \in Server
BY DEF ReqOK, AppendReq

\* Every index the election reads of a log is within the bound of Election.
LEMMA IndexInRange ==
    ASSUME LogInv, NEW s \in Server
    PROVE  LogIndex(s) \in 0..MaxIndex /\ log[s].commited \in 0..MaxIndex
BY BoundsAssumption DEF LogInv, LogOK, Log, LogIndex, Index

\* A step of a running cluster.
LEMMA ElectionStep ==
    ASSUME PodInv, [PodNext]_podVars
    PROVE  [ElectionNext]_electionVars
<1>0. LogInv /\ SyncType /\ SyncInv /\ CoreInv
  BY DEF PodInv
<1>1. CASE UNCHANGED podVars
  BY <1>1 DEF podVars
<1>2. ASSUME NEW s \in Server, NodeStep(s) PROVE [ElectionNext]_electionVars
  <2>1. CASE PodTimer(s)
    BY <2>1 DEF PodTimer, ElectionNext, ElectionThread
  <2>2. ASSUME NEW f \in Server, PodVoteCall(s, f) PROVE ElectionNext
    BY <1>0, <2>2, IndexInRange DEF PodVoteCall, ElectionNext, ElectionThread
  <2>3. CASE PodVoteAbort(s)
    BY <2>3 DEF PodVoteAbort, ElectionNext, ElectionThread
  <2>4. CASE PodVoteAnswer(s)
    <3>1. call[s] \in VoteReq /\ call[s].to \in Server
      BY <1>0, <2>4 DEF PodVoteAnswer, CoreInv, CallInv, ElectionTypeOK, VoteReq
    <3>. QED
      BY <1>0, <2>4, <3>1, IndexInRange DEF PodVoteAnswer, ElectionNext, ElectionThread
  <2>5. CASE PodBecomeLeader(s)
    BY <2>5 DEF PodBecomeLeader, ElectionNext, ElectionThread
  <2>6. ASSUME NEW f \in Server, PodHeartBeat(s, f) \/ PodHeartBeatTimeout(s, f)
        PROVE  ElectionNext
    BY <1>0, <2>6, IndexInRange DEF PodHeartBeat, PodHeartBeatTimeout, ElectionNext, ElectionThread
  <2>7. CASE Apply(s) \/ ProbeReturn(s)
    BY <2>7 DEF Apply, ProbeReturn
  <2>. QED
    BY <1>2, <2>1, <2>2, <2>3, <2>4, <2>5, <2>6, <2>7 DEF NodeStep
<1>3. ASSUME NEW req, ReqOK(req), SolveAppend(req) PROVE ElectionNext
  <2>1. (req.index > LogIndex(req.to)) \in BOOLEAN
    OBVIOUS
  <2>. QED
    BY <1>3, <2>1, RequestNodes DEF SolveAppend, ElectionNext, EntryHandler
<1>4. ASSUME NEW s \in Server, NEW f \in Server, SyncStep(s, f)
      PROVE  [ElectionNext]_electionVars
  <2>1. CASE AppendAnswer(s, f)
    BY <1>0, <1>3, <2>1 DEF AppendAnswer, SyncInv
  <2>2. CASE SyncStart(s, f) \/ SyncSend(s, f) \/ SyncAnswer(s, f) \/ SyncTimeout(s, f)
    BY <2>2 DEF SyncStart, SyncSend, SyncAnswer, SyncTimeout
  <2>. QED
    BY <1>4, <2>1, <2>2 DEF SyncStep
<1>5. CASE LateStep
  <2>1. ASSUME NEW req \in lateVote, PodVoteLate(req) PROVE ElectionNext
    <3>1. req.to \in Server
      BY <1>0 DEF CoreInv, ElectionTypeOK, VoteReq
    <3>. QED
      BY <1>0, <2>1, <3>1, IndexInRange DEF PodVoteLate, ElectionNext, LateHandler
  <2>2. ASSUME NEW req \in lateBeat, PodHeartBeatLate(req) PROVE ElectionNext
    BY <2>2 DEF PodHeartBeatLate, ElectionNext, LateHandler
  <2>3. ASSUME NEW req \in lateAppend, AppendLate(req) PROVE ElectionNext
    BY <1>0, <1>3, <2>3 DEF AppendLate, SyncInv
  <2>. QED
    BY <1>5, <2>1, <2>2, <2>3 DEF LateStep
<1>6. ASSUME NEW v \in Value, ClientStep(v) PROVE UNCHANGED electionVars
  BY <1>6 DEF ClientStep, PutCheck, InnerPut, PutReturn
<1>. QED
  BY <1>1, <1>2, <1>4, <1>5, <1>6 DEF PodNext

\* The same with restarts.
LEMMA RestartElectionStep ==
    ASSUME PodInv, [PodRestartNext]_podVars
    PROVE  [RestartNext]_electionVars
<1>1. ASSUME NEW s \in Server, PodKill(s) \/ PodStop(s) \/ PodStopKilled(s)
      PROVE  ElectionRestart(s)
  BY <1>1 DEF PodKill, PodStop, PodStopKilled, Stopped
<1>. QED
  BY <1>1, ElectionStep DEF PodRestartNext, RestartNext

-----------------------------------------------------------------------------
(***************************************************************************)
(* No step of a running cluster takes anything out of a log.               *)
(***************************************************************************)
LogsGrow == LogInv' /\ \A s \in Server : Grown(log[s], log'[s])

\* A step that replaces one log by a grown one.
LEMMA OneLogGrows ==
    ASSUME LogInv, NEW f \in Server, NEW m, LogOK(m), Grown(log[f], m),
           log' = [log EXCEPT ![f] = m]
    PROVE  LogsGrow
BY GrownReflexive DEF LogsGrow, LogInv, LogOK

\* A step that touches no log.
LEMMA NoLogGrows ==
    ASSUME LogInv, log' = log
    PROVE  LogsGrow
BY GrownReflexive DEF LogsGrow, LogInv, LogOK

\* PutLocal on a node with room under the bound.
LEMMA LocalPutGrows ==
    ASSUME LogInv, CoreInv, NEW s \in Server, NEW val \in Payload, LogIndex(s) < MaxIndex,
           log' = [log EXCEPT ![s] = PutLocal(@, [val |-> val, term |-> term[s]])]
    PROVE  LogsGrow
<1>1. [val |-> val, term |-> term[s]] \in Entry
  BY DEF CoreInv, ElectionTypeOK, Entry
<1>2. LogOK(log[s]) /\ Index(log[s]) < MaxIndex
  BY DEF LogInv, LogIndex
<1>3. log' = [log EXCEPT ![s] = PutLocal(log[s], [val |-> val, term |-> term[s]])]
  BY DEF LogInv
<1>. QED
  BY <1>1, <1>2, <1>3, PutLocalOK, OneLogGrows

\* The handler of an Append with an entry.
LEMMA SolveAppendGrows ==
    ASSUME LogInv, SyncType, NEW req, ReqOK(req), SolveAppend(req)
    PROVE  LogsGrow
<1>. DEFINE f == req.to
            l == AfterStop(f)
            m == UpdateCommit(l, LeaderCommit(req))
            r == UpdateRaftLog(m, req)
<1>1. f \in Server /\ LogOK(l) /\ Grown(log[f], l)
  BY RequestNodes, AfterStopOK
<1>2. LogOK(m) /\ Grown(l, m)
  BY <1>1, UpdateCommitOK DEF LeaderCommit
<1>3. LogOK(r) /\ Grown(m, r)
  BY <1>2, UpdateRaftLogOK
<1>4. Grown(log[f], r)
  BY <1>1, <1>2, <1>3, GrownTransitive DEF LogOK, LogInv
<1>5. log' = [log EXCEPT ![f] = r]
  BY DEF SolveAppend
<1>. QED
  BY <1>1, <1>3, <1>4, <1>5, OneLogGrows

\* A handler that may have stopped the sync threads of f takes over a commit index.
LEMMA HeartBeatGrows ==
    ASSUME LogInv, SyncType, NEW f \in Server, NEW commit \in Nat,
           log' = [log EXCEPT ![f] = UpdateCommit(AfterStop(f), commit)]
    PROVE  LogsGrow
<1>1. LogOK(AfterStop(f)) /\ Grown(log[f], AfterStop(f))
  BY AfterStopOK
<1>2. LogOK(UpdateCommit(AfterStop(f), commit))
      /\ Grown(AfterStop(f), UpdateCommit(AfterStop(f), commit))
  BY <1>1, UpdateCommitOK
<1>3. Grown(log[f], UpdateCommit(AfterStop(f), commit))
  BY <1>1, <1>2, GrownTransitive DEF LogOK, LogInv
<1>. QED
  BY <1>2, <1>3, OneLogGrows

\* A probe that reaches a leader is appended like a write.
LEMMA PutTestGrows ==
    ASSUME LogInv, CoreInv, NEW f \in Server, PutTest(f)
    PROVE  LogsGrow
<1>1. Empty \in Payload
  BY DEF Payload
<1>. QED
  BY <1>1, LocalPutGrows DEF PutTest

\* Every log grows or stays in every step of a running cluster.
LEMMA LogStep ==
    ASSUME PodInv, PodNext
    PROVE  LogsGrow
<1>0. LogInv /\ SyncType /\ SyncInv /\ CoreInv /\ RestType
  BY DEF PodInv
<1>1. ASSUME NEW s \in Server, NodeStep(s) PROVE LogsGrow
  <2>1. CASE PodTimer(s) \/ PodBecomeLeader(s) \/ ProbeReturn(s)
    BY <1>0, <2>1, NoLogGrows DEF PodTimer, PodBecomeLeader, ProbeReturn, logVars
  <2>2. ASSUME NEW f \in Server, PodVoteCall(s, f) PROVE LogsGrow
    BY <1>0, <2>2, NoLogGrows, PutTestGrows DEF PodVoteCall, NoProbe
  <2>3. CASE PodVoteAbort(s)
    <3>1. left[s] \subseteq Server
      BY <1>0 DEF CoreInv, ElectionTypeOK
    <3>. QED
      BY <1>0, <2>3, <3>1, NoLogGrows, PutTestGrows DEF PodVoteAbort, NoProbe
  <2>4. CASE PodVoteAnswer(s)
    <3>1. call[s].to \in Server
      BY <1>0, <2>4 DEF PodVoteAnswer, CoreInv, CallInv, ElectionTypeOK, VoteReq
    <3>. QED
      BY <1>0, <2>4, <3>1, AfterStopOK, OneLogGrows DEF PodVoteAnswer
  <2>5. ASSUME NEW f \in Server, PodHeartBeat(s, f) PROVE LogsGrow
    <3>1. log[s].commited \in Nat
      BY <1>0 DEF LogInv, Log
    <3>. QED
      BY <1>0, <2>5, <3>1, HeartBeatGrows DEF PodHeartBeat
  <2>6. ASSUME NEW f \in Server, PodHeartBeatTimeout(s, f) PROVE LogsGrow
    BY <1>0, <2>6, NoLogGrows DEF PodHeartBeatTimeout, logVars
  <2>7. CASE Apply(s)
    <3>1. LogOK(Applied(log[s])) /\ Grown(log[s], Applied(log[s]))
      BY <1>0, <2>7, SMTT(30) DEF Apply, CanApply, Applied, LogInv, LogOK, Grown, Log, Index
    <3>2. log' = [log EXCEPT ![s] = Applied(log[s])]
      BY <1>0, <2>7 DEF Apply, LogInv
    <3>. QED
      BY <1>0, <3>1, <3>2, OneLogGrows
  <2>. QED
    BY <1>1, <2>1, <2>2, <2>3, <2>4, <2>5, <2>6, <2>7 DEF NodeStep
<1>2. ASSUME NEW s \in Server, NEW f \in Server, SyncStep(s, f) PROVE LogsGrow
  <2>1. CASE SyncStart(s, f) \/ SyncSend(s, f) \/ SyncTimeout(s, f)
    BY <1>0, <2>1, NoLogGrows DEF SyncStart, SyncSend, SyncTimeout, logVars
  <2>2. CASE SyncAnswer(s, f) /\ sync[s][f] = "nak"
    BY <1>0, <2>2, NoLogGrows DEF SyncAnswer
  <2>3. CASE SyncAnswer(s, f) /\ sync[s][f] = "ok"
    <3>. DEFINE m == CommitCheck(log[s], s, f, nextindex'[s])
    <3>1. nextindex'[s][f] \in Int
      BY <1>0, <2>3 DEF SyncAnswer, SyncType
    <3>2. SizeT(nextindex'[s][f]) \in Nat
      BY <3>1, SizeTType
    <3>3. LogOK(log[s]) /\ log[s] \in Log
      BY <1>0 DEF LogInv
    <3>4. LogOK(m) /\ Grown(log[s], m)
      BY <3>2, <3>3, UpdateCommitOK, GrownReflexive DEF CommitCheck
    <3>5. log' = [log EXCEPT ![s] = m]
      BY <1>0, <2>3 DEF SyncAnswer, LogInv
    <3>. QED
      BY <1>0, <3>4, <3>5, OneLogGrows
  <2>4. CASE AppendAnswer(s, f)
    BY <1>0, <2>4, SolveAppendGrows DEF AppendAnswer, SyncInv
  <2>. QED
    BY <1>2, <2>1, <2>2, <2>3, <2>4 DEF SyncStep, SyncAnswer
<1>3. CASE LateStep
  <2>1. ASSUME NEW req \in lateVote, PodVoteLate(req) PROVE LogsGrow
    <3>1. req.to \in Server
      BY <1>0 DEF CoreInv, ElectionTypeOK, VoteReq
    <3>. QED
      BY <1>0, <2>1, <3>1, AfterStopOK, OneLogGrows DEF PodVoteLate
  <2>2. ASSUME NEW req \in lateBeat, PodHeartBeatLate(req) PROVE LogsGrow
    <3>1. req.to \in Server /\ req.commited \in Nat
      BY <1>0 DEF CoreInv, ElectionTypeOK, BeatReq
    <3>. QED
      BY <1>0, <2>2, <3>1, HeartBeatGrows DEF PodHeartBeatLate
  <2>3. ASSUME NEW req \in lateAppend, AppendLate(req) PROVE LogsGrow
    BY <1>0, <2>3, SolveAppendGrows DEF AppendLate, SyncInv
  <2>. QED
    BY <1>3, <2>1, <2>2, <2>3 DEF LateStep
<1>4. ASSUME NEW v \in Value, ClientStep(v) PROVE LogsGrow
  <2>1. CASE PutReturn(v) \/ \E s \in Server : PutCheck(v, s)
    BY <1>0, <2>1, NoLogGrows DEF PutReturn, PutCheck, logVars
  <2>2. CASE InnerPut(v)
    <3>1. put[v].node \in Server /\ v \in Payload
      BY <1>0, <2>2 DEF InnerPut, RestType, Payload
    <3>. QED
      BY <1>0, <2>2, <3>1, LocalPutGrows DEF InnerPut
  <2>. QED
    BY <1>4, <2>1, <2>2 DEF ClientStep
<1>. QED
  BY <1>1, <1>2, <1>3, <1>4 DEF PodNext

-----------------------------------------------------------------------------
(***************************************************************************)
(* The sync threads.                                                       *)
(***************************************************************************)
SyncPart == SyncType /\ SyncInv /\ SyncOnlyWhileLeading

\* A step without effect on the sync threads that leaves the leaders leaders.
LEMMA SyncUntouched ==
    ASSUME SyncPart, UNCHANGED syncVars,
           \A s \in Server : status[s] = "Leader" => status'[s] = "Leader"
    PROVE  SyncPart'
BY DEF SyncPart, SyncType, SyncInv, SyncOnlyWhileLeading, syncVars

\* A handler on v that may make v a follower stops the threads of v.
LEMMA StopThreadsKeeps ==
    ASSUME SyncPart, NEW v \in Server, StopThreads(v),
           \A s \in Server \ {v} : status'[s] = status[s]
    PROVE  SyncPart'
<1>1. CASE ~ StepsDown(v)
  <2>1. \A s \in Server : status[s] = "Leader" => status'[s] = "Leader"
    BY <1>1 DEF StepsDown
  <2>. QED
    BY <1>1, <2>1, SyncUntouched DEF StopThreads
<1>2. CASE StepsDown(v)
  <2>1. /\ sync' = [sync EXCEPT ![v] = [f \in Server |-> "off"]]
        /\ sent' = [sent EXCEPT ![v] = [f \in Server |-> None]]
        /\ nextindex' = nextindex
    BY <1>2 DEF StopThreads
  <2>2. PICK kept \in SUBSET Orphans(v) : lateAppend' = lateAppend \cup kept
    BY <1>2 DEF StopThreads
  <2>3. \A req \in kept : ReqOK(req)
    BY DEF Orphans, SyncPart, SyncInv
  <2>4. SyncType'
    BY <2>1, <2>2, <2>3 DEF SyncPart, SyncType, ReqOK, SyncState
  <2>5. SyncInv'
    BY <2>1, <2>2, <2>3 DEF SyncPart, SyncType, SyncInv
  <2>6. SyncOnlyWhileLeading'
    BY <2>1 DEF SyncPart, SyncType, SyncOnlyWhileLeading
  <2>. QED
    BY <2>4, <2>5, <2>6 DEF SyncPart
<1>. QED
  BY <1>1, <1>2

\* An entry request carries term 0 and makes no leader a follower.
LEMMA EntryKeepsLeaders ==
    ASSUME CoreInv, NEW req, ReqOK(req), SolveAppend(req)
    PROVE  \A s \in Server : status[s] = "Leader" => status'[s] = "Leader"
<1>. DEFINE f == req.to
            beyond == req.index > LogIndex(f)
<1>1. f \in Server /\ term[f] \in Nat
  BY RequestNodes DEF CoreInv, ElectionTypeOK
<1>2. PICK n \in Moments(f) :
        \/ status' = status
        \/ Adopts(f, 0, beyond, n) /\ status' = [status EXCEPT ![f] = "Follower"]
  BY DEF SolveAppend, AppendEntry, SolveAppendTerm
<1>3. ASSUME Adopts(f, 0, beyond, n) PROVE status[f] # "Leader"
  <2>1. term[f] = 0
    BY <1>1, <1>3, Reads DEF Adopts
  <2>. QED
    BY <1>1, <2>1 DEF CoreInv, LeaderTermInv
<1>. QED
  BY <1>1, <1>2, <1>3 DEF CoreInv, ElectionTypeOK

\* The steps of a sync thread itself: s keeps its status.
LEMMA SyncStepKeeps ==
    ASSUME PodInv, NEW s \in Server, NEW f \in Server,
           SyncStart(s, f) \/ SyncSend(s, f) \/ SyncAnswer(s, f) \/ SyncTimeout(s, f)
    PROVE  SyncPart'
<1>. USE DEF PodInv, SyncType
<1>0. status' = status /\ status[s] = "Leader"
  BY DEF SyncStart, SyncSend, SyncAnswer, SyncTimeout, electionVars, votingVars,
         SyncOnlyWhileLeading
<1>1. CASE SyncStart(s, f)
  <2>1. nextindex[s][f] \in Int /\ nextindex[s][f] <= MaxIndex
    BY DEF SyncInv
  <2>2. LogIndex(s) \in 0..MaxIndex
    BY IndexInRange
  <2>3. nextindex[s][f] < MaxIndex
    BY <1>1, <2>1, <2>2, SizeTType, IndexAssumption, BoundsAssumption, CapacityAssumption
       DEF SyncStart
  <2>4. /\ sync' = [sync EXCEPT ![s][f] = "sending"]
        /\ UNCHANGED <<nextindex, sent, lateAppend>>
    BY <1>1 DEF SyncStart, SyncTo
  <2>. QED
    BY <1>0, <2>3, <2>4 DEF SyncPart, SyncInv, SyncOnlyWhileLeading, SyncState
<1>2. CASE SyncSend(s, f)
  <2>. DEFINE req == [from |-> s, to |-> f, entry |-> At(log[s], nextindex[s][f] + 1),
                      index |-> nextindex[s][f] + 1, commited |-> log[s].commited]
  <2>1. nextindex[s][f] \in Int /\ nextindex[s][f] < MaxIndex
    BY <1>2 DEF SyncSend, SyncInv
  <2>2. log[s] \in Log /\ log[s].commited \in Nat /\ log[s].commited <= MaxIndex
    BY DEF LogInv, LogOK, Log
  <2>3. At(log[s], nextindex[s][f] + 1) \in Entry
    BY <2>1, <2>2, AtType
  <2>4. req \in AppendReq
    BY <2>1, <2>2, <2>3 DEF AppendReq
  <2>5. ReqOK(req)
    BY <2>1, <2>2, <2>4, BoundsAssumption DEF ReqOK
  <2>6. /\ sync' = [sync EXCEPT ![s][f] = "calling"]
        /\ sent' = [sent EXCEPT ![s][f] = req]
        /\ UNCHANGED <<nextindex, lateAppend>>
    BY <1>2 DEF SyncSend, SyncTo
  <2>. HIDE DEF req
  <2>7. SyncType'
    BY <2>4, <2>6 DEF SyncState
  <2>8. SyncInv'
    BY <2>1, <2>5, <2>6 DEF SyncInv
  <2>. QED
    BY <1>0, <2>6, <2>7, <2>8 DEF SyncPart, SyncOnlyWhileLeading
<1>3. CASE SyncAnswer(s, f)
  <2>1. nextindex[s][f] \in Int /\ nextindex[s][f] < MaxIndex
    BY <1>3 DEF SyncAnswer, SyncInv
  <2>2. PICK d \in {1, -1} :
          /\ nextindex' = [nextindex EXCEPT ![s][f] = @ + d]
          /\ sync' = [sync EXCEPT ![s][f] = IF d = 1 THEN "idle" ELSE "sending"]
    BY <1>3, <2>1 DEF SyncAnswer, SyncTo
  <2>3. UNCHANGED <<sent, lateAppend>>
    BY <1>3 DEF SyncAnswer
  <2>4. SyncType'
    BY <2>1, <2>2, <2>3 DEF SyncState
  <2>5. SyncInv'
    BY <2>1, <2>2, <2>3, BoundsAssumption DEF SyncInv
  <2>. QED
    BY <1>0, <2>2, <2>4, <2>5 DEF SyncPart, SyncOnlyWhileLeading
<1>4. CASE SyncTimeout(s, f)
  <2>1. /\ sync[s][f] \in {"calling", "ok", "nak"}
        /\ sync' = [sync EXCEPT ![s][f] = "sending"]
        /\ sent' = [sent EXCEPT ![s][f] = None]
        /\ nextindex' = nextindex
    BY <1>4 DEF SyncTimeout, SyncTo
  <2>2. \A req \in lateAppend' : ReqOK(req)
    <3>1. CASE lateAppend' = lateAppend
      BY <3>1 DEF SyncInv
    <3>2. CASE /\ sync[s][f] = "calling"
               /\ lateAppend' \in Abandoned(lateAppend, MaxLateAppend, sent[s][f])
      BY <3>2, AbandonedBound DEF SyncInv
    <3>. QED
      BY <1>4, <3>1, <3>2 DEF SyncTimeout
  <2>3. SyncType'
    BY <2>1, <2>2 DEF SyncState, ReqOK
  <2>4. SyncInv'
    BY <2>1, <2>2 DEF SyncInv
  <2>. QED
    BY <1>0, <2>1, <2>3, <2>4 DEF SyncPart, SyncOnlyWhileLeading
<1>. QED
  BY <1>1, <1>2, <1>3, <1>4

\* Every step of a running cluster keeps the sync threads in order.
LEMMA SyncKeeps ==
    ASSUME PodInv, PodNext
    PROVE  SyncPart'
<1>0. LogInv /\ SyncPart /\ CoreInv
  BY DEF PodInv, SyncPart
<1>1. ASSUME UNCHANGED syncVars, UNCHANGED status PROVE SyncPart'
  BY <1>0, <1>1, SyncUntouched
<1>2. ASSUME NEW s \in Server, NodeStep(s) PROVE SyncPart'
  <2>1. CASE PodTimer(s)
    <3>1. \A t \in Server : status[t] = "Leader" => status'[t] = "Leader"
      BY <1>0, <2>1 DEF PodTimer, NotTimedOut, ElectionTimeout, RequestVote, VoteTimeout,
         LoseElection, BeatStart, BeatDone, electionVars, votingVars, CoreInv, ElectionTypeOK
    <3>. QED
      BY <1>0, <2>1, <3>1, SyncUntouched DEF PodTimer
  <2>2. CASE (\E f \in Server : PodVoteCall(s, f) \/ PodHeartBeatTimeout(s, f)) \/ PodVoteAbort(s)
    BY <1>1, <2>2 DEF PodVoteCall, PodVoteAbort, PodHeartBeatTimeout, VoteCall, VoteAbort,
       HeartBeatTimeout, votingVars
  <2>3. CASE PodVoteAnswer(s)
    <3>1. call[s] \in VoteReq /\ call[s].to \in Server
      BY <1>0, <2>3 DEF PodVoteAnswer, CoreInv, CallInv, ElectionTypeOK, VoteReq
    <3>2. \E n \in Moments(call[s].to) : HandlerEffect(call[s].to, n)
      BY <1>0, <2>3, <3>1, VoteMoves DEF PodVoteAnswer, VoteAnswer, CoreInv
    <3>. QED
      BY <1>0, <2>3, <3>1, <3>2, StopThreadsKeeps DEF PodVoteAnswer, HandlerEffect
  <2>4. CASE PodBecomeLeader(s)
    <3>1. /\ status' = [status EXCEPT ![s] = "Leader"] /\ status \in [Server -> PodStatus]
          /\ log[s].commited \in Nat /\ log[s].commited <= MaxIndex
      BY <1>0, <2>4 DEF PodBecomeLeader, BecomeLeader, CoreInv, ElectionTypeOK, LogInv, LogOK, Log
    <3>2. /\ nextindex' = [nextindex EXCEPT ![s] =
                 [f \in Server |-> IF f \in Followers[s] THEN log[s].commited ELSE nextindex[s][f]]]
          /\ sync' = [sync EXCEPT ![s] = [f \in Server |-> IF f \in Followers[s] THEN "idle" ELSE "off"]]
          /\ UNCHANGED <<sent, lateAppend>>
      BY <1>0, <2>4 DEF PodBecomeLeader, SyncPart, SyncType
    <3>3. SyncType'
      BY <1>0, <3>1, <3>2 DEF SyncPart, SyncType, SyncState
    <3>4. SyncInv'
      BY <1>0, <3>1, <3>2 DEF SyncPart, SyncType, SyncInv
    <3>5. SyncOnlyWhileLeading'
      BY <1>0, <3>1, <3>2 DEF SyncPart, SyncType, SyncOnlyWhileLeading
    <3>. QED
      BY <3>3, <3>4, <3>5 DEF SyncPart
  <2>5. ASSUME NEW f \in Server, PodHeartBeat(s, f) PROVE SyncPart'
    <3>1. \E n \in Moments(f) : HandlerEffect(f, n)
      BY <1>0, <2>5, AppendMoves DEF PodHeartBeat, SendHeartBeat, BeatTo, CoreInv, ElectionTypeOK
    <3>. QED
      BY <1>0, <2>5, <3>1, StopThreadsKeeps DEF PodHeartBeat, HandlerEffect
  <2>6. CASE Apply(s) \/ ProbeReturn(s)
    BY <1>1, <2>6 DEF Apply, ProbeReturn, electionVars, votingVars
  <2>. QED
    BY <1>2, <2>1, <2>2, <2>3, <2>4, <2>5, <2>6 DEF NodeStep
<1>3. ASSUME NEW s \in Server, NEW f \in Server, SyncStep(s, f) PROVE SyncPart'
  <2>1. CASE AppendAnswer(s, f)
    <3>1. \A t \in Server : status[t] = "Leader" => status'[t] = "Leader"
      BY <1>0, <2>1, EntryKeepsLeaders DEF AppendAnswer, SyncPart, SyncInv
    <3>2. PICK state \in {"ok", "nak"} :
            /\ sync[s][f] = "calling"
            /\ sync' = [sync EXCEPT ![s][f] = state]
            /\ sent' = [sent EXCEPT ![s][f] = None]
            /\ UNCHANGED <<nextindex, lateAppend>>
      BY <2>1 DEF AppendAnswer, SyncTo
    <3>3. SyncType'
      BY <1>0, <3>2 DEF SyncPart, SyncType, SyncState
    <3>4. SyncInv'
      BY <1>0, <3>2 DEF SyncPart, SyncType, SyncInv
    <3>5. SyncOnlyWhileLeading'
      BY <1>0, <3>1, <3>2 DEF SyncPart, SyncType, SyncOnlyWhileLeading
    <3>. QED
      BY <3>3, <3>4, <3>5 DEF SyncPart
  <2>. QED
    BY <1>3, <2>1, SyncStepKeeps DEF SyncStep
<1>4. CASE LateStep
  <2>1. ASSUME NEW req \in lateVote, PodVoteLate(req) PROVE SyncPart'
    <3>1. req \in VoteReq /\ req.to \in Server
      BY <1>0 DEF CoreInv, ElectionTypeOK, VoteReq
    <3>2. \E n \in Moments(req.to) : HandlerEffect(req.to, n)
      BY <1>0, <2>1, <3>1, VoteMoves DEF PodVoteLate, VoteLate, CoreInv
    <3>. QED
      BY <1>0, <2>1, <3>1, <3>2, StopThreadsKeeps DEF PodVoteLate, HandlerEffect
  <2>2. ASSUME NEW req \in lateBeat, PodHeartBeatLate(req) PROVE SyncPart'
    <3>1. req.to \in Server /\ req.term \in Nat
      BY <1>0 DEF CoreInv, ElectionTypeOK, BeatReq
    <3>2. \E n \in Moments(req.to) : HandlerEffect(req.to, n)
      BY <1>0, <2>2, <3>1, AppendMoves DEF PodHeartBeatLate, HeartBeatLate, CoreInv
    <3>. QED
      BY <1>0, <2>2, <3>1, <3>2, StopThreadsKeeps DEF PodHeartBeatLate, HandlerEffect
  <2>3. ASSUME NEW req \in lateAppend, AppendLate(req) PROVE SyncPart'
    <3>1. \A t \in Server : status[t] = "Leader" => status'[t] = "Leader"
      BY <1>0, <2>3, EntryKeepsLeaders DEF AppendLate, SyncPart, SyncInv
    <3>. QED
      BY <1>0, <2>3, <3>1 DEF AppendLate, SyncPart, SyncType, SyncInv, SyncOnlyWhileLeading
  <2>. QED
    BY <1>4, <2>1, <2>2, <2>3 DEF LateStep
<1>5. ASSUME NEW v \in Value, ClientStep(v) PROVE SyncPart'
  BY <1>1, <1>5 DEF ClientStep, PutCheck, InnerPut, PutReturn, electionVars, votingVars
<1>. QED
  BY <1>2, <1>3, <1>4, <1>5 DEF PodNext

-----------------------------------------------------------------------------
(***************************************************************************)
(* Databases, files and client writes.                                     *)
(***************************************************************************)
RestPart == RestType /\ SavedInv /\ AppliedAtMostOnce

\* A running cluster never writes raft_log_meta, and only its apply threads write
\* to the databases.
LEMMA OnlyApplyApplies ==
    ASSUME PodNext
    PROVE  saved' = saved /\ (applied' = applied \/ \E s \in Server : Apply(s))
<1>1. ASSUME NEW s \in Server, NodeStep(s)
      PROVE  saved' = saved /\ (applied' = applied \/ Apply(s))
  BY <1>1 DEF NodeStep, PodTimer, PodVoteCall, PodVoteAbort, PodVoteAnswer, PodBecomeLeader,
     PodHeartBeat, PodHeartBeatTimeout, Apply, ProbeReturn, logVars
<1>2. ASSUME NEW s \in Server, NEW f \in Server, SyncStep(s, f)
      PROVE  saved' = saved /\ applied' = applied
  BY <1>2 DEF SyncStep, SyncStart, SyncSend, SyncAnswer, SyncTimeout, AppendAnswer, logVars
<1>3. ASSUME LateStep PROVE saved' = saved /\ applied' = applied
  BY <1>3 DEF LateStep, PodVoteLate, PodHeartBeatLate, AppendLate, logVars
<1>4. ASSUME NEW v \in Value, ClientStep(v) PROVE saved' = saved /\ applied' = applied
  BY <1>4 DEF ClientStep, PutCheck, InnerPut, PutReturn, logVars
<1>. QED
  BY <1>1, <1>2, <1>3, <1>4 DEF PodNext

\* Only clients move the writes, and probes and their handlers the polled indexes.
LEMMA HandlersTyped ==
    ASSUME PodInv, PodNext
    PROVE  /\ put' \in [Value -> PutState] /\ polling' \in [Server -> SUBSET Nat]
           /\ \A v \in Value : put'[v].stage \in {"checked", "waiting"} => put'[v].node \in Server
<1>. DEFINE PutOK == /\ put' \in [Value -> PutState]
                     /\ \A v \in Value : put'[v].stage \in {"checked", "waiting"} => put'[v].node \in Server
            PollOK == polling' \in [Server -> SUBSET Nat]
<1>0. LogInv /\ RestType /\ CoreInv
  BY DEF PodInv
<1>1. put' = put => PutOK
  BY <1>0 DEF RestType
<1>2. polling' = polling => PollOK
  BY <1>0 DEF RestType
<1>3. ASSUME NEW f \in Server, PutTest(f) PROVE PollOK
  <2>1. LogIndex(f) + 1 \in Nat
    BY <1>0, IndexInRange
  <2>. QED
    BY <1>0, <1>3, <2>1 DEF PutTest, RestType
<1>4. ASSUME NEW s \in Server, NodeStep(s) PROVE PutOK /\ PollOK
  <2>1. put' = put
    BY <1>4 DEF NodeStep, PodTimer, PodVoteCall, PodVoteAbort, PodVoteAnswer, PodBecomeLeader,
       PodHeartBeat, PodHeartBeatTimeout, Apply, ProbeReturn
  <2>2. CASE \E f \in Server : PodVoteCall(s, f)
    BY <1>1, <1>2, <1>3, <2>1, <2>2 DEF PodVoteCall, NoProbe
  <2>3. CASE PodVoteAbort(s)
    <3>1. left[s] \subseteq Server
      BY <1>0 DEF CoreInv, ElectionTypeOK
    <3>. QED
      BY <1>1, <1>2, <1>3, <2>1, <2>3, <3>1 DEF PodVoteAbort, NoProbe
  <2>4. CASE ProbeReturn(s)
    BY <1>0, <1>1, <2>1, <2>4 DEF ProbeReturn, RestType
  <2>5. ASSUME PodTimer(s) \/ PodVoteAnswer(s) \/ PodBecomeLeader(s) \/ Apply(s)
                \/ \E f \in Server : PodHeartBeat(s, f) \/ PodHeartBeatTimeout(s, f)
        PROVE  polling' = polling
    BY <2>5 DEF PodTimer, PodVoteAnswer, PodBecomeLeader, PodHeartBeat, PodHeartBeatTimeout, Apply
  <2>. HIDE DEF PutOK, PollOK
  <2>. QED
    BY <1>1, <1>2, <1>4, <2>1, <2>2, <2>3, <2>4, <2>5 DEF NodeStep
<1>5. ASSUME LateStep \/ \E s, f \in Server : SyncStep(s, f)
      PROVE  UNCHANGED <<put, polling>>
  BY <1>5 DEF LateStep, PodVoteLate, PodHeartBeatLate, AppendLate, SyncStep, SyncStart,
     SyncSend, SyncAnswer, SyncTimeout, AppendAnswer
<1>6. ASSUME NEW v \in Value, ClientStep(v) PROVE PutOK /\ PollOK
  <2>1. polling' = polling
    BY <1>6 DEF ClientStep, PutCheck, InnerPut, PutReturn
  <2>2. PICK p \in PutState : /\ put' = [put EXCEPT ![v] = p]
                              /\ p.stage \in {"checked", "waiting"} => p.node \in Server
    <3>1. ASSUME NEW s \in Server, PutCheck(v, s)
          PROVE  /\ [stage |-> "checked", node |-> s, index |-> 0] \in PutState
                 /\ put' = [put EXCEPT ![v] = [stage |-> "checked", node |-> s, index |-> 0]]
      BY <3>1 DEF PutCheck, PutTo, PutState
    <3>2. CASE InnerPut(v)
      <4>. DEFINE s == put[v].node
                  room == [stage |-> "waiting", node |-> s, index |-> LogIndex(s) + 1]
                  full == [stage |-> "failed", node |-> s, index |-> 0]
      <4>1. s \in Server
        BY <1>0, <3>2 DEF InnerPut, RestType
      <4>2. LogIndex(s) + 1 \in Nat
        BY <1>0, <4>1, IndexInRange
      <4>3. room \in PutState /\ full \in PutState
        BY <4>1, <4>2 DEF PutState
      <4>4. put' = [put EXCEPT ![v] = room] \/ put' = [put EXCEPT ![v] = full]
        BY <3>2 DEF InnerPut, PutTo
      <4>. QED
        BY <4>1, <4>3, <4>4
    <3>3. CASE PutReturn(v)
      <4>1. put[v] \in PutState
        BY <1>0 DEF RestType
      <4>2. [put[v] EXCEPT !.stage = "acked"] \in PutState
        BY <4>1 DEF PutState
      <4>3. [put[v] EXCEPT !.stage = "acked"].stage = "acked"
        BY <4>1 DEF PutState
      <4>. QED
        BY <3>3, <4>2, <4>3 DEF PutReturn, PutTo
    <3>. QED
      BY <1>6, <3>1, <3>2, <3>3 DEF ClientStep
  <2>. QED
    BY <1>0, <1>2, <2>1, <2>2 DEF RestType
<1>. HIDE DEF PutOK, PollOK
<1>7. PutOK /\ PollOK
  BY <1>1, <1>2, <1>4, <1>5, <1>6 DEF PodNext
<1>. QED
  BY <1>7 DEF PutOK, PollOK

\* A step of a running cluster keeps files, databases and handlers in order.
LEMMA RestKeeps ==
    ASSUME PodInv, PodNext
    PROVE  RestPart'
<1>0. LogInv /\ RestType /\ SavedInv /\ AppliedAtMostOnce
  BY DEF PodInv
<1>1. LogInv' /\ \A s \in Server : Grown(log[s], log'[s])
  BY LogStep DEF LogsGrow
<1>2. saved' = saved
  BY OnlyApplyApplies
<1>3. \A s \in Server : /\ log'[s].start = log[s].start
                        /\ log'[s].last_append >= log[s].last_append
                        /\ log'[s].last_append \in Nat /\ log[s].last_append \in Nat
  BY <1>0, <1>1 DEF Grown, LogInv, Log
<1>4. applied' \in [Server -> Seq(Payload)] /\ AppliedAtMostOnce'
  <2>0. \A t \in Server : Len(applied[t]) \in Nat
    BY <1>0 DEF RestType
  <2>1. CASE applied' = applied
    <3>1. applied' \in [Server -> Seq(Payload)]
      BY <1>0, <2>1 DEF RestType
    <3>2. ASSUME NEW t \in Server PROVE Len(applied'[t]) <= log'[t].last_append
      <4>1. Len(applied[t]) <= log[t].last_append
        BY <1>0 DEF AppliedAtMostOnce
      <4>. QED
        BY <1>3, <2>0, <2>1, <4>1
    <3>. QED
      BY <3>1, <3>2 DEF AppliedAtMostOnce
  <2>2. ASSUME NEW s \in Server, Apply(s)
        PROVE  applied' \in [Server -> Seq(Payload)] /\ AppliedAtMostOnce'
    <3>. DEFINE w == NextApplied(log[s]).val
    <3>1. log[s] \in Log /\ applied[s] \in Seq(Payload) /\ log[s].last_append \in Nat
      BY <1>0 DEF LogInv, RestType, Log
    <3>2. NextApplied(log[s]) = At(log[s], log[s].last_append + 1)
      BY <3>1 DEF NextApplied, At, Log
    <3>3. w \in Payload
      BY <3>1, <3>2, AtType DEF Entry
    <3>. HIDE DEF w
    <3>4. Append(applied[s], w) \in Seq(Payload) /\ Len(Append(applied[s], w)) = Len(applied[s]) + 1
      BY <3>1, <3>3
    <3>5. applied' = [applied EXCEPT ![s] = Append(applied[s], w)]
      BY <1>0, <2>2 DEF Apply, RestType, w
    <3>6. log'[s].last_append = log[s].last_append + 1
      BY <1>0, <2>2, <3>1 DEF Apply, Applied, LogInv, Log
    <3>. QED
      BY <1>0, <1>3, <2>0, <3>4, <3>5, <3>6 DEF RestType, AppliedAtMostOnce
  <2>. QED
    BY <2>1, <2>2, OnlyApplyApplies
<1>5. SavedInv'
  BY <1>0, <1>2, <1>3 DEF SavedInv
<1>6. RestType'
  BY <1>0, <1>2, <1>4, HandlersTyped DEF RestType
<1>. QED
  BY <1>4, <1>5, <1>6 DEF RestPart

-----------------------------------------------------------------------------
(***************************************************************************)
(* Restarts.                                                               *)
(***************************************************************************)

\* A process started from files whose database is not ahead of the saved index.
LEMMA StartKeeps ==
    ASSUME LogInv, RestPart, NEW s \in Server,
           NEW disk \in [commited : Nat, applied : Seq(Payload)],
           disk.commited <= MaxIndex, Len(disk.applied) <= disk.commited,
           StartFrom(s, disk), saved' = [saved EXCEPT ![s] = disk]
    PROVE  /\ LogInv' /\ SavedInv' /\ AppliedAtMostOnce'
           /\ applied' \in [Server -> Seq(Payload)]
           /\ saved' \in [Server -> [commited : Nat, applied : Seq(Payload)]]
<1>. DEFINE m == NewLog(disk.commited)
<1>1. /\ m \in Log /\ LogOK(m) /\ m.start = disk.commited /\ m.last_append = disk.commited
  <2>1. <<>> \in Seq(Entry) /\ Len(<<>>) = 0
    OBVIOUS
  <2>2. /\ m.start = disk.commited /\ m.last_append = disk.commited
        /\ m.commited = disk.commited /\ m.queue = <<>>
    BY DEF NewLog
  <2>3. m \in Log
    BY <2>1 DEF NewLog, Log
  <2>. QED
    BY <2>1, <2>2, <2>3, BoundsAssumption DEF LogOK, Index
<1>2. /\ log' = [log EXCEPT ![s] = m] /\ applied' = [applied EXCEPT ![s] = disk.applied]
      /\ saved' = [saved EXCEPT ![s] = disk]
  BY DEF StartFrom
<1>. HIDE DEF m
<1>3. /\ log \in [Server -> Log] /\ applied \in [Server -> Seq(Payload)]
      /\ saved \in [Server -> [commited : Nat, applied : Seq(Payload)]]
  BY DEF LogInv, RestPart, RestType
<1>4. LogInv'
  BY <1>1, <1>2, <1>3 DEF LogInv
<1>5. /\ applied' \in [Server -> Seq(Payload)]
      /\ saved' \in [Server -> [commited : Nat, applied : Seq(Payload)]]
  BY <1>2, <1>3
<1>6. SavedInv'
  BY <1>1, <1>2, <1>3 DEF SavedInv, RestPart
<1>7. ASSUME NEW t \in Server PROVE Len(applied'[t]) <= log'[t].last_append
  <2>1. CASE t = s
    BY <1>1, <1>2, <1>3, <2>1
  <2>2. CASE t # s
    BY <1>2, <1>3, <2>2 DEF RestPart, AppliedAtMostOnce
  <2>. QED
    BY <2>1, <2>2
<1>. QED
  BY <1>4, <1>5, <1>6, <1>7 DEF AppliedAtMostOnce

\* The sync threads end with their process.
LEMMA EndThreadsKeeps ==
    ASSUME SyncPart, NEW s \in Server, EndThreads(s), status \in [Server -> PodStatus],
           status' = [status EXCEPT ![s] = "Follower"]
    PROVE  SyncPart'
<1>1. /\ sync' = [sync EXCEPT ![s] = [f \in Server |-> "off"]]
      /\ sent' = [sent EXCEPT ![s] = [f \in Server |-> None]]
      /\ nextindex' = [nextindex EXCEPT ![s] = [f \in Server |-> 0]]
  BY DEF EndThreads
<1>2. \A req \in Orphans(s) : ReqOK(req)
  BY DEF Orphans, SyncPart, SyncInv
<1>3. \A req \in lateAppend' : ReqOK(req)
  <2>1. lateAppend' \subseteq lateAppend \cup Orphans(s)
    BY DEF EndThreads
  <2>. QED
    BY <1>2, <2>1 DEF SyncPart, SyncInv
<1>4. SyncType'
  BY <1>1, <1>3 DEF SyncPart, SyncType, ReqOK, SyncState
<1>5. SyncInv'
  BY <1>1, <1>3, BoundsAssumption DEF SyncPart, SyncType, SyncInv
<1>6. SyncOnlyWhileLeading'
  BY <1>1 DEF SyncPart, SyncType, SyncOnlyWhileLeading
<1>. QED
  BY <1>4, <1>5, <1>6 DEF SyncPart

\* A kill leaves the files of the last clean stop behind; a clean stop writes them
\* anew, the index first, when the apply thread has caught up with it.
LEMMA PodRestartKeeps ==
    ASSUME PodInv, NEW s \in Server, PodKill(s) \/ PodStop(s) \/ PodStopKilled(s)
    PROVE  LogInv' /\ SyncPart' /\ RestPart'
<1>. DEFINE Disk == [commited : Nat, applied : Seq(Payload)]
            c == StoppedLog(s).commited
<1>0. LogInv /\ SyncType /\ SyncPart /\ RestPart /\ CoreInv
  BY DEF PodInv, SyncPart, RestPart
<1>1. /\ EndThreads(s) /\ status' = [status EXCEPT ![s] = "Follower"]
  BY DEF PodKill, PodStop, PodStopKilled, Stopped, ElectionRestart
<1>2. SyncPart'
  BY <1>0, <1>1, EndThreadsKeeps DEF CoreInv, ElectionTypeOK
<1>3. /\ log[s] \in Log /\ LogOK(log[s]) /\ LogOK(StoppedLog(s)) /\ Grown(log[s], StoppedLog(s))
  BY <1>0, StoppedLogOK DEF LogInv
<1>4. /\ log[s].start \in Nat /\ log[s].last_append \in Nat /\ log[s].commited \in Nat
      /\ log[s].start <= log[s].last_append /\ log[s].last_append <= log[s].commited
      /\ log[s].start <= MaxIndex
      /\ c \in Nat /\ c <= MaxIndex /\ log[s].commited <= c
  BY <1>3, BoundsAssumption DEF LogOK, Log, Grown
<1>5. /\ saved[s] \in Disk /\ applied[s] \in Seq(Payload)
      /\ saved[s].commited = log[s].start /\ Len(saved[s].applied) <= saved[s].commited
      /\ Len(applied[s]) <= log[s].last_append
      /\ Len(applied[s]) \in Nat /\ Len(saved[s].applied) \in Nat
  BY <1>0 DEF RestPart, RestType, SavedInv, AppliedAtMostOnce
<1>. HIDE DEF c
<1>6. PICK disk \in Disk : /\ disk.commited <= MaxIndex /\ Len(disk.applied) <= disk.commited
                           /\ StartFrom(s, disk) /\ saved' = [saved EXCEPT ![s] = disk]
  <2>1. CASE PodKill(s)
    <3>1. saved' = [saved EXCEPT ![s] = saved[s]]
      BY <1>0, <2>1 DEF PodKill, RestPart, RestType
    <3>. QED
      BY <1>4, <1>5, <2>1, <3>1 DEF PodKill
  <2>2. CASE PodStop(s)
    <3>. DEFINE d == [commited |-> c, applied |-> applied[s]]
    <3>1. StartFrom(s, d) /\ saved' = [saved EXCEPT ![s] = d]
      BY <2>2 DEF PodStop, Stopped, c
    <3>2. d \in Disk /\ d.commited = c /\ d.applied = applied[s]
      BY <1>4, <1>5
    <3>3. Len(applied[s]) <= c
      BY <1>4, <1>5
    <3>. QED
      BY <1>4, <3>1, <3>2, <3>3
  <2>3. CASE PodStopKilled(s)
    <3>. DEFINE d == [commited |-> c, applied |-> saved[s].applied]
    <3>1. StartFrom(s, d) /\ saved' = [saved EXCEPT ![s] = d]
      BY <2>3 DEF PodStopKilled, Stopped, c
    <3>2. d \in Disk /\ d.commited = c /\ d.applied = saved[s].applied
      BY <1>4, <1>5
    <3>3. Len(saved[s].applied) <= c
      BY <1>4, <1>5
    <3>. QED
      BY <1>4, <3>1, <3>2, <3>3
  <2>. QED
    BY <2>1, <2>2, <2>3
<1>7. /\ LogInv' /\ SavedInv' /\ AppliedAtMostOnce'
      /\ applied' \in [Server -> Seq(Payload)] /\ saved' \in [Server -> Disk]
  BY <1>0, <1>6, StartKeeps
<1>8. RestType'
  <2>1. /\ put \in [Value -> PutState] /\ polling \in [Server -> SUBSET Nat]
        /\ \A v \in Value : put[v].stage \in {"checked", "waiting"} => put[v].node \in Server
    BY <1>0 DEF RestPart, RestType
  <2>2. CASE PodKill(s)
    <3>1. ASSUME NEW v \in Value
          PROVE  /\ put'[v] \in PutState
                 /\ put'[v].stage \in {"checked", "waiting"} => put'[v].node \in Server
      BY <2>1, <2>2 DEF PodKill, PutState
    <3>2. put' \in [Value -> PutState]
      BY <2>2, <3>1 DEF PodKill
    <3>3. polling' \in [Server -> SUBSET Nat]
      BY <2>1, <2>2 DEF PodKill
    <3>. QED
      BY <1>7, <3>1, <3>2, <3>3 DEF RestType
  <2>3. CASE PodStop(s) \/ PodStopKilled(s)
    <3>1. UNCHANGED <<put, polling>>
      BY <2>3 DEF PodStop, PodStopKilled, Stopped
    <3>. QED
      BY <1>7, <2>1, <3>1 DEF RestType
  <2>. QED
    BY <2>2, <2>3
<1>. QED
  BY <1>2, <1>7, <1>8 DEF RestPart

-----------------------------------------------------------------------------
(***************************************************************************)
(* The invariant of the cluster.                                           *)
(***************************************************************************)

\* The initial state satisfies it.
LEMMA InitPodInv == PodInit => PodInv
<1>. SUFFICES ASSUME PodInit PROVE PodInv
  OBVIOUS
<1>. USE DEF PodInit
<1>1. CoreInv
  BY InitCore
<1>2. NewLog(0) \in Log /\ LogOK(NewLog(0)) /\ NewLog(0).start = 0 /\ NewLog(0).last_append = 0
  <2>1. <<>> \in Seq(Entry) /\ Len(<<>>) = 0
    OBVIOUS
  <2>2. NewLog(0) \in Log
    BY <2>1 DEF NewLog, Log
  <2>. QED
    BY <2>1, <2>2, BoundsAssumption DEF NewLog, LogOK, Index
<1>3. LogInv
  BY <1>2 DEF LogInv
<1>4. SyncType /\ SyncInv /\ SyncOnlyWhileLeading
  BY BoundsAssumption DEF SyncType, SyncInv, SyncOnlyWhileLeading, SyncState
<1>5. RestType
  <2>1. NewPut \in PutState /\ NewPut.stage = "new"
    BY DEF NewPut, PutState
  <2>2. [commited |-> 0, applied |-> <<>>] \in [commited : Nat, applied : Seq(Payload)]
    OBVIOUS
  <2>3. /\ applied \in [Server -> Seq(Payload)]
        /\ polling \in [Server -> SUBSET Nat]
        /\ saved \in [Server -> [commited : Nat, applied : Seq(Payload)]]
    BY <2>2
  <2>. QED
    BY <2>1, <2>3 DEF RestType
<1>6. SavedInv /\ AppliedAtMostOnce
  BY <1>2 DEF SavedInv, AppliedAtMostOnce
<1>. QED
  BY <1>1, <1>3, <1>4, <1>5, <1>6 DEF PodInv

\* Every step keeps it, restarts included.
LEMMA PodInvStep ==
    ASSUME PodInv, [PodRestartNext]_podVars
    PROVE  PodInv'
<1>1. CoreInv'
  BY RestartElectionStep, CoreStep DEF PodInv
<1>2. CASE UNCHANGED podVars
  <2>1. UNCHANGED <<log, applied, nextindex, sync, sent, lateAppend, put, polling, saved, status>>
    BY <1>2 DEF podVars, logVars, syncVars, electionVars, votingVars
  <2>2. LogInv' /\ SyncType' /\ SyncInv' /\ SyncOnlyWhileLeading'
    BY <2>1 DEF PodInv, LogInv, SyncType, SyncInv, SyncOnlyWhileLeading
  <2>3. RestType' /\ SavedInv' /\ AppliedAtMostOnce'
    BY <2>1 DEF PodInv, RestType, SavedInv, AppliedAtMostOnce
  <2>. QED
    BY <1>1, <2>2, <2>3 DEF PodInv
<1>3. CASE PodNext
  BY <1>1, <1>3, LogStep, SyncKeeps, RestKeeps DEF PodInv, LogsGrow, SyncPart, RestPart
<1>4. CASE \E s \in Server : PodKill(s) \/ PodStop(s) \/ PodStopKilled(s)
  BY <1>1, <1>4, PodRestartKeeps DEF PodInv, SyncPart, RestPart
<1>. QED
  BY <1>2, <1>3, <1>4 DEF PodRestartNext

\* A cluster without restarts is a cluster with restarts.
LEMMA NoRestartStep ==
    ASSUME [PodNext]_podVars
    PROVE  [PodRestartNext]_podVars
BY DEF PodRestartNext

\* The invariant holds in every reachable state, with and without restarts.
LEMMA PodInvariance ==
    /\ PodRestartSpec => []PodInv
    /\ PodSpec => []PodInv
<1>1. PodRestartSpec => []PodInv
  BY InitPodInv, PodInvStep, PTL DEF PodRestartSpec
<1>2. PodSpec => []PodInv
  BY InitPodInv, PodInvStep, NoRestartStep, PTL DEF PodSpec
<1>. QED
  BY <1>1, <1>2

(***************************************************************************)
(* In every reachable state, whatever is lost, late or restarted, the      *)
(* members of Pod, Follower and RaftLog are well typed; in particular no   *)
(* sync thread waits for something that is no request.                     *)
(***************************************************************************)
THEOREM PodTypeCorrect == PodRestartSpec => []PodTypeOK
<1>1. PodInv => PodTypeOK
  BY DEF PodInv, CoreInv, LogInv, SyncType, RestType, PodTypeOK
<1>. QED
  BY <1>1, PodInvariance, PTL

(***************************************************************************)
(* The cluster implements the election: each handler, thread and client    *)
(* step of pod.hpp is a step of Election, where the log is only an index   *)
(* given from outside, or leaves the election alone.                       *)
(***************************************************************************)
LEMMA PodImplementsElection == PodSpec => ElectionSpec
<1>1. PodInit => ElectionInit
  BY DEF PodInit
<1>. QED
  BY <1>1, ElectionStep, PodInvariance, PTL DEF PodSpec, ElectionSpec

(***************************************************************************)
(* The same for a cluster whose processes are killed, stopped and started. *)
(***************************************************************************)
LEMMA PodImplementsRestarts == PodRestartSpec => RestartSpec
<1>1. PodInit => ElectionInit
  BY DEF PodInit
<1>. QED
  BY <1>1, RestartElectionStep, PodInvariance, PTL DEF PodRestartSpec, RestartSpec

(***************************************************************************)
(* With real logs, sync threads and clients too a node grants one vote     *)
(* while it is in a term, and no handler leaves a lower term than it       *)
(* found, wherever ++term_ falls and whatever raft.cfg lists.              *)
(***************************************************************************)
THEOREM PodVotesAndTerms == PodSpec => []VoteOncePerTerm /\ TermDiscipline
BY PodImplementsElection, VotesAreUnique, TermsOnlyGrow, PTL

(***************************************************************************)
(* In the documented cluster of any odd size, with real logs, the only way *)
(* to two winners of a term, or to two leaders of a term at once, is a     *)
(* vote that another node cast across its own unlocked ++term_.            *)
(***************************************************************************)
THEOREM PodElectionSafety ==
    ASSUME DocumentedCluster
    PROVE  PodSpec => [](ElectionSafety /\ OneLeaderPerTerm)
BY PodImplementsElection, OneWinnerPerTerm, OneLeaderAtATime, PTL

(***************************************************************************)
(* Only a leader replicates, through lost and late answers, handlers that  *)
(* depose a leader while its threads wait, and restarts.                   *)
(***************************************************************************)
THEOREM OnlyLeadersReplicate == PodRestartSpec => []SyncOnlyWhileLeading
BY PodInvariance, PTL DEF PodInv

(***************************************************************************)
(* No database receives an entry twice, however its process is killed or   *)
(* stopped, the kill in the middle of the destructors included.            *)
(***************************************************************************)
THEOREM NothingAppliedTwice == PodRestartSpec => []AppliedAtMostOnce
BY PodInvariance, PTL DEF PodInv

(***************************************************************************)
(* No handler truncates or rewrites a log: the Reset in UpdateRaftLog is   *)
(* never reached with an effect.                                           *)
(***************************************************************************)
THEOREM LogsOnlyAppend == PodSpec => LogAppendOnly
<1>. DEFINE Longer(s) == /\ Len(log'[s].queue) >= Len(log[s].queue)
                         /\ SubSeq(log'[s].queue, 1, Len(log[s].queue)) = log[s].queue
<1>1. ASSUME PodInv, PodNext, NEW s \in Server PROVE Longer(s)
  <2>. DEFINE p == log[s].queue
              q == log'[s].queue
              r == SubSeq(q, 1, Len(p))
  <2>1. LogInv /\ LogInv' /\ Grown(log[s], log'[s])
    BY <1>1, LogStep DEF LogsGrow, PodInv
  <2>2. p \in Seq(Entry) /\ q \in Seq(Entry) /\ Len(p) \in Nat
    BY <2>1 DEF LogInv, Log
  <2>3. Len(q) >= Len(p) /\ \A i \in 1..Len(p) : q[i] = p[i]
    BY <2>1 DEF Grown
  <2>. HIDE DEF p, q
  <2>4. r \in Seq(Entry) /\ Len(r) = Len(p) /\ \A i \in 1..Len(p) : r[i] = q[i]
    BY <2>2, <2>3
  <2>5. r = p
    BY <2>2, <2>3, <2>4, SeqEqual
  <2>. QED
    BY <2>3, <2>5 DEF p, q
<1>2. ASSUME PodInv, [PodNext]_podVars PROVE [\A s \in Server : Longer(s)]_podVars
  BY <1>1, <1>2
<1>. QED
  BY <1>2, PodInvariance, PTL DEF PodSpec, LogAppendOnly

-----------------------------------------------------------------------------
(***************************************************************************)
(* Part 3. What replication keeps as long as the cluster has had one       *)
(* leader: the logs agree, and what the leader counts as commited is on a  *)
(* majority, with lost, late and repeated calls. With a second leader      *)
(* neither holds: Vote does not compare logs across terms, and             *)
(* UpdateRaftLog never compares entries.                                   *)
(***************************************************************************)

\* No node but L has won an election yet.
Winner(L) == \A l \in leaders : l.node = L

\* An entry request for an index of the log with entries q carries the entry there.
Faithful(q, req) ==
    /\ req.index <= Len(q)
    /\ req.index >= 1 => req.entry = q[req.index]

\* The sequence q starts with p.
Starts(p, q) == Len(p) <= Len(q) /\ \A i \in 1..Len(p) : p[i] = q[i]

\* The logs, the writes on their way into a log, and the sync threads of L.
LogsInv(L) ==
    /\ \A s \in Server : log[s].start = 0 /\ Starts(log[s].queue, log[L].queue)
    /\ log[L].commited <= Len(log[L].queue)
PutsInv(L) ==
    \A v \in Value : put[v].stage = "checked" => put[v].node = L /\ leaders # {}
SendInv(L) ==
    /\ \A f \in Server :
          /\ nextindex[L][f] <= Len(log[L].queue)
          /\ sync[L][f] \in {"sending", "calling", "ok", "nak"} => nextindex[L][f] < Len(log[L].queue)
          /\ sync[L][f] = "calling" => Faithful(log[L].queue, sent[L][f])
    /\ \A req \in lateAppend : Faithful(log[L].queue, req)
ReplInv(L) == LogsInv(L) /\ PutsInv(L) /\ SendInv(L)

\* The invariant: whoever has won all elections so far.
AgreeInv == \A L \in Server : Winner(L) => ReplInv(L)

-----------------------------------------------------------------------------
\* A sequence that is a prefix stays one when the longer one grows.
LEMMA StartsGrown ==
    ASSUME NEW S, NEW p \in Seq(S), NEW q \in Seq(S), NEW r \in Seq(S), Starts(p, q), Starts(q, r)
    PROVE  Starts(p, r)
BY DEF Starts

\* A prefix that copies the next entry of the longer log is a prefix of it again.
LEMMA StartsCopied ==
    ASSUME NEW S, NEW p \in Seq(S), NEW q \in Seq(S), Starts(p, q), Len(p) < Len(q)
    PROVE  /\ Append(p, q[Len(p) + 1]) \in Seq(S)
           /\ Starts(Append(p, q[Len(p) + 1]), q)
<1>1. Len(p) \in Nat /\ Len(q) \in Nat /\ Len(p) + 1 \in 1..Len(q)
  OBVIOUS
<1>2. q[Len(p) + 1] \in S
  BY <1>1, ElementOfSeq
<1>. DEFINE e == q[Len(p) + 1]
            a == Append(p, e)
<1>3. /\ a \in Seq(S) /\ Len(a) = Len(p) + 1 /\ a[Len(p) + 1] = e
      /\ \A i \in 1..Len(p) : a[i] = p[i]
  BY <1>2, AppendProperties
<1>4. ASSUME NEW i \in 1..Len(a) PROVE a[i] = q[i]
  <2>1. i = Len(p) + 1 \/ i \in 1..Len(p)
    BY <1>1, <1>3
  <2>. QED
    BY <1>3, <2>1 DEF Starts
<1>. HIDE DEF a
<1>. QED
  BY <1>1, <1>3, <1>4 DEF Starts, a

-----------------------------------------------------------------------------
(***************************************************************************)
(* What a step does to a log.                                              *)
(***************************************************************************)

\* The entries stay, and commited_ does not pass the end of the log.
Kept(l, m) ==
    /\ m.queue = l.queue /\ m.start = l.start
    /\ l.commited <= Index(l) => m.commited <= Index(m)

\* Operations that move indexes only.
LEMMA UpdateCommitKept ==
    ASSUME NEW l \in Log, NEW commit \in Nat
    PROVE  UpdateCommit(l, commit) \in Log /\ Kept(l, UpdateCommit(l, commit))
<1>. DEFINE capped == IF Index(l) < commit THEN Index(l) ELSE commit
            c == IF capped > l.commited THEN capped ELSE l.commited
<1>1. Index(l) \in Nat /\ l.commited \in Nat
  BY DEF Index, Log
<1>2. c \in Nat /\ (l.commited <= Index(l) => c <= Index(l))
  BY <1>1
<1>3. UpdateCommit(l, commit) = [l EXCEPT !.commited = c]
  BY DEF UpdateCommit, Log
<1>. HIDE DEF c
<1>. QED
  BY <1>1, <1>2, <1>3 DEF Kept, Log, Index

\* So does the commit check of the stopped sync threads.
LEMMA StoppedLogKept ==
    ASSUME LogInv, SyncType, NEW s \in Server
    PROVE  Kept(log[s], StoppedLog(s))
<1>. DEFINE l == log[s]
            C == {l.commited} \cup {CommitCheck(l, s, f, nextindex[s]).commited : f \in InnerLoop(s)}
<1>1. LogOK(l) /\ l \in Log /\ l.commited \in Nat /\ Index(l) \in Nat
  BY DEF LogInv, Log, Index
<1>2. ASSUME NEW f \in InnerLoop(s)
      PROVE  /\ CommitCheck(l, s, f, nextindex[s]).commited \in Nat
             /\ CommitCheck(l, s, f, nextindex[s]).commited <= MaxIndex
             /\ l.commited <= Index(l) => CommitCheck(l, s, f, nextindex[s]).commited <= Index(l)
  <2>1. nextindex[s][f] \in Int
    BY FollowersAssumption DEF InnerLoop, SyncType
  <2>2. SizeT(nextindex[s][f]) \in Nat
    BY <2>1, SizeTType
  <2>3. CASE ~ CommitRule(s, f, nextindex[s])
    BY <1>1, <2>3 DEF CommitCheck, LogOK, Log
  <2>4. CASE CommitRule(s, f, nextindex[s])
    <3>. DEFINE m == UpdateCommit(l, SizeT(nextindex[s][f]))
    <3>1. m \in Log /\ Kept(l, m) /\ LogOK(m)
      BY <1>1, <2>2, UpdateCommitKept, UpdateCommitOK
    <3>2. CommitCheck(l, s, f, nextindex[s]) = m
      BY <2>4 DEF CommitCheck
    <3>. HIDE DEF m
    <3>. QED
      BY <1>1, <3>1, <3>2 DEF Kept, LogOK, Log, Index
  <2>. QED
    BY <2>3, <2>4
<1>3. C \subseteq Nat /\ C # {} /\ \A c \in C : c <= MaxIndex
  BY <1>1, <1>2 DEF LogOK
<1>4. Max(C) \in C
  BY <1>3, MaxOfBounded, BoundsAssumption
<1>5. Max(C) \in Nat /\ (l.commited <= Index(l) => Max(C) <= Index(l))
  BY <1>1, <1>2, <1>3, <1>4
<1>6. StoppedLog(s) = [l EXCEPT !.commited = Max(C)]
  BY <1>1 DEF StoppedLog, Log
<1>. HIDE DEF C
<1>. QED
  BY <1>1, <1>5, <1>6 DEF Kept, Log, Index

\* Kept is reflexive, and one such step may follow another.
LEMMA KeptTwice ==
    ASSUME NEW k \in Log, NEW l \in Log, NEW m \in Log, Kept(k, l), Kept(l, m)
    PROVE  Kept(k, k) /\ Kept(k, m)
BY DEF Kept, Log, Index

\* The log a handler finds.
LEMMA AfterStopKept ==
    ASSUME LogInv, SyncType, NEW s \in Server
    PROVE  AfterStop(s) \in Log /\ Kept(log[s], AfterStop(s))
BY AfterStopOK, StoppedLogKept DEF AfterStop, LogOK, Kept

\* A handler that takes over a commit index.
LEMMA BeatKept ==
    ASSUME LogInv, SyncType, NEW f \in Server, NEW commit \in Nat
    PROVE  /\ UpdateCommit(AfterStop(f), commit) \in Log
           /\ Kept(log[f], UpdateCommit(AfterStop(f), commit))
<1>1. log[f] \in Log /\ AfterStop(f) \in Log /\ Kept(log[f], AfterStop(f))
  BY AfterStopKept DEF LogInv
<1>. QED
  BY <1>1, UpdateCommitKept, KeptTwice

-----------------------------------------------------------------------------
(***************************************************************************)
(* What a step of the cluster does to the logs, while only L has led.      *)
(***************************************************************************)

\* The leader's own append, of a probe or of a client's write, and an entry of L
\* reaching another node.
Written(val) == val = Empty \/ (val \in Value /\ InnerPut(val))
OwnAppend(l, m) ==
    leaders # {} /\ \E entry \in Entry : /\ Index(l) < MaxIndex /\ m = PutLocal(l, entry)
                                        /\ Written(entry.val)
Copied(L, l, m) ==
    /\ Len(l.queue) < Len(log[L].queue)
    /\ m.queue = Append(l.queue, log[L].queue[Len(l.queue) + 1])

LogMoves(L) ==
    \A s \in Server :
        \/ Kept(log[s], log'[s])
        \/ s = L /\ OwnAppend(log[s], log'[s])
        \/ s # L /\ Copied(L, log[s], log'[s])

\* Wins are never forgotten.
LEMMA WinsRemembered ==
    ASSUME [ElectionNext]_electionVars
    PROVE  leaders \subseteq leaders'
<1>1. CASE UNCHANGED electionVars
  BY <1>1 DEF electionVars
<1>2. ASSUME NEW s \in Server, ElectionThread(s) PROVE leaders \subseteq leaders'
  BY <1>2 DEF ElectionThread, NotTimedOut, ElectionTimeout, RequestVote, VoteCall, VoteAnswer,
     VoteTimeout, VoteAbort, BecomeLeader, LoseElection, BeatStart, SendHeartBeat, BeatTo,
     HeartBeatTimeout, BeatDone, electionVars
<1>3. CASE LateHandler \/ EntryHandler
  BY <1>3 DEF LateHandler, VoteLate, HeartBeatLate, EntryHandler, AppendEntry
<1>. QED
  BY <1>1, <1>2, <1>3 DEF ElectionNext

\* A leader has won an election, so it is L.
LEMMA LeaderIsL ==
    ASSUME ElectionInv, NEW L \in Server, Winner(L), NEW s \in Server, status[s] = "Leader"
    PROVE  s = L /\ leaders # {}
BY DEF ElectionInv, VictoryInv, Winner

\* One log moves, or none.
LEMMA OneLogMoves ==
    ASSUME LogInv, NEW L \in Server, NEW f \in Server, NEW m, Kept(log[f], m),
           log' = [log EXCEPT ![f] = m]
    PROVE  LogMoves(L)
<1>1. ASSUME NEW s \in Server PROVE Kept(log[s], log'[s])
  BY DEF LogInv, Kept
<1>. QED
  BY <1>1 DEF LogMoves

\* A step that touches no log moves none of them off the winner's.
LEMMA NoLogMoves ==
    ASSUME LogInv, NEW L \in Server, log' = log
    PROVE  LogMoves(L)
BY DEF LogMoves, Kept

\* A client's write or a probe is appended by L only.
LEMMA OwnAppendMoves ==
    ASSUME LogInv, CoreInv, NEW L \in Server, leaders # {}, NEW val, Written(val), LogIndex(L) < MaxIndex,
           log' = [log EXCEPT ![L] = PutLocal(@, [val |-> val, term |-> term[L]])]
    PROVE  LogMoves(L)
<1>. DEFINE e == [val |-> val, term |-> term[L]]
<1>1. e \in Entry /\ Written(e.val) /\ Index(log[L]) < MaxIndex
  BY DEF CoreInv, ElectionTypeOK, Entry, Payload, Written, LogIndex
<1>2. OwnAppend(log[L], log'[L])
  <2>1. log'[L] = PutLocal(log[L], e)
    BY DEF LogInv
  <2>. QED
    BY <1>1, <2>1 DEF OwnAppend
<1>3. ASSUME NEW s \in Server, s # L PROVE Kept(log[s], log'[s])
  BY <1>3 DEF LogInv, Kept
<1>. QED
  BY <1>2, <1>3 DEF LogMoves

\* A probe meets a leader, which is L, or nobody.
LEMMA ProbeMoves ==
    ASSUME PodInv, ElectionInv, NEW L \in Server, Winner(L), NEW f \in Server, PutTest(f) \/ NoProbe
    PROVE  LogMoves(L)
<1>1. CASE PutTest(f)
  <2>1. f = L /\ leaders # {}
    BY <1>1, LeaderIsL DEF PutTest
  <2>2. Written(Empty)
    BY DEF Written
  <2>. QED
    BY <1>1, <2>1, <2>2, OwnAppendMoves DEF PutTest, PodInv
<1>2. CASE NoProbe
  BY <1>2, NoLogMoves DEF NoProbe, PodInv
<1>. QED
  BY <1>1, <1>2

\* A node takes an entry request: L itself has the entry already, another node
\* takes the next entry of L or nothing.
LEMMA SolveAppendMoves ==
    ASSUME PodInv, NEW L \in Server, LogsInv(L), NEW req, ReqOK(req), Faithful(log[L].queue, req),
           SolveAppend(req)
    PROVE  LogMoves(L)
<1>. DEFINE f == req.to
            l == UpdateCommit(AfterStop(f), LeaderCommit(req))
            m == UpdateRaftLog(l, req)
<1>0. LogInv /\ SyncType /\ f \in Server /\ log[f] \in Log /\ log[f].start = 0
  BY RequestNodes DEF PodInv, LogInv, LogsInv
<1>1. l \in Log /\ Kept(log[f], l)
  BY <1>0, BeatKept DEF LeaderCommit
<1>2. LogOK(l)
  BY <1>0, AfterStopOK, UpdateCommitOK DEF LeaderCommit
<1>3. l.queue = log[f].queue /\ l.start = 0 /\ Len(l.queue) \in Nat
  BY <1>0, <1>1 DEF Kept, Log
<1>4. log' = [log EXCEPT ![f] = m]
  BY DEF SolveAppend
<1>5. CASE ~ Matches(l, req)
  <2>1. m = l
    BY <1>2, <1>5, ResetUnreached DEF UpdateRaftLog
  <2>. QED
    BY <1>0, <1>1, <1>4, <2>1, OneLogMoves
<1>6. CASE Matches(l, req)
  <2>1. req.index \in Int /\ req.index = Len(l.queue) + 1
    BY <1>2, <1>3, <1>6, ResetUnreached, SMTT(30) DEF Matches, Index, ReqOK, AppendReq
  <2>2. Len(l.queue) < Len(log[L].queue) /\ req.entry = log[L].queue[Len(l.queue) + 1]
    BY <1>0, <1>3, <2>1 DEF Faithful, LogInv, Log
  <2>3. f # L
    BY <1>0, <1>3, <2>2
  <2>4. m = PutEntry(l, req.entry, req.commited)
    BY <1>2, <1>6, ResetUnreached DEF UpdateRaftLog
  <2>5. CASE ~ HasRoom(l)
    <3>1. m = l
      BY <2>4, <2>5 DEF PutEntry
    <3>. QED
      BY <1>0, <1>1, <1>4, <3>1, OneLogMoves
  <2>6. CASE HasRoom(l)
    <3>1. m.queue = Append(l.queue, req.entry)
      BY <1>1, <2>4, <2>6 DEF PutEntry, Log
    <3>. HIDE DEF l, m
    <3>2. Copied(L, log[f], log'[f])
      BY <1>0, <1>3, <1>4, <2>2, <3>1 DEF Copied, LogInv
    <3>3. ASSUME NEW s \in Server, s # f PROVE Kept(log[s], log'[s])
      BY <1>0, <1>4, <3>3 DEF LogInv, Kept
    <3>. QED
      BY <2>3, <3>2, <3>3 DEF LogMoves
  <2>. QED
    BY <2>5, <2>6
<1>. QED
  BY <1>5, <1>6

\* Every step of a running cluster.
LEMMA LogsMove ==
    ASSUME PodInv, ElectionInv, NEW L \in Server, Winner(L), ReplInv(L), PodNext
    PROVE  LogMoves(L)
<1>0. /\ LogInv /\ SyncType /\ SyncInv /\ SyncOnlyWhileLeading /\ CoreInv /\ RestType
      /\ LogsInv(L) /\ PutsInv(L) /\ SendInv(L)
  BY DEF PodInv, ReplInv
<1>1. ASSUME NEW s \in Server, NodeStep(s) PROVE LogMoves(L)
  <2>1. CASE PodTimer(s) \/ PodBecomeLeader(s) \/ ProbeReturn(s)
    BY <1>0, <2>1, NoLogMoves DEF PodTimer, PodBecomeLeader, ProbeReturn, logVars
  <2>2. ASSUME NEW f \in Server, PodVoteCall(s, f) PROVE LogMoves(L)
    BY <2>2, ProbeMoves DEF PodVoteCall
  <2>3. CASE PodVoteAbort(s)
    <3>1. left[s] \subseteq Server
      BY <1>0 DEF CoreInv, ElectionTypeOK
    <3>. QED
      BY <2>3, <3>1, ProbeMoves DEF PodVoteAbort
  <2>4. CASE PodVoteAnswer(s)
    <3>1. call[s].to \in Server
      BY <1>0, <2>4 DEF PodVoteAnswer, CoreInv, CallInv, ElectionTypeOK, VoteReq
    <3>. QED
      BY <1>0, <2>4, <3>1, AfterStopKept, OneLogMoves DEF PodVoteAnswer
  <2>5. ASSUME NEW f \in Server, PodHeartBeat(s, f) PROVE LogMoves(L)
    <3>1. log[s].commited \in Nat
      BY <1>0 DEF LogInv, Log
    <3>. QED
      BY <1>0, <2>5, <3>1, BeatKept, OneLogMoves DEF PodHeartBeat
  <2>6. ASSUME NEW f \in Server, PodHeartBeatTimeout(s, f) PROVE LogMoves(L)
    BY <1>0, <2>6, NoLogMoves DEF PodHeartBeatTimeout, logVars
  <2>7. CASE Apply(s)
    <3>1. Kept(log[s], Applied(log[s]))
      BY <1>0 DEF Applied, LogInv, Kept, Log, Index
    <3>2. log' = [log EXCEPT ![s] = Applied(log[s])]
      BY <1>0, <2>7 DEF Apply, LogInv
    <3>. QED
      BY <1>0, <3>1, <3>2, OneLogMoves
  <2>. QED
    BY <1>1, <2>1, <2>2, <2>3, <2>4, <2>5, <2>6, <2>7 DEF NodeStep
<1>2. ASSUME NEW s \in Server, NEW f \in Server, SyncStep(s, f) PROVE LogMoves(L)
  <2>1. CASE SyncStart(s, f) \/ SyncSend(s, f) \/ SyncTimeout(s, f)
    BY <1>0, <2>1, NoLogMoves DEF SyncStart, SyncSend, SyncTimeout, logVars
  <2>2. CASE SyncAnswer(s, f) /\ sync[s][f] = "nak"
    BY <1>0, <2>2, NoLogMoves DEF SyncAnswer
  <2>3. CASE SyncAnswer(s, f) /\ sync[s][f] = "ok"
    <3>. DEFINE m == CommitCheck(log[s], s, f, nextindex'[s])
    <3>1. nextindex'[s][f] \in Int
      BY <1>0, <2>3 DEF SyncAnswer, SyncType
    <3>2. SizeT(nextindex'[s][f]) \in Nat
      BY <3>1, SizeTType
    <3>3. log[s] \in Log
      BY <1>0 DEF LogInv
    <3>4. Kept(log[s], m)
      BY <3>2, <3>3, UpdateCommitKept DEF CommitCheck, Kept
    <3>5. log' = [log EXCEPT ![s] = m]
      BY <1>0, <2>3 DEF SyncAnswer, LogInv
    <3>. QED
      BY <1>0, <3>4, <3>5, OneLogMoves
  <2>4. CASE AppendAnswer(s, f)
    <3>1. s = L
      BY <1>0, <2>4, LeaderIsL DEF AppendAnswer, SyncOnlyWhileLeading
    <3>2. ReqOK(sent[s][f]) /\ Faithful(log[L].queue, sent[s][f])
      BY <1>0, <2>4, <3>1 DEF AppendAnswer, SyncInv, SendInv
    <3>. QED
      BY <1>0, <2>4, <3>2, SolveAppendMoves DEF AppendAnswer
  <2>. QED
    BY <1>2, <2>1, <2>2, <2>3, <2>4 DEF SyncStep, SyncAnswer
<1>3. CASE LateStep
  <2>1. ASSUME NEW req \in lateVote, PodVoteLate(req) PROVE LogMoves(L)
    <3>1. req.to \in Server
      BY <1>0 DEF CoreInv, ElectionTypeOK, VoteReq
    <3>. QED
      BY <1>0, <2>1, <3>1, AfterStopKept, OneLogMoves DEF PodVoteLate
  <2>2. ASSUME NEW req \in lateBeat, PodHeartBeatLate(req) PROVE LogMoves(L)
    <3>1. req.to \in Server /\ req.commited \in Nat
      BY <1>0 DEF CoreInv, ElectionTypeOK, BeatReq
    <3>. QED
      BY <1>0, <2>2, <3>1, BeatKept, OneLogMoves DEF PodHeartBeatLate
  <2>3. ASSUME NEW req \in lateAppend, AppendLate(req) PROVE LogMoves(L)
    BY <1>0, <2>3, SolveAppendMoves DEF AppendLate, SyncInv, SendInv
  <2>. QED
    BY <1>3, <2>1, <2>2, <2>3 DEF LateStep
<1>4. ASSUME NEW v \in Value, ClientStep(v) PROVE LogMoves(L)
  <2>1. CASE PutReturn(v) \/ \E s \in Server : PutCheck(v, s)
    BY <1>0, <2>1, NoLogMoves DEF PutReturn, PutCheck, logVars
  <2>2. CASE InnerPut(v)
    <3>1. put[v].node = L /\ leaders # {} /\ Written(v)
      BY <1>0, <2>2 DEF InnerPut, PutsInv, Written
    <3>. QED
      BY <1>0, <2>2, <3>1, OwnAppendMoves DEF InnerPut
  <2>. QED
    BY <1>4, <2>1, <2>2 DEF ClientStep
<1>. QED
  BY <1>1, <1>2, <1>3, <1>4 DEF PodNext

\* Logs that moved so are prefixes of the log of L again.
LEMMA LogsInvStep ==
    ASSUME PodInv, ElectionInv, NEW L \in Server, Winner(L), ReplInv(L), PodNext
    PROVE  LogsInv(L)'
<1>1. /\ LogInv /\ LogInv' /\ \A s \in Server : Grown(log[s], log'[s])
      /\ LogsInv(L) /\ LogMoves(L)
  BY LogStep, LogsMove DEF PodInv, LogsGrow, ReplInv
<1>2. \A s \in Server : /\ log[s] \in Log /\ log'[s] \in Log
                        /\ log[s].queue \in Seq(Entry) /\ log'[s].queue \in Seq(Entry)
                        /\ Len(log[s].queue) \in Nat /\ Len(log'[s].queue) \in Nat
                        /\ log[s].start = 0 /\ log'[s].start = 0
  BY <1>1 DEF LogInv, Log, LogsInv, Grown
<1>3. Starts(log[L].queue, log'[L].queue)
  BY <1>1, <1>2 DEF Grown, Starts
<1>4. ASSUME NEW s \in Server PROVE Starts(log'[s].queue, log'[L].queue)
  <2>1. Starts(log[s].queue, log[L].queue)
    BY <1>1 DEF LogsInv
  <2>2. CASE log'[s].queue = log[s].queue
    BY <1>2, <1>3, <2>1, <2>2, StartsGrown
  <2>3. CASE s = L
    BY <1>2, <2>3 DEF Starts
  <2>4. CASE Copied(L, log[s], log'[s])
    <3>1. Starts(log'[s].queue, log[L].queue)
      BY <1>2, <2>1, <2>4, StartsCopied DEF Copied
    <3>. QED
      BY <1>2, <1>3, <3>1, StartsGrown
  <2>. QED
    BY <1>1, <2>2, <2>3, <2>4 DEF LogMoves, Kept
<1>5. log'[L].commited <= Len(log'[L].queue)
  <2>1. log[L].commited <= Len(log[L].queue)
    BY <1>1 DEF LogsInv
  <2>2. CASE Kept(log[L], log'[L])
    BY <1>2, <2>1, <2>2 DEF Kept, Index, Log
  <2>3. CASE OwnAppend(log[L], log'[L])
    <3>1. log'[L].commited = log[L].commited
      BY <1>2, <2>3 DEF OwnAppend, PutLocal, Log
    <3>. QED
      BY <1>2, <1>3, <2>1, <3>1 DEF Log, Starts
  <2>. QED
    BY <1>1, <2>2, <2>3 DEF LogMoves
<1>. QED
  BY <1>2, <1>4, <1>5 DEF LogsInv

\* Only L takes writes.
LEMMA PutsInvStep ==
    ASSUME PodInv, ElectionInv, NEW L \in Server, Winner(L), PutsInv(L), PodNext
    PROVE  PutsInv(L)'
<1>0. put \in [Value -> PutState] /\ leaders \subseteq leaders'
  BY ElectionStep, WinsRemembered DEF PodInv, RestType
<1>1. CASE put' = put
  BY <1>0, <1>1 DEF PutsInv
<1>2. ASSUME NEW v \in Value, ClientStep(v) PROVE PutsInv(L)'
  <2>1. PICK p : /\ put' = [put EXCEPT ![v] = p]
                 /\ p.stage = "checked" => p.node = L /\ leaders # {}
    <3>1. ASSUME NEW s \in Server, PutCheck(v, s)
          PROVE  /\ put' = [put EXCEPT ![v] = [stage |-> "checked", node |-> L, index |-> 0]]
                 /\ leaders # {}
      BY <3>1, LeaderIsL DEF PutCheck, PutTo
    <3>2. CASE InnerPut(v)
      <4>. DEFINE s == put[v].node
                  room == [stage |-> "waiting", node |-> s, index |-> LogIndex(s) + 1]
                  full == [stage |-> "failed", node |-> s, index |-> 0]
      <4>1. put' = [put EXCEPT ![v] = room] \/ put' = [put EXCEPT ![v] = full]
        BY <3>2 DEF InnerPut, PutTo
      <4>2. room.stage = "waiting" /\ full.stage = "failed"
        OBVIOUS
      <4>. HIDE DEF room, full
      <4>. QED
        BY <4>1, <4>2
    <3>3. CASE PutReturn(v)
      <4>1. [put[v] EXCEPT !.stage = "acked"].stage = "acked"
        BY <1>0 DEF PutState
      <4>. QED
        BY <3>3, <4>1 DEF PutReturn, PutTo
    <3>4. [stage |-> "checked", node |-> L, index |-> 0].node = L
      OBVIOUS
    <3>. QED
      BY <1>2, <3>1, <3>2, <3>3, <3>4 DEF ClientStep
  <2>. QED
    BY <1>0, <2>1 DEF PutsInv
<1>3. ASSUME NEW s \in Server, NodeStep(s) PROVE put' = put
  BY <1>3 DEF NodeStep, PodTimer, PodVoteCall, PodVoteAbort, PodVoteAnswer, PodBecomeLeader,
     PodHeartBeat, PodHeartBeatTimeout, Apply, ProbeReturn
<1>4. ASSUME LateStep \/ \E s, f \in Server : SyncStep(s, f) PROVE put' = put
  BY <1>4 DEF LateStep, PodVoteLate, PodHeartBeatLate, AppendLate, SyncStep, SyncStart,
     SyncSend, SyncAnswer, SyncTimeout, AppendAnswer
<1>. QED
  BY <1>1, <1>2, <1>3, <1>4 DEF PodNext

-----------------------------------------------------------------------------
(***************************************************************************)
(* The requests of L.                                                      *)
(***************************************************************************)

\* The log of L after a step.
LGrows(L) == /\ Starts(log[L].queue, log'[L].queue)
             /\ Len(log[L].queue) \in Nat /\ Len(log'[L].queue) \in Nat

\* Every step of a running cluster lets the log of L grow.
LEMMA LeaderLogGrows ==
    ASSUME PodInv, NEW L \in Server, PodNext
    PROVE  LGrows(L)
BY LogStep DEF LGrows, LogsGrow, Grown, Starts, PodInv, LogInv, Log

\* A request stays faithful when the log it was made from grows.
LEMMA FaithfulGrown ==
    ASSUME NEW q \in Seq(Entry), NEW r \in Seq(Entry), Starts(q, r),
           NEW req, ReqOK(req), Faithful(q, req)
    PROVE  Faithful(r, req)
<1>1. req.index \in Int
  BY DEF ReqOK, AppendReq
<1>. QED
  BY <1>1 DEF Starts, Faithful

\* What SendInv says of the thread of L for f: nothing is sent past the end of the
\* log, and what is sent is what the log holds.
SendOK(q, next, state, req) ==
    /\ next <= Len(q)
    /\ state \in {"sending", "calling", "ok", "nak"} => next < Len(q)
    /\ state = "calling" => Faithful(q, req)

\* It lasts while the log grows.
LEMMA SendOKGrown ==
    ASSUME NEW q \in Seq(Entry), NEW r \in Seq(Entry), Starts(q, r), NEW next \in Int,
           NEW state, NEW req, state = "calling" => ReqOK(req), SendOK(q, next, state, req)
    PROVE  SendOK(r, next, state, req)
<1>1. state = "calling" => Faithful(r, req)
  BY FaithfulGrown DEF SendOK
<1>2. Len(q) \in Nat /\ Len(r) \in Nat /\ Len(q) <= Len(r)
  BY DEF Starts
<1>. QED
  BY <1>1, <1>2 DEF SendOK

\* After a step: what is late is faithful, and so is every thread of L that the step
\* does not move.
LEMMA SendLasts ==
    ASSUME PodInv, NEW L \in Server, ReplInv(L), PodNext
    PROVE  /\ log[L].queue \in Seq(Entry) /\ log'[L].queue \in Seq(Entry)
           /\ Starts(log[L].queue, log'[L].queue)
           /\ \A req \in lateAppend : Faithful(log'[L].queue, req)
           /\ \A f \in Server :
                 /\ SendOK(log[L].queue, nextindex[L][f], sync[L][f], sent[L][f])
                 /\ SendOK(log'[L].queue, nextindex[L][f], sync[L][f], sent[L][f])
                 /\ sync[L][f] = "calling" => /\ ReqOK(sent[L][f])
                                              /\ Faithful(log'[L].queue, sent[L][f])
<1>. DEFINE q == log[L].queue
            r == log'[L].queue
<1>1. q \in Seq(Entry) /\ r \in Seq(Entry) /\ Starts(q, r)
  BY LogStep, LeaderLogGrows DEF LGrows, LogsGrow, PodInv, LogInv, Log
<1>2. SyncType /\ SyncInv /\ SendInv(L)
  BY DEF PodInv, ReplInv
<1>3. \A req \in lateAppend : Faithful(r, req)
  BY <1>1, <1>2, FaithfulGrown DEF SyncInv, SendInv
<1>4. ASSUME NEW f \in Server
      PROVE  /\ SendOK(q, nextindex[L][f], sync[L][f], sent[L][f])
             /\ SendOK(r, nextindex[L][f], sync[L][f], sent[L][f])
             /\ sync[L][f] = "calling" => ReqOK(sent[L][f]) /\ Faithful(r, sent[L][f])
  <2>1. nextindex[L][f] \in Int
    BY <1>2 DEF SyncType
  <2>2. SendOK(q, nextindex[L][f], sync[L][f], sent[L][f])
    BY <1>2 DEF SendInv, SendOK
  <2>3. sync[L][f] = "calling" => ReqOK(sent[L][f])
    BY <1>2 DEF SyncInv
  <2>4. SendOK(r, nextindex[L][f], sync[L][f], sent[L][f])
    BY <1>1, <2>1, <2>2, <2>3, SendOKGrown
  <2>. QED
    BY <2>2, <2>3, <2>4 DEF SendOK
<1>. QED
  BY <1>1, <1>3, <1>4

\* Every step keeps the requests of L faithful.
LEMMA SendInvStep ==
    ASSUME PodInv, ElectionInv, NEW L \in Server, Winner(L), ReplInv(L), PodNext
    PROVE  SendInv(L)'
<1>. DEFINE q == log[L].queue
            r == log'[L].queue
            OK(f) == SendOK(r, nextindex'[L][f], sync'[L][f], sent'[L][f])
            LateOK == \A req \in lateAppend' : Faithful(r, req)
<1>0. LogInv /\ SyncType /\ SyncOnlyWhileLeading /\ LogsInv(L)
  BY DEF PodInv, ReplInv
<1>1. q \in Seq(Entry) /\ r \in Seq(Entry) /\ Starts(q, r)
  BY SendLasts
<1>2. \A req \in lateAppend : Faithful(r, req)
  BY SendLasts
<1>3. \A f \in Server : /\ SendOK(q, nextindex[L][f], sync[L][f], sent[L][f])
                        /\ SendOK(r, nextindex[L][f], sync[L][f], sent[L][f])
                        /\ sync[L][f] = "calling" => Faithful(r, sent[L][f])
  BY SendLasts
<1>4. Len(q) \in Nat /\ Len(r) \in Nat /\ Len(q) <= Len(r)
  BY <1>1 DEF Starts
<1>5. \A f \in Server : nextindex[L][f] \in Int
  BY <1>0 DEF SyncType
<1>. HIDE DEF q, r
<1>6. SUFFICES (\A f \in Server : OK(f)) /\ LateOK
  BY DEF SendInv, SendOK, r
<1>7. ASSUME UNCHANGED syncVars PROVE (\A f \in Server : OK(f)) /\ LateOK
  BY <1>2, <1>3, <1>7 DEF syncVars
<1>8. ASSUME NEW v \in Server, StopThreads(v) PROVE (\A f \in Server : OK(f)) /\ LateOK
  <2>1. CASE ~ StepsDown(v)
    BY <1>7, <1>8, <2>1 DEF StopThreads
  <2>2. CASE StepsDown(v)
    <3>1. v = L
      BY <2>2, LeaderIsL DEF StepsDown
    <3>2. /\ sync' = [sync EXCEPT ![L] = [f \in Server |-> "off"]]
          /\ nextindex' = nextindex
          /\ lateAppend' \subseteq lateAppend \cup Orphans(L)
      BY <1>8, <2>2, <3>1 DEF StopThreads
    <3>3. \A req \in Orphans(L) : Faithful(r, req)
      BY <1>3 DEF Orphans
    <3>4. \A f \in Server : sync'[L][f] = "off"
      BY <1>0, <3>2 DEF SyncType
    <3>5. \A f \in Server : OK(f)
      BY <1>3, <3>2, <3>4 DEF SendOK
    <3>6. LateOK
      BY <1>2, <3>2, <3>3
    <3>. QED
      BY <3>5, <3>6
  <2>. QED
    BY <2>1, <2>2
<1>9. ASSUME NEW s \in Server, NodeStep(s) PROVE (\A f \in Server : OK(f)) /\ LateOK
  <2>1. CASE PodTimer(s) \/ PodVoteAbort(s) \/ Apply(s) \/ ProbeReturn(s)
              \/ \E f \in Server : PodVoteCall(s, f) \/ PodHeartBeatTimeout(s, f)
    <3>1. UNCHANGED syncVars
      BY <2>1 DEF PodTimer, PodVoteAbort, Apply, ProbeReturn, PodVoteCall, PodHeartBeatTimeout
    <3>. QED
      BY <1>7, <3>1
  <2>2. CASE PodVoteAnswer(s)
    <3>1. call[s].to \in Server
      BY <2>2 DEF PodVoteAnswer, PodInv, CoreInv, CallInv, ElectionTypeOK, VoteReq
    <3>2. StopThreads(call[s].to)
      BY <2>2 DEF PodVoteAnswer
    <3>. QED
      BY <1>8, <3>1, <3>2
  <2>3. ASSUME NEW f \in Server, PodHeartBeat(s, f)
        PROVE  (\A g \in Server : OK(g)) /\ LateOK
    <3>1. StopThreads(f)
      BY <2>3 DEF PodHeartBeat
    <3>. QED
      BY <1>8, <3>1
  <2>4. CASE PodBecomeLeader(s)
    <3>1. /\ nextindex' = [nextindex EXCEPT ![s] =
                 [f \in Server |-> IF f \in Followers[s] THEN log[s].commited ELSE nextindex[s][f]]]
          /\ sync' = [sync EXCEPT ![s] = [f \in Server |-> IF f \in Followers[s] THEN "idle" ELSE "off"]]
          /\ UNCHANGED <<sent, lateAppend>>
      BY <1>0, <2>4 DEF PodBecomeLeader, SyncType
    <3>2. log[L].commited \in Nat /\ log[L].commited <= Len(q)
      BY <1>0 DEF LogInv, Log, LogsInv, q
    <3>3. ASSUME NEW f \in Server PROVE OK(f)
      <4>1. CASE s # L
        <5>1. nextindex'[L] = nextindex[L] /\ sync'[L] = sync[L] /\ sent'[L] = sent[L]
          BY <1>0, <3>1, <4>1 DEF SyncType
        <5>. QED
          BY <1>3, <5>1
      <4>2. CASE s = L
        <5>1. nextindex'[L][f] = log[L].commited \/ nextindex'[L][f] = nextindex[L][f]
          BY <1>0, <3>1, <4>2 DEF SyncType
        <5>2. sync'[L][f] \in {"idle", "off"}
          BY <1>0, <3>1, <4>2 DEF SyncType
        <5>3. nextindex[L][f] <= Len(r)
          BY <1>3 DEF SendOK
        <5>. QED
          BY <1>4, <1>5, <3>2, <5>1, <5>2, <5>3 DEF SendOK
      <4>. QED
        BY <4>1, <4>2
    <3>. QED
      BY <1>2, <3>1, <3>3
  <2>. HIDE DEF OK, LateOK
  <2>. QED
    BY <1>9, <2>1, <2>2, <2>3, <2>4 DEF NodeStep
<1>10. ASSUME NEW s \in Server, NEW f \in Server, SyncStep(s, f)
       PROVE  (\A g \in Server : OK(g)) /\ LateOK
  <2>1. s = L
    <3>1. sync[s][f] # "off"
      BY <1>10 DEF SyncStep, SyncStart, SyncSend, SyncAnswer, SyncTimeout, AppendAnswer
    <3>. QED
      BY <1>0, <3>1, LeaderIsL DEF SyncOnlyWhileLeading
  <2>2. ASSUME NEW g \in Server, g # f PROVE OK(g)
    <3>1. nextindex'[L][g] = nextindex[L][g] /\ sync'[L][g] = sync[L][g] /\ sent'[L][g] = sent[L][g]
      BY <1>0, <1>10, <2>1, <2>2 DEF SyncStep, SyncStart, SyncSend, SyncAnswer, SyncTimeout,
         AppendAnswer, SyncTo, SyncType
    <3>. QED
      BY <1>3, <3>1
  <2>3. OK(f)
    <3>1. SendOK(q, nextindex[L][f], sync[L][f], sent[L][f]) /\ nextindex[L][f] \in Int
      BY <1>3, <1>5
    <3>2. CASE SyncStart(s, f)
      <4>1. /\ nextindex'[L][f] = nextindex[L][f] /\ sync'[L][f] = "sending"
            /\ nextindex[L][f] < Len(q)
        <5>1. LogIndex(L) = Len(q) /\ LogIndex(L) \in 0..MaxIndex
          BY <1>0, <1>4, IndexInRange DEF LogIndex, Index, LogsInv, q
        <5>2. nextindex[L][f] < Len(q)
          BY <1>4, <2>1, <3>1, <3>2, <5>1, SizeTType, IndexAssumption, BoundsAssumption, CapacityAssumption
             DEF SyncStart, SendOK
        <5>. QED
          BY <1>0, <2>1, <3>2, <5>2 DEF SyncStart, SyncTo, SyncType
      <4>. QED
        BY <1>4, <3>1, <4>1 DEF SendOK
    <3>3. CASE SyncSend(s, f)
      <4>. DEFINE i == nextindex[L][f] + 1
      <4>1. /\ nextindex'[L][f] = nextindex[L][f] /\ sync'[L][f] = "calling"
            /\ sent'[L][f].index = i /\ sent'[L][f].entry = At(log[L], i)
        BY <1>0, <2>1, <3>3 DEF SyncSend, SyncTo, SyncType
      <4>2. i \in Int /\ i <= Len(q)
        BY <1>4, <2>1, <3>1, <3>3 DEF SyncSend, SendOK
      <4>3. i >= 1 => At(log[L], i) = q[i]
        BY <1>0, <1>4, <4>2 DEF At, Slot, LogsInv, q
      <4>4. Faithful(r, sent'[L][f])
        BY <1>1, <1>4, <4>1, <4>2, <4>3 DEF Faithful, Starts
      <4>. QED
        BY <1>4, <3>1, <4>1, <4>2, <4>4 DEF SendOK
    <3>4. CASE SyncAnswer(s, f)
      <4>1. nextindex[L][f] < Len(q)
        BY <2>1, <3>1, <3>4 DEF SyncAnswer, SendOK
      <4>2. \/ nextindex'[L][f] = nextindex[L][f] - 1 /\ sync'[L][f] = "sending"
            \/ nextindex'[L][f] = nextindex[L][f] + 1 /\ sync'[L][f] = "idle"
        BY <1>0, <2>1, <3>4 DEF SyncAnswer, SyncTo, SyncType
      <4>. QED
        BY <1>4, <3>1, <4>1, <4>2 DEF SendOK
    <3>5. CASE SyncTimeout(s, f) \/ AppendAnswer(s, f)
      <4>1. /\ nextindex'[L][f] = nextindex[L][f] /\ sync'[L][f] \in {"sending", "ok", "nak"}
            /\ nextindex[L][f] < Len(q)
        BY <1>0, <2>1, <3>1, <3>5 DEF SyncTimeout, AppendAnswer, SyncTo, SyncType, SendOK
      <4>. QED
        BY <1>4, <3>1, <4>1 DEF SendOK
    <3>. QED
      BY <1>10, <3>2, <3>3, <3>4, <3>5 DEF SyncStep
  <2>4. LateOK
    <3>1. CASE SyncTimeout(s, f) /\ sync[s][f] = "calling"
      <4>1. \A req \in lateAppend' : req \in lateAppend \/ req = sent[L][f]
        BY <2>1, <3>1, AbandonedBound DEF SyncTimeout
      <4>. QED
        BY <1>2, <1>3, <2>1, <3>1, <4>1
    <3>2. CASE ~ (SyncTimeout(s, f) /\ sync[s][f] = "calling")
      <4>1. lateAppend' = lateAppend
        BY <1>10, <3>2 DEF SyncStep, SyncStart, SyncSend, SyncAnswer, SyncTimeout, AppendAnswer
      <4>. QED
        BY <1>2, <4>1
    <3>. QED
      BY <3>1, <3>2
  <2>. HIDE DEF OK, LateOK
  <2>. QED
    BY <2>2, <2>3, <2>4
<1>11. ASSUME LateStep PROVE (\A f \in Server : OK(f)) /\ LateOK
  <2>1. ASSUME NEW req \in lateVote, PodVoteLate(req) PROVE (\A f \in Server : OK(f)) /\ LateOK
    <3>1. req.to \in Server /\ StopThreads(req.to)
      BY <2>1 DEF PodVoteLate, PodInv, CoreInv, ElectionTypeOK, VoteReq
    <3>. QED
      BY <1>8, <3>1
  <2>2. ASSUME NEW req \in lateBeat, PodHeartBeatLate(req) PROVE (\A f \in Server : OK(f)) /\ LateOK
    <3>1. req.to \in Server /\ StopThreads(req.to)
      BY <2>2 DEF PodHeartBeatLate, PodInv, CoreInv, ElectionTypeOK, BeatReq
    <3>. QED
      BY <1>8, <3>1
  <2>3. ASSUME NEW req \in lateAppend, AppendLate(req) PROVE (\A f \in Server : OK(f)) /\ LateOK
    <3>1. UNCHANGED <<nextindex, sync, sent>> /\ lateAppend' \subseteq lateAppend
      BY <2>3 DEF AppendLate
    <3>. QED
      BY <1>2, <1>3, <3>1
  <2>. HIDE DEF OK, LateOK
  <2>. QED
    BY <1>11, <2>1, <2>2, <2>3 DEF LateStep
<1>12. ASSUME NEW v \in Value, ClientStep(v) PROVE UNCHANGED syncVars
  BY <1>12 DEF ClientStep, PutCheck, InnerPut, PutReturn
<1>. HIDE DEF OK, LateOK
<1>. QED
  BY <1>7, <1>9, <1>10, <1>11, <1>12 DEF PodNext

-----------------------------------------------------------------------------
(***************************************************************************)
(* Logs agree as long as one node has won all elections.                   *)
(***************************************************************************)

\* The initial state satisfies the invariant for every node.
LEMMA InitAgreeInv == PodInit => AgreeInv
<1>. SUFFICES ASSUME PodInit, NEW L \in Server PROVE ReplInv(L)
  BY DEF AgreeInv
<1>1. \A s \in Server : log[s].start = 0 /\ log[s].queue = <<>> /\ log[s].commited = 0
  BY DEF PodInit, NewLog
<1>2. Len(<<>>) = 0 /\ Starts(<<>>, <<>>)
  BY DEF Starts
<1>3. LogsInv(L)
  BY <1>1, <1>2 DEF LogsInv
<1>4. PutsInv(L)
  BY DEF PodInit, PutsInv, NewPut
<1>5. SendInv(L)
  BY <1>1, <1>2 DEF PodInit, SendInv
<1>. QED
  BY <1>3, <1>4, <1>5 DEF ReplInv

\* The step: whoever has won all elections after it had done so before.
LEMMA AgreeInvStep ==
    ASSUME PodInv, ElectionInv, AgreeInv, [PodNext]_podVars
    PROVE  AgreeInv'
<1>. SUFFICES ASSUME NEW L \in Server, Winner(L)' PROVE ReplInv(L)'
  BY DEF AgreeInv
<1>1. Winner(L) /\ ReplInv(L)
  <2>1. leaders \subseteq leaders'
    BY ElectionStep, WinsRemembered
  <2>. QED
    BY <2>1 DEF Winner, AgreeInv
<1>2. CASE PodNext
  <2>1. LogsInv(L)' /\ PutsInv(L)' /\ SendInv(L)'
    BY <1>1, <1>2, LogsInvStep, PutsInvStep, SendInvStep DEF ReplInv
  <2>. QED
    BY <2>1 DEF ReplInv
<1>3. CASE UNCHANGED podVars
  <2>1. UNCHANGED <<log, nextindex, sync, sent, lateAppend, put, leaders>>
    BY <1>3 DEF podVars, logVars, syncVars, electionVars
  <2>. QED
    BY <1>1, <2>1 DEF ReplInv, LogsInv, PutsInv, SendInv
<1>. QED
  BY <1>2, <1>3

\* The invariant holds, together with those of the cluster and of the election.
LEMMA AgreeInvariance == PodSpec => [](PodInv /\ ElectionInv /\ AgreeInv)
<1>1. PodSpec => []ElectionInv
  BY PodImplementsElection, InvariantHolds, PTL
<1>2. PodInit => AgreeInv
  BY InitAgreeInv
<1>. QED
  BY <1>1, <1>2, AgreeInvStep, PodInvariance, PTL DEF PodSpec

\* One node has won all elections so far.
OneWinner == \A l, m \in leaders : l.node = m.node

\* Somebody has, even if nobody won yet.
LEMMA WinnerExists ==
    ASSUME ElectionTypeOK, OneWinner, NEW s \in Server
    PROVE  \E L \in Server : Winner(L)
BY DEF ElectionTypeOK, Victory, OneWinner, Winner

\* Two prefixes of one log agree.
LEMMA PrefixesAgree ==
    ASSUME PodInv, NEW L \in Server, LogsInv(L)
    PROVE  LogsAgree
<1>. SUFFICES ASSUME NEW s \in Server, NEW t \in Server, NEW i \in 1..Min({LogIndex(s), LogIndex(t)})
              PROVE  At(log[s], i) = At(log[t], i)
  BY DEF LogsAgree
<1>1. \A u \in Server : /\ log[u].start = 0 /\ Len(log[u].queue) \in Nat
                        /\ LogIndex(u) = Len(log[u].queue)
                        /\ Starts(log[u].queue, log[L].queue)
  BY DEF PodInv, LogInv, Log, LogsInv, LogIndex, Index
<1>2. /\ Min({LogIndex(s), LogIndex(t)}) \in {LogIndex(s), LogIndex(t)}
      /\ \A m \in {LogIndex(s), LogIndex(t)} : Min({LogIndex(s), LogIndex(t)}) <= m
  BY <1>1, MinOfNaturals
<1>3. i \in 1..Len(log[s].queue) /\ i \in 1..Len(log[t].queue)
  BY <1>1, <1>2
<1>4. At(log[s], i) = log[s].queue[i] /\ At(log[t], i) = log[t].queue[i]
  BY <1>1, <1>3 DEF At, Slot
<1>. QED
  BY <1>1, <1>3, <1>4 DEF Starts

(***************************************************************************)
(* The logs of any two nodes agree as far as both reach as long as no      *)
(* second node has won an election, through lost, late and repeated entry  *)
(* requests, probes and writes that race with a leader being deposed.      *)
(***************************************************************************)
THEOREM OneWinnerLogsAgree == PodSpec => [](OneWinner => LogsAgree)
<1>1. PodInv /\ AgreeInv => (OneWinner => LogsAgree)
  <2>. SUFFICES ASSUME PodInv, AgreeInv, OneWinner PROVE LogsAgree
    OBVIOUS
  <2>1. CASE Server = {}
    BY <2>1 DEF LogsAgree
  <2>2. CASE Server # {}
    <3>1. PICK L \in Server : Winner(L)
      BY <2>2, WinnerExists DEF PodInv, CoreInv
    <3>. QED
      BY <3>1, PrefixesAgree DEF AgreeInv, ReplInv
  <2>. QED
    BY <2>1, <2>2
<1>. QED
  BY <1>1, AgreeInvariance, PTL

(***************************************************************************)
(* In particular they agree for ever where one node only starts elections. *)
(***************************************************************************)
THEOREM SoleElectorLogsAgree ==
    ASSUME NEW e \in Server, Electors \subseteq {e}
    PROVE  PodSpec => []LogsAgree
<1>1. ElectionSpec => []OneVictory
  BY SoleElectorWinsOnce, PTL
<1>2. OneVictory => OneWinner
  BY DEF OneVictory, OneWinner
<1>. QED
  BY <1>1, <1>2, PodImplementsElection, OneWinnerLogsAgree, PTL

-----------------------------------------------------------------------------
(***************************************************************************)
(* What the leader counts as commited is on a majority, as long as one     *)
(* election has been won.  For the address lists of DEPLOYMENT.md, and     *)
(* while the ring buffers have room: UpdateRaftLog answers 0 for an entry  *)
(* a full one drops.                                                       *)
(***************************************************************************)
FullLists == \A s \in Server : Followers[s] = Server
Roomy == MaxIndex <= Capacity

\* Before the first win there is nothing to commit.
QuietInv ==
    leaders = {} => \A s \in Server : Len(log[s].queue) = 0 /\ log[s].commited = 0

\* A matched index of a follower is in its log; the thread of L for itself, whose
\* entries L has already, never gets a match.
MatchOK(L, f, next, state, req, n) ==
    /\ next >= 1 => next <= n
    /\ state = "ok" => f # L /\ next >= 0 /\ next < n
    /\ state = "calling" => req.to = f /\ req.index = next + 1
    /\ f = L => next <= 0
MatchInv(L) ==
    \A f \in Server : MatchOK(L, f, nextindex[L][f], sync[L][f], sent[L][f], Len(log[f].queue))

\* Only L beats, and its heartbeats are not ahead of its commit index.
BeatInv(L) ==
    /\ \A s \in Server : pc[s] = "beating" => s = L
    /\ \A req \in lateBeat : req.commited <= log[L].commited

\* While L leads, what it counts as commited is on a majority.
CommitInv(L) ==
    status[L] = "Leader" => \A i \in 1..log[L].commited : Majority(Holders(L, i))

MajorInv == /\ QuietInv
            /\ \A L \in Server : Winner(L) /\ OneVictory => MatchInv(L) /\ BeatInv(L) /\ CommitInv(L)

\* Without a win no log moves.
LEMMA QuietStep ==
    ASSUME PodInv, ElectionInv, AgreeInv, QuietInv, PodNext
    PROVE  QuietInv'
<1>. SUFFICES ASSUME leaders' = {}, NEW s \in Server
              PROVE  Len(log'[s].queue) = 0 /\ log'[s].commited = 0
  BY DEF QuietInv
<1>1. leaders = {}
  BY ElectionStep, WinsRemembered
<1>2. Len(log[s].queue) = 0 /\ log[s].commited = 0
  BY <1>1 DEF QuietInv
<1>3. Winner(s) /\ ReplInv(s)
  BY <1>1 DEF Winner, AgreeInv
<1>4. log[s].start = 0
  BY <1>3 DEF ReplInv, LogsInv
<1>5. Kept(log[s], log'[s])
  BY <1>1, <1>3, LogsMove DEF LogMoves, OwnAppend
<1>6. log'[s].commited \in Nat
  BY LogStep DEF LogsGrow, LogInv, Log
<1>. QED
  BY <1>2, <1>4, <1>5, <1>6 DEF Kept, Index

\* A second win is a second victory, for it is of a later term.
LEMMA FirstWin ==
    ASSUME ElectionTypeOK, WinInv, OneVictory', NEW s \in Server, BecomeLeader(s)
    PROVE  leaders = {}
<1>. SUFFICES ASSUME NEW l \in leaders PROVE FALSE
  OBVIOUS
<1>. DEFINE w == [node |-> s, term |-> term[s], voters |-> ticket[s]]
<1>1. leaders' = leaders \cup {w} /\ pc[s] = "asking" /\ status[s] = "Candidate"
  BY DEF BecomeLeader
<1>2. l = w
  BY <1>1 DEF OneVictory
<1>3. l.node = s /\ l.term = term[s]
  BY <1>2
<1>. QED
  BY <1>1, <1>3 DEF WinInv, ElectionTypeOK

\* An entry that matches is appended, if there is room.
LEMMA MatchAppends ==
    ASSUME PodInv, NEW L \in Server, LogsInv(L), Roomy, NEW req, ReqOK(req), SolveAppend(req),
           Matches(log[req.to], req)
    PROVE  /\ req.index = Len(log[req.to].queue) + 1
           /\ Len(log'[req.to].queue) = Len(log[req.to].queue) + 1
<1>. DEFINE f == req.to
            l == UpdateCommit(AfterStop(f), LeaderCommit(req))
            m == UpdateRaftLog(l, req)
<1>0. LogInv /\ SyncType /\ f \in Server /\ log[f] \in Log /\ LogOK(log[f]) /\ log[f].start = 0
  BY RequestNodes DEF PodInv, LogInv, LogsInv
<1>1. l \in Log /\ Kept(log[f], l) /\ LogOK(l)
  BY <1>0, BeatKept, AfterStopOK, UpdateCommitOK DEF LeaderCommit
<1>2. l.queue = log[f].queue /\ l.start = 0 /\ Len(l.queue) \in Nat
  BY <1>0, <1>1 DEF Kept, Log
<1>3. req.index = Len(l.queue) + 1 /\ req.index <= MaxIndex /\ req.entry \in Entry
  BY <1>0, <1>2, ResetUnreached DEF Matches, Index, ReqOK, AppendReq
<1>4. Matches(l, req) /\ HasRoom(l)
  <2>1. ResetLog(l, req) = l
    BY <1>1, ResetUnreached
  <2>. HIDE DEF l
  <2>2. Matches(l, req)
    BY <1>2, <1>3, <2>1 DEF Matches, Index
  <2>3. HasRoom(l)
    BY <1>2, <1>3, BoundsAssumption, CapacityAssumption DEF HasRoom, Roomy
  <2>. QED
    BY <2>2, <2>3
<1>5. m.queue = Append(l.queue, req.entry)
  BY <1>1, <1>4, ResetUnreached DEF UpdateRaftLog, PutEntry, Log
<1>6. Len(m.queue) = Len(l.queue) + 1
  BY <1>1, <1>3, <1>5 DEF Log
<1>7. log'[f] = m
  BY <1>0 DEF SolveAppend, LogInv
<1>. HIDE DEF m, l
<1>. QED
  BY <1>2, <1>3, <1>6, <1>7

\* What is matched stays matched while logs grow.
LEMMA MatchOKGrown ==
    ASSUME NEW L, NEW f, NEW next \in Int, NEW state, NEW req, NEW n \in Nat, NEW m \in Nat,
           n <= m, MatchOK(L, f, next, state, req, n)
    PROVE  MatchOK(L, f, next, state, req, m)
BY DEF MatchOK

\* Every step keeps the matches.
LEMMA MatchStep ==
    ASSUME PodInv, ElectionInv, WinInv, NEW L \in Server, Winner(L)', Winner(L), ReplInv(L),
           QuietInv, Roomy, OneVictory', MatchInv(L), PodNext
    PROVE  MatchInv(L)'
<1>. DEFINE n(f) == Len(log[f].queue)
            m(f) == Len(log'[f].queue)
            Ok(f) == MatchOK(L, f, nextindex'[L][f], sync'[L][f], sent'[L][f], m(f))
<1>0. LogInv /\ SyncType /\ SyncInv /\ SyncOnlyWhileLeading /\ LogsInv(L) /\ SendInv(L) /\ CoreInv
  BY DEF PodInv, ReplInv
<1>1. \A f \in Server : n(f) \in Nat /\ m(f) \in Nat /\ n(f) <= m(f)
  BY <1>0, LogStep DEF LogsGrow, LogInv, Log, Grown
<1>2. \A f \in Server : /\ nextindex[L][f] \in Int
                        /\ MatchOK(L, f, nextindex[L][f], sync[L][f], sent[L][f], n(f))
  BY <1>0 DEF SyncType, MatchInv
<1>. HIDE DEF n, m
<1>3. \A f \in Server : MatchOK(L, f, nextindex[L][f], sync[L][f], sent[L][f], m(f))
  BY <1>1, <1>2, MatchOKGrown
<1>4. SUFFICES \A f \in Server : Ok(f)
  BY DEF MatchInv, m
<1>5. ASSUME UNCHANGED <<nextindex, sync, sent>> PROVE \A f \in Server : Ok(f)
  BY <1>3, <1>5
<1>6. ASSUME NEW v \in Server, StopThreads(v) PROVE \A f \in Server : Ok(f)
  <2>1. CASE ~ StepsDown(v)
    BY <1>5, <1>6, <2>1 DEF StopThreads, syncVars
  <2>2. CASE StepsDown(v)
    <3>1. /\ sync' = [sync EXCEPT ![v] = [f \in Server |-> "off"]]
          /\ sent' = [sent EXCEPT ![v] = [f \in Server |-> None]]
          /\ nextindex' = nextindex
      BY <1>6, <2>2 DEF StopThreads
    <3>2. v = L
      BY <2>2, LeaderIsL DEF StepsDown
    <3>3. \A f \in Server : sync'[L][f] = "off"
      BY <1>0, <3>1, <3>2 DEF SyncType
    <3>. QED
      BY <1>3, <3>1, <3>3 DEF MatchOK
  <2>. QED
    BY <2>1, <2>2
<1>7. ASSUME NEW s \in Server, NodeStep(s) PROVE \A f \in Server : Ok(f)
  <2>1. CASE PodTimer(s) \/ PodVoteAbort(s) \/ Apply(s) \/ ProbeReturn(s)
              \/ \E f \in Server : PodVoteCall(s, f) \/ PodHeartBeatTimeout(s, f)
    <3>1. UNCHANGED syncVars
      BY <2>1 DEF PodTimer, PodVoteAbort, Apply, ProbeReturn, PodVoteCall, PodHeartBeatTimeout
    <3>. QED
      BY <1>5, <3>1 DEF syncVars
  <2>2. CASE PodVoteAnswer(s)
    <3>1. call[s].to \in Server
      BY <2>2 DEF PodVoteAnswer, PodInv, CoreInv, CallInv, ElectionTypeOK, VoteReq
    <3>2. StopThreads(call[s].to)
      BY <2>2 DEF PodVoteAnswer
    <3>. QED
      BY <1>6, <3>1, <3>2
  <2>3. ASSUME NEW f \in Server, PodHeartBeat(s, f) PROVE \A g \in Server : Ok(g)
    <3>1. StopThreads(f)
      BY <2>3 DEF PodHeartBeat
    <3>. QED
      BY <1>6, <3>1
  <2>4. CASE PodBecomeLeader(s)
    <3>1. s = L
      <4>. DEFINE w == [node |-> s, term |-> term[s], voters |-> ticket[s]]
      <4>1. w \in leaders'
        BY <2>4 DEF PodBecomeLeader, BecomeLeader
      <4>2. w.node = s
        OBVIOUS
      <4>. HIDE DEF w
      <4>. QED
        BY <4>1, <4>2 DEF Winner
    <3>2. leaders = {}
      BY <1>0, <2>4, FirstWin DEF PodBecomeLeader, CoreInv
    <3>3. log[L].commited = 0
      BY <3>2 DEF QuietInv
    <3>4. /\ nextindex' = [nextindex EXCEPT ![L] =
                 [f \in Server |-> IF f \in Followers[L] THEN 0 ELSE nextindex[L][f]]]
          /\ sync' = [sync EXCEPT ![L] = [f \in Server |-> IF f \in Followers[L] THEN "idle" ELSE "off"]]
          /\ UNCHANGED sent
      BY <1>0, <2>4, <3>1, <3>3 DEF PodBecomeLeader, SyncType
    <3>5. ASSUME NEW f \in Server PROVE Ok(f)
      <4>1. sync'[L][f] \in {"idle", "off"} /\ sent'[L][f] = sent[L][f]
        BY <1>0, <3>4 DEF SyncType
      <4>2. nextindex'[L][f] = 0 \/ nextindex'[L][f] = nextindex[L][f]
        BY <1>0, <3>4 DEF SyncType
      <4>. QED
        BY <1>3, <4>1, <4>2 DEF MatchOK
    <3>. QED
      BY <3>5
  <2>. HIDE DEF Ok
  <2>. QED
    BY <1>7, <2>1, <2>2, <2>3, <2>4 DEF NodeStep
<1>8. ASSUME NEW s \in Server, NEW f \in Server, SyncStep(s, f) PROVE \A g \in Server : Ok(g)
  <2>1. s = L
    <3>1. sync[s][f] # "off"
      BY <1>8 DEF SyncStep, SyncStart, SyncSend, SyncAnswer, SyncTimeout, AppendAnswer
    <3>. QED
      BY <1>0, <3>1, LeaderIsL DEF SyncOnlyWhileLeading
  <2>2. ASSUME NEW g \in Server, g # f PROVE Ok(g)
    <3>1. nextindex'[L][g] = nextindex[L][g] /\ sync'[L][g] = sync[L][g] /\ sent'[L][g] = sent[L][g]
      BY <1>0, <1>8, <2>1, <2>2 DEF SyncStep, SyncStart, SyncSend, SyncAnswer, SyncTimeout,
         AppendAnswer, SyncTo, SyncType
    <3>. QED
      BY <1>3, <3>1
  <2>3. Ok(f)
    <3>1. /\ MatchOK(L, f, nextindex[L][f], sync[L][f], sent[L][f], n(f))
          /\ MatchOK(L, f, nextindex[L][f], sync[L][f], sent[L][f], m(f))
          /\ nextindex[L][f] \in Int /\ n(f) \in Nat /\ m(f) \in Nat /\ n(f) <= m(f)
      BY <1>1, <1>2, <1>3
    <3>2. CASE SyncStart(s, f) \/ SyncTimeout(s, f)
      <4>1. nextindex'[L][f] = nextindex[L][f] /\ sync'[L][f] = "sending"
        BY <1>0, <2>1, <3>2 DEF SyncStart, SyncTimeout, SyncTo, SyncType
      <4>. QED
        BY <3>1, <4>1 DEF MatchOK
    <3>3. CASE SyncSend(s, f)
      <4>1. /\ nextindex'[L][f] = nextindex[L][f] /\ sync'[L][f] = "calling"
            /\ sent'[L][f].to = f /\ sent'[L][f].index = nextindex[L][f] + 1
        BY <1>0, <2>1, <3>3 DEF SyncSend, SyncTo, SyncType
      <4>. QED
        BY <3>1, <4>1 DEF MatchOK
    <3>4. CASE SyncAnswer(s, f)
      <4>1. \/ nextindex'[L][f] = nextindex[L][f] - 1 /\ sync'[L][f] = "sending"
            \/ nextindex'[L][f] = nextindex[L][f] + 1 /\ sync'[L][f] = "idle" /\ sync[L][f] = "ok"
        BY <1>0, <2>1, <3>4 DEF SyncAnswer, SyncTo, SyncType
      <4>. QED
        BY <3>1, <4>1 DEF MatchOK
    <3>5. CASE AppendAnswer(s, f)
      <4>. DEFINE req == sent[L][f]
      <4>1. /\ sync[L][f] = "calling" /\ SolveAppend(req) /\ nextindex'[L][f] = nextindex[L][f]
            /\ sync'[L][f] = IF Matches(log[f], req) THEN "ok" ELSE "nak"
        BY <1>0, <2>1, <3>5 DEF AppendAnswer, SyncTo, SyncType
      <4>2. ReqOK(req) /\ Faithful(log[L].queue, req) /\ req.to = f /\ req.index = nextindex[L][f] + 1
        BY <1>0, <3>1, <4>1 DEF SyncInv, SendInv, MatchOK
      <4>. HIDE DEF req
      <4>3. CASE ~ Matches(log[f], req)
        BY <3>1, <4>1, <4>3 DEF MatchOK
      <4>4. CASE Matches(log[f], req)
        <5>1. req.index = n(f) + 1 /\ m(f) = n(f) + 1
          BY <1>0, <4>1, <4>2, <4>4, MatchAppends DEF n, m
        <5>2. nextindex[L][f] = n(f)
          BY <3>1, <4>2, <5>1
        <5>3. f # L
          BY <3>1, <4>2, <5>1 DEF Faithful, n
        <5>. QED
          BY <3>1, <4>1, <4>4, <5>1, <5>2, <5>3 DEF MatchOK
      <4>. QED
        BY <4>3, <4>4
    <3>. QED
      BY <1>8, <3>2, <3>3, <3>4, <3>5 DEF SyncStep
  <2>. HIDE DEF Ok
  <2>. QED
    BY <2>2, <2>3
<1>9. ASSUME LateStep PROVE \A f \in Server : Ok(f)
  <2>1. ASSUME NEW req \in lateVote, PodVoteLate(req) PROVE \A f \in Server : Ok(f)
    <3>1. req.to \in Server /\ StopThreads(req.to)
      BY <2>1 DEF PodVoteLate, PodInv, CoreInv, ElectionTypeOK, VoteReq
    <3>. QED
      BY <1>6, <3>1
  <2>2. ASSUME NEW req \in lateBeat, PodHeartBeatLate(req) PROVE \A f \in Server : Ok(f)
    <3>1. req.to \in Server /\ StopThreads(req.to)
      BY <2>2 DEF PodHeartBeatLate, PodInv, CoreInv, ElectionTypeOK, BeatReq
    <3>. QED
      BY <1>6, <3>1
  <2>3. ASSUME NEW req \in lateAppend, AppendLate(req) PROVE \A f \in Server : Ok(f)
    BY <1>5, <2>3 DEF AppendLate
  <2>. HIDE DEF Ok
  <2>. QED
    BY <1>9, <2>1, <2>2, <2>3 DEF LateStep
<1>10. ASSUME NEW v \in Value, ClientStep(v) PROVE UNCHANGED <<nextindex, sync, sent>>
  BY <1>10 DEF ClientStep, PutCheck, InnerPut, PutReturn, syncVars
<1>. HIDE DEF Ok
<1>. QED
  BY <1>5, <1>7, <1>8, <1>9, <1>10 DEF PodNext

\* An increment of term_ during a handler starts no heartbeat loop.
LEMMA AskingBeats ==
    ASSUME NEW place \in [Server -> {"wait", "candidate", "asking", "calling", "beating"}],
           NEW v \in Server, NEW n, NEW s \in Server,
           Asking(place, v, n)[s] = "beating"
    PROVE  place[s] = "beating"
BY DEF Asking

\* Only a leader begins to beat, and a late heartbeat carries what L had commited.
LEMMA BeatStep ==
    ASSUME PodInv, ElectionInv, NEW L \in Server, Winner(L), BeatInv(L), PodNext
    PROVE  BeatInv(L)'
<1>. DEFINE Pc == \A s \in Server : pc'[s] = "beating" => pc[s] = "beating"
            Late == lateBeat' \subseteq lateBeat
<1>0. CoreInv /\ pc \in [Server -> {"wait", "candidate", "asking", "calling", "beating"}]
  BY DEF PodInv, CoreInv, ElectionTypeOK
<1>1. log[L].commited \in Nat /\ log'[L].commited \in Nat /\ log[L].commited <= log'[L].commited
  BY LogStep DEF PodInv, LogsGrow, LogInv, Log, Grown
<1>2. \A req \in lateBeat : req.commited \in Nat
  BY <1>0 DEF CoreInv, ElectionTypeOK, BeatReq
<1>3. ASSUME Pc, Late PROVE BeatInv(L)'
  BY <1>1, <1>2, <1>3 DEF BeatInv
<1>8. ASSUME NEW f \in Server, NEW from, NEW t, NEW beyond, SolveAppendTerm(f, from, t, beyond)
      PROVE  Pc
  <2>1. PICK n : pc' = Asking(pc, f, n)
    BY <1>8 DEF SolveAppendTerm
  <2>. QED
    BY <1>0, <2>1, AskingBeats
<1>9. ASSUME NEW req, ReqOK(req), SolveAppend(req) PROVE Pc /\ Late
  <2>1. req.to \in Server
    BY <1>9, RequestNodes
  <2>. QED
    BY <1>8, <1>9, <2>1 DEF SolveAppend, AppendEntry
<1>4. ASSUME NEW s \in Server, NodeStep(s) PROVE BeatInv(L)'
  <2>1. ASSUME BeatStart(s) PROVE BeatInv(L)'
    <3>1. s = L
      BY <2>1, LeaderIsL DEF BeatStart
    <3>2. pc' = [pc EXCEPT ![s] = "beating"] /\ lateBeat' = lateBeat
      BY <2>1 DEF BeatStart
    <3>. QED
      BY <1>0, <1>1, <1>2, <3>1, <3>2 DEF BeatInv
  <2>2. ASSUME NEW f \in Server, PodHeartBeatTimeout(s, f) PROVE BeatInv(L)'
    <3>1. pc[s] = "beating" /\ pc' = pc
      BY <2>2 DEF PodHeartBeatTimeout, HeartBeatTimeout, BeatTo
    <3>2. s = L
      BY <3>1 DEF BeatInv
    <3>. DEFINE b == [from |-> s, to |-> f, term |-> term[s], commited |-> log[s].commited]
    <3>3. lateBeat' \subseteq lateBeat \cup {b}
      BY <2>2 DEF PodHeartBeatTimeout, HeartBeatTimeout, Abandoned
    <3>4. b.commited = log[L].commited
      BY <3>2
    <3>. HIDE DEF b
    <3>. QED
      BY <1>1, <1>2, <3>1, <3>3, <3>4 DEF BeatInv
  <2>3. CASE NotTimedOut(s) \/ ElectionTimeout(s) \/ RequestVote(s) \/ VoteTimeout(s)
              \/ LoseElection(s) \/ BeatDone(s)
    <3>1. Pc /\ Late
      BY <1>0, <2>3 DEF NotTimedOut, ElectionTimeout, RequestVote, VoteTimeout, LoseElection,
         LeaveRequestVote, BeatDone, electionVars, threadVars
    <3>. QED
      BY <1>3, <3>1
  <2>4. CASE PodVoteAbort(s) \/ PodBecomeLeader(s) \/ Apply(s) \/ ProbeReturn(s)
              \/ \E f \in Server : PodVoteCall(s, f)
    <3>1. Pc /\ Late
      BY <1>0, <2>4 DEF PodVoteAbort, VoteAbort, PodBecomeLeader, BecomeLeader, LeaveRequestVote,
         Apply, ProbeReturn, PodVoteCall, VoteCall, electionVars, threadVars
    <3>. QED
      BY <1>3, <3>1
  <2>5. CASE PodVoteAnswer(s)
    <3>1. call[s].to \in Server
      BY <1>0, <2>5 DEF PodVoteAnswer, CoreInv, CallInv, ElectionTypeOK, VoteReq
    <3>2. PICK n : pc' = Asking([pc EXCEPT ![s] = "asking"], call[s].to, n)
      BY <2>5 DEF PodVoteAnswer, VoteAnswer
    <3>3. [pc EXCEPT ![s] = "asking"] \in [Server -> {"wait", "candidate", "asking", "calling", "beating"}]
      BY <1>0
    <3>4. \A t \in Server : pc'[t] = "beating" => [pc EXCEPT ![s] = "asking"][t] = "beating"
      BY <3>1, <3>2, <3>3, AskingBeats
    <3>5. Pc
      BY <1>0, <3>4
    <3>6. Late
      BY <2>5 DEF PodVoteAnswer, VoteAnswer
    <3>. QED
      BY <1>3, <3>5, <3>6
  <2>6. ASSUME NEW f \in Server, PodHeartBeat(s, f) PROVE BeatInv(L)'
    <3>1. Pc
      BY <1>8, <2>6 DEF PodHeartBeat, SendHeartBeat
    <3>2. Late
      BY <2>6 DEF PodHeartBeat, SendHeartBeat
    <3>. QED
      BY <1>3, <3>1, <3>2
  <2>. QED
    BY <1>4, <2>1, <2>2, <2>3, <2>4, <2>5, <2>6 DEF NodeStep, PodTimer
<1>5. ASSUME NEW s \in Server, NEW f \in Server, SyncStep(s, f) PROVE Pc /\ Late
  <2>1. CASE AppendAnswer(s, f)
    BY <1>0, <1>9, <2>1 DEF AppendAnswer, PodInv, SyncInv
  <2>2. CASE SyncStart(s, f) \/ SyncSend(s, f) \/ SyncAnswer(s, f) \/ SyncTimeout(s, f)
    BY <2>2 DEF SyncStart, SyncSend, SyncAnswer, SyncTimeout, electionVars, threadVars
  <2>. HIDE DEF Pc, Late
  <2>. QED
    BY <1>5, <2>1, <2>2 DEF SyncStep
<1>6. ASSUME LateStep PROVE Pc /\ Late
  <2>1. ASSUME NEW req \in lateVote, PodVoteLate(req) PROVE Pc /\ Late
    <3>1. req.to \in Server /\ pc \in [Server -> {"wait", "candidate", "asking", "calling", "beating"}]
      BY <1>0 DEF CoreInv, ElectionTypeOK, VoteReq
    <3>2. PICK n : pc' = Asking(pc, req.to, n)
      BY <2>1 DEF PodVoteLate, VoteLate
    <3>3. Pc
      BY <3>1, <3>2, AskingBeats
    <3>. QED
      BY <2>1, <3>3 DEF PodVoteLate, VoteLate
  <2>2. ASSUME NEW req \in lateBeat, PodHeartBeatLate(req) PROVE Pc /\ Late
    <3>1. req.to \in Server
      BY <1>0 DEF CoreInv, ElectionTypeOK, BeatReq
    <3>. QED
      BY <1>8, <2>2, <3>1 DEF PodHeartBeatLate, HeartBeatLate
  <2>3. ASSUME NEW req \in lateAppend, AppendLate(req) PROVE Pc /\ Late
    BY <1>9, <2>3 DEF AppendLate, PodInv, SyncInv
  <2>. HIDE DEF Pc, Late
  <2>. QED
    BY <1>6, <2>1, <2>2, <2>3 DEF LateStep
<1>7. ASSUME NEW v \in Value, ClientStep(v) PROVE Pc /\ Late
  BY <1>7 DEF ClientStep, PutCheck, InnerPut, PutReturn, electionVars, threadVars
<1>. HIDE DEF Pc, Late
<1>. QED
  BY <1>3, <1>4, <1>5, <1>6, <1>7 DEF PodNext

\* Taking over a commit index that is not ahead changes nothing.
LEMMA OldCommit ==
    ASSUME NEW l \in Log, NEW commit \in Nat, commit <= l.commited
    PROVE  UpdateCommit(l, commit).commited = l.commited
BY DEF UpdateCommit, Log, Index

\* The commit check after a match of f, which is for the index next[f].
Matched(L, f, next) ==
    /\ sync[L][f] = "ok" /\ next[f] = nextindex[L][f] + 1
    /\ CommitRule(L, f, next)
    /\ log'[L].commited = next[f]

\* The commit index of L while it leads: neither heartbeats, its own ones included,
\* nor entry requests raise it, but only the commit check of a sync thread.
LEMMA CommitMoves ==
    ASSUME PodInv, ElectionInv, NEW L \in Server, Winner(L), ReplInv(L), BeatInv(L), MatchInv(L),
           status[L] = "Leader", status'[L] = "Leader", PodNext
    PROVE  \/ log'[L].commited = log[L].commited
           \/ \E f \in Server : Matched(L, f, nextindex'[L])
<1>. DEFINE Same == log'[L].commited = log[L].commited
<1>0. /\ LogInv /\ log \in [Server -> Log] /\ SyncType /\ SyncInv /\ CoreInv
      /\ LogsInv(L) /\ SendInv(L) /\ PutsInv(L) /\ SyncOnlyWhileLeading
  BY DEF PodInv, ReplInv, LogInv
<1>1. AfterStop(L) = log[L] /\ log[L] \in Log /\ log[L].commited \in Nat
  BY <1>0 DEF AfterStop, StepsDown, Log
<1>2. ASSUME log' = log PROVE Same
  BY <1>2
<1>3. ASSUME NEW f \in Server, NEW commit \in Nat, f = L => commit <= log[L].commited,
             log' = [log EXCEPT ![f] = UpdateCommit(AfterStop(f), commit)]
      PROVE  Same
  BY <1>0, <1>1, <1>3, OldCommit
<1>4. ASSUME NEW f \in Server, log' = [log EXCEPT ![f] = AfterStop(f)] PROVE Same
  BY <1>0, <1>1, <1>4
<1>5. ASSUME NEW f \in Server, NEW e, log' = [log EXCEPT ![f] = PutLocal(@, e)] PROVE Same
  BY <1>0, <1>1, <1>5 DEF PutLocal, Log
<1>6. ASSUME NEW req, ReqOK(req), Faithful(log[L].queue, req), SolveAppend(req) PROVE Same
  <2>. DEFINE f == req.to
              l == UpdateCommit(AfterStop(f), LeaderCommit(req))
  <2>1. log' = [log EXCEPT ![f] = UpdateRaftLog(l, req)] /\ f \in Server
    BY <1>6, RequestNodes DEF SolveAppend
  <2>2. CASE f # L
    BY <1>0, <2>1, <2>2
  <2>3. CASE f = L
    <3>1. l = UpdateCommit(log[L], 0)
      BY <1>1, <2>3 DEF LeaderCommit
    <3>2. /\ LogOK(l) /\ l.commited = log[L].commited /\ l.queue = log[L].queue
          /\ l.start = 0 /\ Len(l.queue) \in Nat
      <4>. DEFINE u == UpdateCommit(log[L], 0)
      <4>1. LogOK(log[L]) /\ log[L].start = 0
        BY <1>0 DEF LogInv, LogsInv
      <4>2. LogOK(u) /\ Kept(log[L], u) /\ u.commited = log[L].commited
        BY <1>1, <4>1, UpdateCommitOK, UpdateCommitKept, OldCommit
      <4>. HIDE DEF u
      <4>3. u.queue = log[L].queue /\ u.start = 0 /\ Len(u.queue) \in Nat
        BY <1>1, <4>1, <4>2 DEF Kept, Log
      <4>. QED
        BY <3>1, <4>2, <4>3 DEF u
    <3>. HIDE DEF l
    <3>3. ~ Matches(l, req)
      BY <1>6, <3>2, ResetUnreached DEF Matches, Faithful, Index, ReqOK, AppendReq
    <3>4. UpdateRaftLog(l, req) = l
      BY <3>2, <3>3, ResetUnreached DEF UpdateRaftLog
    <3>. QED
      BY <1>0, <2>1, <2>3, <3>2, <3>4
  <2>. QED
    BY <2>2, <2>3
<1>7. ASSUME NEW s \in Server, NodeStep(s) PROVE Same
  <2>1. CASE PodTimer(s) \/ PodBecomeLeader(s) \/ ProbeReturn(s)
              \/ \E f \in Server : PodHeartBeatTimeout(s, f)
    <3>1. log' = log
      BY <2>1 DEF PodTimer, PodBecomeLeader, ProbeReturn, PodHeartBeatTimeout, logVars
    <3>. QED
      BY <1>2, <3>1
  <2>2. ASSUME NEW f \in Server, PutTest(f) \/ NoProbe PROVE Same
    BY <1>2, <1>5, <2>2 DEF PutTest, NoProbe
  <2>3. ASSUME NEW f \in Server, PodVoteCall(s, f) PROVE Same
    BY <2>2, <2>3 DEF PodVoteCall
  <2>4. CASE PodVoteAbort(s)
    <3>1. left[s] \subseteq Server
      BY <1>0 DEF CoreInv, ElectionTypeOK
    <3>. QED
      BY <2>2, <2>4, <3>1 DEF PodVoteAbort
  <2>5. CASE PodVoteAnswer(s)
    <3>1. call[s].to \in Server
      BY <1>0, <2>5 DEF PodVoteAnswer, CoreInv, CallInv, ElectionTypeOK, VoteReq
    <3>. QED
      BY <1>4, <2>5, <3>1 DEF PodVoteAnswer
  <2>6. ASSUME NEW f \in Server, PodHeartBeat(s, f) PROVE Same
    <3>1. pc[s] = "beating" /\ log' = [log EXCEPT ![f] = UpdateCommit(AfterStop(f), log[s].commited)]
      BY <2>6 DEF PodHeartBeat, SendHeartBeat, BeatTo
    <3>2. s = L
      BY <3>1 DEF BeatInv
    <3>3. log[L].commited <= log[L].commited
      BY <1>1
    <3>4. log' = [log EXCEPT ![f] = UpdateCommit(AfterStop(f), log[L].commited)]
      BY <3>1, <3>2
    <3>. HIDE DEF Same
    <3>. QED
      BY <1>1, <1>3, <3>3, <3>4
  <2>7. CASE Apply(s)
    BY <1>0, <2>7 DEF Apply, Applied, Log
  <2>. HIDE DEF Same
  <2>. QED
    BY <1>7, <2>1, <2>2, <2>3, <2>4, <2>5, <2>6, <2>7 DEF NodeStep
<1>8. ASSUME NEW s \in Server, NEW f \in Server, SyncStep(s, f)
      PROVE  Same \/ Matched(L, f, nextindex'[L])
  <2>1. s = L
    <3>1. sync[s][f] # "off"
      BY <1>8 DEF SyncStep, SyncStart, SyncSend, SyncAnswer, SyncTimeout, AppendAnswer
    <3>. QED
      BY <1>0, <3>1, LeaderIsL DEF SyncOnlyWhileLeading
  <2>2. CASE SyncStart(s, f) \/ SyncSend(s, f) \/ SyncTimeout(s, f)
    <3>1. log' = log
      BY <2>2 DEF SyncStart, SyncSend, SyncTimeout, logVars
    <3>. QED
      BY <1>2, <3>1
  <2>3. CASE AppendAnswer(s, f)
    <3>1. sync[L][f] = "calling" /\ SolveAppend(sent[L][f])
      BY <2>1, <2>3 DEF AppendAnswer
    <3>2. ReqOK(sent[L][f]) /\ Faithful(log[L].queue, sent[L][f])
      BY <1>0, <3>1 DEF SyncInv, SendInv
    <3>. QED
      BY <1>6, <3>1, <3>2
  <2>4. CASE SyncAnswer(s, f)
    <3>. DEFINE next == nextindex'[L]
    <3>1. CASE sync[L][f] # "ok"
      BY <1>2, <2>1, <2>4, <3>1 DEF SyncAnswer
    <3>2. CASE sync[L][f] = "ok"
      <4>1. /\ log' = [log EXCEPT ![L] = CommitCheck(@, L, f, next)]
            /\ nextindex' = [nextindex EXCEPT ![L][f] = @ + 1]
        BY <2>1, <2>4, <3>2 DEF SyncAnswer
      <4>2. log'[L] = CommitCheck(log[L], L, f, next) /\ next[f] = nextindex[L][f] + 1
        BY <1>0, <4>1 DEF SyncType
      <4>3. nextindex[L][f] \in Int /\ nextindex[L][f] >= 0 /\ nextindex[L][f] < Len(log[f].queue)
        BY <1>0, <3>2 DEF MatchInv, MatchOK, SyncType
      <4>4. next[f] \in Nat /\ next[f] < SizeMod /\ next[f] <= Len(log[L].queue)
        <5>1. /\ Len(log[f].queue) \in Nat /\ Len(log[L].queue) \in Nat
              /\ Len(log[f].queue) <= Len(log[L].queue) /\ log[L].start = 0
          BY <1>0 DEF LogsInv, Starts, Log
        <5>2. Len(log[L].queue) <= MaxIndex
          BY <1>0, <5>1 DEF LogInv, LogOK, Index
        <5>3. MaxIndex \in Nat /\ MaxIndex < SizeMod /\ SizeMod \in Nat
          BY IndexAssumption, BoundsAssumption, CapacityAssumption
        <5>. QED
          BY <4>2, <4>3, <5>1, <5>2, <5>3
      <4>. HIDE DEF next
      <4>5. SizeT(next[f]) = next[f]
        BY <4>4, SizeTType
      <4>6. CASE ~ CommitRule(L, f, next)
        BY <4>2, <4>6 DEF CommitCheck
      <4>7. CASE CommitRule(L, f, next)
        <5>1. log'[L] = UpdateCommit(log[L], next[f])
          BY <4>2, <4>5, <4>7 DEF CommitCheck
        <5>2. Index(log[L]) = Len(log[L].queue) /\ Len(log[L].queue) \in Nat
          BY <1>0 DEF LogsInv, Index, Log
        <5>3. log'[L].commited = log[L].commited \/ log'[L].commited = next[f]
          BY <1>1, <4>4, <5>1, <5>2 DEF UpdateCommit, Log
        <5>. QED
          BY <3>2, <4>2, <4>7, <5>3 DEF Matched, next
      <4>. QED
        BY <4>6, <4>7
    <3>. QED
      BY <3>1, <3>2
  <2>. HIDE DEF Same
  <2>. QED
    BY <1>8, <2>2, <2>3, <2>4 DEF SyncStep
<1>9. ASSUME LateStep PROVE Same
  <2>1. ASSUME NEW req \in lateVote, PodVoteLate(req) PROVE Same
    <3>1. req.to \in Server
      BY <1>0 DEF CoreInv, ElectionTypeOK, VoteReq
    <3>. QED
      BY <1>4, <2>1, <3>1 DEF PodVoteLate
  <2>2. ASSUME NEW req \in lateBeat, PodHeartBeatLate(req) PROVE Same
    <3>1. req.to \in Server /\ req.commited \in Nat
      BY <1>0 DEF CoreInv, ElectionTypeOK, BeatReq
    <3>2. req.commited <= log[L].commited
      BY DEF BeatInv
    <3>. QED
      BY <1>3, <2>2, <3>1, <3>2 DEF PodHeartBeatLate
  <2>3. ASSUME NEW req \in lateAppend, AppendLate(req) PROVE Same
    <3>1. ReqOK(req) /\ Faithful(log[L].queue, req)
      BY <1>0 DEF SyncInv, SendInv
    <3>. QED
      BY <1>6, <2>3, <3>1 DEF AppendLate
  <2>. HIDE DEF Same
  <2>. QED
    BY <1>9, <2>1, <2>2, <2>3 DEF LateStep
<1>10. ASSUME NEW v \in Value, ClientStep(v) PROVE Same
  <2>1. CASE InnerPut(v)
    <3>1. put[v].node \in Server
      BY <1>0, <2>1 DEF InnerPut, PutsInv
    <3>. QED
      BY <1>5, <2>1, <3>1 DEF InnerPut
  <2>2. CASE PutReturn(v) \/ \E s \in Server : PutCheck(v, s)
    BY <2>2 DEF PutReturn, PutCheck, logVars
  <2>. QED
    BY <1>10, <2>1, <2>2 DEF ClientStep
<1>. HIDE DEF Same
<1>. QED
  <2>1. Same => log'[L].commited = log[L].commited
    BY DEF Same
  <2>. QED
    BY <1>7, <1>8, <1>9, <1>10, <2>1 DEF PodNext

\* While every log is a prefix of that of L, a node holds what it is long enough for.
LEMMA HoldersReach ==
    ASSUME NEW lg \in [Server -> Log], NEW L \in Server,
           \A s \in Server : lg[s].start = 0 /\ Starts(lg[s].queue, lg[L].queue),
           NEW i \in Nat, i >= 1, NEW t \in Server, i <= Len(lg[t].queue)
    PROVE  i <= Index(lg[t]) /\ At(lg[t], i) = At(lg[L], i)
<1>1. Len(lg[t].queue) \in Nat /\ Len(lg[L].queue) \in Nat
  BY DEF Log
<1>2. lg[t].start = 0 /\ lg[L].start = 0 /\ Starts(lg[t].queue, lg[L].queue)
  OBVIOUS
<1>3. i \in 1..Len(lg[t].queue) /\ i \in 1..Len(lg[L].queue)
  BY <1>1, <1>2 DEF Starts
<1>4. i <= Index(lg[t])
  BY <1>1, <1>2 DEF Index
<1>5. At(lg[t], i) = lg[t].queue[i] /\ At(lg[L], i) = lg[L].queue[i]
  BY <1>2, <1>3 DEF At, Slot
<1>. QED
  BY <1>2, <1>3, <1>4, <1>5 DEF Starts

\* The commit check counts a majority: f, the leader, and the others that are as far.
LEMMA RuleCountsMajority ==
    ASSUME FullLists, NEW L \in Server, NEW f \in Server, f # L, NEW next \in [Server -> Int],
           next[L] < next[f], CommitRule(L, f, next),
           NEW H \in SUBSET Server, L \in H, f \in H,
           \A g \in Server : next[g] >= next[f] => g \in H
    PROVE  Majority(H)
<1>. DEFINE O == Server \ {f}
            K == {g \in O : next[g] >= next[f]}
<1>1. IsFiniteSet(Server) /\ IsFiniteSet(O) /\ IsFiniteSet(K) /\ IsFiniteSet(H)
  BY ServerAssumption, FS_Subset
<1>2. Cardinality(Server) \in Nat /\ Cardinality(K) \in Nat /\ Cardinality(H) \in Nat
  BY <1>1, FS_CardinalityType
<1>3. Cardinality(O) = Cardinality(Server) - 1
  BY <1>1, FS_RemoveElement
<1>4. Followers[L] = Server
  BY DEF FullLists
<1>5. 2 + Cardinality(K) >= (2 + Cardinality(K) + Cardinality(O) + 1) \div 2
  BY <1>4 DEF CommitRule
<1>6. L \notin K /\ f \notin K
  OBVIOUS
<1>7. /\ IsFiniteSet(K \cup {f}) /\ Cardinality(K \cup {f}) = Cardinality(K) + 1
  BY <1>1, <1>6, FS_AddElement
<1>8. Cardinality((K \cup {f}) \cup {L}) = Cardinality(K) + 2
  <2>1. L \notin K \cup {f}
    BY <1>6
  <2>. DEFINE M == K \cup {f}
  <2>2. IsFiniteSet(M) /\ L \notin M /\ Cardinality(M) = Cardinality(K) + 1
    BY <1>7, <2>1
  <2>. HIDE DEF M
  <2>3. Cardinality(M \cup {L}) = Cardinality(M) + 1
    BY <2>2, FS_AddElement
  <2>. HIDE DEF K
  <2>4. Cardinality(M \cup {L}) = Cardinality(K) + 2
    BY <1>2, <2>2, <2>3
  <2>. QED
    BY <2>4 DEF M
<1>9. (K \cup {f}) \cup {L} \in SUBSET H
  OBVIOUS
<1>10. Cardinality(K) + 2 <= Cardinality(H)
  BY <1>1, <1>8, <1>9, FS_Subset
<1>. HIDE DEF K, O
<1>. QED
  BY <1>2, <1>3, <1>5, <1>10 DEF Majority

\* More holders are still a majority.
LEMMA MajorityGrows ==
    ASSUME NEW H \in SUBSET Server, NEW G \in SUBSET H, Majority(G)
    PROVE  Majority(H)
<1>1. IsFiniteSet(Server) /\ IsFiniteSet(H) /\ IsFiniteSet(G) /\ Cardinality(G) <= Cardinality(H)
  BY ServerAssumption, FS_Subset
<1>2. Cardinality(Server) \in Nat /\ Cardinality(G) \in Nat /\ Cardinality(H) \in Nat
  BY <1>1, FS_CardinalityType
<1>. QED
  BY <1>1, <1>2 DEF Majority

\* Only a win makes a leader.
LEMMA LeaderWins ==
    ASSUME ElectionTypeOK, NEW L \in Server, status'[L] = "Leader", status[L] # "Leader", PodNext
    PROVE  PodBecomeLeader(L)
<1>. USE DEF ElectionTypeOK
<1>1. ASSUME NEW s \in Server, NodeStep(s) PROVE PodBecomeLeader(L)
  <2>1. CASE PodTimer(s)
    BY <2>1 DEF PodTimer, NotTimedOut, ElectionTimeout, RequestVote, VoteTimeout, LoseElection,
       BeatStart, BeatDone, electionVars, votingVars
  <2>2. CASE PodVoteAbort(s) \/ Apply(s) \/ ProbeReturn(s)
              \/ \E f \in Server : PodVoteCall(s, f) \/ PodHeartBeatTimeout(s, f)
    BY <2>2 DEF PodVoteAbort, VoteAbort, Apply, ProbeReturn, PodVoteCall, VoteCall,
       PodHeartBeatTimeout, HeartBeatTimeout, electionVars, votingVars
  <2>3. CASE PodVoteAnswer(s)
    BY <2>3 DEF PodVoteAnswer, VoteAnswer, Vote, GrantVote
  <2>4. CASE PodBecomeLeader(s)
    BY <2>4 DEF PodBecomeLeader, BecomeLeader
  <2>5. ASSUME NEW f \in Server, PodHeartBeat(s, f) PROVE PodBecomeLeader(L)
    BY <2>5 DEF PodHeartBeat, SendHeartBeat, SolveAppendTerm, votingVars
  <2>. QED
    BY <1>1, <2>1, <2>2, <2>3, <2>4, <2>5 DEF NodeStep
<1>2. ASSUME NEW s \in Server, NEW f \in Server, SyncStep(s, f) PROVE FALSE
  BY <1>2 DEF SyncStep, SyncStart, SyncSend, SyncAnswer, SyncTimeout, AppendAnswer, SolveAppend,
     AppendEntry, SolveAppendTerm, electionVars, votingVars
<1>3. ASSUME LateStep PROVE FALSE
  BY <1>3, ZenonT(60) DEF LateStep, PodVoteLate, VoteLate, Vote, GrantVote, PodHeartBeatLate, HeartBeatLate,
     AppendLate, SolveAppend, AppendEntry, SolveAppendTerm, votingVars
<1>4. ASSUME NEW v \in Value, ClientStep(v) PROVE FALSE
  BY <1>4 DEF ClientStep, PutCheck, InnerPut, PutReturn, electionVars, votingVars
<1>. QED
  BY <1>1, <1>2, <1>3, <1>4 DEF PodNext

\* Every step keeps the commit index of a leading L on a majority.
LEMMA CommitStep ==
    ASSUME FullLists, PodInv, ElectionInv, WinInv, NEW L \in Server, Winner(L), ReplInv(L),
           LogsInv(L)', QuietInv, OneVictory', MatchInv(L), MatchInv(L)', BeatInv(L),
           CommitInv(L), PodNext
    PROVE  CommitInv(L)'
<1>. SUFFICES ASSUME status'[L] = "Leader", NEW i \in 1..log'[L].commited
              PROVE  Majority(Holders(L, i))'
  BY DEF CommitInv
<1>. DEFINE Reach(lg) == {t \in Server : i <= Index(lg[t]) /\ At(lg[t], i) = At(lg[L], i)}
<1>0. /\ LogInv /\ LogInv' /\ log \in [Server -> Log] /\ log' \in [Server -> Log]
      /\ \A s \in Server : Grown(log[s], log'[s])
  BY LogStep DEF PodInv, LogsGrow, LogInv
<1>1. Holders(L, i) = Reach(log) /\ Holders(L, i)' = Reach(log')
  BY DEF Holders, LogIndex
<1>2. SUFFICES Majority(Reach(log'))
  BY <1>1 DEF Majority
<1>3. \A s \in Server : log'[s].start = 0 /\ Starts(log'[s].queue, log'[L].queue)
  BY DEF LogsInv
<1>4. i \in Nat /\ i >= 1 /\ log[L].commited \in Nat /\ log'[L].commited \in Nat
  BY <1>0 DEF Log
<1>5. ASSUME NEW t \in Server, i <= Len(log'[t].queue) PROVE t \in Reach(log')
  BY <1>0, <1>3, <1>4, <1>5, HoldersReach
<1>6. ASSUME status[L] = "Leader", i <= log[L].commited PROVE Majority(Reach(log'))
  <2>1. Majority(Reach(log))
    BY <1>1, <1>4, <1>6 DEF CommitInv
  <2>2. ASSUME NEW t \in Reach(log) PROVE t \in Reach(log')
    <3>1. t \in Server /\ i <= Index(log[t])
      BY <2>2
    <3>2. log[t].start = 0 /\ Len(log[t].queue) \in Nat /\ Len(log'[t].queue) \in Nat
      BY <1>0, <3>1 DEF ReplInv, LogsInv, Log
    <3>3. Len(log[t].queue) <= Len(log'[t].queue)
      BY <1>0, <3>1, <3>2 DEF Grown
    <3>. HIDE DEF Reach
    <3>. QED
      BY <1>4, <1>5, <3>1, <3>2, <3>3 DEF Index
  <2>3. Reach(log) \in SUBSET Reach(log') /\ Reach(log') \in SUBSET Server
    BY <2>2
  <2>. HIDE DEF Reach
  <2>. QED
    BY <2>1, <2>3, MajorityGrows
<1>7. CASE status[L] # "Leader"
  <2>1. PodBecomeLeader(L)
    BY <1>7, LeaderWins DEF PodInv, CoreInv
  <2>2. leaders = {} /\ log' = log
    BY <2>1, FirstWin DEF PodInv, CoreInv, PodBecomeLeader, logVars
  <2>3. log'[L].commited = 0
    BY <2>2 DEF QuietInv
  <2>. QED
    BY <1>4, <2>3
<1>8. CASE status[L] = "Leader"
  <2>1. CASE log'[L].commited = log[L].commited
    BY <1>4, <1>6, <1>8, <2>1
  <2>2. ASSUME NEW f \in Server, Matched(L, f, nextindex'[L]) PROVE Majority(Reach(log'))
    <3>. DEFINE next == nextindex'[L]
    <3>1. /\ sync[L][f] = "ok" /\ next[f] = nextindex[L][f] + 1
          /\ CommitRule(L, f, next) /\ log'[L].commited = next[f]
      BY <2>2 DEF Matched
    <3>2. next \in [Server -> Int]
      BY SyncKeeps DEF SyncPart, SyncType
    <3>3. f # L /\ nextindex[L][f] >= 0 /\ nextindex[L][f] \in Int
      BY <3>1 DEF MatchInv, MatchOK, PodInv, SyncType
    <3>4. next[f] >= 1 /\ i <= next[f]
      BY <1>4, <3>1, <3>3
    <3>5. ASSUME NEW g \in Server
          PROVE  (next[g] >= 1 => next[g] <= Len(log'[g].queue)) /\ (g = L => next[g] <= 0)
      BY DEF MatchInv, MatchOK
    <3>. HIDE DEF next
    <3>6. ASSUME NEW g \in Server, next[g] >= next[f] PROVE i <= Len(log'[g].queue)
      <4>1. Len(log'[g].queue) \in Nat
        <5>1. log'[g] \in Log
          BY <1>0
        <5>. QED
          BY <5>1 DEF Log
      <4>2. next[g] \in Int /\ next[f] \in Int
        BY <3>2
      <4>. QED
        BY <1>4, <3>4, <3>5, <3>6, <4>1, <4>2
    <3>7. i <= Len(log'[L].queue)
      <4>1. log'[L].commited <= Len(log'[L].queue) /\ Len(log'[L].queue) \in Nat
        BY <1>0 DEF LogsInv, Log
      <4>. QED
        BY <1>4, <4>1
    <3>8. next[L] < next[f]
      BY <3>2, <3>4, <3>5
    <3>9. next[f] >= next[f]
      BY <3>2
    <3>10. L \in Reach(log') /\ f \in Reach(log') /\ \A g \in Server : next[g] >= next[f] => g \in Reach(log')
      <4>. HIDE DEF Reach
      <4>. QED
        BY <1>5, <3>6, <3>7, <3>9
    <3>11. Reach(log') \in SUBSET Server
      OBVIOUS
    <3>. HIDE DEF Reach
    <3>. QED
      BY <3>1, <3>2, <3>3, <3>8, <3>10, <3>11, RuleCountsMajority
  <2>. HIDE DEF Reach
  <2>. QED
    BY <1>8, <2>1, <2>2, CommitMoves
<1>. QED
  BY <1>7, <1>8

\* The step: whoever has won all elections after it had done so before.
LEMMA MajorInvStep ==
    ASSUME FullLists, Roomy, PodInv, ElectionInv, WinInv, AgreeInv, AgreeInv', MajorInv,
           [PodNext]_podVars
    PROVE  MajorInv'
<1>1. CASE PodNext
  <2>1. QuietInv'
    BY <1>1, QuietStep DEF MajorInv
  <2>2. ASSUME NEW L \in Server, Winner(L)', OneVictory'
        PROVE  MatchInv(L)' /\ BeatInv(L)' /\ CommitInv(L)'
    <3>1. leaders \subseteq leaders'
      BY ElectionStep, WinsRemembered
    <3>2. Winner(L) /\ OneVictory
      BY <2>2, <3>1 DEF Winner, OneVictory
    <3>3. ReplInv(L) /\ MatchInv(L) /\ BeatInv(L) /\ CommitInv(L) /\ QuietInv
      BY <3>2 DEF AgreeInv, MajorInv
    <3>4. LogsInv(L)'
      BY <2>2 DEF AgreeInv, ReplInv
    <3>5. MatchInv(L)' /\ BeatInv(L)'
      BY <1>1, <2>2, <3>2, <3>3, MatchStep, BeatStep
    <3>6. CommitInv(L)'
      BY <1>1, <2>2, <3>2, <3>3, <3>4, <3>5, CommitStep
    <3>. QED
      BY <3>5, <3>6
  <2>. QED
    BY <2>1, <2>2 DEF MajorInv
<1>2. CASE UNCHANGED podVars
  BY <1>2 DEF podVars, electionVars, votingVars, threadVars, logVars, syncVars, MajorInv, QuietInv,
     Winner, OneVictory, MatchInv, BeatInv, CommitInv, Majority, Holders, LogIndex
<1>. QED
  BY <1>1, <1>2

\* Nothing is matched or commited at the start.
LEMMA InitMajorInv == PodInit => MajorInv
<1>. SUFFICES ASSUME PodInit PROVE MajorInv
  OBVIOUS
<1>1. \A s \in Server : log[s].queue = <<>> /\ log[s].commited = 0
  BY DEF PodInit, NewLog
<1>2. Len(<<>>) = 0
  OBVIOUS
<1>3. QuietInv
  BY <1>1, <1>2 DEF QuietInv
<1>4. ASSUME NEW L \in Server PROVE MatchInv(L) /\ BeatInv(L) /\ CommitInv(L)
  BY <1>1, <1>2 DEF PodInit, ElectionInit, MatchInv, MatchOK, BeatInv, CommitInv
<1>. QED
  BY <1>3, <1>4 DEF MajorInv

\* The invariant holds in every reachable state.
LEMMA MajorInvariance ==
    ASSUME FullLists, Roomy
    PROVE  PodSpec => []MajorInv
<1>1. PodSpec => []WinInv
  BY PodImplementsElection, WinsAreOfNewTerms, PTL
<1>2. PodInit => MajorInv
  BY InitMajorInv
<1>3. PodInv /\ ElectionInv /\ WinInv /\ AgreeInv /\ AgreeInv' /\ MajorInv /\ [PodNext]_podVars => MajorInv'
  BY MajorInvStep
<1>. QED
  BY <1>1, <1>2, <1>3, AgreeInvariance, PTL DEF PodSpec

(***************************************************************************)
(* Where raft.cfg lists the whole cluster on every node, the ring buffers  *)
(* have room, and one election has been won, every index the leader counts *)
(* as commited is in the logs of a majority: the counter of the commit     *)
(* check is never ahead of the logs it counts, whatever calls are lost,    *)
(* late or answered twice.                                                 *)
(***************************************************************************)
THEOREM OneVictoryCommitsOnMajority ==
    ASSUME FullLists, Roomy
    PROVE  PodSpec => [](OneVictory => CommitedOnMajority)
<1>1. PodInv /\ ElectionInv /\ MajorInv => (OneVictory => CommitedOnMajority)
  <2>. SUFFICES ASSUME PodInv, ElectionInv, MajorInv, OneVictory, NEW s \in Server, status[s] = "Leader"
                PROVE  \A i \in 1..log[s].commited : Majority(Holders(s, i))
    BY DEF CommitedOnMajority
  <2>1. PICK l \in leaders : l.node = s
    BY DEF ElectionInv, VictoryInv
  <2>2. Winner(s)
    BY <2>1 DEF OneVictory, Winner
  <2>. QED
    BY <2>2 DEF MajorInv, CommitInv
<1>. QED
  BY <1>1, MajorInvariance, AgreeInvariance, PTL

(***************************************************************************)
(* In particular for ever, where one node only starts elections.           *)
(***************************************************************************)
THEOREM SoleElectorCommitsOnMajority ==
    ASSUME FullLists, Roomy, NEW e \in Server, Electors \subseteq {e}
    PROVE  PodSpec => []CommitedOnMajority
<1>1. ElectionSpec => []OneVictory
  BY SoleElectorWinsOnce, PTL
<1>. QED
  BY <1>1, PodImplementsElection, OneVictoryCommitsOnMajority, PTL

(***************************************************************************)
(* Part 4. Clients, for every number of processes and configuration of the *)
(* library: the cluster they see is that of Pod; a reported write is       *)
(* logged; and, while one node leads, a retried write is not logged more   *)
(* often than it was redirected, and what a read returns is on a majority. *)
(***************************************************************************)

(***************************************************************************)
(* The inductive invariants.                                               *)
(***************************************************************************)

\* What the loops of DBClient have in hand: the position of a loop is one of
\* all_pod_, and a Put that was not redirected has sent as many requests.
LoopOK(c) ==
    /\ c \in ClientState
    /\ c.hops \in {0, 1} /\ c.hops <= c.tries /\ c.tries <= Len(all_pod) + c.hops
    /\ c.pc = "idle" => c.at = 0
    /\ c.pc = "put" => c.at = c.tries /\ c.hops = 0
    /\ c.pc = "putLeader" => c.hops = 1
    /\ c.pc \in {"get", "optget", "sget"} => c.at \in Pods
    /\ c.pc = "sgetLeader" => c.leader \in Server

\* Request k of a Put that sent n, the last h of them redirected: what is not sent
\* is nowhere, and what was sent in the loop went to node k of all_pod_.
SentOK(k, n, h, node, write) ==
    /\ k > n => node = None /\ write.stage = "new"
    /\ k <= n - h =>
          /\ node \in {None, all_pod[k]}
          /\ write.stage # "new" => write.node = all_pod[k]

LoopInv ==
    /\ client \in [Process -> ClientState] /\ \A p \in Process : LoopOK(client[p])
    /\ request \in [Value -> Server \cup {None}]
TriesInv ==
    \A p \in Process, k \in Tries :
        SentOK(k, client[p].tries, client[p].hops, request[<<p, k>>], put[<<p, k>>])

\* The write of request r is an entry of a log.
InLog(r) == \E s \in Server : \E j \in 1..Len(log[s].queue) : log[s].queue[j].val = r

\* A handler past its append has an entry, and a Put that returned true had such
\* a handler.
TrueInv ==
    /\ \A r \in Value : put[r].stage \in {"waiting", "acked"} => InLog(r)
    /\ \A p \in Process : client[p].ok => \E k \in Tries : InLog(<<p, k>>)

\* An entry of L's log with a client's write is there because of a handler on L.
OriginInv(L) ==
    \A j \in 1..Len(log[L].queue) :
        log[L].queue[j].val \in Value =>
            LET w == put[log[L].queue[j].val] IN w.stage \in {"waiting", "acked"} /\ w.node = L

\* Nobody is ahead of the commit index of L, nor is a request.
FollowInv(L) ==
    /\ \A s \in Server : log[s].commited <= log[L].commited
    /\ \A f \in Server : sync[L][f] = "calling" => sent[L][f].commited <= log[L].commited
    /\ \A req \in lateAppend : req.commited <= log[L].commited

\* A database has an entry of the log or, for an index its log had not reached,
\* the empty write.
GotOK(l, i, value, commit) ==
    \/ value = Empty
    \/ i <= Len(l.queue) /\ i <= commit /\ value = l.queue[i].val
GotInv(L) ==
    \A s \in Server :
        /\ Len(applied[s]) = log[s].last_append
        /\ \A i \in 1..Len(applied[s]) : GotOK(log[s], i, applied[s][i], log[L].commited)

-----------------------------------------------------------------------------
(***************************************************************************)
(* What the calls of the library do to the loops and the requests.         *)
(***************************************************************************)

\* The constants of the library.
LEMMA ListFacts ==
    /\ Len(all_pod) \in Nat /\ Len(all_pod) > 0 /\ Pods = 1..Len(all_pod)
    /\ \A k \in Pods : k \in Tries /\ all_pod[k] \in Server
    /\ Range(all_pod) \subseteq Server
    /\ Value = Process \X Tries
<1>1. /\ all_pod \in Seq(Server) /\ Len(all_pod) > 0 /\ Value = Process \X Tries
  BY ClientAssumption
<1>2. Len(all_pod) \in Nat /\ Pods = 1..Len(all_pod) /\ \A k \in Pods : all_pod[k] \in Server
  BY <1>1 DEF Pods
<1>3. Range(all_pod) \subseteq Server
  BY <1>2 DEF Range, Pods
<1>. QED
  BY <1>1, <1>2, <1>3 DEF Tries

RequestMap == [Value -> Server \cup {None}]

\* The Put of p goes on to the next node, is redirected, or ends.
SendsNext(p, requests) ==
    /\ client'[p].tries = client[p].tries + 1 /\ client'[p].hops = 0 /\ client[p].hops = 0
    /\ client'[p].tries \in Pods
    /\ request' = [requests EXCEPT ![<<p, client[p].tries + 1>>] = all_pod[client[p].tries + 1]]
SendsHop(p, requests) ==
    /\ client'[p].tries = client[p].tries + 1 /\ client'[p].hops = 1 /\ client[p].hops = 0
    /\ \E addr \in Server : request' = [requests EXCEPT ![<<p, client[p].tries + 1>>] = addr]
SendsNothing(p, requests) ==
    /\ client'[p].tries = client[p].tries /\ client'[p].hops = client[p].hops
    /\ request' = requests
PutMoves(p, requests) ==
    /\ LoopInv'
    /\ \A q \in Process : q # p => client'[q] = client[q]
    /\ SendsNext(p, requests) \/ SendsHop(p, requests) \/ SendsNothing(p, requests)

\* Only the loop of p moves.
LEMMA OneLoop ==
    ASSUME LoopInv, NEW p \in Process, NEW c, LoopOK(c), client' = [client EXCEPT ![p] = c],
           request' \in RequestMap
    PROVE  /\ LoopInv' /\ client'[p] = c
           /\ \A q \in Process : q # p => client'[q] = client[q]
BY DEF LoopInv, LoopOK, RequestMap

\* Return ends a call.
LEMMA ReturnMoves ==
    ASSUME LoopInv, NEW p \in Process, NEW ok \in BOOLEAN, NEW requests \in RequestMap,
           Return(p, ok, requests)
    PROVE  PutMoves(p, requests) /\ client'[p].ok = ok
<1>. DEFINE c == [Idle(client[p]) EXCEPT !.ok = ok]
<1>1. LoopOK(client[p])
  BY DEF LoopInv
<1>2. /\ LoopOK(c) /\ c.tries = client[p].tries /\ c.hops = client[p].hops /\ c.ok = ok
  BY <1>1 DEF LoopOK, Idle, ClientState
<1>3. client' = [client EXCEPT ![p] = c] /\ request' = requests
  BY DEF Return, LoopInv
<1>. HIDE DEF c
<1>4. LoopInv' /\ client'[p] = c /\ \A q \in Process : q # p => client'[q] = client[q]
  BY <1>2, <1>3, OneLoop
<1>. QED
  BY <1>2, <1>3, <1>4 DEF PutMoves, SendsNothing

\* TryNext sends to the next node, if there is one and Put was not redirected.
LEMMA TryNextMoves ==
    ASSUME LoopInv, NEW p \in Process, NEW requests \in RequestMap, TryNext(p, requests),
           InPut(p) \/ (client[p].pc = "idle" /\ client[p].tries = 0)
    PROVE  PutMoves(p, requests) /\ (client'[p].ok => client[p].ok)
<1>. DEFINE n == client[p].tries
<1>1. LoopOK(client[p]) /\ client[p] \in ClientState /\ n \in Nat /\ client[p].hops \in {0, 1}
  BY DEF LoopInv, LoopOK, ClientState
<1>2. CASE client[p].pc # "putLeader" /\ client[p].at + 1 \in Pods
  <2>1. client[p].at = n /\ client[p].hops = 0 /\ n + 1 \in Pods
    BY <1>1, <1>2 DEF LoopOK, InPut
  <2>. DEFINE c == [[client[p] EXCEPT !.pc = "put", !.at = n + 1] EXCEPT !.tries = n + 1]
  <2>2. client' = [client EXCEPT ![p] = c] /\ request' = [requests EXCEPT ![<<p, n + 1>>] = all_pod[n + 1]]
    BY <1>1, <1>2, <2>1 DEF TryNext, Send, ClientState
  <2>3. LoopOK(c) /\ c.tries = n + 1 /\ c.hops = 0 /\ c.ok = client[p].ok
    <3>1. n + 1 \in Nat /\ n + 1 <= Len(all_pod)
      BY <1>1, <2>1, ListFacts
    <3>2. /\ c \in ClientState /\ c.pc = "put" /\ c.at = n + 1 /\ c.tries = n + 1
          /\ c.hops = client[p].hops /\ c.ok = client[p].ok
      BY <1>1, <3>1 DEF ClientState
    <3>. HIDE DEF c
    <3>. QED
      BY <2>1, <3>1, <3>2, ListFacts DEF LoopOK
  <2>. HIDE DEF c
  <2>4. request' \in RequestMap
    BY <2>1, <2>2, ListFacts DEF RequestMap
  <2>5. LoopInv' /\ client'[p] = c /\ \A q \in Process : q # p => client'[q] = client[q]
    BY <2>2, <2>3, <2>4, OneLoop
  <2>. QED
    BY <2>1, <2>2, <2>3, <2>5 DEF PutMoves, SendsNext
<1>3. CASE ~ (client[p].pc # "putLeader" /\ client[p].at + 1 \in Pods)
  <2>1. Return(p, FALSE, requests)
    BY <1>3 DEF TryNext
  <2>. QED
    BY <2>1, ReturnMoves
<1>. QED
  BY <1>2, <1>3

\* Redirect follows an address the library knows.
LEMMA RedirectMoves ==
    ASSUME LoopInv, NEW p \in Process, NEW requests \in RequestMap, NEW addr, Redirect(p, addr, requests),
           client[p].pc = "put"
    PROVE  PutMoves(p, requests) /\ (client'[p].ok => client[p].ok)
<1>. DEFINE n == client[p].tries
<1>1. LoopOK(client[p]) /\ client[p] \in ClientState /\ n \in Nat /\ client[p].hops = 0 /\ n <= Len(all_pod)
  BY DEF LoopInv, LoopOK, ClientState
<1>2. CASE addr \in Range(all_pod)
  <2>1. addr \in Server
    BY <1>2, ListFacts
  <2>. DEFINE c == [[client[p] EXCEPT !.pc = "putLeader", !.hops = 1] EXCEPT !.tries = n + 1]
  <2>2. client' = [client EXCEPT ![p] = c] /\ request' = [requests EXCEPT ![<<p, n + 1>>] = addr]
    BY <1>1, <1>2 DEF Redirect, Send, ClientState
  <2>3. LoopOK(c) /\ c.tries = n + 1 /\ c.hops = 1 /\ c.ok = client[p].ok
    <3>1. n + 1 \in Nat
      BY <1>1
    <3>2. /\ c \in ClientState /\ c.pc = "putLeader" /\ c.tries = n + 1 /\ c.hops = 1
          /\ c.ok = client[p].ok
      BY <1>1, <3>1 DEF ClientState
    <3>. HIDE DEF c
    <3>. QED
      BY <1>1, <3>2, ListFacts DEF LoopOK
  <2>. HIDE DEF c
  <2>4. request' \in RequestMap
    BY <2>1, <2>2 DEF RequestMap
  <2>5. LoopInv' /\ client'[p] = c /\ \A q \in Process : q # p => client'[q] = client[q]
    BY <2>2, <2>3, <2>4, OneLoop
  <2>. QED
    BY <1>1, <2>1, <2>2, <2>3, <2>5 DEF PutMoves, SendsHop
<1>3. CASE addr \notin Range(all_pod)
  <2>1. Return(p, FALSE, requests)
    BY <1>3 DEF Redirect
  <2>. QED
    BY <2>1, ReturnMoves
<1>. QED
  BY <1>2, <1>3

\* A process keeps the results of its Put.
SamePut(q) == /\ client'[q].tries = client[q].tries /\ client'[q].hops = client[q].hops
              /\ client'[q].ok = client[q].ok

\* A read moves the loop of its process only.
LEMMA ReadMoves ==
    ASSUME LoopInv, ReadStep
    PROVE  /\ LoopInv' /\ request' = request /\ UNCHANGED podVars
           /\ \A q \in Process : SamePut(q)
<1>1. PICK p \in Process : \/ \E op \in {"get", "optget", "sget"} : ReadBegin(p, op)
                           \/ ReadAnswered(p) \/ ReadRefused(p) \/ ReadFails(p)
  BY DEF ReadStep
<1>2. LoopOK(client[p]) /\ client[p] \in ClientState /\ request \in RequestMap
  BY DEF LoopInv, LoopOK, RequestMap
<1>. DEFINE Good(c) == /\ LoopOK(c) /\ c.tries = client[p].tries /\ c.hops = client[p].hops
                       /\ c.ok = client[p].ok
<1>3. Good(Idle(client[p]))
  BY <1>2 DEF LoopOK, Idle, ClientState
<1>4. \E c : Good(c) /\ ReadTo(p, c)
  <2>1. ASSUME NEW op \in {"get", "optget", "sget"}, ReadBegin(p, op) PROVE \E c : Good(c) /\ ReadTo(p, c)
    <3>. DEFINE Here == IF op = "optget" THEN Pods ELSE {1}
    <3>1. Here \subseteq Pods /\ Pods \subseteq Nat
      BY ListFacts
    <3>2. PICK at \in Here : ReadTo(p, [client[p] EXCEPT !.pc = op, !.at = at])
      BY <2>1 DEF ReadBegin
    <3>. DEFINE c == [client[p] EXCEPT !.pc = op, !.at = at]
    <3>3. at \in Pods /\ at \in Nat
      BY <3>1, <3>2
    <3>4. /\ c \in ClientState /\ c.pc = op /\ c.at = at /\ c.tries = client[p].tries
          /\ c.hops = client[p].hops /\ c.ok = client[p].ok
      BY <1>2, <3>3 DEF ClientState
    <3>5. ReadTo(p, c)
      BY <3>2
    <3>. HIDE DEF c, Here
    <3>6. LoopOK(c)
      BY <1>2, <2>1, <3>3, <3>4 DEF LoopOK
    <3>. QED
      BY <3>4, <3>5, <3>6
  <2>2. CASE ReadAnswered(p)
    BY <1>3, <2>2 DEF ReadAnswered
  <2>3. CASE ReadRefused(p)
    <3>1. PICK addr : ReadTo(p, IF client[p].pc = "sget" /\ addr \in Range(all_pod)
                                THEN [client[p] EXCEPT !.pc = "sgetLeader", !.at = 0, !.leader = addr]
                                ELSE Idle(client[p]))
      BY <2>3 DEF ReadRefused
    <3>2. ASSUME addr \in Server
          PROVE  Good([client[p] EXCEPT !.pc = "sgetLeader", !.at = 0, !.leader = addr])
      BY <1>2, <3>2 DEF LoopOK, ClientState
    <3>. QED
      BY <1>3, <3>1, <3>2, ListFacts
  <2>4. CASE ReadFails(p)
    <3>1. ASSUME client[p].at + 1 \in Pods, client[p].pc \in {"get", "sget"}
          PROVE  Good([client[p] EXCEPT !.at = @ + 1])
      BY <1>2, <3>1, ListFacts DEF LoopOK, ClientState
    <3>2. Good([Idle(client[p]) EXCEPT !.pc = "aborted"])
      BY <1>2 DEF LoopOK, Idle, ClientState
    <3>. QED
      BY <1>3, <2>4, <3>1, <3>2 DEF ReadFails
  <2>. QED
    BY <1>1, <2>1, <2>2, <2>3, <2>4
<1>5. PICK c : Good(c) /\ ReadTo(p, c)
  BY <1>4
<1>6. client' = [client EXCEPT ![p] = c] /\ request' = request /\ UNCHANGED podVars
  BY <1>5 DEF ReadTo
<1>7. LoopInv' /\ client'[p] = c /\ \A q \in Process : q # p => client'[q] = client[q]
  BY <1>2, <1>5, <1>6, OneLoop
<1>. QED
  BY <1>5, <1>6, <1>7 DEF SamePut

\* The requests under way without r.
Without(r) == [request EXCEPT ![r] = None]

\* A write moves the loop of one process and a request, or is taken up by the leader.
LEMMA WriteMoves ==
    ASSUME LoopInv, WriteStep
    PROVE  \/ \E r \in Value : /\ request[r] \in Server /\ PutCheck(r, request[r])
                               /\ request' = Without(r) /\ client' = client /\ LoopInv'
           \/ \E r \in Value : request' = Without(r) /\ client' = client /\ LoopInv' /\ UNCHANGED podVars
           \/ /\ UNCHANGED podVars
              /\ \E p \in Process, requests \in RequestMap :
                    /\ requests = request \/ \E r \in Value : requests = Without(r)
                    /\ PutMoves(p, requests)
                    /\ \/ client'[p].ok => client[p].ok
                       \/ \E k \in Tries : put[<<p, k>>].stage = "acked"
<1>0. request \in RequestMap /\ \A r \in Value : Without(r) \in RequestMap
  BY DEF LoopInv, RequestMap, Without
<1>1. ASSUME NEW p \in Process, PutBegin(p) \/ PutDeadline(p)
      PROVE  UNCHANGED podVars /\ PutMoves(p, request) /\ (client'[p].ok => client[p].ok)
  BY <1>0, <1>1, TryNextMoves DEF PutBegin, PutDeadline
<1>2. ASSUME NEW r \in Value, PutAccepted(r)
      PROVE  /\ request[r] \in Server /\ PutCheck(r, request[r])
             /\ request' = Without(r) /\ client' = client /\ LoopInv'
  <2>1. request[r] \in Server /\ request' = Without(r) /\ client' = client
    BY <1>0, <1>2 DEF PutAccepted, Without, RequestMap
  <2>. QED
    BY <1>0, <1>2, <2>1 DEF PutAccepted, LoopInv, RequestMap
<1>3. \A r \in Value : r[1] \in Process /\ r[2] \in Tries /\ r = <<r[1], r[2]>>
  BY ListFacts
<1>4. ASSUME NEW r \in Value, PutRefused(r), ~ Waits(r)
      PROVE  request' = Without(r) /\ client' = client /\ LoopInv' /\ UNCHANGED podVars
  <2>1. request' = Without(r) /\ client' = client /\ UNCHANGED podVars
    BY <1>4 DEF PutRefused, Without
  <2>. QED
    BY <1>0, <2>1 DEF LoopInv, RequestMap
<1>5. ASSUME NEW r \in Value, PutRefused(r), Waits(r)
      PROVE  /\ UNCHANGED podVars /\ PutMoves(r[1], Without(r))
             /\ client'[r[1]].ok => client[r[1]].ok
  <2>1. UNCHANGED podVars /\ InPut(r[1])
    BY <1>5 DEF PutRefused, Waits
  <2>2. CASE TryNext(r[1], Without(r))
    BY <1>0, <1>3, <2>1, <2>2, TryNextMoves
  <2>3. ASSUME client[r[1]].pc = "put", NEW addr, Redirect(r[1], addr, Without(r))
        PROVE  PutMoves(r[1], Without(r)) /\ (client'[r[1]].ok => client[r[1]].ok)
    BY <1>0, <1>3, <2>3, RedirectMoves
  <2>. QED
    BY <1>5, <2>1, <2>2, <2>3 DEF PutRefused, Without
<1>6. ASSUME NEW r \in Value, PutAnswered(r)
      PROVE  /\ UNCHANGED podVars /\ PutMoves(r[1], request)
             /\ (client'[r[1]].ok => client[r[1]].ok) \/ put[r].stage = "acked"
  <2>1. UNCHANGED podVars /\ InPut(r[1])
    BY <1>6 DEF PutAnswered, Waits
  <2>2. CASE put[r].stage = "acked" /\ Return(r[1], TRUE, request)
    BY <1>0, <1>3, <2>1, <2>2, ReturnMoves
  <2>3. CASE TryNext(r[1], request)
    BY <1>0, <1>3, <2>1, <2>3, TryNextMoves
  <2>. QED
    BY <1>6, <2>1, <2>2, <2>3 DEF PutAnswered
<1>. QED
  BY <1>0, <1>1, <1>2, <1>3, <1>4, <1>5, <1>6 DEF WriteStep

\* The steps of the cluster leave the clients alone.
LEMMA LoopStep ==
    ASSUME LoopInv, [ClientNext]_allVars
    PROVE  LoopInv'
<1>1. CASE ClusterStep \/ UNCHANGED allVars
  BY <1>1 DEF ClusterStep, allVars, clientVars, LoopInv
<1>2. CASE WriteStep
  BY <1>2, WriteMoves DEF PutMoves
<1>3. CASE ReadStep
  BY <1>3, ReadMoves
<1>. QED
  BY <1>1, <1>2, <1>3 DEF ClientNext

\* A step of the clients is a step of the cluster or leaves it alone.
LEMMA ClientIsPodStep ==
    ASSUME LoopInv, [ClientNext]_allVars
    PROVE  [PodNext]_podVars
<1>1. CASE UNCHANGED allVars
  BY <1>1 DEF allVars
<1>2. CASE ClusterStep
  BY <1>2 DEF ClusterStep, PodNext, ClientStep
<1>3. CASE WriteStep
  BY <1>3, WriteMoves DEF PodNext, ClientStep
<1>4. CASE ReadStep
  BY <1>4, ReadMoves
<1>. QED
  BY <1>1, <1>2, <1>3, <1>4 DEF ClientNext

\* No process is in a call.
LEMMA InitLoop == ClientInit => LoopInv
<1>. SUFFICES ASSUME ClientInit PROVE LoopInv
  OBVIOUS
<1>. DEFINE c == [pc |-> "idle", at |-> 0, leader |-> None, tries |-> 0, hops |-> 0, ok |-> FALSE]
<1>1. c \in ClientState /\ c.pc = "idle" /\ c.at = 0 /\ c.tries = 0 /\ c.hops = 0
  BY DEF ClientState
<1>2. client = [p \in Process |-> c] /\ request \in [Value -> Server \cup {None}]
  BY DEF ClientInit
<1>. HIDE DEF c
<1>3. LoopOK(c)
  BY <1>1, ListFacts DEF LoopOK
<1>. QED
  BY <1>1, <1>2, <1>3 DEF LoopInv

\* The loops are those of DBClient in every reachable state.
LEMMA LoopInvariance == ClientSpec => []LoopInv
BY InitLoop, LoopStep, PTL DEF ClientSpec

(***************************************************************************)
(* The loops of DBClient never leave all_pod_, and their state is well     *)
(* typed, whatever is answered, late or aborted.                           *)
(***************************************************************************)
THEOREM ClientTypeCorrect == ClientSpec => []ClientTypeOK
<1>1. LoopInv => ClientTypeOK
  BY DEF LoopInv, ClientTypeOK
<1>. QED
  BY <1>1, LoopInvariance, PTL

(***************************************************************************)
(* Clients with their deadlines, redirections and retries are clients of   *)
(* the cluster: every behaviour of both together is one of PodSpec.        *)
(***************************************************************************)
THEOREM ClientsUsePods == ClientSpec => PodSpec
<1>1. ClientInit => PodInit
  BY DEF ClientInit
<1>. QED
  BY <1>1, ClientIsPodStep, LoopInvariance, PTL DEF ClientSpec, PodSpec

-----------------------------------------------------------------------------
(***************************************************************************)
(* Writes and the logs.                                                    *)
(***************************************************************************)

\* How a step of the cluster moves the handler of r.
Takes(r)   == \E s \in Server : PutCheck(r, s) /\ put'[r].stage = "checked" /\ put'[r].node = s
Appends(r) == /\ InnerPut(r) /\ put'[r].node = put[r].node
              /\ \/ HasRoom(log[put[r].node]) /\ put'[r].stage = "waiting"
                 \/ ~ HasRoom(log[put[r].node]) /\ put'[r].stage = "failed"
Answers(r) == put[r].stage = "waiting" /\ put'[r].stage = "acked" /\ put'[r].node = put[r].node

\* The threads of a node and late requests leave the handlers alone.
LEMMA ThreadsKeepPuts ==
    ASSUME \/ \E s \in Server : NodeStep(s)
           \/ \E s, f \in Server : SyncStep(s, f)
           \/ LateStep
    PROVE  put' = put
<1>1. ASSUME NEW s \in Server, NodeStep(s) PROVE put' = put
  BY <1>1 DEF NodeStep, PodTimer, PodVoteCall, PodVoteAbort, PodVoteAnswer, PodBecomeLeader,
     PodHeartBeat, PodHeartBeatTimeout, Apply, ProbeReturn
<1>2. ASSUME NEW s \in Server, NEW f \in Server, SyncStep(s, f) PROVE put' = put
  BY <1>2 DEF SyncStep, SyncStart, SyncSend, SyncAnswer, SyncTimeout, AppendAnswer
<1>3. CASE LateStep
  BY <1>3 DEF LateStep, PodVoteLate, PodHeartBeatLate, AppendLate
<1>. QED
  BY <1>1, <1>2, <1>3

\* A handler moves by its own code only.
LEMMA HandlerMoves ==
    ASSUME PodInv, NEW v \in Value
    PROVE  /\ \A s \in Server : PutCheck(v, s) => Takes(v) /\ put'[v].node = s
           /\ InnerPut(v) => Appends(v)
           /\ PutReturn(v) => Answers(v)
           /\ ClientStep(v) => \A r \in Value : r # v => put'[r] = put[r]
<1>0. put \in [Value -> PutState]
  BY DEF PodInv, RestType
<1>1. ASSUME NEW s \in Server, PutCheck(v, s)
      PROVE  Takes(v) /\ put'[v].node = s /\ \A r \in Value : r # v => put'[r] = put[r]
  BY <1>0, <1>1 DEF PutCheck, PutTo, Takes
<1>2. ASSUME InnerPut(v) PROVE Appends(v) /\ \A r \in Value : r # v => put'[r] = put[r]
  BY <1>0, <1>2 DEF InnerPut, PutTo, Appends
<1>3. ASSUME PutReturn(v) PROVE Answers(v) /\ \A r \in Value : r # v => put'[r] = put[r]
  BY <1>0, <1>3 DEF PutReturn, PutTo, Answers, PutState
<1>. QED
  BY <1>1, <1>2, <1>3 DEF ClientStep

\* One handler at a time moves.
LEMMA HandlersMove ==
    ASSUME PodInv, PodNext
    PROVE  \/ put' = put
           \/ \E v \in Value : /\ \A r \in Value : r # v => put'[r] = put[r]
                               /\ Takes(v) \/ Appends(v) \/ Answers(v)
BY ThreadsKeepPuts, HandlerMoves DEF PodNext, ClientStep

\* What is in a log stays there.
LEMMA InLogStays ==
    ASSUME PodInv, PodNext, NEW r, InLog(r)
    PROVE  InLog(r)'
<1>0. PICK s \in Server : \E j \in 1..Len(log[s].queue) : log[s].queue[j].val = r
  BY DEF InLog
<1>1. PICK j \in 1..Len(log[s].queue) : log[s].queue[j].val = r
  BY <1>0
<1>2. LogInv /\ LogInv' /\ Grown(log[s], log'[s])
  BY LogStep DEF LogsGrow, PodInv
<1>3. Len(log[s].queue) \in Nat /\ Len(log'[s].queue) \in Nat
  BY <1>2 DEF LogInv, Log
<1>4. j \in 1..Len(log'[s].queue) /\ log'[s].queue[j] = log[s].queue[j]
  BY <1>2, <1>3 DEF Grown
<1>. QED
  BY <1>1, <1>4 DEF InLog

\* The log of a node after InnerPut.
LEMMA AppendedEntry ==
    ASSUME PodInv, NEW v \in Value, InnerPut(v), HasRoom(log[put[v].node])
    PROVE  LET s == put[v].node IN
           /\ s \in Server
           /\ log' = [log EXCEPT ![s].queue = Append(@, [val |-> v, term |-> term[s]])]
           /\ log'[s].queue = Append(log[s].queue, [val |-> v, term |-> term[s]])
           /\ log[s].queue \in Seq(Entry) /\ [val |-> v, term |-> term[s]] \in Entry
<1>. DEFINE s == put[v].node
            e == [val |-> v, term |-> term[s]]
<1>1. put[v].stage = "checked" /\ s \in Server
  BY DEF InnerPut, PodInv, RestType
<1>2. log \in [Server -> Log] /\ log[s] \in Log /\ log[s].queue \in Seq(Entry)
  BY <1>1 DEF PodInv, LogInv, Log
<1>3. e \in Entry
  BY <1>1 DEF PodInv, CoreInv, ElectionTypeOK, Entry, Payload
<1>4. log' = [log EXCEPT ![s] = PutLocal(@, e)]
  BY DEF InnerPut
<1>5. PutLocal(log[s], e) = [log[s] EXCEPT !.queue = Append(@, e)]
  BY DEF PutLocal
<1>. HIDE DEF e
<1>6. log' = [log EXCEPT ![s].queue = Append(@, e)]
  BY <1>1, <1>2, <1>4, <1>5
<1>7. log'[s].queue = Append(log[s].queue, e)
  BY <1>1, <1>2, <1>6 DEF Log
<1>. QED
  BY <1>1, <1>2, <1>3, <1>6, <1>7 DEF e

\* InnerPut puts the write into the log of its node.
LEMMA AppendLogs ==
    ASSUME PodInv, NEW v \in Value, InnerPut(v), HasRoom(log[put[v].node])
    PROVE  InLog(v)'
<1>. DEFINE s == put[v].node
            e == [val |-> v, term |-> term[s]]
            q == log[s].queue
<1>1. s \in Server /\ log'[s].queue = Append(q, e) /\ q \in Seq(Entry) /\ e \in Entry
  BY AppendedEntry
<1>2. e.val = v
  OBVIOUS
<1>. HIDE DEF e, q
<1>3. Len(Append(q, e)) = Len(q) + 1 /\ Append(q, e)[Len(q) + 1] = e /\ Len(q) \in Nat
  BY <1>1, AppendProperties
<1>. QED
  BY <1>1, <1>2, <1>3 DEF InLog

\* A handler that answered, and a Put that returned true, has its write in a log.
LEMMA TrueStep ==
    ASSUME PodInv, LoopInv, TrueInv, [ClientNext]_allVars
    PROVE  TrueInv'
<1>1. [PodNext]_podVars
  BY ClientIsPodStep
<1>2. ASSUME NEW r, InLog(r) PROVE InLog(r)'
  <2>1. CASE PodNext
    BY <1>2, <2>1, InLogStays
  <2>2. CASE UNCHANGED podVars
    BY <1>2, <2>2 DEF podVars, logVars, InLog
  <2>. QED
    BY <1>1, <2>1, <2>2
<1>3. ASSUME NEW r \in Value, put'[r].stage \in {"waiting", "acked"} PROVE InLog(r)'
  <2>1. CASE put'[r] = put[r]
    BY <1>2, <1>3, <2>1 DEF TrueInv
  <2>2. CASE PodNext /\ put'[r] # put[r]
    <3>1. Takes(r) \/ Appends(r) \/ Answers(r)
      BY <2>2, HandlersMove
    <3>2. CASE Takes(r)
      BY <1>3, <3>2 DEF Takes
    <3>3. CASE Appends(r)
      BY <1>3, <3>3, AppendLogs DEF Appends
    <3>4. CASE Answers(r)
      BY <1>2, <3>4 DEF Answers, TrueInv
    <3>. QED
      BY <3>1, <3>2, <3>3, <3>4
  <2>3. CASE UNCHANGED podVars
    BY <2>1, <2>3 DEF podVars
  <2>. QED
    BY <1>1, <2>1, <2>2, <2>3
<1>4. ASSUME NEW p \in Process, client'[p].ok PROVE \E k \in Tries : InLog(<<p, k>>)'
  <2>1. CASE client[p].ok
    <3>1. PICK k \in Tries : InLog(<<p, k>>)
      BY <2>1 DEF TrueInv
    <3>. QED
      BY <1>2, <3>1
  <2>2. ASSUME NEW k \in Tries, put[<<p, k>>].stage = "acked" PROVE InLog(<<p, k>>)'
    BY <1>2, <2>2, ListFacts DEF TrueInv
  <2>3. CASE ClusterStep \/ UNCHANGED allVars
    BY <1>4, <2>1, <2>3 DEF ClusterStep, allVars, clientVars
  <2>4. CASE ReadStep
    BY <1>4, <2>1, <2>4, ReadMoves DEF SamePut
  <2>5. CASE WriteStep
    <3>1. client' = client \/ \E q \in Process, requests \in RequestMap :
                                 /\ PutMoves(q, requests)
                                 /\ \/ client'[q].ok => client[q].ok
                                    \/ \E k \in Tries : put[<<q, k>>].stage = "acked"
      BY <2>5, WriteMoves
    <3>2. CASE client' = client
      BY <1>4, <2>1, <3>2
    <3>3. ASSUME NEW q \in Process, NEW requests \in RequestMap, PutMoves(q, requests),
                 \/ client'[q].ok => client[q].ok
                 \/ \E k \in Tries : put[<<q, k>>].stage = "acked"
          PROVE  client[p].ok \/ \E k \in Tries : put[<<p, k>>].stage = "acked"
      BY <1>4, <3>3 DEF PutMoves
    <3>. QED
      BY <2>1, <2>2, <3>1, <3>2, <3>3
  <2>. QED
    BY <2>3, <2>4, <2>5 DEF ClientNext
<1>. QED
  BY <1>3, <1>4 DEF TrueInv

\* What is in a queue is found by At.
LEMMA InLogIsLogged ==
    ASSUME PodInv, NEW r, InLog(r)
    PROVE  Logged(r) # {}
<1>0. PICK s \in Server : \E j \in 1..Len(log[s].queue) : log[s].queue[j].val = r
  BY DEF InLog
<1>1. PICK j \in 1..Len(log[s].queue) : log[s].queue[j].val = r
  BY <1>0
<1>2. log[s].start \in Nat /\ Len(log[s].queue) \in Nat
  BY DEF PodInv, LogInv, Log
<1>. DEFINE i == log[s].start + j
<1>3. i \in 1..LogIndex(s) /\ i - log[s].start = j
  BY <1>2 DEF LogIndex, Index
<1>4. At(log[s], i) = log[s].queue[j]
  BY <1>1, <1>3 DEF At, Slot
<1>. HIDE DEF i
<1>. QED
  BY <1>1, <1>3, <1>4 DEF Logged

(***************************************************************************)
(* If Put returns true, one of its requests is in a log, for every         *)
(* cluster, however many requests timed out, were refused, redirected or   *)
(* are still under way, and whoever has won elections.                     *)
(***************************************************************************)
THEOREM TrueIsLogged == ClientSpec => []TrueMeansLogged
<1>1. ClientInit => TrueInv
  <2>. SUFFICES ASSUME ClientInit PROVE TrueInv
    OBVIOUS
  <2>1. \A r \in Value : put[r].stage = "new"
    BY DEF ClientInit, PodInit, NewPut
  <2>2. \A p \in Process : ~ client[p].ok
    BY DEF ClientInit
  <2>. QED
    BY <2>1, <2>2 DEF TrueInv
<1>2. PodInv /\ TrueInv => TrueMeansLogged
  BY InLogIsLogged DEF TrueInv, TrueMeansLogged
<1>3. ClientSpec => []PodInv
  BY ClientsUsePods, PodInvariance, PTL
<1>. QED
  BY <1>1, <1>2, <1>3, TrueStep, LoopInvariance, PTL DEF ClientSpec

-----------------------------------------------------------------------------
(***************************************************************************)
(* How often a write is logged while one node leads.                       *)
(***************************************************************************)

\* A handler that moves keeps its node, and leaves "new" by PutCheck only.
LEMMA ClusterKeepsNodes ==
    ASSUME PodInv, ClusterStep, NEW r \in Value
    PROVE  \/ put'[r] = put[r]
           \/ put[r].stage # "new" /\ put'[r].stage # "new" /\ put'[r].node = put[r].node
<1>1. CASE put' = put
  BY <1>1
<1>2. ASSUME NEW v \in Value, InnerPut(v) \/ PutReturn(v)
      PROVE  /\ Appends(v) \/ Answers(v)
             /\ r # v => put'[r] = put[r]
  BY <1>2, HandlerMoves DEF ClientStep
<1>3. ASSUME NEW v \in Value, Appends(v) \/ Answers(v)
      PROVE  put[v].stage # "new" /\ put'[v].stage # "new" /\ put'[v].node = put[v].node
  BY <1>3 DEF Appends, Answers, InnerPut
<1>. QED
  BY <1>1, <1>2, <1>3, ThreadsKeepPuts DEF ClusterStep

\* TriesInv for one request.
TryOK(p, k) == SentOK(k, client[p].tries, client[p].hops, request[<<p, k>>], put[<<p, k>>])

\* A request under way disappears: every request is still one of its loop's.
LEMMA FewerRequests ==
    ASSUME LoopInv, TriesInv, NEW requests, requests = request \/ \E r \in Value : requests = Without(r),
           NEW p \in Process, NEW k \in Tries
    PROVE  SentOK(k, client[p].tries, client[p].hops, requests[<<p, k>>], put[<<p, k>>])
<1>1. TryOK(p, k) /\ <<p, k>> \in Value
  BY ListFacts DEF TriesInv, TryOK
<1>2. requests[<<p, k>>] = request[<<p, k>>] \/ requests[<<p, k>>] = None
  BY <1>1 DEF LoopInv, Without
<1>. QED
  BY <1>1, <1>2 DEF TryOK, SentOK

\* Sending the next request, or following a redirection.
LEMMA SendKeepsTries ==
    ASSUME LoopInv, TriesInv, NEW q \in Process, NEW requests \in RequestMap,
           requests = request \/ \E r \in Value : requests = Without(r),
           PutMoves(q, requests), UNCHANGED podVars
    PROVE  TriesInv'
<1>. SUFFICES ASSUME NEW p \in Process, NEW k \in Tries PROVE TryOK(p, k)'
  BY DEF TriesInv, TryOK
<1>. DEFINE n == client[p].tries
            h == client[p].hops
            w == put[<<p, k>>]
<1>1. /\ SentOK(k, n, h, requests[<<p, k>>], w)
      /\ n \in Nat /\ h \in {0, 1} /\ k \in Nat /\ <<p, k>> \in Value /\ put' = put
  <2>1. SentOK(k, n, h, requests[<<p, k>>], w)
    BY FewerRequests
  <2>2. n \in Nat /\ h \in {0, 1}
    BY DEF LoopInv, LoopOK, ClientState
  <2>3. k \in Nat /\ <<p, k>> \in Value /\ put' = put
    BY ListFacts DEF podVars, Tries
  <2>. QED
    BY <2>1, <2>2, <2>3
<1>2. CASE p # q
  <2>1. client'[p] = client[p] /\ request'[<<p, k>>] = requests[<<p, k>>]
    BY <1>1, <1>2 DEF PutMoves, SendsNext, SendsHop, SendsNothing, RequestMap
  <2>. QED
    BY <1>1, <2>1 DEF TryOK
<1>3. CASE p = q /\ SendsNothing(q, requests)
  BY <1>1, <1>3 DEF TryOK, SendsNothing
<1>4. CASE p = q /\ SendsNext(q, requests)
  <2>1. /\ client'[p].tries = n + 1 /\ client'[p].hops = 0 /\ h = 0
        /\ k # n + 1 => request'[<<p, k>>] = requests[<<p, k>>]
        /\ k = n + 1 => request'[<<p, k>>] = all_pod[k]
    BY <1>1, <1>4 DEF SendsNext, RequestMap
  <2>. QED
    BY <1>1, <2>1 DEF TryOK, SentOK
<1>5. CASE p = q /\ SendsHop(q, requests)
  <2>1. /\ client'[p].tries = n + 1 /\ client'[p].hops = 1 /\ h = 0
        /\ k # n + 1 => request'[<<p, k>>] = requests[<<p, k>>]
    BY <1>1, <1>5 DEF SendsHop, RequestMap
  <2>. QED
    BY <1>1, <2>1 DEF TryOK, SentOK
<1>. QED
  BY <1>2, <1>3, <1>4, <1>5 DEF PutMoves

\* Every request and every handler belongs to its place in the loop.
LEMMA TriesStep ==
    ASSUME PodInv, LoopInv, TriesInv, [ClientNext]_allVars
    PROVE  TriesInv'
<1>0. \A p \in Process, k \in Tries : TryOK(p, k) /\ <<p, k>> \in Value
  BY ListFacts DEF TriesInv, TryOK
<1>1. CASE UNCHANGED allVars
  BY <1>1 DEF allVars, clientVars, podVars, TriesInv
<1>2. CASE ClusterStep
  <2>. SUFFICES ASSUME NEW p \in Process, NEW k \in Tries PROVE TryOK(p, k)'
    BY DEF TriesInv, TryOK
  <2>1. \/ put'[<<p, k>>] = put[<<p, k>>]
        \/ /\ put[<<p, k>>].stage # "new" /\ put'[<<p, k>>].stage # "new"
           /\ put'[<<p, k>>].node = put[<<p, k>>].node
    BY <1>0, <1>2, ClusterKeepsNodes
  <2>2. client' = client /\ request' = request
    BY <1>2 DEF ClusterStep, clientVars
  <2>. QED
    BY <1>0, <2>1, <2>2 DEF TryOK, SentOK
<1>3. CASE ReadStep
  BY <1>3, ReadMoves DEF SamePut, TriesInv, podVars
<1>4. ASSUME NEW r \in Value, request[r] \in Server, PutCheck(r, request[r]), request' = Without(r),
             client' = client
      PROVE  TriesInv'
  <2>. SUFFICES ASSUME NEW p \in Process, NEW k \in Tries PROVE TryOK(p, k)'
    BY DEF TriesInv, TryOK
  <2>1. CASE <<p, k>> # r
    <3>1. put'[<<p, k>>] = put[<<p, k>>] /\ request'[<<p, k>>] = request[<<p, k>>]
      BY <1>0, <1>4, <2>1, HandlerMoves DEF ClientStep, Without, LoopInv
    <3>. QED
      BY <1>0, <1>4, <3>1 DEF TryOK
  <2>2. CASE <<p, k>> = r
    <3>1. put'[r].stage = "checked" /\ put'[r].node = request[r] /\ request'[r] = None
      BY <1>4, HandlerMoves DEF Takes, Without, LoopInv
    <3>2. request[r] # None
      BY <1>4, ServerAssumption
    <3>. QED
      BY <1>0, <1>4, <2>2, <3>1, <3>2 DEF TryOK, SentOK
  <2>. QED
    BY <2>1, <2>2
<1>5. ASSUME NEW r \in Value, request' = Without(r), client' = client, UNCHANGED podVars
      PROVE  TriesInv'
  <2>1. put' = put
    BY <1>5 DEF podVars
  <2>. QED
    BY <1>5, <2>1, FewerRequests DEF TriesInv
<1>6. CASE WriteStep
  BY <1>4, <1>5, <1>6, WriteMoves, SendKeepsTries
<1>. QED
  BY <1>1, <1>2, <1>3, <1>6 DEF ClientNext

\* The log of the winner grows by probes and by the writes of its own handlers.
LEMMA WinnerQueue ==
    ASSUME PodInv, ElectionInv, NEW L \in Server, Winner(L), ReplInv(L), PodNext
    PROVE  \/ log'[L].queue = log[L].queue
           \/ \E entry \in Entry : /\ log'[L].queue = Append(log[L].queue, entry)
                                   /\ Written(entry.val) /\ HasRoom(log[L])
<1>1. log[L] \in Log /\ (Kept(log[L], log'[L]) \/ OwnAppend(log[L], log'[L]))
  BY LogsMove DEF LogMoves, PodInv, LogInv
<1>2. CASE Kept(log[L], log'[L])
  BY <1>2 DEF Kept
<1>3. CASE OwnAppend(log[L], log'[L])
  <2>1. PICK entry \in Entry : log'[L] = PutLocal(log[L], entry) /\ Written(entry.val)
    BY <1>3 DEF OwnAppend
  <2>2. CASE HasRoom(log[L])
    BY <1>1, <2>1, <2>2 DEF PutLocal, Log
  <2>3. CASE ~ HasRoom(log[L])
    BY <2>1, <2>3 DEF PutLocal
  <2>. QED
    BY <2>1, <2>2, <2>3
<1>. QED
  BY <1>1, <1>2, <1>3

\* A write in the winner's log is that of one of its handlers.
LEMMA OriginStep ==
    ASSUME PodInv, ElectionInv, NEW L \in Server, Winner(L), ReplInv(L), OriginInv(L), PodNext
    PROVE  OriginInv(L)'
<1>. DEFINE Handled(w) == w.stage \in {"waiting", "acked"} /\ w.node = L
            q == log[L].queue
<1>1. ASSUME NEW v \in Value, Handled(put[v]) PROVE Handled(put'[v])
  <2>1. put'[v] = put[v] \/ Takes(v) \/ Appends(v) \/ Answers(v)
    BY HandlersMove
  <2>2. ~ Takes(v) /\ ~ Appends(v)
    BY <1>1 DEF Takes, Appends, PutCheck, InnerPut
  <2>. QED
    BY <1>1, <2>1, <2>2 DEF Answers
<1>2. ASSUME NEW v \in Value, Written(v), HasRoom(log[L]) PROVE Handled(put'[v])
  <2>1. InnerPut(v) /\ put[v].node = L
    BY <1>2, PayloadAssumption DEF Written, InnerPut, ReplInv, PutsInv
  <2>. QED
    BY <1>2, <2>1, HandlerMoves DEF Appends
<1>3. q \in Seq(Entry) /\ Len(q) \in Nat
  BY DEF PodInv, LogInv, Log
<1>4. ASSUME NEW j \in 1..Len(q), q[j].val \in Value PROVE Handled(put'[q[j].val])
  BY <1>1, <1>4 DEF OriginInv
<1>5. CASE log'[L].queue = q
  BY <1>4, <1>5 DEF OriginInv
<1>6. ASSUME NEW entry \in Entry, log'[L].queue = Append(q, entry), Written(entry.val), HasRoom(log[L])
      PROVE  OriginInv(L)'
  <2>. DEFINE a == Append(q, entry)
  <2>1. Len(a) = Len(q) + 1 /\ a[Len(q) + 1] = entry /\ \A j \in 1..Len(q) : a[j] = q[j]
    BY <1>3, AppendProperties
  <2>. HIDE DEF a, q
  <2>2. ASSUME NEW j \in 1..Len(a), a[j].val \in Value PROVE Handled(put'[a[j].val])
    <3>1. j \in 1..Len(q) \/ j = Len(q) + 1
      BY <1>3, <2>1
    <3>. QED
      BY <1>2, <1>4, <1>6, <2>1, <2>2, <3>1
  <2>. QED
    BY <1>6, <2>2 DEF OriginInv, a
<1>. QED
  BY <1>5, <1>6, WinnerQueue

\* The logs other than the winner's hold nothing else.
LEMMA LoggedHandled ==
    ASSUME PodInv, NEW L \in Server, LogsInv(L), OriginInv(L), NEW r \in Value, Logged(r) # {}
    PROVE  put[r].stage # "new" /\ put[r].node = L
<1>1. PICK s \in Server : \E i \in 1..LogIndex(s) : At(log[s], i).val = r
  BY DEF Logged
<1>2. PICK i \in 1..LogIndex(s) : At(log[s], i).val = r
  BY <1>1
<1>3. /\ log[s].start = 0 /\ Starts(log[s].queue, log[L].queue)
      /\ Len(log[s].queue) \in Nat /\ Len(log[L].queue) \in Nat
  BY DEF LogsInv, PodInv, LogInv, Log
<1>4. i \in 1..Len(log[s].queue) /\ At(log[s], i) = log[s].queue[i]
  BY <1>2, <1>3 DEF LogIndex, Index, At, Slot
<1>5. i \in 1..Len(log[L].queue) /\ log[L].queue[i].val = r
  BY <1>2, <1>3, <1>4 DEF Starts
<1>. QED
  BY <1>5 DEF OriginInv

\* So only the request to the winner and the redirected one may be logged.
LEMMA FewLogged ==
    ASSUME IsInjective(all_pod), PodInv, LoopInv, TriesInv, NEW L \in Server, LogsInv(L), OriginInv(L)
    PROVE  LoggedOncePerTry
<1>. SUFFICES ASSUME NEW p \in Process
              PROVE  Cardinality({k \in Tries : Logged(<<p, k>>) # {}}) <= 1 + client[p].hops
  BY DEF LoggedOncePerTry
<1>. DEFINE K == {k \in Tries : Logged(<<p, k>>) # {}}
            n == client[p].tries
            h == client[p].hops
<1>1. n \in Nat /\ h \in {0, 1} /\ n - h <= Len(all_pod) /\ Tries \subseteq Nat \ {0}
  BY ListFacts DEF LoopInv, LoopOK, ClientState, Tries
<1>2. ASSUME NEW k \in K PROVE k <= n /\ (k <= n - h => k \in Pods /\ all_pod[k] = L)
  <2>1. <<p, k>> \in Value /\ put[<<p, k>>].stage # "new" /\ put[<<p, k>>].node = L
    BY ListFacts, LoggedHandled
  <2>2. SentOK(k, n, h, request[<<p, k>>], put[<<p, k>>])
    BY DEF TriesInv
  <2>. QED
    BY <1>1, <2>1, <2>2, ListFacts DEF SentOK
<1>. HIDE DEF K
<1>3. \A a, b \in K : a <= n - h /\ b <= n - h => a = b
  BY <1>2 DEF IsInjective, Pods
<1>4. K \subseteq Nat
  BY <1>1 DEF K
<1>5. ASSUME K = {} PROVE Cardinality(K) <= 1 + h
  <2>1. Cardinality(K) = 0
    BY <1>5, FS_EmptySet
  <2>. QED
    BY <1>1, <2>1
<1>6. ASSUME NEW a \in K, a <= n - h PROVE Cardinality(K) <= 1 + h
  <2>1. K \subseteq (IF h = 0 THEN {a} ELSE {a, n})
    BY <1>1, <1>2, <1>3, <1>4, <1>6
  <2>2. CASE h = 0
    <3>1. K = {a}
      BY <1>6, <2>1, <2>2
    <3>2. Cardinality(K) = 1
      BY <3>1, FS_Singleton
    <3>. QED
      BY <2>2, <3>2
  <2>3. CASE h = 1
    <3>1. IsFiniteSet({n}) /\ Cardinality({n}) = 1
      BY FS_Singleton
    <3>2. IsFiniteSet({n} \cup {a}) /\ Cardinality({n} \cup {a}) \in {1, 2}
      BY <3>1, FS_AddElement
    <3>3. K \in SUBSET ({n} \cup {a})
      BY <2>1, <2>3
    <3>4. IsFiniteSet(K) /\ Cardinality(K) <= Cardinality({n} \cup {a})
      BY <3>2, <3>3, FS_Subset
    <3>5. Cardinality(K) \in Nat
      BY <3>4, FS_CardinalityType
    <3>. QED
      BY <2>3, <3>2, <3>4, <3>5
  <2>. QED
    BY <1>1, <2>2, <2>3
<1>7. ASSUME K # {}, \A a \in K : ~ (a <= n - h) PROVE Cardinality(K) <= 1 + h
  <2>0. ASSUME NEW a \in K PROVE a = n
    BY <1>1, <1>2, <1>4, <1>7
  <2>1. K = {n}
    BY <1>7, <2>0
  <2>2. Cardinality(K) = 1
    BY <2>1, FS_Singleton
  <2>. QED
    BY <1>1, <2>2
<1>. QED
  BY <1>5, <1>6, <1>7 DEF K

\* Whoever has won all elections so far.
OriginsInv == \A L \in Server : Winner(L) => OriginInv(L)

\* The invariants of the clients hold, and those of the cluster.
LEMMA OriginsInvariance == ClientSpec => [](PodInv /\ AgreeInv /\ LoopInv /\ TriesInv /\ OriginsInv)
<1>1. ClientInit => TriesInv /\ OriginsInv
  <2>. SUFFICES ASSUME ClientInit PROVE TriesInv /\ OriginsInv
    OBVIOUS
  <2>1. \A r \in Value : put[r].stage = "new" /\ request[r] = None
    BY DEF ClientInit, PodInit, NewPut
  <2>2. \A L \in Server : log[L].queue = <<>>
    BY DEF ClientInit, PodInit, NewLog
  <2>. QED
    BY <2>1, <2>2, ListFacts DEF TriesInv, SentOK, OriginsInv, OriginInv
<1>2. ClientSpec => [](PodInv /\ ElectionInv /\ AgreeInv)
  BY ClientsUsePods, AgreeInvariance, PTL
<1>3. ASSUME PodInv, ElectionInv, AgreeInv, LoopInv, OriginsInv, [ClientNext]_allVars
      PROVE  OriginsInv'
  <2>. SUFFICES ASSUME NEW L \in Server, Winner(L)' PROVE OriginInv(L)'
    BY DEF OriginsInv
  <2>1. [PodNext]_podVars
    BY <1>3, ClientIsPodStep
  <2>2. Winner(L) /\ ReplInv(L) /\ OriginInv(L)
    <3>1. leaders \subseteq leaders'
      BY <1>3, <2>1, ElectionStep, WinsRemembered
    <3>. QED
      BY <1>3, <3>1 DEF Winner, AgreeInv, OriginsInv
  <2>3. CASE PodNext
    BY <1>3, <2>2, <2>3, OriginStep
  <2>4. CASE UNCHANGED podVars
    BY <2>2, <2>4 DEF podVars, logVars, OriginInv
  <2>. QED
    BY <2>1, <2>3, <2>4
<1>. QED
  BY <1>1, <1>2, <1>3, TriesStep, LoopInvariance, PTL DEF ClientSpec

(***************************************************************************)
(* As long as no second node has won an election, a Put is logged at most  *)
(* once, and once more if it was redirected: with any number of clients,   *)
(* nodes and requests that time out, run late or are retried.  The         *)
(* configuration of the library lists no node twice.                       *)
(***************************************************************************)
THEOREM OneWinnerLogsOnce ==
    ASSUME IsInjective(all_pod)
    PROVE  ClientSpec => [](OneWinner => LoggedOncePerTry)
<1>1. PodInv /\ AgreeInv /\ LoopInv /\ TriesInv /\ OriginsInv => (OneWinner => LoggedOncePerTry)
  <2>. SUFFICES ASSUME PodInv, AgreeInv, LoopInv, TriesInv, OriginsInv, OneWinner
                PROVE  LoggedOncePerTry
    OBVIOUS
  <2>1. PICK L \in Server : Winner(L)
    BY WinnerExists, ListFacts DEF PodInv, CoreInv
  <2>. QED
    BY <2>1, FewLogged DEF AgreeInv, ReplInv, OriginsInv
<1>. QED
  BY <1>1, OriginsInvariance, PTL

(***************************************************************************)
(* In particular for ever where one node only starts elections.            *)
(***************************************************************************)
THEOREM SoleElectorLogsOnce ==
    ASSUME IsInjective(all_pod), NEW e \in Server, Electors \subseteq {e}
    PROVE  ClientSpec => []LoggedOncePerTry
<1>1. ElectionSpec => []OneVictory
  BY SoleElectorWinsOnce, PTL
<1>2. OneVictory => OneWinner
  BY DEF OneVictory, OneWinner
<1>. QED
  BY <1>1, <1>2, ClientsUsePods, PodImplementsElection, OneWinnerLogsOnce, PTL

-----------------------------------------------------------------------------
(***************************************************************************)
(* What reads return while one node leads.                                 *)
(***************************************************************************)

\* A commit index that is taken over is the old one or not above the new one.
LEMMA CommitBound ==
    ASSUME NEW l \in Log, NEW commit \in Nat, NEW c \in Nat, l.commited <= c, commit <= c
    PROVE  /\ UpdateCommit(l, commit).commited \in Nat
           /\ UpdateCommit(l, commit).commited <= c
BY DEF UpdateCommit, Log, Index

\* No node but the winner gets ahead of the winner's commit index.
LEMMA CommitsBehind ==
    ASSUME PodInv, ElectionInv, NEW L \in Server, Winner(L), PutsInv(L), BeatInv(L), FollowInv(L), PodNext
    PROVE  \A s \in Server : s # L => log'[s].commited <= log[L].commited
<1>. DEFINE c == log[L].commited
            Behind == \A s \in Server : s # L => log'[s].commited <= c
<1>0. LogInv /\ log \in [Server -> Log] /\ SyncType /\ SyncInv /\ CoreInv /\ SyncOnlyWhileLeading
  BY DEF PodInv, LogInv
<1>1. c \in Nat /\ \A s \in Server : log[s] \in Log /\ log[s].commited <= c
  BY <1>0 DEF FollowInv, Log
<1>2. \A s \in Server : s # L => AfterStop(s) = log[s]
  BY LeaderIsL DEF AfterStop, StepsDown
<1>. HIDE DEF c
<1>3. ASSUME log' = log PROVE Behind
  BY <1>1, <1>3
<1>4. ASSUME NEW f \in Server, NEW m, f # L => m.commited <= c, log' = [log EXCEPT ![f] = m] PROVE Behind
  BY <1>0, <1>1, <1>4
<1>5. ASSUME NEW f \in Server, NEW commit \in Nat, commit <= c,
             log' = [log EXCEPT ![f] = UpdateCommit(AfterStop(f), commit)]
      PROVE  Behind
  <2>1. f # L => UpdateCommit(AfterStop(f), commit).commited <= c
    BY <1>1, <1>2, <1>5, CommitBound
  <2>. HIDE DEF Behind
  <2>. QED
    BY <1>4, <1>5, <2>1
<1>6. ASSUME NEW f \in Server, log' = [log EXCEPT ![f] = AfterStop(f)] PROVE Behind
  BY <1>1, <1>2, <1>4, <1>6
<1>7. ASSUME NEW f \in Server, NEW e, log' = [log EXCEPT ![f] = PutLocal(@, e)] PROVE Behind
  BY <1>0, <1>1, <1>7 DEF PutLocal, Log
<1>8. ASSUME NEW req, ReqOK(req), req.commited <= c, SolveAppend(req) PROVE Behind
  <2>. DEFINE f == req.to
              l == UpdateCommit(AfterStop(f), LeaderCommit(req))
  <2>1. log' = [log EXCEPT ![f] = UpdateRaftLog(l, req)] /\ f \in Server /\ req.commited \in Nat
    BY <1>8, RequestNodes DEF SolveAppend, ReqOK, AppendReq
  <2>2. ASSUME f # L PROVE UpdateRaftLog(l, req).commited <= c
    <3>1. LogOK(l) /\ l \in Log
      BY <1>0, <2>1, AfterStopOK, UpdateCommitOK DEF LeaderCommit, LogOK
    <3>2. l.commited <= c /\ l.commited \in Nat
      BY <1>1, <1>2, <2>1, <2>2, CommitBound DEF LeaderCommit
    <3>. HIDE DEF l
    <3>3. UpdateRaftLog(l, req) = l \/ UpdateRaftLog(l, req) = PutEntry(l, req.entry, req.commited)
      BY <3>1, ResetUnreached DEF UpdateRaftLog
    <3>4. PutEntry(l, req.entry, req.commited).commited \in {l.commited, req.commited}
      BY <3>1 DEF PutEntry, Log
    <3>. QED
      BY <1>8, <3>2, <3>3, <3>4
  <2>. HIDE DEF Behind
  <2>. QED
    BY <1>4, <2>1, <2>2
<1>. HIDE DEF Behind
<1>9. ASSUME NEW s \in Server, NodeStep(s) PROVE Behind
  <2>1. CASE PodTimer(s) \/ PodBecomeLeader(s) \/ ProbeReturn(s)
              \/ \E f \in Server : PodHeartBeatTimeout(s, f)
    BY <1>3, <2>1 DEF PodTimer, PodBecomeLeader, ProbeReturn, PodHeartBeatTimeout, logVars
  <2>2. ASSUME NEW f \in Server, PutTest(f) \/ NoProbe PROVE Behind
    BY <1>3, <1>7, <2>2 DEF PutTest, NoProbe
  <2>3. ASSUME NEW f \in Server, PodVoteCall(s, f) PROVE Behind
    BY <2>2, <2>3 DEF PodVoteCall
  <2>4. CASE PodVoteAbort(s)
    <3>1. left[s] \subseteq Server
      BY <1>0 DEF CoreInv, ElectionTypeOK
    <3>. QED
      BY <2>2, <2>4, <3>1 DEF PodVoteAbort
  <2>5. CASE PodVoteAnswer(s)
    <3>1. call[s].to \in Server
      BY <1>0, <2>5 DEF PodVoteAnswer, CoreInv, CallInv, ElectionTypeOK, VoteReq
    <3>. QED
      BY <1>6, <2>5, <3>1 DEF PodVoteAnswer
  <2>6. ASSUME NEW f \in Server, PodHeartBeat(s, f) PROVE Behind
    <3>1. log' = [log EXCEPT ![f] = UpdateCommit(AfterStop(f), log[s].commited)]
      BY <2>6 DEF PodHeartBeat
    <3>2. log[s].commited \in Nat /\ log[s].commited <= c
      BY <1>1 DEF Log
    <3>. QED
      BY <1>5, <3>1, <3>2
  <2>7. CASE Apply(s)
    <3>1. Applied(log[s]).commited = log[s].commited
      BY <1>1 DEF Applied, Log
    <3>2. log' = [log EXCEPT ![s] = Applied(log[s])]
      BY <1>0, <2>7 DEF Apply
    <3>. QED
      BY <1>1, <1>4, <3>1, <3>2
  <2>. QED
    BY <1>9, <2>1, <2>2, <2>3, <2>4, <2>5, <2>6, <2>7 DEF NodeStep
<1>10. ASSUME NEW s \in Server, NEW f \in Server, SyncStep(s, f) PROVE Behind
  <2>1. s = L
    <3>1. sync[s][f] # "off"
      BY <1>10 DEF SyncStep, SyncStart, SyncSend, SyncAnswer, SyncTimeout, AppendAnswer
    <3>. QED
      BY <1>0, <3>1, LeaderIsL DEF SyncOnlyWhileLeading
  <2>2. CASE SyncStart(s, f) \/ SyncSend(s, f) \/ SyncTimeout(s, f)
    BY <1>3, <2>2 DEF SyncStart, SyncSend, SyncTimeout, logVars
  <2>3. CASE AppendAnswer(s, f)
    BY <1>0, <1>8, <2>1, <2>3 DEF AppendAnswer, SyncInv, FollowInv, c
  <2>4. CASE SyncAnswer(s, f)
    <3>1. log' = log \/ log' = [log EXCEPT ![L] = CommitCheck(log[L], L, f, nextindex'[L])]
      BY <1>0, <2>1, <2>4 DEF SyncAnswer
    <3>. QED
      BY <1>3, <1>4, <3>1
  <2>. QED
    BY <1>10, <2>2, <2>3, <2>4 DEF SyncStep
<1>11. ASSUME LateStep PROVE Behind
  <2>1. ASSUME NEW req \in lateVote, PodVoteLate(req) PROVE Behind
    <3>1. req.to \in Server
      BY <1>0 DEF CoreInv, ElectionTypeOK, VoteReq
    <3>. QED
      BY <1>6, <2>1, <3>1 DEF PodVoteLate
  <2>2. ASSUME NEW req \in lateBeat, PodHeartBeatLate(req) PROVE Behind
    <3>1. req.to \in Server /\ req.commited \in Nat /\ req.commited <= c
      BY <1>0 DEF CoreInv, ElectionTypeOK, BeatReq, BeatInv, c
    <3>. QED
      BY <1>5, <2>2, <3>1 DEF PodHeartBeatLate
  <2>3. ASSUME NEW req \in lateAppend, AppendLate(req) PROVE Behind
    BY <1>0, <1>8, <2>3 DEF AppendLate, SyncInv, FollowInv, c
  <2>. QED
    BY <1>11, <2>1, <2>2, <2>3 DEF LateStep
<1>12. ASSUME NEW v \in Value, ClientStep(v) PROVE Behind
  <2>1. CASE InnerPut(v)
    BY <1>7, <2>1 DEF InnerPut, PutsInv
  <2>2. CASE PutReturn(v) \/ \E s \in Server : PutCheck(v, s)
    BY <1>3, <2>2 DEF PutReturn, PutCheck, logVars
  <2>. QED
    BY <1>12, <2>1, <2>2 DEF ClientStep
<1>. QED
  BY <1>9, <1>10, <1>11, <1>12 DEF PodNext, Behind, c

\* Nor does a request carry more.
LEMMA RequestsBehind ==
    ASSUME PodInv, ElectionInv, NEW L \in Server, Winner(L), FollowInv(L), PodNext
    PROVE  /\ \A f \in Server : sync'[L][f] = "calling" => sent'[L][f].commited <= log[L].commited
           /\ \A req \in lateAppend' : req.commited <= log[L].commited
<1>. DEFINE c == log[L].commited
            OK(f) == sync'[L][f] = "calling" => sent'[L][f].commited <= c
            LateOK == \A req \in lateAppend' : req.commited <= c
            Good == (\A f \in Server : OK(f)) /\ LateOK
<1>0. SyncType /\ SyncOnlyWhileLeading /\ CoreInv
  BY DEF PodInv
<1>1. c \in Nat
  BY DEF PodInv, LogInv, Log
<1>2. /\ \A f \in Server : sync[L][f] = "calling" => sent[L][f].commited <= c
      /\ \A req \in lateAppend : req.commited <= c
  BY DEF FollowInv
<1>. HIDE DEF c
<1>3. ASSUME UNCHANGED syncVars PROVE Good
  BY <1>2, <1>3 DEF syncVars
<1>4. ASSUME NEW v \in Server, StopThreads(v) PROVE Good
  <2>1. CASE ~ StepsDown(v)
    BY <1>3, <1>4, <2>1 DEF StopThreads
  <2>2. CASE StepsDown(v)
    <3>1. v = L
      BY <2>2, LeaderIsL DEF StepsDown
    <3>2. /\ sync' = [sync EXCEPT ![L] = [f \in Server |-> "off"]]
          /\ lateAppend' \subseteq lateAppend \cup Orphans(L)
      BY <1>4, <2>2, <3>1 DEF StopThreads
    <3>3. \A req \in Orphans(L) : req.commited <= c
      BY <1>2 DEF Orphans
    <3>4. \A f \in Server : sync'[L][f] = "off"
      BY <1>0, <3>2 DEF SyncType
    <3>. QED
      BY <1>2, <3>2, <3>3, <3>4
  <2>. QED
    BY <2>1, <2>2
<1>5. ASSUME NEW s \in Server, NodeStep(s) PROVE Good
  <2>1. CASE PodTimer(s) \/ PodVoteAbort(s) \/ Apply(s) \/ ProbeReturn(s)
              \/ \E f \in Server : PodVoteCall(s, f) \/ PodHeartBeatTimeout(s, f)
    <3>1. UNCHANGED syncVars
      BY <2>1 DEF PodTimer, PodVoteAbort, Apply, ProbeReturn, PodVoteCall, PodHeartBeatTimeout
    <3>. QED
      BY <1>3, <3>1
  <2>2. CASE PodVoteAnswer(s)
    <3>1. call[s].to \in Server /\ StopThreads(call[s].to)
      BY <1>0, <2>2 DEF PodVoteAnswer, CoreInv, CallInv, ElectionTypeOK, VoteReq
    <3>. QED
      BY <1>4, <3>1
  <2>3. ASSUME NEW f \in Server, PodHeartBeat(s, f) PROVE Good
    <3>1. StopThreads(f)
      BY <2>3 DEF PodHeartBeat
    <3>. QED
      BY <1>4, <3>1
  <2>4. CASE PodBecomeLeader(s)
    <3>1. /\ sync' = [sync EXCEPT ![s] = [f \in Server |-> IF f \in Followers[s] THEN "idle" ELSE "off"]]
          /\ UNCHANGED <<sent, lateAppend>>
      BY <1>0, <2>4 DEF PodBecomeLeader, SyncType
    <3>2. ASSUME NEW f \in Server, sync'[L][f] = "calling" PROVE sync[L][f] = "calling"
      BY <1>0, <3>1, <3>2 DEF SyncType
    <3>. QED
      BY <1>2, <3>1, <3>2
  <2>. HIDE DEF Good
  <2>. QED
    BY <1>5, <2>1, <2>2, <2>3, <2>4 DEF NodeStep
<1>6. ASSUME NEW s \in Server, NEW f \in Server, SyncStep(s, f) PROVE Good
  <2>1. s = L
    <3>1. sync[s][f] # "off"
      BY <1>6 DEF SyncStep, SyncStart, SyncSend, SyncAnswer, SyncTimeout, AppendAnswer
    <3>. QED
      BY <1>0, <3>1, LeaderIsL DEF SyncOnlyWhileLeading
  <2>2. ASSUME NEW g \in Server, g # f PROVE OK(g)
    <3>1. sync'[L][g] = sync[L][g] /\ sent'[L][g] = sent[L][g]
      BY <1>0, <1>6, <2>1, <2>2 DEF SyncStep, SyncStart, SyncSend, SyncAnswer, SyncTimeout,
         AppendAnswer, SyncTo, SyncType
    <3>. QED
      BY <1>2, <3>1
  <2>3. OK(f)
    <3>1. CASE SyncSend(s, f)
      <4>1. sent'[L][f].commited = c
        BY <1>0, <2>1, <3>1 DEF SyncSend, SyncType, c
      <4>. QED
        BY <1>1, <4>1
    <3>2. CASE ~ SyncSend(s, f)
      <4>1. sync'[L][f] # "calling"
        BY <1>0, <1>6, <2>1, <3>2 DEF SyncStep, SyncStart, SyncAnswer, SyncTimeout, AppendAnswer,
           SyncTo, SyncType
      <4>. QED
        BY <4>1
    <3>. QED
      BY <3>1, <3>2
  <2>4. LateOK
    <3>1. CASE SyncTimeout(s, f) /\ sync[s][f] = "calling"
      <4>1. \A req \in lateAppend' : req \in lateAppend \/ req = sent[L][f]
        BY <2>1, <3>1, AbandonedBound DEF SyncTimeout
      <4>. QED
        BY <1>2, <2>1, <3>1, <4>1
    <3>2. CASE ~ (SyncTimeout(s, f) /\ sync[s][f] = "calling")
      <4>1. lateAppend' = lateAppend
        BY <1>6, <3>2 DEF SyncStep, SyncStart, SyncSend, SyncAnswer, SyncTimeout, AppendAnswer
      <4>. QED
        BY <1>2, <4>1
    <3>. QED
      BY <3>1, <3>2
  <2>. HIDE DEF OK, LateOK
  <2>. QED
    BY <2>2, <2>3, <2>4
<1>7. ASSUME LateStep PROVE Good
  <2>1. ASSUME NEW req \in lateVote, PodVoteLate(req) PROVE Good
    <3>1. req.to \in Server /\ StopThreads(req.to)
      BY <1>0, <2>1 DEF PodVoteLate, CoreInv, ElectionTypeOK, VoteReq
    <3>. QED
      BY <1>4, <3>1
  <2>2. ASSUME NEW req \in lateBeat, PodHeartBeatLate(req) PROVE Good
    <3>1. req.to \in Server /\ StopThreads(req.to)
      BY <1>0, <2>2 DEF PodHeartBeatLate, CoreInv, ElectionTypeOK, BeatReq
    <3>. QED
      BY <1>4, <3>1
  <2>3. ASSUME NEW req \in lateAppend, AppendLate(req) PROVE Good
    <3>1. UNCHANGED <<sync, sent>> /\ lateAppend' \subseteq lateAppend
      BY <2>3 DEF AppendLate
    <3>. QED
      BY <1>2, <3>1
  <2>. HIDE DEF Good
  <2>. QED
    BY <1>7, <2>1, <2>2, <2>3 DEF LateStep
<1>8. ASSUME NEW v \in Value, ClientStep(v) PROVE UNCHANGED syncVars
  BY <1>8 DEF ClientStep, PutCheck, InnerPut, PutReturn
<1>9. Good
  <2>. HIDE DEF Good
  <2>. QED
    BY <1>3, <1>5, <1>6, <1>7, <1>8 DEF PodNext
<1>. QED
  BY <1>9 DEF c

\* Nobody is ahead of the winner after a step either.
LEMMA FollowStep ==
    ASSUME PodInv, ElectionInv, NEW L \in Server, Winner(L), PutsInv(L), BeatInv(L), FollowInv(L), PodNext
    PROVE  FollowInv(L)'
<1>1. /\ LogInv /\ LogInv' /\ log[L].commited <= log'[L].commited
  BY LogStep DEF LogsGrow, Grown, PodInv
<1>2. \A s \in Server : log[s].commited \in Nat /\ log'[s].commited \in Nat
  BY <1>1 DEF LogInv, Log
<1>3. ASSUME NEW n \in Int, n <= log[L].commited PROVE n <= log'[L].commited
  BY <1>1, <1>2, <1>3
<1>4. /\ SyncType' /\ SyncInv'
  BY SyncKeeps DEF SyncPart
<1>5. \A s \in Server : log'[s].commited <= log'[L].commited
  BY <1>1, <1>2, CommitsBehind
<1>6. \A f \in Server : sync'[L][f] = "calling" => sent'[L][f].commited <= log'[L].commited
  BY <1>3, <1>4, RequestsBehind DEF SyncInv, ReqOK, AppendReq
<1>7. \A req \in lateAppend' : req.commited <= log'[L].commited
  BY <1>3, <1>4, RequestsBehind DEF SyncInv, ReqOK, AppendReq
<1>. QED
  BY <1>5, <1>6, <1>7 DEF FollowInv

\* The operations of a log other than Applied leave last_append_ alone.
LEMMA LastKept ==
    ASSUME NEW l \in Log
    PROVE  /\ \A commit : UpdateCommit(l, commit).last_append = l.last_append
           /\ \A e : PutLocal(l, e).last_append = l.last_append
           /\ \A e, commit : PutEntry(l, e, commit).last_append = l.last_append
           /\ \A s, f, next : CommitCheck(l, s, f, next).last_append = l.last_append
<1>1. \A commit : UpdateCommit(l, commit).last_append = l.last_append
  BY DEF UpdateCommit, Log
<1>2. \A e : PutLocal(l, e).last_append = l.last_append
  BY DEF PutLocal, Log
<1>3. \A e, commit : PutEntry(l, e, commit).last_append = l.last_append
  BY DEF PutEntry, Log
<1>4. \A s, f, next : CommitCheck(l, s, f, next).last_append = l.last_append
  BY <1>1 DEF CommitCheck
<1>. QED
  BY <1>1, <1>2, <1>3, <1>4

\* Only the apply thread moves last_append_.
LEMMA OnlyApplyMoves ==
    ASSUME PodInv, PodNext
    PROVE  \/ \E s \in Server : Apply(s)
           \/ \A s \in Server : log'[s].last_append = log[s].last_append
<1>. DEFINE Same == \A s \in Server : log'[s].last_append = log[s].last_append
<1>0. LogInv /\ log \in [Server -> Log] /\ SyncType /\ SyncInv /\ CoreInv /\ RestType
  BY DEF PodInv, LogInv
<1>1. ASSUME log' = log PROVE Same
  BY <1>1
<1>2. ASSUME NEW f \in Server, NEW m, m.last_append = log[f].last_append, log' = [log EXCEPT ![f] = m]
      PROVE  Same
  BY <1>0, <1>2
<1>3. \A s \in Server : AfterStop(s) \in Log /\ AfterStop(s).last_append = log[s].last_append
  BY <1>0, AfterStopKept DEF AfterStop, StoppedLog, Log
<1>. HIDE DEF Same
<1>4. ASSUME NEW f \in Server, NEW commit, log' = [log EXCEPT ![f] = UpdateCommit(AfterStop(f), commit)]
      PROVE  Same
  BY <1>2, <1>3, <1>4, LastKept
<1>5. ASSUME NEW f \in Server, log' = [log EXCEPT ![f] = AfterStop(f)] PROVE Same
  BY <1>2, <1>3, <1>5
<1>6. ASSUME NEW f \in Server, NEW e, log' = [log EXCEPT ![f] = PutLocal(@, e)] PROVE Same
  <2>1. log' = [log EXCEPT ![f] = PutLocal(log[f], e)]
    BY <1>0, <1>6
  <2>. QED
    BY <1>0, <1>2, <2>1, LastKept
<1>7. ASSUME NEW req, ReqOK(req), SolveAppend(req) PROVE Same
  <2>. DEFINE f == req.to
              l == UpdateCommit(AfterStop(f), LeaderCommit(req))
  <2>1. log' = [log EXCEPT ![f] = UpdateRaftLog(l, req)] /\ f \in Server
    BY <1>7, RequestNodes DEF SolveAppend
  <2>2. LogOK(l) /\ l \in Log /\ l.last_append = log[f].last_append
    BY <1>0, <1>3, <2>1, AfterStopOK, UpdateCommitOK, LastKept DEF LeaderCommit, LogOK
  <2>. HIDE DEF l
  <2>3. UpdateRaftLog(l, req) = l \/ UpdateRaftLog(l, req) = PutEntry(l, req.entry, req.commited)
    BY <2>2, ResetUnreached DEF UpdateRaftLog
  <2>4. UpdateRaftLog(l, req).last_append = log[f].last_append
    BY <2>2, <2>3, LastKept
  <2>. QED
    BY <1>2, <2>1, <2>4
<1>8. ASSUME NEW s \in Server, NodeStep(s) PROVE Apply(s) \/ Same
  <2>1. CASE PodTimer(s) \/ PodBecomeLeader(s) \/ ProbeReturn(s)
              \/ \E f \in Server : PodHeartBeatTimeout(s, f)
    BY <1>1, <2>1 DEF PodTimer, PodBecomeLeader, ProbeReturn, PodHeartBeatTimeout, logVars
  <2>2. ASSUME NEW f \in Server, PutTest(f) \/ NoProbe PROVE Same
    BY <1>1, <1>6, <2>2 DEF PutTest, NoProbe
  <2>3. ASSUME NEW f \in Server, PodVoteCall(s, f) PROVE Same
    BY <2>2, <2>3 DEF PodVoteCall
  <2>4. CASE PodVoteAbort(s)
    <3>1. left[s] \subseteq Server
      BY <1>0 DEF CoreInv, ElectionTypeOK
    <3>. QED
      BY <2>2, <2>4, <3>1 DEF PodVoteAbort
  <2>5. CASE PodVoteAnswer(s)
    <3>1. call[s].to \in Server
      BY <1>0, <2>5 DEF PodVoteAnswer, CoreInv, CallInv, ElectionTypeOK, VoteReq
    <3>. QED
      BY <1>5, <2>5, <3>1 DEF PodVoteAnswer
  <2>6. ASSUME NEW f \in Server, PodHeartBeat(s, f) PROVE Same
    BY <1>4, <2>6 DEF PodHeartBeat
  <2>. QED
    BY <1>8, <2>1, <2>2, <2>3, <2>4, <2>5, <2>6 DEF NodeStep
<1>9. ASSUME NEW s \in Server, NEW f \in Server, SyncStep(s, f) PROVE Same
  <2>1. CASE SyncStart(s, f) \/ SyncSend(s, f) \/ SyncTimeout(s, f)
    BY <1>1, <2>1 DEF SyncStart, SyncSend, SyncTimeout, logVars
  <2>2. CASE AppendAnswer(s, f)
    BY <1>0, <1>7, <2>2 DEF AppendAnswer, SyncInv
  <2>3. CASE SyncAnswer(s, f)
    <3>1. log' = log \/ log' = [log EXCEPT ![s] = CommitCheck(log[s], s, f, nextindex'[s])]
      BY <1>0, <2>3 DEF SyncAnswer
    <3>. QED
      BY <1>0, <1>1, <1>2, <3>1, LastKept
  <2>. QED
    BY <1>9, <2>1, <2>2, <2>3 DEF SyncStep
<1>10. ASSUME LateStep PROVE Same
  <2>1. ASSUME NEW req \in lateVote, PodVoteLate(req) PROVE Same
    <3>1. req.to \in Server
      BY <1>0 DEF CoreInv, ElectionTypeOK, VoteReq
    <3>. QED
      BY <1>5, <2>1, <3>1 DEF PodVoteLate
  <2>2. ASSUME NEW req \in lateBeat, PodHeartBeatLate(req) PROVE Same
    <3>1. req.to \in Server
      BY <1>0 DEF CoreInv, ElectionTypeOK, BeatReq
    <3>. QED
      BY <1>4, <2>2, <3>1 DEF PodHeartBeatLate
  <2>3. ASSUME NEW req \in lateAppend, AppendLate(req) PROVE Same
    BY <1>0, <1>7, <2>3 DEF AppendLate, SyncInv
  <2>. QED
    BY <1>10, <2>1, <2>2, <2>3 DEF LateStep
<1>11. ASSUME NEW v \in Value, ClientStep(v) PROVE Same
  <2>1. CASE InnerPut(v)
    BY <1>0, <1>6, <2>1 DEF InnerPut, RestType
  <2>2. CASE PutReturn(v) \/ \E s \in Server : PutCheck(v, s)
    BY <1>1, <2>2 DEF PutReturn, PutCheck, logVars
  <2>. QED
    BY <1>11, <2>1, <2>2 DEF ClientStep
<1>. QED
  BY <1>8, <1>9, <1>10, <1>11 DEF PodNext, Same

\* What a database got stays an entry of a log that grows.
LEMMA GotGrown ==
    ASSUME NEW l \in Log, NEW m \in Log, Grown(l, m), NEW i \in Nat, i >= 1, NEW value,
           NEW c \in Nat, NEW d \in Nat, c <= d, GotOK(l, i, value, c)
    PROVE  GotOK(m, i, value, d)
<1>1. Len(l.queue) \in Nat /\ Len(m.queue) \in Nat
  BY DEF Log
<1>. QED
  BY <1>1 DEF GotOK, Grown

\* The databases have entries of their logs that are not past the winner's commit
\* index.
LEMMA GotStep ==
    ASSUME PodInv, ElectionInv, NEW L \in Server, LogsInv(L), FollowInv(L), GotInv(L), PodNext
    PROVE  GotInv(L)'
<1>. DEFINE c == log[L].commited
            d == log'[L].commited
<1>0. /\ LogInv /\ LogInv' /\ \A s \in Server : Grown(log[s], log'[s])
      /\ log \in [Server -> Log] /\ applied \in [Server -> Seq(Payload)]
  BY LogStep DEF LogsGrow, PodInv, LogInv, RestType
<1>1. /\ c \in Nat /\ d \in Nat /\ c <= d
      /\ \A s \in Server : log[s] \in Log /\ log'[s] \in Log /\ log[s].last_append \in Nat
      /\ \A s \in Server : log[s].commited \in Nat /\ log[s].commited <= c
  BY <1>0 DEF LogInv, LogOK, Log, Grown, FollowInv
<1>2. ASSUME NEW s \in Server, NEW i \in 1..Len(applied[s]) PROVE GotOK(log'[s], i, applied[s][i], d)
  <2>1. GotOK(log[s], i, applied[s][i], c) /\ i \in Nat /\ i >= 1
    BY <1>0 DEF GotInv
  <2>. HIDE DEF c, d
  <2>. QED
    BY <1>0, <1>1, <2>1, GotGrown
<1>. HIDE DEF c, d
<1>3. CASE \A s \in Server : ~ Apply(s)
  <2>1. applied' = applied /\ \A s \in Server : log'[s].last_append = log[s].last_append
    BY <1>3, OnlyApplyMoves, OnlyApplyApplies
  <2>. QED
    BY <1>2, <2>1 DEF GotInv, d
<1>4. ASSUME NEW t \in Server, Apply(t) PROVE GotInv(L)'
  <2>. DEFINE n == log[t].last_append
              value == NextApplied(log[t]).val
              a == applied[t]
  <2>1. /\ applied' = [applied EXCEPT ![t] = Append(a, value)]
        /\ log' = [log EXCEPT ![t] = Applied(log[t])]
        /\ n < log[t].commited
    BY <1>0, <1>4 DEF Apply, CanApply
  <2>2. /\ log'[t].last_append = n + 1 /\ log'[t].queue = log[t].queue /\ log[t].start = 0
        /\ Len(log[t].queue) \in Nat /\ n \in Nat
    BY <1>0, <1>1, <2>1 DEF Applied, Log, LogsInv
  <2>3. GotOK(log'[t], n + 1, value, d)
    <3>1. n + 1 <= d
      BY <1>1, <2>1, <2>2
    <3>2. CASE n + 1 <= Len(log[t].queue)
      <4>1. value = log[t].queue[n + 1].val
        BY <2>2, <3>2 DEF NextApplied, Slot
      <4>. QED
        BY <2>2, <3>1, <3>2, <4>1 DEF GotOK
    <3>3. CASE ~ (n + 1 <= Len(log[t].queue))
      <4>1. value = Empty
        BY <2>2, <3>3 DEF NextApplied, Slot, DefaultEntry
      <4>. QED
        BY <4>1 DEF GotOK
    <3>. QED
      BY <3>2, <3>3
  <2>4. a \in Seq(Payload) /\ Len(a) = n
    BY <1>0 DEF GotInv
  <2>5. value \in Payload
    <3>1. NextApplied(log[t]) = At(log[t], n + 1)
      BY <2>2 DEF NextApplied, At
    <3>2. n + 1 \in Int
      BY <2>2
    <3>3. NextApplied(log[t]) \in Entry
      BY <1>1, <3>1, <3>2, AtType
    <3>. QED
      BY <3>3 DEF Entry
  <2>. HIDE DEF value, a, n
  <2>6. /\ Len(Append(a, value)) = n + 1 /\ Append(a, value)[n + 1] = value
        /\ \A i \in 1..n : Append(a, value)[i] = a[i]
    BY <2>4, <2>5, AppendProperties
  <2>7. applied'[t] = Append(a, value)
    BY <1>0, <2>1
  <2>8. ASSUME NEW i \in 1..Len(applied'[t]) PROVE GotOK(log'[t], i, applied'[t][i], d)
    <3>1. i = n + 1 \/ i \in 1..n
      BY <2>2, <2>6, <2>7
    <3>2. CASE i = n + 1
      BY <2>3, <2>6, <2>7, <3>2
    <3>3. CASE i \in 1..n
      <4>1. GotOK(log'[t], i, a[i], d)
        BY <1>2, <2>4, <3>3 DEF a
      <4>. QED
        BY <2>6, <2>7, <3>3, <4>1
    <3>. QED
      BY <3>1, <3>2, <3>3
  <2>9. ASSUME NEW s \in Server, s # t
        PROVE  /\ Len(applied'[s]) = log'[s].last_append
               /\ \A i \in 1..Len(applied'[s]) : GotOK(log'[s], i, applied'[s][i], d)
    <3>1. applied'[s] = applied[s] /\ log'[s].last_append = log[s].last_append
      BY <1>0, <2>1, <2>9
    <3>. QED
      BY <1>2, <3>1 DEF GotInv
  <2>. QED
    BY <2>2, <2>6, <2>7, <2>8, <2>9 DEF GotInv, d
<1>. QED
  BY <1>3, <1>4

\* Whoever has won the only election so far.
GotsInv == \A L \in Server : Winner(L) /\ OneVictory => FollowInv(L) /\ GotInv(L)

\* The step: whoever has won it had done so before, or nobody had.
LEMMA GotsStep ==
    ASSUME PodInv, ElectionInv, AgreeInv, MajorInv, GotsInv, [PodNext]_podVars
    PROVE  GotsInv'
<1>. SUFFICES ASSUME NEW L \in Server, Winner(L)', OneVictory' PROVE FollowInv(L)' /\ GotInv(L)'
  BY DEF GotsInv
<1>1. Winner(L) /\ OneVictory
  <2>1. leaders \subseteq leaders'
    BY ElectionStep, WinsRemembered
  <2>. QED
    BY <2>1 DEF Winner, OneVictory
<1>2. FollowInv(L) /\ GotInv(L) /\ LogsInv(L) /\ PutsInv(L) /\ BeatInv(L)
  BY <1>1 DEF GotsInv, AgreeInv, ReplInv, MajorInv
<1>3. CASE PodNext
  BY <1>1, <1>2, <1>3, FollowStep, GotStep
<1>4. CASE UNCHANGED podVars
  BY <1>2, <1>4 DEF podVars, logVars, syncVars, FollowInv, GotInv
<1>. QED
  BY <1>3, <1>4

\* Nothing is sent or applied at the start.
LEMMA InitGots == PodInit => GotsInv
<1>. SUFFICES ASSUME PodInit PROVE GotsInv
  OBVIOUS
<1>1. \A s \in Server : log[s].commited = 0 /\ log[s].last_append = 0 /\ applied[s] = <<>>
  BY DEF PodInit, NewLog
<1>2. Len(<<>>) = 0
  OBVIOUS
<1>3. lateAppend = {} /\ \A s, f \in Server : sync[s][f] = "off"
  BY DEF PodInit
<1>. QED
  BY <1>1, <1>2, <1>3 DEF GotsInv, FollowInv, GotInv

\* A read asks a node of the cluster.
LEMMA AskedNode ==
    ASSUME LoopInv, NEW p \in Process, ReadAnswered(p)
    PROVE  Asked(p) \in Server
<1>1. LoopOK(client[p]) /\ client[p].pc \in {"get", "optget", "sget", "sgetLeader"}
  BY DEF LoopInv, ReadAnswered
<1>. QED
  BY <1>1, ListFacts DEF LoopOK, Asked

\* What the database of s has for the key is an entry of the log of L up to its
\* commit index.
LEMMA DbGetCommited ==
    ASSUME PodInv, NEW L \in Server, LogsInv(L), GotInv(L), NEW s \in Server, DbGet(s) # Empty
    PROVE  \E i \in 1..log[L].commited : i \in 1..Len(log[L].queue) /\ log[L].queue[i].val = DbGet(s)
<1>. DEFINE writes == {i \in DOMAIN applied[s] : applied[s][i] # Empty}
            n == Len(applied[s])
            m == Max(writes)
<1>1. n \in Nat /\ DOMAIN applied[s] = 1..n
  BY DEF PodInv, RestType
<1>2. writes # {} /\ DbGet(s) = applied[s][m]
  BY DEF DbGet
<1>3. writes \subseteq Nat /\ \A i \in writes : i <= n
  BY <1>1
<1>4. m \in writes
  BY <1>1, <1>2, <1>3, MaxOfBounded
<1>. HIDE DEF m
<1>5. m \in 1..n /\ applied[s][m] # Empty
  BY <1>1, <1>4
<1>6. GotOK(log[s], m, applied[s][m], log[L].commited)
  BY <1>5 DEF GotInv
<1>7. /\ log[L].commited \in Nat /\ Len(log[s].queue) \in Nat /\ Len(log[L].queue) \in Nat
      /\ Starts(log[s].queue, log[L].queue)
  BY DEF PodInv, LogInv, Log, LogsInv
<1>8. m \in 1..log[L].commited /\ m \in 1..Len(log[s].queue) /\ log[s].queue[m].val = applied[s][m]
  BY <1>1, <1>5, <1>6, <1>7 DEF GotOK
<1>9. m \in 1..Len(log[L].queue) /\ log[L].queue[m].val = DbGet(s)
  BY <1>2, <1>7, <1>8 DEF Starts
<1>. QED
  BY <1>8, <1>9

\* A read while the only winner leads.
LEMMA ReadCommited ==
    ASSUME PodInv, ElectionInv, AgreeInv, MajorInv, GotsInv, LoopInv, OneVictory, NEW e \in Server,
           leaders # {} => status[e] = "Leader", NEW p \in Process, ReadAnswered(p),
           DbGet(Asked(p)) # Empty
    PROVE  Majority(Logged(DbGet(Asked(p))))
<1>. DEFINE value == DbGet(Asked(p))
<1>1. Asked(p) \in Server
  BY AskedNode
<1>2. PICK L \in Server : Winner(L)
  BY WinnerExists DEF PodInv, CoreInv, OneVictory, OneWinner
<1>3. LogsInv(L) /\ GotInv(L) /\ CommitInv(L) /\ QuietInv
  BY <1>2 DEF AgreeInv, ReplInv, GotsInv, MajorInv
<1>4. PICK i \in 1..log[L].commited : i \in 1..Len(log[L].queue) /\ log[L].queue[i].val = value
  BY <1>1, <1>3, DbGetCommited
<1>5. \A t \in Server : /\ log[t].start = 0 /\ log[t].commited \in Nat /\ Len(log[t].queue) \in Nat
                        /\ LogIndex(t) \in Nat
  BY <1>3, IndexInRange DEF PodInv, LogInv, Log, LogsInv
<1>. HIDE DEF value
<1>6. leaders # {}
  BY <1>3, <1>4, <1>5 DEF QuietInv
<1>7. status[L] = "Leader"
  BY <1>2, <1>6, LeaderIsL
<1>8. Majority(Holders(L, i))
  BY <1>3, <1>4, <1>7 DEF CommitInv
<1>9. At(log[L], i) = log[L].queue[i]
  BY <1>4, <1>5 DEF At, Slot
<1>10. Holders(L, i) \subseteq Logged(value)
  <2>. SUFFICES ASSUME NEW t \in Holders(L, i) PROVE t \in Logged(value)
    OBVIOUS
  <2>1. t \in Server /\ i <= LogIndex(t) /\ At(log[t], i).val = value
    BY <1>4, <1>9 DEF Holders
  <2>2. i \in 1..LogIndex(t)
    BY <1>4, <1>5, <2>1
  <2>. QED
    BY <2>1, <2>2 DEF Logged
<1>11. Logged(value) \subseteq Server
  BY DEF Logged
<1>12. Majority(Logged(value))
  BY <1>8, <1>10, <1>11, MajorityGrows
<1>. QED
  BY <1>12 DEF value

(***************************************************************************)
(* Where one node only starts elections, raft.cfg lists the whole cluster  *)
(* and the ring buffers have room, what any of the three reads returns is  *)
(* in the logs of a majority, although the database asked may be that of   *)
(* any node and may have been handed entries its log never had.            *)
(***************************************************************************)
THEOREM SoleElectorReadsCommited ==
    ASSUME FullLists, Roomy, NEW e \in Server, Electors \subseteq {e}
    PROVE  ClientSpec => ReadsCommited
<1>. DEFINE Led == leaders # {} => status[e] = "Leader"
            Inv == /\ PodInv /\ ElectionInv /\ AgreeInv /\ MajorInv /\ GotsInv /\ LoopInv
                   /\ OneVictory /\ Led
            Read == \A p \in Process :
                       ReadAnswered(p) =>
                           LET value == DbGet(Asked(p)) IN value = Empty \/ Majority(Logged(value))
<1>1. PodSpec => [](OneVictory /\ Led)
  BY PodImplementsElection, SoleElectorWinsOnce, PTL
<1>2. PodSpec => [](PodInv /\ ElectionInv /\ AgreeInv /\ MajorInv)
  BY AgreeInvariance, MajorInvariance, PTL
<1>3. PodSpec => []GotsInv
  BY <1>2, InitGots, GotsStep, PTL DEF PodSpec
<1>4. Inv => Read
  BY ReadCommited
<1>5. ClientSpec => []Inv
  BY <1>1, <1>2, <1>3, ClientsUsePods, LoopInvariance, PTL
<1>6. Inv /\ [ClientNext]_allVars => [Read]_allVars
  BY <1>4
<1>. QED
  BY <1>5, <1>6, PTL DEF ClientSpec, ReadsCommited
=============================================================================
