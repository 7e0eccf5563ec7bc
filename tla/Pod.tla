--------------------------------- MODULE Pod ---------------------------------
(***************************************************************************)
(* A cluster of Pods (raft/pod.hpp): leader election composed with the     *)
(* replicated log, the sync thread the leader runs for each address of its *)
(* raft.cfg (class Follower), the apply thread of RaftLog, and client      *)
(* writes.                                                                 *)
(*                                                                         *)
(* Every action that is also a step of the election conjoins the action of *)
(* module Election with what the same code does to the log; all others     *)
(* leave the election alone.                                               *)
(***************************************************************************)
EXTENDS Election, RaftLog, FiniteSetsExt, Functions

CONSTANTS
    MinNext,        \* bound: how far below zero nextindex_ is followed
    MaxLateAppend,  \* bound: entry requests alive after their caller gave up
    LossyAppend     \* bound: whether the deadline of an entry request may pass

ASSUME PodAssumption ==
    MinNext \in Int /\ MaxLateAppend \in Nat /\ LossyAppend \in BOOLEAN

\* A log does not reach the range of size_t.
ASSUME IndexAssumption == MaxIndex < SizeMod

VARIABLES
    log,         \* raft_log_ of each node
    applied,     \* what the apply thread of each node wrote to its database
    nextindex,   \* nextindex_ of each Follower object: the last matched index
    sync,        \* where the sync thread of each Follower object is
    sent,        \* the entry request a sync thread waits for
    lateAppend,  \* entry requests whose caller gave up
    put,         \* the client writes
    polling,     \* indexes the Put handlers of probes wait for
    saved        \* raft_log_meta and the database files of each node

logVars  == <<log, applied>>
syncVars == <<nextindex, sync, sent, lateAppend>>
podVars  == <<electionVars, logVars, syncVars, put, polling, saved>>

\* Follower::Run leaves term and commited_index of the request unset; the
\* entry carries the index it is for and the leader's commit index.
AppendReq ==
    [from : Server, to : Server, entry : Entry, index : Int, commited : Nat]

\* A sync thread is off, looks for work, is in the inner loop between two
\* calls, in a call, or holds an answer: code 0 or another code.
SyncState == {"off", "idle", "sending", "calling", "ok", "nak"}

PutState ==
    [stage : {"new", "checked", "waiting", "acked", "failed"},
     node : Server \cup {None}, index : Nat]

NewPut == [stage |-> "new", node |-> None, index |-> 0]

\* The variables hold what their declarations in Pod, Follower and RaftLog allow.
PodTypeOK ==
    /\ ElectionTypeOK
    /\ log \in [Server -> Log]
    /\ applied \in [Server -> Seq(Payload)]
    /\ nextindex \in [Server -> [Server -> Int]]
    /\ sync \in [Server -> [Server -> SyncState]]
    /\ sent \in [Server -> [Server -> AppendReq \cup {None}]]
    /\ lateAppend \subseteq AppendReq
    /\ put \in [Value -> PutState]
    /\ polling \in [Server -> SUBSET Nat]
    /\ saved \in [Server -> [commited : Nat, applied : Seq(Payload)]]

PodInit ==
    /\ ElectionInit
    /\ log = [s \in Server |-> NewLog(0)]
    /\ applied = [s \in Server |-> <<>>]
    /\ nextindex = [s \in Server |-> [f \in Server |-> 0]]
    /\ sync = [s \in Server |-> [f \in Server |-> "off"]]
    /\ sent = [s \in Server |-> [f \in Server |-> None]]
    /\ lateAppend = {}
    /\ put = [v \in Value |-> NewPut]
    /\ polling = [s \in Server |-> {}]
    /\ saved = [s \in Server |-> [commited |-> 0, applied |-> <<>>]]

LogIndex(s) == Index(log[s])

(***************************************************************************)
(* The check at the end of a round of the sync thread of s for f: advance  *)
(* the commit index to nextindex_ if enough followers are as far.  It also *)
(* runs when the inner loop is left because the thread is stopped, and     *)
(* then nextindex_ may be negative.                                        *)
(***************************************************************************)
CommitRule(s, f, next) ==
    LET others == Followers[s] \ {f}
        sum    == 2 + Cardinality({g \in others : next[g] >= next[f]})
    IN  sum >= (sum + Cardinality(others) + 1) \div 2

CommitCheck(l, s, f, next) ==
    IF CommitRule(s, f, next) THEN UpdateCommit(l, SizeT(next[f])) ELSE l

(***************************************************************************)
(* Stop() of every Follower object, by a handler that turns leader s into  *)
(* a follower.  It waits for the threads: one in its inner loop still runs *)
(* the commit check; the answer of a call in progress is not awaited       *)
(* longer than its deadline.                                               *)
(***************************************************************************)
StepsDown(s) == status[s] = "Leader" /\ status'[s] # "Leader"

InnerLoop(s) == {f \in Followers[s] : sync[s][f] \in {"sending", "calling", "ok", "nak"}}

StoppedLog(s) ==
    [log[s] EXCEPT !.commited =
        Max({@} \cup {CommitCheck(log[s], s, f, nextindex[s]).commited : f \in InnerLoop(s)})]

AfterStop(s) == IF StepsDown(s) THEN StoppedLog(s) ELSE log[s]

\* Calls in progress are lost or handled later, as far as the bound allows.
Orphans(s) == {sent[s][f] : f \in {g \in Server : sync[s][g] = "calling"}}

\* Mutant: the handler sets status_ and leaves the threads running.
StopThreads_Forgotten(s) == UNCHANGED syncVars

StopThreads(s) ==
    IF StepsDown(s)
    THEN /\ sync' = [sync EXCEPT ![s] = [f \in Server |-> "off"]]
         /\ sent' = [sent EXCEPT ![s] = [f \in Server |-> None]]
         /\ \E kept \in SUBSET Orphans(s) :
               /\ Cardinality(lateAppend \cup kept) <= MaxLateAppend
               /\ lateAppend' = lateAppend \cup kept
         /\ UNCHANGED nextindex
    ELSE UNCHANGED syncVars

(***************************************************************************)
(* PutTest(): the candidate probes f with a Put of the empty key before it *)
(* asks for its vote.  A leader takes it for a write, and its handler      *)
(* polls like that of a client.                                            *)
(***************************************************************************)
PutTest(f) ==
    /\ MutexFree(f)
    /\ status[f] = "Leader"
    /\ LogIndex(f) < MaxIndex
    /\ log' = [log EXCEPT ![f] = PutLocal(@, [val |-> Empty, term |-> term[f]])]
    /\ polling' = [polling EXCEPT ![f] =
                      IF HasRoom(log[f]) THEN @ \cup {LogIndex(f) + 1} ELSE @]

NoProbe == UNCHANGED <<log, polling>>

(***************************************************************************)
(* Elections.                                                              *)
(***************************************************************************)
PodTimer(s) ==
    /\ NotTimedOut(s) \/ ElectionTimeout(s) \/ RequestVote(s) \/ VoteTimeout(s)
          \/ LoseElection(s) \/ BeatStart(s) \/ BeatDone(s)
    /\ UNCHANGED <<logVars, syncVars, put, polling, saved>>

PodVoteCall(s, f) ==
    /\ VoteCall(s, f, LogIndex(s))
    /\ PutTest(f) \/ NoProbe
    /\ UNCHANGED <<applied, syncVars, put, saved>>

PodVoteAbort(s) ==
    /\ VoteAbort(s)
    /\ (\E f \in left[s] : PutTest(f)) \/ NoProbe
    /\ UNCHANGED <<applied, syncVars, put, saved>>

PodVoteAnswer(s) ==
    /\ pc[s] = "calling"
    /\ LET v == call[s].to IN
       /\ VoteAnswer(s, LogIndex(v))
       /\ log' = [log EXCEPT ![v] = AfterStop(v)]
       /\ StopThreads(v)
    /\ UNCHANGED <<applied, put, polling, saved>>

PodVoteLate(req) ==
    /\ VoteLate(req, LogIndex(req.to))
    /\ log' = [log EXCEPT ![req.to] = AfterStop(req.to)]
    /\ StopThreads(req.to)
    /\ UNCHANGED <<applied, put, polling, saved>>

\* Every Follower object starts its thread at the leader's commit index.
PodBecomeLeader(s) ==
    /\ BecomeLeader(s)
    /\ nextindex' = [nextindex EXCEPT ![s] =
                        [f \in Server |-> IF f \in Followers[s] THEN log[s].commited ELSE @[f]]]
    /\ sync' = [sync EXCEPT ![s] =
                        [f \in Server |-> IF f \in Followers[s] THEN "idle" ELSE "off"]]
    /\ UNCHANGED <<logVars, sent, lateAppend, put, polling, saved>>

(***************************************************************************)
(* Heartbeats carry the sender's commit index, which the receiver takes    *)
(* over whatever the terms are.                                            *)
(***************************************************************************)
PodHeartBeat(s, f) ==
    /\ SendHeartBeat(s, f)
    /\ log' = [log EXCEPT ![f] = UpdateCommit(AfterStop(f), log[s].commited)]
    /\ StopThreads(f)
    /\ UNCHANGED <<applied, put, polling, saved>>

PodHeartBeatTimeout(s, f) ==
    /\ HeartBeatTimeout(s, f, log[s].commited)
    /\ UNCHANGED <<logVars, syncVars, put, polling, saved>>

PodHeartBeatLate(req) ==
    /\ HeartBeatLate(req)
    /\ log' = [log EXCEPT ![req.to] = UpdateCommit(AfterStop(req.to), req.commited)]
    /\ StopThreads(req.to)
    /\ UNCHANGED <<applied, put, polling, saved>>

(***************************************************************************)
(* The sync thread of s for f.                                             *)
(***************************************************************************)
SyncTo(s, f, state) == sync' = [sync EXCEPT ![s][f] = state]

SyncStart(s, f) ==
    /\ sync[s][f] = "idle"
    /\ SizeT(nextindex[s][f]) < LogIndex(s)
    /\ SyncTo(s, f, "sending")
    /\ UNCHANGED <<electionVars, logVars, nextindex, sent, lateAppend, put, polling, saved>>

SyncSend(s, f) ==
    /\ sync[s][f] = "sending"
    /\ nextindex[s][f] > MinNext
    /\ SyncTo(s, f, "calling")
    /\ LET index == nextindex[s][f] + 1 IN
       sent' = [sent EXCEPT ![s][f] = [from |-> s, to |-> f, entry |-> At(log[s], index),
                                       index |-> index, commited |-> log[s].commited]]
    /\ UNCHANGED <<electionVars, logVars, nextindex, lateAppend, put, polling, saved>>

\* An answer other than 0 is taken for a mismatch: try the entry before.  After
\* a match the thread checks the commit index and looks for work again.
SyncAnswer(s, f) ==
    /\ \/ /\ sync[s][f] = "nak"
          /\ nextindex' = [nextindex EXCEPT ![s][f] = @ - 1]
          /\ SyncTo(s, f, "sending")
          /\ UNCHANGED log
       \/ /\ sync[s][f] = "ok"
          /\ nextindex' = [nextindex EXCEPT ![s][f] = @ + 1]
          /\ SyncTo(s, f, "idle")
          /\ log' = [log EXCEPT ![s] = CommitCheck(@, s, f, nextindex'[s])]
    /\ UNCHANGED <<electionVars, applied, sent, lateAppend, put, polling, saved>>

\* Mutant: a failed call is taken for a match.
SyncTimeout_AsMatch(s, f) ==
    /\ LossyAppend
    /\ sync[s][f] = "calling"
    /\ SyncTo(s, f, "ok")
    /\ sent' = [sent EXCEPT ![s][f] = None]
    /\ UNCHANGED <<electionVars, logVars, nextindex, lateAppend, put, polling, saved>>

\* No answer in time, whether the request was handled or not: send it again.
SyncTimeout(s, f) ==
    /\ LossyAppend
    /\ \/ /\ sync[s][f] = "calling"
          /\ lateAppend' \in Abandoned(lateAppend, MaxLateAppend, sent[s][f])
       \/ /\ sync[s][f] \in {"ok", "nak"}
          /\ UNCHANGED lateAppend
    /\ SyncTo(s, f, "sending")
    /\ sent' = [sent EXCEPT ![s][f] = None]
    /\ UNCHANGED <<electionVars, logVars, nextindex, put, polling, saved>>

(***************************************************************************)
(* SolveAppend with an entry: UpdateRaftLog(entries, leader_commit), where *)
(* leader_commit is the request's commited_index, never set and thus 0.    *)
(* A leader's term is above 0, so its threads are not stopped here.        *)
(***************************************************************************)
LeaderCommit(req) == 0

\* Mutant: every mismatch drops what is not commited.
ResetLog_Always(l, req) ==
    IF req.index # Index(l) + 1 THEN Reset(l, l.commited) ELSE l

ResetLog(l, req) ==
    IF /\ req.index # Index(l) + 1
       /\ LeaderCommit(req) < Index(l) /\ LeaderCommit(req) > l.commited
    THEN Reset(l, l.commited)
    ELSE l

\* Mutant: an entry the log already has is taken again.
Matches_Repeated(l, req) == req.index <= Index(ResetLog(l, req)) + 1

Matches(l, req) == req.index = Index(ResetLog(l, req)) + 1

UpdateRaftLog(l, req) ==
    LET r == ResetLog(l, req) IN
    IF Matches(l, req) THEN PutEntry(r, req.entry, req.commited) ELSE r

SolveAppend(req) ==
    LET f == req.to IN
    /\ AppendEntry(f, req.from, req.index > LogIndex(f))
    /\ log' = [log EXCEPT ![f] = UpdateRaftLog(UpdateCommit(AfterStop(f), LeaderCommit(req)), req)]

\* The handler answers 0 even if the ring buffer was full and dropped the entry.
AppendAnswer(s, f) ==
    /\ sync[s][f] = "calling"
    /\ SolveAppend(sent[s][f])
    /\ SyncTo(s, f, IF Matches(log[f], sent[s][f]) THEN "ok" ELSE "nak")
    /\ sent' = [sent EXCEPT ![s][f] = None]
    /\ UNCHANGED <<applied, nextindex, lateAppend, put, polling, saved>>

AppendLate(req) ==
    /\ req \in lateAppend
    /\ SolveAppend(req)
    /\ lateAppend' = lateAppend \ {req}
    /\ UNCHANGED <<applied, nextindex, sync, sent, put, polling, saved>>

(***************************************************************************)
(* The apply thread.                                                       *)
(***************************************************************************)
Apply(s) ==
    /\ CanApply(log[s])
    /\ applied' = [applied EXCEPT ![s] = Append(@, NextApplied(log[s]).val)]
    /\ log' = [log EXCEPT ![s] = Applied(@)]
    /\ UNCHANGED <<electionVars, syncVars, put, polling, saved>>

(***************************************************************************)
(* Put(req) of a client, on node s for the write v.  The status is checked *)
(* under the mutex; the entry is appended after the mutex is released, and *)
(* the handler then polls until enough followers have passed the entry.    *)
(* A node that is not the leader answers -1 or -2 and changes nothing.     *)
(***************************************************************************)
PutTo(v, state) == put' = [put EXCEPT ![v] = state]

PutCheck(v, s) ==
    /\ put[v].stage = "new"
    /\ MutexFree(s)
    /\ status[s] = "Leader"
    /\ PutTo(v, [stage |-> "checked", node |-> s, index |-> 0])
    /\ UNCHANGED <<electionVars, logVars, syncVars, polling, saved>>

InnerPut(v) ==
    LET s == put[v].node IN
    /\ put[v].stage = "checked"
    /\ LogIndex(s) < MaxIndex
    /\ log' = [log EXCEPT ![s] = PutLocal(@, [val |-> v, term |-> term[s]])]
    /\ PutTo(v, IF HasRoom(log[s])
                THEN [stage |-> "waiting", node |-> s, index |-> LogIndex(s) + 1]
                ELSE [stage |-> "failed", node |-> s, index |-> 0])
    /\ UNCHANGED <<electionVars, applied, syncVars, polling, saved>>

\* The polling loop's counter, compared as size_t.
Passed(s, index) == {f \in Followers[s] : SizeT(nextindex[s][f]) > index}
PollDone(s, index) == 1 + Cardinality(Passed(s, index)) > (1 + Cardinality(Followers[s]) + 1) \div 2

PutReturn(v) ==
    /\ put[v].stage = "waiting"
    /\ PollDone(put[v].node, put[v].index)
    /\ PutTo(v, [put[v] EXCEPT !.stage = "acked"])
    /\ UNCHANGED <<electionVars, logVars, syncVars, polling, saved>>

ProbeReturn(s) ==
    \E index \in polling[s] :
        /\ PollDone(s, index)
        /\ polling' = [polling EXCEPT ![s] = @ \ {index}]
        /\ UNCHANGED <<electionVars, logVars, syncVars, put, saved>>

(***************************************************************************)
(* The process of s ends and is started again with what is on disk.  The   *)
(* entries of the log are never written.  raft_log_meta and the database's *)
(* manifest are written by destructors, so a killed process comes back as  *)
(* the last clean stop left it.                                            *)
(***************************************************************************)
StartFrom(s, disk) ==
    /\ log' = [log EXCEPT ![s] = NewLog(disk.commited)]
    /\ applied' = [applied EXCEPT ![s] = disk.applied]

\* The sync threads of s and the calls to and from s end with the process; a
\* node waiting for s sees its call fail first (SyncTimeout).
EndThreads(s) ==
    /\ \A t \in Server \ {s} : sync[t][s] # "calling"
    /\ sync' = [sync EXCEPT ![s] = [f \in Server |-> "off"]]
    /\ sent' = [sent EXCEPT ![s] = [f \in Server |-> None]]
    /\ nextindex' = [nextindex EXCEPT ![s] = [f \in Server |-> 0]]
    /\ LET open == {req \in lateAppend : req.to # s} IN
       \E kept \in SUBSET {req \in Orphans(s) : req.to # s} :
          /\ Cardinality(open \cup kept) <= MaxLateAppend
          /\ lateAppend' = open \cup kept

\* A client whose handler was running on s is not answered.
PodKill(s) ==
    /\ ElectionRestart(s)
    /\ EndThreads(s)
    /\ StartFrom(s, saved[s])
    /\ put' = [v \in Value |->
                  IF put[v].node = s /\ put[v].stage \in {"checked", "waiting"}
                  THEN [put[v] EXCEPT !.stage = "failed"] ELSE put[v]]
    /\ polling' = [polling EXCEPT ![s] = {}]
    /\ UNCHANGED saved

\* A clean stop that leaves disk behind: Shutdown waits for the handlers, the
\* threads are joined, and the apply thread catches up with commited_.
Stopped(s, disk) ==
    /\ pc[s] = "wait"
    /\ \A v \in Value : put[v].node = s => put[v].stage \notin {"checked", "waiting"}
    /\ polling[s] = {}
    /\ ~ CanApply(StoppedLog(s))
    /\ ElectionRestart(s)
    /\ EndThreads(s)
    /\ saved' = [saved EXCEPT ![s] = disk]
    /\ StartFrom(s, disk)
    /\ UNCHANGED <<put, polling>>

\* The destructors of Server, Pod, RaftLog and DB run to their end.
PodStop(s) == Stopped(s, [commited |-> StoppedLog(s).commited, applied |-> applied[s]])

\* Mutant: the database is closed before the log.
PodStopKilled_DbFirst(s) ==
    Stopped(s, [commited |-> saved[s].commited, applied |-> applied[s]])

\* ~RaftLog has written raft_log_meta, but the process is killed before ~DB has
\* written the manifest.
PodStopKilled(s) ==
    Stopped(s, [commited |-> StoppedLog(s).commited, applied |-> saved[s].applied])

-----------------------------------------------------------------------------
\* Steps of a handler or thread of one node, of a sync thread, of a client.
NodeStep(s) ==
    \/ PodTimer(s)
    \/ \E f \in Server : PodVoteCall(s, f)
    \/ PodVoteAbort(s)
    \/ PodVoteAnswer(s)
    \/ PodBecomeLeader(s)
    \/ \E f \in Server : PodHeartBeat(s, f) \/ PodHeartBeatTimeout(s, f)
    \/ Apply(s)
    \/ ProbeReturn(s)

SyncStep(s, f) ==
    \/ SyncStart(s, f)
    \/ SyncSend(s, f)
    \/ SyncAnswer(s, f)
    \/ SyncTimeout(s, f)
    \/ AppendAnswer(s, f)

LateStep ==
    \/ \E req \in lateVote : PodVoteLate(req)
    \/ \E req \in lateBeat : PodHeartBeatLate(req)
    \/ \E req \in lateAppend : AppendLate(req)

ClientStep(v) == (\E s \in Server : PutCheck(v, s)) \/ InnerPut(v) \/ PutReturn(v)

PodNext ==
    \/ \E s \in Server : NodeStep(s)
    \/ \E s, f \in Server : SyncStep(s, f)
    \/ LateStep
    \/ \E v \in Value : ClientStep(v)

\* No process is restarted.
PodSpec == PodInit /\ [][PodNext]_podVars

PodRestartNext == PodNext \/ \E s \in Server : PodKill(s) \/ PodStop(s) \/ PodStopKilled(s)
PodRestartSpec == PodInit /\ [][PodRestartNext]_podVars

(***************************************************************************)
(* Fairness: threads keep running and handlers get to run; the sync        *)
(* threads, the apply thread and the polling Put handler loop for ever.    *)
(***************************************************************************)
FairPodSpec ==
    /\ PodSpec
    /\ \A s, f \in Server : /\ WF_podVars(SyncStart(s, f)) /\ WF_podVars(SyncSend(s, f))
                             /\ WF_podVars(SyncAnswer(s, f)) /\ WF_podVars(AppendAnswer(s, f))
    /\ \A s \in Server : WF_podVars(Apply(s))
    /\ \A v \in Value : WF_podVars(InnerPut(v)) /\ WF_podVars(PutReturn(v))

-----------------------------------------------------------------------------
(***************************************************************************)
(* A log is only ever extended: no handler truncates or rewrites it,       *)
(* although UpdateRaftLog contains a call of Reset.                        *)
(***************************************************************************)
LogAppendOnly ==
    [][\A s \in Server :
          /\ Len(log'[s].queue) >= Len(log[s].queue)
          /\ SubSeq(log'[s].queue, 1, Len(log[s].queue)) = log[s].queue]_podVars

\* The nodes whose log holds, at index i, the entry that s has there.
Holders(s, i) == {t \in Server : i <= LogIndex(t) /\ At(log[t], i) = At(log[s], i)}
Majority(S) == 2 * Cardinality(S) > Cardinality(Server)

(***************************************************************************)
(* The logs of any two nodes agree as far as both reach.                   *)
(***************************************************************************)
LogsAgree ==
    \A s, t \in Server :
        \A i \in 1..Min({LogIndex(s), LogIndex(t)}) : At(log[s], i) = At(log[t], i)

(***************************************************************************)
(* An entry a leader counts as commited is in the logs of a majority.      *)
(***************************************************************************)
CommitedOnMajority ==
    \A s \in Server : status[s] = "Leader" =>
        \A i \in 1..log[s].commited : Majority(Holders(s, i))

(***************************************************************************)
(* A write acknowledged to its client is in the logs or the databases of a *)
(* majority.                                                               *)
(***************************************************************************)
AckedOnMajority ==
    \A v \in Value : put[v].stage = "acked" =>
        Majority({s \in Server : \/ v \in Range(applied[s])
                                \/ \E i \in 1..LogIndex(s) : At(log[s], i).val = v})

(***************************************************************************)
(* A database never receives an entry a second time, whatever sequence of  *)
(* kills and clean stops, completed or not, its process goes through: the  *)
(* index the log restarts from is not behind what the database has saved.  *)
(***************************************************************************)
AppliedAtMostOnce == \A s \in Server : Len(applied[s]) <= log[s].last_append

(***************************************************************************)
(* Only a leader replicates: once a handler made a leader a follower, none *)
(* of its sync threads is left, although handler, threads and the threads' *)
(* outstanding calls run concurrently.                                     *)
(***************************************************************************)
SyncOnlyWhileLeading ==
    \A s, f \in Server : sync[s][f] # "off" => status[s] = "Leader"

(***************************************************************************)
(* An entry that is commited, on the node that says so and in the logs of  *)
(* a majority, is in the log of every leader of a later term.              *)
(***************************************************************************)
LeaderCompleteness ==
    \A s, t \in Server :
        \A i \in 1..Min({log[s].commited, LogIndex(s)}) :
            /\ Majority(Holders(s, i))
            /\ status[t] = "Leader" /\ term[t] > At(log[s], i).term
            => i <= LogIndex(t) /\ At(log[t], i) = At(log[s], i)

(***************************************************************************)
(* A write that a leader has appended is acknowledged in the end.          *)
(***************************************************************************)
PutReturns == \A v \in Value : put[v].stage = "waiting" ~> put[v].stage = "acked"
=============================================================================
