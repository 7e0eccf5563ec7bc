------------------------------ MODULE Background -----------------------------
(***************************************************************************)
(* The two components with background threads together: tasks on the       *)
(* workers of a thread pool use one asynchronous SST writer, while a       *)
(* client hands in tasks, waits for them, destroys the pool, writes        *)
(* batches, and in the end destroys the writer.  A task calls WriteAsync,  *)
(* calls Flush, or hands in one more task that writes.                     *)
(***************************************************************************)
EXTENDS ThreadPool, AsyncWriter

CONSTANTS MaxAdd    \* bound: tables given to the batch writer

ASSUME BackgroundAssumption == MaxAdd \in Nat

VARIABLES
    body,   \* body[t]: what task t does
    step    \* step[w]: how far the task on worker w is

vars == <<poolVars, writerVars, body, step>>

Body == {"write", "flush", "spawn"}

Init ==
    /\ PoolInit /\ WriterInit
    /\ body = <<>>
    /\ step = [w \in Worker |-> "start"]

(***************************************************************************)
(* Handing in tasks.                                                       *)
(***************************************************************************)
Submit(c, n, waits, bodies) ==
    /\ MultiEnqueue(c, n, waits)
    /\ \E b \in [1..n -> bodies] : body' = body \o b
    /\ UNCHANGED writerVars

\* Enqueue, or ConcurrentRun of two tasks.
ClientCalls(c) == (Submit(c, 1, FALSE, Body) \/ Submit(c, 2, TRUE, Body)) /\ UNCHANGED step

ClientEnds(c) == (NotifyOne(c) \/ RunEnds(c)) /\ UNCHANGED <<writerVars, body, step>>

(***************************************************************************)
(* Workers and the tasks on them.                                          *)
(***************************************************************************)
WorkerLoop(w) ==
    /\ WorkerWait(w) \/ WorkerSleepsOn(w) \/ WorkerReturns(w) \/ WorkerTakes(w)
    /\ step' = [step EXCEPT ![w] = "start"]
    /\ UNCHANGED <<writerVars, body>>

Runs(w, b) == worker[w] = "running" /\ body[on[w]] = b

TaskPush(w) ==
    /\ Runs(w, "write") /\ step[w] = "start"
    /\ Push(on[w])
    /\ step' = [step EXCEPT ![w] = "notify"]
    /\ UNCHANGED <<poolVars, body>>

TaskNotify(w) ==
    /\ Runs(w, "write") /\ step[w] = "notify"
    /\ NotifyWriter
    /\ step' = [step EXCEPT ![w] = "end"]
    /\ UNCHANGED <<poolVars, body>>

TaskFlush(w) ==
    /\ Runs(w, "flush") /\ step[w] = "start"
    /\ FlushMayReturn
    /\ step' = [step EXCEPT ![w] = "end"]
    /\ UNCHANGED <<poolVars, writerVars, body>>

TaskSpawn(w) ==
    /\ Runs(w, "spawn") /\ step[w] = "start"
    /\ Submit(w, 1, FALSE, {"write"})
    /\ step' = [step EXCEPT ![w] = "end"]

TaskSpawnNotify(w) == NotifyOne(w) /\ UNCHANGED <<writerVars, body, step>>

\* Enqueue throws when the pool is stopping; the future takes the exception.  (Nothing
\* is handed in beyond the bound either.)
TaskThrows(w) ==
    /\ Runs(w, "spawn") /\ step[w] = "start" /\ (stop \/ submitted = MaxTask)
    /\ step' = [step EXCEPT ![w] = "end"]
    /\ UNCHANGED <<poolVars, writerVars, body>>

TaskEnds(w) ==
    /\ step[w] = "end"
    /\ Returns(w)
    /\ UNCHANGED <<writerVars, body, step>>

WorkerStep(w) ==
    \/ WorkerLoop(w)
    \/ TaskPush(w) \/ TaskNotify(w) \/ TaskFlush(w)
    \/ TaskSpawn(w) \/ TaskSpawnNotify(w) \/ TaskThrows(w)
    \/ TaskEnds(w)

Spurious(w) == SpuriousWakeup(w) /\ UNCHANGED <<writerVars, body, step>>

(***************************************************************************)
(* The writer thread, the batch writer and the destructors.                *)
(***************************************************************************)
WriterStep ==
    /\ WriterLoop \/ WriterLock \/ WriterBlocks \/ \E ok \in BOOLEAN : WriterWrites(ok)
    /\ UNCHANGED <<poolVars, body, step>>

\* The client writes its batches when the pool is gone, beside the writer thread.
BatchCall ==
    /\ pool = "gone" /\ running
    /\ \/ Cardinality(added) < MaxAdd /\ BatchAdd(Cardinality(added) + 1)
       \/ BatchCommit
    /\ UNCHANGED <<poolVars, body, step>>

BatchStep == (BatchWrite \/ BatchThrow \/ BatchEnd) /\ UNCHANGED <<poolVars, body, step>>

PoolDestructor == (PoolNotifyAll \/ PoolJoin) /\ UNCHANGED <<writerVars, body, step>>

\* The writer outlives the threads that use it.
WriterDestroyed ==
    /\ pool = "gone" /\ commit = -1
    /\ WriterStop
    /\ UNCHANGED <<poolVars, body, step>>

WriterDestructor == (WriterNotifyAll \/ WriterJoin) /\ UNCHANGED <<poolVars, body, step>>

Next ==
    \/ \E c \in Client : ClientCalls(c) \/ ClientEnds(c)
    \/ \E w \in Worker : WorkerStep(w) \/ Spurious(w)
    \/ WriterStep
    \/ BatchCall \/ BatchStep
    \/ PoolStop /\ UNCHANGED <<writerVars, body, step>>
    \/ PoolDestructor
    \/ WriterDestroyed \/ WriterDestructor

\* Threads that can take a step do; nobody has to call anything.
Fairness ==
    /\ \A w \in Worker : WF_vars(WorkerStep(w))
    /\ \A c \in Client : WF_vars(ClientEnds(c))
    /\ WF_vars(WriterStep)
    /\ WF_vars(PoolDestructor) /\ WF_vars(WriterDestructor)

Spec == Init /\ [][Next]_vars /\ Fairness

-----------------------------------------------------------------------------
(***************************************************************************)
(* Workers, tasks and the writer are where their loops can be.             *)
(***************************************************************************)
BackgroundTypeOK ==
    /\ worker \in [Worker -> {"ready", "waiting", "woken", "running", "returned"}]
    /\ on \in [Worker -> 0..MaxTask]
    /\ body \in Seq(Body) /\ Len(body) = submitted
    /\ writer \in {"loop", "lock", "blocking", "waiting", "writing", "returned"}

(***************************************************************************)
(* The pool neither loses nor repeats a task: a task it accepted is in the *)
(* queue, on one worker or finished, and when the destructor returns all   *)
(* are finished, those included that still waited when it began            *)
(* (~ThreadPool joins workers that return only when the queue is empty).   *)
(* Its counters are the tasks in the queue and the workers that wait.      *)
(***************************************************************************)
DrainedOnce ==
    /\ \A t \in 1..submitted :
          Cardinality({i \in DOMAIN tasks : tasks[i] = t})
             + Cardinality({w \in Worker : on[w] = t})
             + (IF t \in finished THEN 1 ELSE 0) = 1
    /\ pool = "gone" => finished = 1..submitted
    /\ queueSize = Len(tasks)
    /\ freeWorkers = Cardinality({w \in Worker : worker[w] \in {"waiting", "woken"}})

(***************************************************************************)
(* Callbacks of WriteAsync run once per request and in the order of the    *)
(* calls, through failures and shutdown: what is dropped by the destructor *)
(* is the end of the queue.                                                *)
(***************************************************************************)
WritesInOrder ==
    /\ IsPrefix(answered, pushed)
    /\ IsInjective(pushed)
    /\ answered \o (IF request = 0 THEN <<>> ELSE <<request>>) \o writeQueue = pushed

(***************************************************************************)
(* A table given to the batch writer is written or still in the batch,     *)
(* also when a commit ends with an exception half way and the batch is     *)
(* added to and committed again (BatchAsyncSSTWriter clears batch_ behind  *)
(* the loop, and whatever passes through the loop does not reach Clear).   *)
(***************************************************************************)
BatchNotLost == added \subseteq written \cup ToSet(batch)

(***************************************************************************)
(* ConcurrentRun returns, also when its tasks wait in Flush, and whatever  *)
(* notifications find nobody waiting; and the destructor of the pool       *)
(* returns.                                                                *)
(***************************************************************************)
PoolServes ==
    /\ \A c \in Client : call[c].pc = "wait" ~> call[c].pc = "idle"
    /\ pool = "stopping" ~> pool = "gone"

(***************************************************************************)
(* Requests do not stay behind: again and again every request so far has   *)
(* been answered, unless the writer is being destroyed.  (No notification  *)
(* of WriteAsync that matters is missed.)                                  *)
(***************************************************************************)
WritesAnswered == []<>(answered = pushed \/ ~ running)

(***************************************************************************)
(* The destructor of the writer returns.  Not so: its stop may be missed.  *)
(***************************************************************************)
WriterStops == closing = "stopped" ~> closing = "joined"

(***************************************************************************)
(* "等待所有挂起的写入完成" (async_sst_writer.hpp): when Flush returns no    *)
(* write is pending.  Not so: the last one may still be in progress.       *)
(***************************************************************************)
FlushWaits ==
    [][\A w \in Worker : TaskFlush(w) => request = 0]_vars
=============================================================================
