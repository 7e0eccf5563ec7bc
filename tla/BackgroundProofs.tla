-------------------------- MODULE BackgroundProofs ---------------------------
(***************************************************************************)
(* Proofs about the thread pool, the asynchronous SST writer and the batch *)
(* writer, for any number of workers, clients and tasks: no task is lost   *)
(* or run twice, callbacks run in the order of the calls, and a batch      *)
(* keeps what an exception left unwritten.                                 *)
(***************************************************************************)
EXTENDS Background, FiniteSetTheorems, SequenceTheorems, TLAPS

WorkerState == {"ready", "waiting", "woken", "running", "returned"}
TaskStep    == {"start", "notify", "end"}

(***************************************************************************)
(* The inductive invariant of the pool.                                    *)
(***************************************************************************)

\* The queue has tasks that were handed in and are not finished, each once.
QueueInv ==
    /\ submitted \in Nat /\ tasks \in Seq(Nat) /\ finished \subseteq 1..submitted
    /\ \A i \in 1..Len(tasks) : tasks[i] \in 1..submitted /\ tasks[i] \notin finished
    /\ \A i, j \in 1..Len(tasks) : tasks[i] = tasks[j] => i = j

\* A running worker has a task of its own.
WorkerInv ==
    /\ worker \in [Worker -> WorkerState] /\ on \in [Worker -> Nat]
    /\ \A w \in Worker : worker[w] = "running" <=> on[w] # 0
    /\ \A w \in Worker : on[w] # 0 =>
          /\ on[w] \in 1..submitted /\ on[w] \notin finished
          /\ \A i \in 1..Len(tasks) : tasks[i] # on[w]
    /\ \A v, w \in Worker : on[v] # 0 /\ on[v] = on[w] => v = w

\* No task is lost.
CoverInv ==
    \A t \in 1..submitted :
        \/ t \in finished
        \/ \E w \in Worker : on[w] = t
        \/ \E i \in 1..Len(tasks) : tasks[i] = t

\* Workers return when the pool is stopping and the queue is empty, and it stays so.
StopInv ==
    /\ pool # "alive" => stop
    /\ \A w \in Worker : worker[w] = "returned" => stop /\ tasks = <<>>
    /\ pool = "gone" => \A w \in Worker : worker[w] = "returned"

\* queue_size_ and free_worker_num_.
Idle == {w \in Worker : worker[w] \in {"waiting", "woken"}}
CountInv == queueSize = Len(tasks) /\ freeWorkers = Cardinality(Idle)

PoolInv == QueueInv /\ WorkerInv /\ CoverInv /\ StopInv /\ CountInv

(***************************************************************************)
(* The steps of the pool.                                                  *)
(***************************************************************************)
Caller == Worker \cup Client

PoolMove ==
    \/ UNCHANGED poolVars
    \/ \E c \in Caller, n \in {1, 2}, waits \in BOOLEAN : MultiEnqueue(c, n, waits)
    \/ \E c \in Caller : NotifyOne(c) \/ RunEnds(c)
    \/ \E w \in Worker : WorkerWait(w) \/ WorkerSleepsOn(w) \/ SpuriousWakeup(w) \/ WorkerReturns(w)
    \/ \E w \in Worker : WorkerTakes(w) \/ Returns(w)
    \/ PoolStop \/ PoolNotifyAll \/ PoolJoin

\* Every step of the system does to the pool what one of its operations does.
LEMMA NextMovesPool ==
    ASSUME [Next]_vars
    PROVE  PoolMove
<1>1. CASE UNCHANGED vars
  BY <1>1 DEF vars, PoolMove
<1>2. ASSUME NEW c \in Client, ClientCalls(c) \/ ClientEnds(c) PROVE PoolMove
  BY <1>2 DEF ClientCalls, ClientEnds, Submit, PoolMove, Caller
<1>3. ASSUME NEW w \in Worker, WorkerStep(w) \/ Spurious(w) PROVE PoolMove
  <2>1. CASE WorkerLoop(w) \/ Spurious(w)
    BY <2>1 DEF WorkerLoop, Spurious, PoolMove
  <2>2. CASE TaskPush(w) \/ TaskNotify(w) \/ TaskFlush(w) \/ TaskThrows(w)
    BY <2>2 DEF TaskPush, TaskNotify, TaskFlush, TaskThrows, PoolMove
  <2>3. CASE TaskSpawn(w) \/ TaskSpawnNotify(w) \/ TaskEnds(w)
    BY <2>3 DEF TaskSpawn, TaskSpawnNotify, TaskEnds, Submit, PoolMove, Caller
  <2>. QED
    BY <1>3, <2>1, <2>2, <2>3 DEF WorkerStep
<1>4. CASE WriterStep \/ BatchCall \/ BatchStep \/ WriterDestroyed \/ WriterDestructor
  BY <1>4 DEF WriterStep, BatchCall, BatchStep, WriterDestroyed, WriterDestructor, PoolMove
<1>5. CASE PoolDestructor \/ (PoolStop /\ UNCHANGED <<writerVars, body, step>>)
  BY <1>5 DEF PoolDestructor, PoolMove
<1>. QED
  BY <1>1, <1>2, <1>3, <1>4, <1>5 DEF Next

\* What the steps that touch neither queue nor tasks have in common.
Moves ==
    /\ UNCHANGED <<tasks, on, submitted, finished, queueSize>>
    /\ worker' \in [Worker -> WorkerState]
    /\ \A w \in Worker : worker'[w] = "running" <=> worker[w] = "running"

\* A step that moves no task is one of these.
LEMMA OtherMoves ==
    ASSUME WorkerInv, PoolMove
    PROVE  \/ \E c \in Caller, n \in {1, 2}, waits \in BOOLEAN : MultiEnqueue(c, n, waits)
           \/ \E w \in Worker : WorkerTakes(w) \/ Returns(w)
           \/ Moves
<1>. USE DEF Moves, WorkerInv, WorkerState
<1>1. CASE UNCHANGED poolVars
  BY <1>1 DEF poolVars
<1>2. ASSUME NEW c \in Caller, NotifyOne(c) PROVE Moves
  <2>1. worker' = worker \/ \E w \in Worker : worker[w] = "waiting" /\ worker' = [worker EXCEPT ![w] = "woken"]
    BY <1>2 DEF NotifyOne, Notified
  <2>. QED
    BY <1>2, <2>1 DEF NotifyOne
<1>3. CASE (\E c \in Caller : RunEnds(c)) \/ PoolStop \/ PoolJoin
  BY <1>3 DEF RunEnds, PoolStop, PoolJoin
<1>4. ASSUME NEW w \in Worker, WorkerWait(w) \/ WorkerSleepsOn(w) \/ SpuriousWakeup(w) \/ WorkerReturns(w)
      PROVE  Moves
  BY <1>4 DEF WorkerWait, WorkerSleepsOn, SpuriousWakeup, WorkerReturns, Awake
<1>5. CASE PoolNotifyAll
  BY <1>5 DEF PoolNotifyAll, AllWoken
<1>. HIDE DEF Moves, WorkerInv
<1>. QED
  BY <1>1, <1>2, <1>3, <1>4, <1>5 DEF PoolMove

-----------------------------------------------------------------------------
(***************************************************************************)
(* The three steps that move tasks.                                        *)
(***************************************************************************)

\* MultiEnqueue: the new tasks are the next numbers, at the end of the queue.
LEMMA EnqueueAppends ==
    ASSUME QueueInv, NEW c \in Caller, NEW n \in {1, 2}, NEW waits \in BOOLEAN, MultiEnqueue(c, n, waits)
    PROVE  /\ ~ stop /\ UNCHANGED <<stop, worker, on, freeWorkers, pool, finished>>
           /\ submitted' = submitted + n /\ queueSize' = queueSize + n
           /\ tasks' \in Seq(Nat) /\ Len(tasks') = Len(tasks) + n /\ Len(tasks) \in Nat
           /\ \A i \in 1..Len(tasks) : tasks'[i] = tasks[i]
           /\ \A i \in 1..n : tasks'[Len(tasks) + i] = submitted + i
<1>. DEFINE new == [i \in 1..n |-> submitted + i]
<1>0. submitted \in Nat /\ n \in Nat /\ tasks \in Seq(Nat)
  BY DEF QueueInv
<1>1. new \in Seq(Nat) /\ Len(new) = n
  BY <1>0
<1>2. tasks' = tasks \o new
  BY DEF MultiEnqueue
<1>3. \A i \in 1..n : new[i] = submitted + i
  OBVIOUS
<1>. HIDE DEF new
<1>4. /\ tasks' \in Seq(Nat) /\ Len(tasks') = Len(tasks) + n /\ Len(tasks) \in Nat
      /\ \A i \in 1..Len(tasks) : tasks'[i] = tasks[i]
      /\ \A i \in 1..n : tasks'[Len(tasks) + i] = new[i]
  <2>1. Len(tasks) \in Nat /\ tasks' \in Seq(Nat) /\ Len(tasks') = Len(tasks) + Len(new)
    BY <1>0, <1>1, <1>2
  <2>2. \A i \in 1..Len(tasks') : tasks'[i] = IF i <= Len(tasks) THEN tasks[i] ELSE new[i - Len(tasks)]
    BY <1>0, <1>1, <1>2, ConcatProperties
  <2>3. ASSUME NEW i \in 1..n PROVE tasks'[Len(tasks) + i] = new[i]
    <3>1. Len(tasks) + i \in 1..Len(tasks') /\ ~ (Len(tasks) + i <= Len(tasks)) /\ (Len(tasks) + i) - Len(tasks) = i
      BY <1>0, <1>1, <2>1
    <3>. QED
      BY <2>2, <3>1
  <2>4. ASSUME NEW i \in 1..Len(tasks) PROVE tasks'[i] = tasks[i]
    <3>1. i \in 1..Len(tasks') /\ i <= Len(tasks)
      BY <1>0, <1>1, <2>1
    <3>. QED
      BY <2>2, <3>1
  <2>. QED
    BY <1>1, <2>1, <2>3, <2>4
<1>. QED
  BY <1>3, <1>4 DEF MultiEnqueue

\* A worker takes the first task of the queue.
LEMMA TakeShifts ==
    ASSUME QueueInv, WorkerInv, NEW w \in Worker, WorkerTakes(w)
    PROVE  /\ UNCHANGED <<stop, pool, submitted, finished>> /\ queueSize' = queueSize - 1
           /\ tasks # <<>> /\ Len(tasks) \in Nat /\ Len(tasks) >= 1
           /\ worker[w] \in {"ready", "woken"} /\ on[w] = 0
           /\ worker' = [worker EXCEPT ![w] = "running"] /\ on' = [on EXCEPT ![w] = tasks[1]]
           /\ tasks' \in Seq(Nat) /\ Len(tasks') = Len(tasks) - 1
           /\ \A i \in 1..Len(tasks') : tasks'[i] = tasks[i + 1]
<1>1. tasks \in Seq(Nat) /\ tasks # <<>> /\ tasks' = Tail(tasks) /\ Awake(w)
  BY DEF WorkerTakes, QueueInv
<1>2. Len(tasks) \in Nat /\ Len(tasks) >= 1
  BY <1>1, EmptySeq
<1>3. worker[w] \in {"ready", "woken"} /\ on[w] = 0
  BY <1>1 DEF Awake, WorkerInv
<1>4. Head(tasks) = tasks[1] /\ tasks' \in Seq(Nat) /\ Len(tasks') = Len(tasks) - 1
  BY <1>1, <1>2
<1>5. \A i \in 1..Len(tasks') : tasks'[i] = tasks[i + 1]
  BY <1>1, <1>2, <1>4, HeadTailProperties
<1>. QED
  BY <1>1, <1>2, <1>3, <1>4, <1>5 DEF WorkerTakes

\* Queue and workers.
LEMMA QueueStep ==
    ASSUME QueueInv, WorkerInv, CoverInv, PoolMove
    PROVE  QueueInv' /\ WorkerInv' /\ CoverInv'
<1>0. submitted \in Nat /\ Len(tasks) \in Nat
  BY DEF QueueInv
<1>1. CASE Moves
  BY <1>1 DEF Moves, QueueInv, WorkerInv, CoverInv
<1>2. ASSUME NEW c \in Caller, NEW n \in {1, 2}, NEW waits \in BOOLEAN, MultiEnqueue(c, n, waits)
      PROVE  QueueInv' /\ WorkerInv' /\ CoverInv'
  <2>1. /\ UNCHANGED <<worker, on, finished>> /\ submitted' = submitted + n
        /\ tasks' \in Seq(Nat) /\ Len(tasks') = Len(tasks) + n
        /\ \A i \in 1..Len(tasks) : tasks'[i] = tasks[i]
        /\ \A i \in 1..n : tasks'[Len(tasks) + i] = submitted + i
    BY <1>2, EnqueueAppends
  <2>2. \A i \in 1..Len(tasks') :
           \/ i \in 1..Len(tasks) /\ tasks'[i] = tasks[i]
           \/ i > Len(tasks) /\ tasks'[i] = submitted + (i - Len(tasks)) /\ i - Len(tasks) \in 1..n
    <3>. SUFFICES ASSUME NEW i \in 1..Len(tasks'), ~ (i \in 1..Len(tasks))
                  PROVE  i > Len(tasks) /\ tasks'[i] = submitted + (i - Len(tasks)) /\ i - Len(tasks) \in 1..n
      BY <2>1
    <3>1. i - Len(tasks) \in 1..n /\ i = Len(tasks) + (i - Len(tasks)) /\ i > Len(tasks)
      BY <1>0, <2>1
    <3>. QED
      BY <2>1, <3>1
  <2>3. 1..submitted \subseteq 1..submitted'
    BY <1>0, <2>1
  <2>4. ASSUME NEW i \in 1..Len(tasks'), i \in 1..Len(tasks)
        PROVE  tasks'[i] = tasks[i] /\ tasks'[i] \in 1..submitted
    BY <2>1, <2>4 DEF QueueInv
  <2>5. ASSUME NEW i \in 1..Len(tasks'), ~ (i \in 1..Len(tasks))
        PROVE  tasks'[i] = submitted + (i - Len(tasks)) /\ tasks'[i] \in 1..submitted' /\ ~ (tasks'[i] \in 1..submitted)
    <3>1. tasks'[i] = submitted + (i - Len(tasks)) /\ i - Len(tasks) \in 1..n
      BY <2>2, <2>5
    <3>. QED
      BY <1>0, <2>1, <3>1
  <2>6. ASSUME NEW i \in 1..Len(tasks') PROVE tasks'[i] \in 1..submitted' /\ tasks'[i] \notin finished
    <3>1. CASE i \in 1..Len(tasks)
      BY <2>3, <2>4, <3>1 DEF QueueInv
    <3>2. CASE ~ (i \in 1..Len(tasks))
      BY <2>5, <3>2 DEF QueueInv
    <3>. QED
      BY <3>1, <3>2
  <2>7. ASSUME NEW i \in 1..Len(tasks'), NEW j \in 1..Len(tasks'), tasks'[i] = tasks'[j] PROVE i = j
    <3>1. CASE i \in 1..Len(tasks) /\ j \in 1..Len(tasks)
      BY <2>4, <2>7, <3>1 DEF QueueInv
    <3>2. CASE ~ (i \in 1..Len(tasks)) /\ ~ (j \in 1..Len(tasks))
      <4>1. submitted + (i - Len(tasks)) = submitted + (j - Len(tasks))
        BY <2>5, <2>7, <3>2
      <4>. QED
        BY <1>0, <2>1, <4>1
    <3>3. CASE (i \in 1..Len(tasks)) /\ ~ (j \in 1..Len(tasks))
      BY <2>4, <2>5, <2>7, <3>3
    <3>4. CASE ~ (i \in 1..Len(tasks)) /\ (j \in 1..Len(tasks))
      BY <2>4, <2>5, <2>7, <3>4
    <3>. QED
      BY <3>1, <3>2, <3>3, <3>4
  <2>8. QueueInv'
    BY <1>0, <2>1, <2>3, <2>6, <2>7 DEF QueueInv
  <2>9. WorkerInv'
    <3>1. ASSUME NEW w \in Worker, on[w] # 0, NEW i \in 1..Len(tasks') PROVE tasks'[i] # on[w]
      <4>0. on[w] \in 1..submitted
        BY <3>1 DEF WorkerInv
      <4>1. CASE i \in 1..Len(tasks)
        BY <2>4, <3>1, <4>1 DEF WorkerInv
      <4>2. CASE ~ (i \in 1..Len(tasks))
        BY <2>5, <4>0, <4>2
      <4>. QED
        BY <4>1, <4>2
    <3>. QED
      BY <2>1, <2>3, <3>1 DEF WorkerInv
  <2>10. CoverInv'
    <3>. SUFFICES ASSUME NEW t \in 1..submitted'
                  PROVE  t \in finished \/ (\E w \in Worker : on[w] = t) \/ \E i \in 1..Len(tasks') : tasks'[i] = t
      BY <2>1 DEF CoverInv
    <3>1. CASE t \in 1..submitted
      <4>1. \A i \in 1..Len(tasks) : i \in 1..Len(tasks')
        BY <1>0, <2>1
      <4>. QED
        BY <2>1, <3>1, <4>1 DEF CoverInv
    <3>2. CASE ~ (t \in 1..submitted)
      <4>. DEFINE k == t - submitted
      <4>1. k \in 1..n /\ submitted + k = t /\ Len(tasks) + k \in 1..Len(tasks')
        BY <1>0, <2>1, <3>2
      <4>. QED
        BY <2>1, <4>1
    <3>. QED
      BY <3>1, <3>2
  <2>. QED
    BY <2>8, <2>9, <2>10
<1>3. ASSUME NEW w \in Worker, WorkerTakes(w) PROVE QueueInv' /\ WorkerInv' /\ CoverInv'
  <2>1. /\ UNCHANGED <<submitted, finished>> /\ Len(tasks) >= 1 /\ on[w] = 0
        /\ worker' = [worker EXCEPT ![w] = "running"] /\ on' = [on EXCEPT ![w] = tasks[1]]
        /\ tasks' \in Seq(Nat) /\ Len(tasks') = Len(tasks) - 1
        /\ \A i \in 1..Len(tasks') : tasks'[i] = tasks[i + 1]
    BY <1>3, TakeShifts
  <2>2. \A i \in 1..Len(tasks') : i + 1 \in 1..Len(tasks)
    BY <1>0, <2>1
  <2>3. QueueInv'
    <3>1. ASSUME NEW i \in 1..Len(tasks'), NEW j \in 1..Len(tasks'), tasks'[i] = tasks'[j] PROVE i = j
      <4>1. i + 1 \in 1..Len(tasks) /\ j + 1 \in 1..Len(tasks)
        BY <2>2
      <4>2. tasks[i + 1] = tasks[j + 1]
        BY <2>1, <3>1, Zenon
      <4>3. i + 1 = j + 1
        BY <4>1, <4>2, Zenon DEF QueueInv
      <4>. QED
        BY <1>0, <2>1, <4>3
    <3>. QED
      BY <2>1, <2>2, <3>1 DEF QueueInv
  <2>4. 1 \in 1..Len(tasks) /\ tasks[1] \in 1..submitted /\ tasks[1] \notin finished /\ tasks[1] # 0
    BY <1>0, <2>1 DEF QueueInv
  <2>5. \A i \in 1..Len(tasks') : tasks'[i] # tasks[1]
    <3>. SUFFICES ASSUME NEW i \in 1..Len(tasks'), tasks[i + 1] = tasks[1] PROVE FALSE
      BY <2>1
    <3>1. i + 1 = 1
      BY <2>2, <2>4 DEF QueueInv
    <3>. QED
      BY <1>0, <2>1, <3>1
  <2>6. WorkerInv'
    <3>1. worker' \in [Worker -> WorkerState] /\ on' \in [Worker -> Nat]
      BY <2>1, <2>4 DEF WorkerInv, WorkerState
    <3>2. ASSUME NEW v \in Worker PROVE worker'[v] = "running" <=> on'[v] # 0
      BY <2>1, <2>4 DEF WorkerInv
    <3>3. ASSUME NEW v \in Worker, on'[v] # 0
          PROVE  on'[v] \in 1..submitted /\ on'[v] \notin finished /\ \A i \in 1..Len(tasks') : tasks'[i] # on'[v]
      <4>1. CASE v = w
        BY <2>1, <2>4, <2>5, <4>1 DEF WorkerInv
      <4>2. CASE v # w
        BY <2>1, <2>2, <3>3, <4>2 DEF WorkerInv
      <4>. QED
        BY <4>1, <4>2
    <3>4. ASSUME NEW u \in Worker, NEW v \in Worker, on'[u] # 0, on'[u] = on'[v] PROVE u = v
      BY <2>1, <2>4, <3>4 DEF WorkerInv
    <3>. QED
      BY <2>1, <3>1, <3>2, <3>3, <3>4 DEF WorkerInv
  <2>7. CoverInv'
    <3>. SUFFICES ASSUME NEW t \in 1..submitted, t \notin finished
                  PROVE  (\E v \in Worker : on'[v] = t) \/ \E i \in 1..Len(tasks') : tasks'[i] = t
      BY <2>1 DEF CoverInv
    <3>1. on'[w] = tasks[1] /\ \A v \in Worker : on[v] = t => on'[v] = t
      BY <1>0, <2>1 DEF WorkerInv
    <3>2. ASSUME NEW i \in 1..Len(tasks), tasks[i] = t, i # 1 PROVE \E j \in 1..Len(tasks') : tasks'[j] = t
      <4>1. i - 1 \in 1..Len(tasks') /\ (i - 1) + 1 = i
        BY <1>0, <2>1, <3>2
      <4>. QED
        BY <2>1, <3>2, <4>1
    <3>. QED
      BY <3>1, <3>2 DEF CoverInv
  <2>. QED
    BY <2>3, <2>6, <2>7
<1>4. ASSUME NEW w \in Worker, Returns(w) PROVE QueueInv' /\ WorkerInv' /\ CoverInv'
  <2>1. /\ worker[w] = "running" /\ on[w] # 0 /\ on[w] \in 1..submitted
        /\ worker' = [worker EXCEPT ![w] = "ready"] /\ on' = [on EXCEPT ![w] = 0]
        /\ finished' = finished \cup {on[w]} /\ UNCHANGED <<tasks, submitted>>
    BY <1>4 DEF Returns, WorkerInv
  <2>2. QueueInv'
    BY <2>1 DEF QueueInv, WorkerInv
  <2>3. WorkerInv'
    BY <2>1 DEF WorkerInv, WorkerState
  <2>4. CoverInv'
    BY <2>1 DEF CoverInv, WorkerInv
  <2>. QED
    BY <2>2, <2>3, <2>4
<1>. QED
  BY <1>1, <1>2, <1>3, <1>4, OtherMoves

-----------------------------------------------------------------------------
(***************************************************************************)
(* The destructor and the counters.                                        *)
(***************************************************************************)

\* Workers return for good: nothing is handed in after stop_, and the queue only shrinks.
LEMMA StopStep ==
    ASSUME QueueInv, WorkerInv, StopInv, PoolMove
    PROVE  StopInv'
<1>. USE DEF StopInv, WorkerInv
<1>1. CASE UNCHANGED poolVars
  BY <1>1 DEF poolVars
<1>2. ASSUME NEW c \in Caller, NEW n \in {1, 2}, NEW waits \in BOOLEAN, MultiEnqueue(c, n, waits)
      PROVE  StopInv'
  BY <1>2 DEF MultiEnqueue
<1>3. ASSUME NEW c \in Caller, NotifyOne(c) PROVE StopInv'
  <2>1. worker' = worker \/ \E w \in Worker : worker[w] = "waiting" /\ worker' = [worker EXCEPT ![w] = "woken"]
    BY <1>3 DEF NotifyOne, Notified
  <2>. QED
    BY <1>3, <2>1 DEF NotifyOne
<1>4. CASE (\E c \in Caller : RunEnds(c)) \/ PoolStop \/ PoolJoin
  BY <1>4 DEF RunEnds, PoolStop, PoolJoin
<1>5. ASSUME NEW w \in Worker, WorkerWait(w) \/ WorkerSleepsOn(w) \/ SpuriousWakeup(w) PROVE StopInv'
  BY <1>5 DEF WorkerWait, WorkerSleepsOn, SpuriousWakeup
<1>6. ASSUME NEW w \in Worker, WorkerReturns(w) PROVE StopInv'
  BY <1>6 DEF WorkerReturns, Over
<1>7. ASSUME NEW w \in Worker, WorkerTakes(w) PROVE StopInv'
  BY <1>7 DEF WorkerTakes, Awake
<1>8. ASSUME NEW w \in Worker, Returns(w) PROVE StopInv'
  BY <1>8 DEF Returns
<1>9. CASE PoolNotifyAll
  BY <1>9 DEF PoolNotifyAll, AllWoken
<1>. QED
  BY <1>1, <1>2, <1>3, <1>4, <1>5, <1>6, <1>7, <1>8, <1>9 DEF PoolMove

\* A worker that starts or ends waiting changes the number of idle workers by one.
LEMMA IdleMoves ==
    ASSUME WorkerInv, NEW w \in Worker, NEW s \in WorkerState, worker' = [worker EXCEPT ![w] = s]
    PROVE  /\ Cardinality(Idle) \in Nat
           /\ s \in {"waiting", "woken"} /\ w \notin Idle => Cardinality(Idle') = Cardinality(Idle) + 1
           /\ s \in {"waiting", "woken"} /\ w \in Idle => Idle' = Idle
           /\ s \notin {"waiting", "woken"} /\ w \in Idle => Cardinality(Idle') = Cardinality(Idle) - 1
           /\ s \notin {"waiting", "woken"} /\ w \notin Idle => Idle' = Idle
<1>1. IsFiniteSet(Idle)
  BY PoolAssumption, FS_Subset DEF Idle
<1>2. s \in {"waiting", "woken"} => Idle' = Idle \cup {w}
  BY DEF Idle, WorkerInv
<1>3. s \notin {"waiting", "woken"} => Idle' = Idle \ {w}
  BY DEF Idle, WorkerInv
<1>4. w \notin Idle => Cardinality(Idle \cup {w}) = Cardinality(Idle) + 1
  BY <1>1, FS_AddElement
<1>5. w \in Idle => Cardinality(Idle \ {w}) = Cardinality(Idle) - 1
  BY <1>1, FS_RemoveElement
<1>6. Cardinality(Idle) \in Nat
  BY <1>1, FS_CardinalityType
<1>7. (w \in Idle => Idle \cup {w} = Idle) /\ (w \notin Idle => Idle \ {w} = Idle)
  OBVIOUS
<1>. HIDE DEF Idle
<1>. QED
  BY <1>2, <1>3, <1>4, <1>5, <1>6, <1>7

\* queue_size_ and free_worker_num_ keep up.
LEMMA CountStep ==
    ASSUME QueueInv, WorkerInv, CountInv, PoolMove
    PROVE  CountInv'
<1>1. CASE UNCHANGED poolVars
  BY <1>1 DEF poolVars, CountInv, Idle
<1>2. ASSUME NEW c \in Caller, NEW n \in {1, 2}, NEW waits \in BOOLEAN, MultiEnqueue(c, n, waits)
      PROVE  CountInv'
  BY <1>2, EnqueueAppends DEF CountInv, Idle
<1>3. ASSUME NEW c \in Caller, NotifyOne(c) PROVE CountInv'
  <2>1. worker' = worker \/ \E w \in Worker : worker[w] = "waiting" /\ worker' = [worker EXCEPT ![w] = "woken"]
    BY <1>3 DEF NotifyOne, Notified
  <2>2. Idle' = Idle
    BY <2>1 DEF Idle, WorkerInv
  <2>. QED
    BY <1>3, <2>2 DEF NotifyOne, CountInv
<1>4. CASE (\E c \in Caller : RunEnds(c)) \/ PoolStop \/ PoolJoin
  BY <1>4 DEF RunEnds, PoolStop, PoolJoin, CountInv, Idle
<1>5. ASSUME NEW w \in Worker, WorkerWait(w) PROVE CountInv'
  <2>1. w \notin Idle /\ "waiting" \in WorkerState
    BY <1>5 DEF WorkerWait, Idle, WorkerState
  <2>2. Cardinality(Idle') = Cardinality(Idle) + 1
    BY <1>5, <2>1, IdleMoves DEF WorkerWait
  <2>. QED
    BY <1>5, <2>2 DEF WorkerWait, CountInv
<1>6. ASSUME NEW w \in Worker, WorkerSleepsOn(w) \/ SpuriousWakeup(w) PROVE CountInv'
  <2>1. Idle' = Idle
    BY <1>6 DEF WorkerSleepsOn, SpuriousWakeup, Idle, WorkerInv
  <2>. QED
    BY <1>6, <2>1 DEF WorkerSleepsOn, SpuriousWakeup, CountInv
<1>7. ASSUME NEW w \in Worker, NEW s \in {"running", "returned"}, Awake(w), freeWorkers' = Freed(w),
             worker' = [worker EXCEPT ![w] = s]
      PROVE  freeWorkers' = Cardinality(Idle)'
  <2>0. s \in WorkerState /\ s \notin {"waiting", "woken"}
    BY DEF WorkerState
  <2>1. CASE worker[w] = "ready"
    <3>1. w \notin Idle /\ freeWorkers' = freeWorkers
      BY <1>7, <2>1 DEF Idle, Freed
    <3>2. Idle' = Idle
      BY <1>7, <2>0, <3>1, IdleMoves
    <3>. QED
      BY <3>1, <3>2 DEF CountInv
  <2>2. CASE worker[w] = "woken"
    <3>1. w \in Idle /\ freeWorkers' = freeWorkers - 1
      BY <1>7, <2>2 DEF Idle, Freed
    <3>2. Cardinality(Idle') = Cardinality(Idle) - 1
      BY <1>7, <2>0, <3>1, IdleMoves
    <3>. QED
      BY <3>1, <3>2 DEF CountInv
  <2>. QED
    BY <1>7, <2>1, <2>2 DEF Awake
<1>8. ASSUME NEW w \in Worker, WorkerReturns(w) PROVE CountInv'
  BY <1>7, <1>8 DEF WorkerReturns, CountInv
<1>9. ASSUME NEW w \in Worker, WorkerTakes(w) PROVE CountInv'
  <2>1. queueSize' = Len(tasks')
    BY <1>9, TakeShifts DEF CountInv
  <2>. QED
    BY <1>7, <1>9, <2>1 DEF WorkerTakes, CountInv
<1>10. ASSUME NEW w \in Worker, Returns(w) PROVE CountInv'
  <2>1. w \notin Idle /\ "ready" \in WorkerState
    BY <1>10 DEF Returns, Idle, WorkerState
  <2>2. Idle' = Idle
    BY <1>10, <2>1, IdleMoves DEF Returns
  <2>. QED
    BY <1>10, <2>2 DEF Returns, CountInv
<1>11. CASE PoolNotifyAll
  <2>1. Idle' = Idle
    BY <1>11 DEF PoolNotifyAll, AllWoken, Idle, WorkerInv
  <2>. QED
    BY <1>11, <2>1 DEF PoolNotifyAll, CountInv
<1>. QED
  BY <1>1, <1>2, <1>3, <1>4, <1>5, <1>6, <1>8, <1>9, <1>10, <1>11 DEF PoolMove

\* PoolInv is inductive.
LEMMA PoolInvariance == Spec => []PoolInv
<1>1. Init => PoolInv
  <2>. SUFFICES ASSUME PoolInit PROVE PoolInv
    BY DEF Init
  <2>1. QueueInv /\ WorkerInv /\ CoverInv /\ StopInv
    BY DEF PoolInit, QueueInv, WorkerInv, WorkerState, CoverInv, StopInv
  <2>2. Idle = {}
    BY DEF PoolInit, Idle
  <2>3. CountInv
    BY <2>2, FS_EmptySet DEF PoolInit, CountInv
  <2>. QED
    BY <2>1, <2>3 DEF PoolInv
<1>2. PoolInv /\ [Next]_vars => PoolInv'
  BY NextMovesPool, QueueStep, StopStep, CountStep DEF PoolInv
<1>. QED
  BY <1>1, <1>2, PTL DEF Spec

-----------------------------------------------------------------------------
(***************************************************************************)
(* The pool neither loses nor repeats a task and its destructor returns    *)
(* when all are finished, with any number of workers but none: a pool      *)
(* without workers accepts tasks that nobody runs (thread_pool.hpp takes   *)
(* any thread_num).                                                        *)
(***************************************************************************)
THEOREM TasksRunOnce ==
    ASSUME Worker # {}
    PROVE  Spec => []DrainedOnce
<1>1. ASSUME PoolInv, NEW t \in 1..submitted
      PROVE  Cardinality({i \in DOMAIN tasks : tasks[i] = t})
                + Cardinality({w \in Worker : on[w] = t})
                + (IF t \in finished THEN 1 ELSE 0) = 1
  <2>. DEFINE Q == {i \in DOMAIN tasks : tasks[i] = t}
              W == {w \in Worker : on[w] = t}
  <2>0. DOMAIN tasks = 1..Len(tasks) /\ t # 0
    BY <1>1 DEF PoolInv, QueueInv
  <2>1. CASE t \in finished
    <3>1. Q = {} /\ W = {}
      BY <1>1, <2>0, <2>1 DEF PoolInv, QueueInv, WorkerInv
    <3>. QED
      BY <2>1, <3>1, FS_EmptySet
  <2>2. CASE t \notin finished /\ \E w \in Worker : on[w] = t
    <3>1. PICK w \in Worker : on[w] = t
      BY <2>2
    <3>2. Q = {}
      BY <1>1, <2>0, <3>1 DEF PoolInv, WorkerInv
    <3>3. W = {w}
      BY <1>1, <2>0, <3>1 DEF PoolInv, WorkerInv
    <3>4. Cardinality(Q) = 0 /\ Cardinality(W) = 1
      BY <3>2, <3>3, FS_EmptySet, FS_Singleton
    <3>. HIDE DEF Q, W
    <3>5. Cardinality(Q) + Cardinality(W) + (IF t \in finished THEN 1 ELSE 0) = 1
      BY <2>2, <3>4
    <3>. QED
      BY <3>5 DEF Q, W
  <2>3. CASE t \notin finished /\ ~ \E w \in Worker : on[w] = t
    <3>1. PICK i \in 1..Len(tasks) : tasks[i] = t
      BY <1>1, <2>3 DEF PoolInv, CoverInv
    <3>2. Q = {i}
      BY <1>1, <2>0, <3>1 DEF PoolInv, QueueInv
    <3>3. W = {}
      BY <2>3
    <3>4. Cardinality(Q) = 1 /\ Cardinality(W) = 0
      BY <3>2, <3>3, FS_EmptySet, FS_Singleton
    <3>. HIDE DEF Q, W
    <3>5. Cardinality(Q) + Cardinality(W) + (IF t \in finished THEN 1 ELSE 0) = 1
      BY <2>3, <3>4
    <3>. QED
      BY <3>5 DEF Q, W
  <2>. QED
    BY <2>1, <2>2, <2>3
<1>2. ASSUME PoolInv, pool = "gone" PROVE finished = 1..submitted
  <2>1. tasks = <<>> /\ \A w \in Worker : on[w] = 0
    BY <1>2 DEF PoolInv, StopInv, WorkerInv
  <2>2. ASSUME NEW t \in 1..submitted PROVE t \in finished
    BY <1>2, <2>1 DEF PoolInv, CoverInv, QueueInv
  <2>. QED
    BY <1>2, <2>2 DEF PoolInv, QueueInv
<1>3. PoolInv => DrainedOnce
  BY <1>1, <1>2 DEF DrainedOnce, PoolInv, CountInv, Idle
<1>. QED
  BY <1>3, PoolInvariance, PTL

-----------------------------------------------------------------------------
(***************************************************************************)
(* The asynchronous writer.                                                *)
(***************************************************************************)
Request == Nat \ {0}
InWork  == IF request = 0 THEN <<>> ELSE <<request>>

\* Every request is answered, in work or in the queue, in the order of the calls.
WriterInv ==
    /\ writeQueue \in Seq(Request) /\ answered \in Seq(Request) /\ request \in Nat
    /\ writer = "writing" <=> request # 0
    /\ answered \o InWork \o writeQueue = pushed

\* A task pushes once: when it has, it is finished or past the push.
PushInv ==
    /\ step \in [Worker -> TaskStep]
    /\ \A i \in 1..Len(pushed) :
          pushed[i] \in finished \/ \E w \in Worker : on[w] = pushed[i] /\ step[w] # "start"
    /\ \A i, j \in 1..Len(pushed) : pushed[i] = pushed[j] => i = j

\* A commit has written the tables before its position.
BatchInv ==
    /\ batch \in Seq(Nat) /\ commit \in -1..Len(batch) /\ IsFiniteSet(added)
    /\ \A i \in 1..commit : batch[i] \in written
    /\ BatchNotLost

\* The steps that move no request.
NoRequestMoves ==
    /\ UNCHANGED <<writeQueue, request, pushed, answered>>
    /\ writer' = "writing" <=> writer = "writing"

\* A request is moved by a push of a task and by two steps of the writer thread.
LEMMA RequestMoves ==
    ASSUME [Next]_vars
    PROVE  \/ \E w \in Worker : TaskPush(w)
           \/ WriterLock /\ UNCHANGED <<poolVars, step>>
           \/ (\E ok \in BOOLEAN : WriterWrites(ok)) /\ UNCHANGED <<poolVars, step>>
           \/ NoRequestMoves
<1>. USE DEF NoRequestMoves
<1>1. CASE UNCHANGED writerVars
  BY <1>1 DEF writerVars
<1>2. ASSUME NEW c \in Client, ClientCalls(c) \/ ClientEnds(c) PROVE UNCHANGED writerVars
  BY <1>2 DEF ClientCalls, ClientEnds, Submit
<1>3. ASSUME NEW w \in Worker, WorkerStep(w) \/ Spurious(w), ~ TaskPush(w) PROVE NoRequestMoves
  <2>1. CASE TaskNotify(w)
    BY <2>1 DEF TaskNotify, NotifyWriter, Woken
  <2>2. CASE ~ TaskNotify(w)
    <3>1. UNCHANGED writerVars
      BY <1>3, <2>2 DEF WorkerStep, Spurious, WorkerLoop, TaskFlush, TaskSpawn, Submit,
         TaskSpawnNotify, TaskThrows, TaskEnds
    <3>. QED
      BY <3>1 DEF writerVars
  <2>. QED
    BY <2>1, <2>2
<1>4. CASE WriterStep
  BY <1>4 DEF WriterStep, WriterLoop, WriterBlocks
<1>5. CASE BatchCall \/ BatchStep
  BY <1>5 DEF BatchCall, BatchStep, BatchAdd, BatchCommit, BatchWrite, BatchThrow, BatchEnd, queueVars
<1>6. CASE WriterDestroyed \/ WriterDestructor
  BY <1>6 DEF WriterDestroyed, WriterDestructor, WriterStop, WriterNotifyAll, WriterJoin, Woken
<1>7. CASE PoolDestructor \/ (PoolStop /\ UNCHANGED <<writerVars, body, step>>)
  BY <1>1, <1>7 DEF PoolDestructor
<1>8. CASE UNCHANGED vars
  BY <1>1, <1>8 DEF vars
<1>. HIDE DEF NoRequestMoves
<1>. QED
  BY <1>1, <1>2, <1>3, <1>4, <1>5, <1>6, <1>7, <1>8 DEF Next

\* What a push, a pop and an answer do to the three sequences put together.
LEMMA RequestsInARow ==
    ASSUME NEW S, NEW a \in Seq(S), NEW b \in Seq(S), NEW c \in Seq(S), NEW x \in S
    PROVE  /\ a \o b \o c \in Seq(S)
           /\ (a \o b) \o Append(c, x) = Append((a \o b) \o c, x)
           /\ (Append(a, x) \o <<>>) \o c = (a \o <<x>>) \o c
           /\ c # <<>> => (a \o <<Head(c)>>) \o Tail(c) = (a \o <<>>) \o c
<1>1. a \o b \in Seq(S) /\ a \o b \o c \in Seq(S) /\ <<x>> \in Seq(S) /\ <<>> \in Seq(S)
  OBVIOUS
<1>2. (a \o b) \o Append(c, x) = Append((a \o b) \o c, x)
  <2>1. Append(c, x) = c \o <<x>> /\ Append((a \o b) \o c, x) = ((a \o b) \o c) \o <<x>>
    BY <1>1, AppendIsConcat
  <2>2. ((a \o b) \o c) \o <<x>> = (a \o b) \o (c \o <<x>>)
    BY <1>1, ConcatAssociative
  <2>. QED
    BY <2>1, <2>2
<1>3. Append(a, x) \o <<>> = a \o <<x>>
  <2>1. Append(a, x) = a \o <<x>> /\ Append(a, x) \in Seq(S)
    BY AppendIsConcat
  <2>. QED
    BY <2>1, ConcatEmptySeq
<1>4. ASSUME c # <<>> PROVE (a \o <<Head(c)>>) \o Tail(c) = (a \o <<>>) \o c
  <2>1. Head(c) \in S /\ Tail(c) \in Seq(S) /\ <<Head(c)>> \in Seq(S)
    BY <1>4
  <2>2. <<Head(c)>> \o Tail(c) = c
    BY <1>4, <2>1
  <2>3. (a \o <<Head(c)>>) \o Tail(c) = a \o (<<Head(c)>> \o Tail(c))
    BY <2>1, ConcatAssociative
  <2>4. a \o <<>> = a
    BY ConcatEmptySeq
  <2>. QED
    BY <2>2, <2>3, <2>4
<1>. QED
  BY <1>1, <1>2, <1>3, <1>4

\* The order of requests is kept.
LEMMA WriterInvStep ==
    ASSUME WriterInv, WorkerInv, [Next]_vars
    PROVE  WriterInv'
<1>. USE DEF WriterInv
<1>0. /\ answered \in Seq(Request) /\ writeQueue \in Seq(Request) /\ InWork \in Seq(Request)
      /\ answered \o InWork \o writeQueue = pushed
  <2>1. CASE request = 0
    BY <2>1 DEF InWork
  <2>2. CASE request # 0
    <3>1. request \in Request
      BY <2>2 DEF Request
    <3>. QED
      BY <2>2, <3>1 DEF InWork
  <2>. QED
    BY <2>1, <2>2
<1>1. CASE NoRequestMoves
  BY <1>1 DEF NoRequestMoves, InWork
<1>2. ASSUME NEW w \in Worker, TaskPush(w) PROVE WriterInv'
  <2>1. /\ on[w] \in Request
        /\ writeQueue' = Append(writeQueue, on[w]) /\ pushed' = Append(pushed, on[w])
        /\ UNCHANGED <<writer, request, answered>>
    BY <1>2 DEF TaskPush, Runs, Push, WorkerInv, Request
  <2>2. InWork' = InWork
    BY <2>1 DEF InWork
  <2>3. answered \o InWork \o Append(writeQueue, on[w]) = Append(pushed, on[w])
    BY <1>0, <2>1, RequestsInARow
  <2>4. writeQueue' \in Seq(Request)
    BY <1>0, <2>1
  <2>. QED
    BY <2>1, <2>2, <2>3, <2>4
<1>3. CASE WriterLock /\ UNCHANGED <<poolVars, step>>
  <2>1. CASE writeQueue = <<>>
    BY <1>3, <2>1 DEF WriterLock, InWork
  <2>2. CASE writeQueue # <<>>
    <3>1. /\ writer' = "writing" /\ request = 0 /\ request' = Head(writeQueue)
          /\ writeQueue' = Tail(writeQueue) /\ UNCHANGED <<pushed, answered>>
      BY <1>3, <2>2 DEF WriterLock, Popped
    <3>2. Head(writeQueue) \in Request /\ Tail(writeQueue) \in Seq(Request)
      BY <1>0, <2>2
    <3>3. request' \in Nat /\ request' # 0
      BY <3>1, <3>2 DEF Request
    <3>4. InWork = <<>> /\ InWork' = <<Head(writeQueue)>>
      BY <3>1, <3>3 DEF InWork
    <3>5. answered \o <<Head(writeQueue)>> \o Tail(writeQueue) = pushed
      <4>1. answered \o <<Head(writeQueue)>> \o Tail(writeQueue) = answered \o <<>> \o writeQueue
        BY <1>0, <2>2, <3>2, RequestsInARow
      <4>. QED
        BY <1>0, <3>4, <4>1
    <3>. QED
      BY <3>1, <3>2, <3>3, <3>4, <3>5
  <2>. QED
    BY <2>1, <2>2
<1>4. ASSUME NEW ok \in BOOLEAN, WriterWrites(ok) PROVE WriterInv'
  <2>1. /\ writer = "writing" /\ writer' = "loop" /\ request # 0 /\ request' = 0
        /\ answered' = Append(answered, request) /\ UNCHANGED <<writeQueue, pushed>>
    BY <1>4 DEF WriterWrites
  <2>2. request \in Request /\ InWork = <<request>> /\ InWork' = <<>>
    BY <2>1 DEF Request, InWork
  <2>3. Append(answered, request) \o <<>> \o writeQueue = pushed /\ Append(answered, request) \in Seq(Request)
    BY <1>0, <2>2, RequestsInARow
  <2>. QED
    BY <2>1, <2>2, <2>3
<1>. QED
  BY <1>1, <1>2, <1>3, <1>4, RequestMoves

\* A step is a push, or it moves the tasks and leaves the history of requests alone.
LEMMA PushMoves ==
    ASSUME WorkerInv, PushInv, [Next]_vars
    PROVE  \/ \E w \in Worker : TaskPush(w)
           \/ /\ UNCHANGED pushed /\ finished \subseteq finished' /\ step' \in [Worker -> TaskStep]
              /\ \A w \in Worker : on[w] # 0 /\ step[w] # "start" =>
                    on[w] \in finished' \/ (on'[w] = on[w] /\ step'[w] # "start")
<1>. DEFINE Kept == /\ UNCHANGED pushed /\ finished \subseteq finished' /\ step' \in [Worker -> TaskStep]
                    /\ \A w \in Worker : on[w] # 0 /\ step[w] # "start" =>
                          on[w] \in finished' \/ (on'[w] = on[w] /\ step'[w] # "start")
<1>0. step \in [Worker -> TaskStep] /\ worker \in [Worker -> WorkerState] /\ on \in [Worker -> Nat]
      /\ \A w \in Worker : worker[w] = "running" <=> on[w] # 0
  BY DEF PushInv, WorkerInv
<1>1. ASSUME UNCHANGED <<pushed, on, finished, step>> PROVE Kept
  BY <1>0, <1>1
<1>2. ASSUME NEW c \in Client, ClientCalls(c) \/ ClientEnds(c) PROVE Kept
  BY <1>1, <1>2 DEF ClientCalls, ClientEnds, Submit, MultiEnqueue, NotifyOne, RunEnds, writerVars
<1>3. ASSUME NEW v \in Worker, Spurious(v) \/ TaskSpawnNotify(v) PROVE Kept
  BY <1>1, <1>3 DEF Spurious, SpuriousWakeup, TaskSpawnNotify, NotifyOne, writerVars
<1>4. ASSUME NEW v \in Worker, TaskNotify(v) \/ TaskFlush(v) \/ TaskSpawn(v) \/ TaskThrows(v) PROVE Kept
  <2>1. step' = [step EXCEPT ![v] = "end"]
    BY <1>4 DEF TaskNotify, TaskFlush, TaskSpawn, TaskThrows
  <2>2. UNCHANGED <<pushed, on, finished>>
    BY <1>4 DEF TaskNotify, NotifyWriter, TaskFlush, TaskSpawn, Submit, MultiEnqueue, TaskThrows, poolVars, writerVars
  <2>. QED
    BY <1>0, <2>1, <2>2 DEF TaskStep
<1>5. ASSUME NEW v \in Worker, WorkerLoop(v) PROVE Kept
  <2>1. step' = [step EXCEPT ![v] = "start"] /\ UNCHANGED <<pushed, finished>> /\ on[v] = 0
    BY <1>0, <1>5 DEF WorkerLoop, WorkerWait, WorkerSleepsOn, WorkerReturns, WorkerTakes, Awake, writerVars
  <2>2. \A w \in Worker : w # v => on'[w] = on[w]
    BY <1>0, <1>5 DEF WorkerLoop, WorkerWait, WorkerSleepsOn, WorkerReturns, WorkerTakes
  <2>. QED
    BY <1>0, <2>1, <2>2 DEF TaskStep
<1>6. ASSUME NEW v \in Worker, TaskEnds(v) PROVE Kept
  <2>1. UNCHANGED <<pushed, step>> /\ on' = [on EXCEPT ![v] = 0] /\ finished' = finished \cup {on[v]}
    BY <1>6 DEF TaskEnds, Returns, writerVars
  <2>. QED
    BY <1>0, <2>1
<1>7. ASSUME WriterStep \/ BatchCall \/ BatchStep PROVE Kept
  BY <1>1, <1>7 DEF WriterStep, WriterLoop, WriterLock, WriterBlocks, WriterWrites, BatchCall, BatchStep,
     BatchAdd, BatchCommit, BatchWrite, BatchThrow, BatchEnd, queueVars, poolVars
<1>8. ASSUME WriterDestroyed \/ WriterDestructor PROVE Kept
  BY <1>1, <1>8 DEF WriterDestroyed, WriterDestructor, WriterStop, WriterNotifyAll, WriterJoin, poolVars
<1>9. ASSUME PoolDestructor \/ (PoolStop /\ UNCHANGED <<writerVars, body, step>>) PROVE Kept
  BY <1>1, <1>9 DEF PoolDestructor, PoolNotifyAll, PoolJoin, PoolStop, writerVars
<1>10. ASSUME UNCHANGED vars PROVE Kept
  BY <1>1, <1>10 DEF vars, poolVars, writerVars
<1>. HIDE DEF Kept
<1>11. (\E w \in Worker : TaskPush(w)) \/ Kept
  BY <1>2, <1>3, <1>4, <1>5, <1>6, <1>7, <1>8, <1>9, <1>10 DEF Next, WorkerStep
<1>. QED
  BY <1>11 DEF Kept

\* No task pushes twice.
LEMMA PushInvStep ==
    ASSUME QueueInv, WorkerInv, WriterInv, PushInv, pushed \in Seq(Request), [Next]_vars
    PROVE  PushInv'
<1>1. ASSUME NEW w \in Worker, TaskPush(w) PROVE PushInv'
  <2>1. /\ on[w] # 0 /\ on[w] \in Nat /\ step[w] = "start" /\ pushed' = Append(pushed, on[w])
        /\ step' = [step EXCEPT ![w] = "notify"] /\ UNCHANGED <<on, finished>>
    BY <1>1 DEF TaskPush, Runs, Push, poolVars, WorkerInv
  <2>2. /\ Len(pushed) \in Nat /\ Len(pushed') = Len(pushed) + 1 /\ pushed'[Len(pushed) + 1] = on[w]
        /\ \A i \in 1..Len(pushed) : pushed'[i] = pushed[i]
    <3>1. on[w] \in Request
      BY <2>1 DEF Request
    <3>. QED
      BY <2>1, <3>1, AppendProperties
  <2>3. \A i \in 1..Len(pushed') : i \in 1..Len(pushed) \/ i = Len(pushed) + 1
    BY <2>2
  <2>4. \A i \in 1..Len(pushed) : pushed[i] # on[w]
    BY <2>1 DEF PushInv, WorkerInv
  <2>5. step' \in [Worker -> TaskStep] /\ step'[w] # "start" /\ \A v \in Worker : step[v] # "start" => step'[v] # "start"
    BY <2>1 DEF PushInv, TaskStep
  <2>6. ASSUME NEW i \in 1..Len(pushed')
        PROVE  pushed'[i] \in finished \/ \E v \in Worker : on[v] = pushed'[i] /\ step'[v] # "start"
    <3>1. CASE i \in 1..Len(pushed)
      BY <2>2, <2>5, <3>1 DEF PushInv
    <3>2. CASE i = Len(pushed) + 1
      BY <2>2, <2>5, <3>2
    <3>. QED
      BY <2>3, <3>1, <3>2
  <2>7. ASSUME NEW i \in 1..Len(pushed'), NEW j \in 1..Len(pushed'), pushed'[i] = pushed'[j] PROVE i = j
    <3>1. CASE i \in 1..Len(pushed) /\ j \in 1..Len(pushed)
      BY <2>2, <2>7, <3>1 DEF PushInv
    <3>2. CASE i = Len(pushed) + 1 \/ j = Len(pushed) + 1
      BY <2>2, <2>3, <2>4, <2>7, <3>2
    <3>. QED
      BY <2>3, <3>1, <3>2
  <2>. QED
    BY <2>1, <2>5, <2>6, <2>7 DEF PushInv
<1>2. CASE ~ \E w \in Worker : TaskPush(w)
  <2>1. /\ pushed' = pushed /\ finished \subseteq finished' /\ step' \in [Worker -> TaskStep]
        /\ \A w \in Worker : on[w] # 0 /\ step[w] # "start" =>
              on[w] \in finished' \/ (on'[w] = on[w] /\ step'[w] # "start")
    BY <1>2, PushMoves
  <2>2. \A i \in 1..Len(pushed) : pushed[i] # 0
    BY DEF Request
  <2>. QED
    BY <2>1, <2>2 DEF PushInv
<1>. QED
  BY <1>1, <1>2

\* WriterInv and PushInv are inductive together with the invariant of the pool.
LEMMA RequestInvariance == Spec => [](WriterInv /\ PushInv /\ pushed \in Seq(Request))
<1>. DEFINE RequestInv == WriterInv /\ PushInv /\ pushed \in Seq(Request)
<1>1. Init => RequestInv
  <2>. SUFFICES ASSUME Init PROVE RequestInv
    OBVIOUS
  <2>1. /\ writeQueue = <<>> /\ answered = <<>> /\ pushed = <<>> /\ request = 0 /\ writer = "loop"
        /\ step = [w \in Worker |-> "start"]
    BY DEF Init, WriterInit
  <2>2. InWork = <<>>
    BY <2>1 DEF InWork
  <2>. QED
    BY <2>1, <2>2, ConcatEmptySeq DEF WriterInv, PushInv, TaskStep
<1>2. ASSUME PoolInv, RequestInv, [Next]_vars PROVE RequestInv'
  <2>1. WriterInv' /\ PushInv'
    BY <1>2, WriterInvStep, PushInvStep DEF PoolInv
  <2>2. InWork' \in Seq(Request)
    <3>1. request' \in Nat
      BY <2>1 DEF WriterInv
    <3>2. CASE request' = 0
      BY <3>2 DEF InWork
    <3>3. CASE request' # 0
      <4>1. request' \in Request
        BY <3>1, <3>3 DEF Request
      <4>. QED
        BY <3>3, <4>1 DEF InWork
    <3>. QED
      BY <3>2, <3>3
  <2>3. pushed' \in Seq(Request)
    <3>1. answered' \in Seq(Request) /\ writeQueue' \in Seq(Request) /\ pushed' = answered' \o InWork' \o writeQueue'
      BY <2>1 DEF WriterInv
    <3>2. answered' \o InWork' \in Seq(Request)
      BY <2>2, <3>1
    <3>3. answered' \o InWork' \o writeQueue' \in Seq(Request)
      BY <3>1, <3>2
    <3>. QED
      BY <3>1, <3>3
  <2>. QED
    BY <2>1, <2>3
<1>. HIDE DEF RequestInv
<1>3. PoolInv /\ RequestInv /\ [Next]_vars => RequestInv'
  BY <1>2
<1>4. Spec => []RequestInv
  BY <1>1, <1>3, PoolInvariance, PTL DEF Spec
<1>. QED
  BY <1>4 DEF RequestInv

(***************************************************************************)
(* Callbacks of WriteAsync run once per request and in the order of the    *)
(* calls, with any number of tasks that push, through failures and through *)
(* the destructor.                                                         *)
(***************************************************************************)
THEOREM CallbacksInOrder == Spec => []WritesInOrder
<1>1. ASSUME WriterInv, PushInv, pushed \in Seq(Request) PROVE WritesInOrder
  <2>1. answered \o InWork \o writeQueue = pushed
    BY <1>1 DEF WriterInv
  <2>2. InWork \in Seq(Request)
    <3>1. CASE request = 0
      BY <3>1 DEF InWork
    <3>2. CASE request # 0
      <4>1. request \in Request
        BY <1>1, <3>2 DEF WriterInv, Request
      <4>. QED
        BY <3>2, <4>1 DEF InWork
    <3>. QED
      BY <3>1, <3>2
  <2>3. IsInjective(pushed)
    <3>1. DOMAIN pushed = 1..Len(pushed)
      BY <1>1
    <3>. QED
      BY <1>1, <3>1 DEF PushInv, IsInjective
  <2>4. IsPrefix(answered, pushed)
    <3>. DEFINE rest == InWork \o writeQueue
    <3>1. rest \in Seq(Request) /\ answered \in Seq(Request) /\ writeQueue \in Seq(Request)
      BY <1>1, <2>2 DEF WriterInv
    <3>2. pushed = answered \o rest
      <4>1. (answered \o InWork) \o writeQueue = answered \o (InWork \o writeQueue)
        BY <2>2, <3>1, ConcatAssociative
      <4>. QED
        BY <2>1, <4>1
    <3>. HIDE DEF rest
    <3>3. Len(answered) \in Nat /\ Len(rest) \in Nat /\ Len(pushed) = Len(answered) + Len(rest)
      BY <3>1, <3>2
    <3>4. SubSeq(answered, 1, Len(answered)) = answered
      BY <3>1, SubSeqFull
    <3>5. SubSeq(pushed, 1, Len(answered)) = answered
      <4>1. SubSeq(answered \o rest, 1, Len(answered)) = SubSeq(answered, 1, Len(answered))
        BY <3>1, <3>3, SubSeqOfConcat1
      <4>. QED
        BY <3>2, <3>4, <4>1
    <3>. QED
      BY <3>3, <3>4, <3>5 DEF IsPrefix
  <2>. QED
    BY <2>1, <2>3, <2>4 DEF WritesInOrder, InWork
<1>. QED
  BY <1>1, RequestInvariance, PTL

-----------------------------------------------------------------------------
\* Only the client's calls of the batch writer and their steps touch the batch.
LEMMA OtherStepsKeepBatch ==
    ASSUME [Next]_vars, ~ BatchCall, ~ BatchStep
    PROVE  UNCHANGED batchVars
<1>1. ASSUME UNCHANGED writerVars PROVE UNCHANGED batchVars
  BY <1>1 DEF writerVars, batchVars
<1>2. ASSUME NEW c \in Client, ClientCalls(c) \/ ClientEnds(c) PROVE UNCHANGED writerVars
  BY <1>2 DEF ClientCalls, ClientEnds, Submit
<1>3. ASSUME NEW w \in Worker, WorkerStep(w) \/ Spurious(w) PROVE UNCHANGED batchVars
  <2>1. CASE TaskPush(w) \/ TaskNotify(w)
    BY <2>1 DEF TaskPush, Push, TaskNotify, NotifyWriter
  <2>2. CASE ~ TaskPush(w) /\ ~ TaskNotify(w)
    <3>1. UNCHANGED writerVars
      BY <1>3, <2>2 DEF WorkerStep, Spurious, WorkerLoop, TaskFlush, TaskSpawn, Submit,
         TaskSpawnNotify, TaskThrows, TaskEnds
    <3>. QED
      BY <1>1, <3>1
  <2>. QED
    BY <2>1, <2>2
<1>4. CASE WriterStep \/ WriterDestroyed \/ WriterDestructor
  BY <1>4 DEF WriterStep, WriterLoop, WriterLock, WriterBlocks, WriterWrites,
     WriterDestroyed, WriterDestructor, WriterStop, WriterNotifyAll, WriterJoin
<1>5. CASE PoolDestructor \/ (PoolStop /\ UNCHANGED <<writerVars, body, step>>)
  BY <1>1, <1>5 DEF PoolDestructor
<1>6. CASE UNCHANGED vars
  BY <1>1, <1>6 DEF vars
<1>. QED
  BY <1>1, <1>2, <1>3, <1>4, <1>5, <1>6 DEF Next

(***************************************************************************)
(* The batch writer: a table that is added is written or still in the      *)
(* batch.  Inductive only with the position of a commit: Clear, at the end *)
(* of a commit, drops exactly the tables that were written.                *)
(***************************************************************************)
THEOREM BatchKept == Spec => []BatchNotLost
<1>1. Init => BatchInv
  BY FS_EmptySet DEF Init, WriterInit, BatchInv, BatchNotLost
<1>2. ASSUME BatchInv, [Next]_vars PROVE BatchInv'
  <2>0. batch \in Seq(Nat) /\ Len(batch) \in Nat /\ DOMAIN batch = 1..Len(batch)
        /\ ToSet(batch) = {batch[i] : i \in 1..Len(batch)}
    BY <1>2 DEF BatchInv, ToSet
  <2>. USE DEF BatchInv, BatchNotLost, ToSet
  <2>1. ASSUME UNCHANGED batchVars PROVE BatchInv'
    BY <1>2, <2>1 DEF batchVars
  <2>2. ASSUME NEW id \in Nat, BatchAdd(id) PROVE BatchInv'
    <3>1. /\ commit = -1 /\ commit' = -1 /\ batch' = Append(batch, id) /\ added' = added \cup {id}
          /\ written' = written
      BY <2>2 DEF BatchAdd
    <3>2. /\ batch' \in Seq(Nat) /\ Len(batch') = Len(batch) + 1 /\ batch'[Len(batch) + 1] = id
          /\ DOMAIN batch' = 1..Len(batch) + 1 /\ \A i \in 1..Len(batch) : batch'[i] = batch[i]
      BY <2>0, <3>1, AppendProperties
    <3>3. ASSUME NEW t \in ToSet(batch) \cup {id} PROVE t \in ToSet(batch')
      <4>1. CASE t = id
        BY <2>0, <3>2, <4>1
      <4>2. ASSUME NEW i \in 1..Len(batch), t = batch[i] PROVE t \in ToSet(batch')
        <5>1. i \in DOMAIN batch'
          BY <2>0, <3>2
        <5>. QED
          BY <3>2, <4>2, <5>1
      <4>. QED
        BY <2>0, <4>1, <4>2
    <3>. HIDE DEF ToSet
    <3>4. BatchNotLost'
      BY <1>2, <3>1, <3>3
    <3>5. IsFiniteSet(added')
      BY <1>2, <3>1, FS_AddElement
    <3>. QED
      BY <2>0, <3>1, <3>2, <3>4, <3>5
  <2>3. ASSUME BatchCommit PROVE BatchInv'
    BY <1>2, <2>0, <2>3 DEF BatchCommit
  <2>4. ASSUME BatchWrite PROVE BatchInv'
    <3>1. /\ commit \in 0..Len(batch) - 1 /\ commit' = commit + 1 /\ written' = written \cup {batch[commit + 1]}
          /\ UNCHANGED <<batch, added>>
      BY <2>4 DEF BatchWrite
    <3>2. \A i \in 1..commit' : i \in 1..commit \/ i = commit + 1
      BY <2>0, <3>1
    <3>3. commit' \in -1..Len(batch) /\ \A i \in 1..commit' : batch[i] \in written'
      BY <1>2, <2>0, <3>1, <3>2
    <3>. QED
      BY <1>2, <3>1, <3>3
  <2>5. ASSUME BatchThrow PROVE BatchInv'
    BY <1>2, <2>0, <2>5 DEF BatchThrow, KeptAfterThrow
  <2>6. ASSUME BatchEnd PROVE BatchInv'
    <3>1. commit = Len(batch) /\ commit' = -1 /\ batch' = <<>> /\ UNCHANGED <<added, written>>
      BY <2>6 DEF BatchEnd
    <3>2. added \subseteq written
      BY <1>2, <2>0, <3>1
    <3>. QED
      BY <1>2, <3>1, <3>2
  <2>. HIDE DEF BatchInv, BatchNotLost, ToSet
  <2>7. CASE BatchCall
    <3>1. ASSUME BatchAdd(Cardinality(added) + 1), Cardinality(added) < MaxAdd PROVE BatchInv'
      <4>1. Cardinality(added) \in Nat
        BY <1>2, FS_CardinalityType DEF BatchInv
      <4>2. Cardinality(added) + 1 \in Nat
        BY <4>1
      <4>. QED
        BY <2>2, <3>1, <4>2
    <3>. QED
      BY <2>3, <2>7, <3>1 DEF BatchCall
  <2>8. CASE BatchStep
    BY <2>4, <2>5, <2>6, <2>8 DEF BatchStep
  <2>9. CASE ~ BatchCall /\ ~ BatchStep
    BY <1>2, <2>1, <2>9, OtherStepsKeepBatch
  <2>. QED
    BY <2>7, <2>8, <2>9
<1>3. BatchInv => BatchNotLost
  BY DEF BatchInv
<1>. QED
  BY <1>1, <1>2, <1>3, PTL DEF Spec
=============================================================================
