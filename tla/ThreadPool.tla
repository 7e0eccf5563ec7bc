------------------------------ MODULE ThreadPool -----------------------------
(***************************************************************************)
(* The thread pool (pool/thread_pool.hpp): workers, the queue they share,  *)
(* the condition variable, and the threads that hand in tasks, clients and *)
(* tasks of the pool itself.  A task is a number, given out in the order   *)
(* of the queue; what a task does is left to the module that uses the pool *)
(* (Returns(w) is the step in which the task on worker w returns).         *)
(*                                                                         *)
(* Everything done with queue_mutex_ held is one step.  A notification     *)
(* comes after the unlock, as a step of its own, and wakes only a worker   *)
(* that waits at that time.                                                *)
(***************************************************************************)
EXTENDS Integers, Sequences, SequencesExt, FiniteSets

CONSTANTS
    Worker,     \* the threads of the pool
    Client,     \* threads outside the pool that use it
    MaxTask     \* bound: tasks handed in

ASSUME PoolAssumption ==
    IsFiniteSet(Worker) /\ Worker \cap Client = {} /\ MaxTask \in Nat

VARIABLES
    tasks,      \* tasks_
    stop,       \* stop_
    worker,     \* worker[w]: "ready" to lock, "waiting", "woken", "running", "returned"
    on,         \* on[w]: the task worker w runs, 0 without one
    queueSize,  \* queue_size_
    freeWorkers,\* free_worker_num_
    call,       \* call[c]: the call thread c is in
    pool,       \* "alive", "stopping", "joining" or "gone": the destructor
    submitted,  \* tasks handed in
    finished    \* the tasks whose future has a result

poolVars == <<tasks, stop, worker, on, queueSize, freeWorkers, call, pool, submitted, finished>>

\* due: notifications still to be sent; mine: futures ConcurrentRun waits for.
NoCall == [pc |-> "idle", due |-> 0, mine |-> {}]

PoolInit ==
    /\ tasks = <<>> /\ stop = FALSE
    /\ worker = [w \in Worker |-> "ready"]
    /\ on = [w \in Worker |-> 0]
    /\ queueSize = 0 /\ freeWorkers = 0
    /\ call = [c \in Worker \cup Client |-> NoCall]
    /\ pool = "alive"
    /\ submitted = 0 /\ finished = {}

(***************************************************************************)
(* Workers.                                                                *)
(***************************************************************************)
\* The wait ends or is not begun: the last look at the predicate of the wait.
MayGoOn == stop \/ tasks # <<>>

\* Mutant: a stopped worker does not look for tasks that are left.
Over_Undrained == stop

Over == stop /\ tasks = <<>>

\* A worker counts itself free once, when it enters the wait.
WorkerWait(w) ==
    /\ worker[w] = "ready" /\ ~ MayGoOn
    /\ worker' = [worker EXCEPT ![w] = "waiting"]
    /\ freeWorkers' = freeWorkers + 1
    /\ UNCHANGED <<tasks, stop, on, queueSize, call, pool, submitted, finished>>

\* A notification or a spurious wakeup makes a waiting worker look again.
Awake(w) == worker[w] = "ready" \/ worker[w] = "woken"

Freed(w) == IF worker[w] = "woken" THEN freeWorkers - 1 ELSE freeWorkers

WorkerSleepsOn(w) ==
    /\ worker[w] = "woken" /\ ~ MayGoOn
    /\ worker' = [worker EXCEPT ![w] = "waiting"]
    /\ UNCHANGED <<tasks, stop, on, queueSize, freeWorkers, call, pool, submitted, finished>>

SpuriousWakeup(w) ==
    /\ worker[w] = "waiting"
    /\ worker' = [worker EXCEPT ![w] = "woken"]
    /\ UNCHANGED <<tasks, stop, on, queueSize, freeWorkers, call, pool, submitted, finished>>

WorkerReturns(w) ==
    /\ Awake(w) /\ Over
    /\ worker' = [worker EXCEPT ![w] = "returned"]
    /\ freeWorkers' = Freed(w)
    /\ UNCHANGED <<tasks, stop, on, queueSize, call, pool, submitted, finished>>

WorkerTakes(w) ==
    /\ Awake(w) /\ ~ Over /\ tasks # <<>>
    /\ worker' = [worker EXCEPT ![w] = "running"]
    /\ freeWorkers' = Freed(w)
    /\ on' = [on EXCEPT ![w] = Head(tasks)]
    /\ tasks' = Tail(tasks)
    /\ queueSize' = queueSize - 1
    /\ UNCHANGED <<stop, call, pool, submitted, finished>>

\* task() is over and its future has a result.
Returns(w) ==
    /\ worker[w] = "running" /\ call[w].pc = "idle"
    /\ worker' = [worker EXCEPT ![w] = "ready"]
    /\ on' = [on EXCEPT ![w] = 0]
    /\ finished' = finished \cup {on[w]}
    /\ UNCHANGED <<tasks, stop, queueSize, freeWorkers, call, pool, submitted>>

(***************************************************************************)
(* Callers.  Enqueue is MultiEnqueue with one task, ConcurrentRun is       *)
(* MultiEnqueue and a wait for the futures.                                *)
(***************************************************************************)
\* A client uses the pool until its destructor begins, a task as long as it runs.
MayCall(c) ==
    /\ call[c].pc = "idle"
    /\ IF c \in Worker THEN worker[c] = "running" ELSE pool = "alive"

MultiEnqueue(c, n, waits) ==
    /\ MayCall(c) /\ ~ stop /\ submitted + n <= MaxTask
    /\ LET new == [i \in 1..n |-> submitted + i] IN
       /\ tasks' = tasks \o new
       /\ call' = [call EXCEPT ![c] =
             [pc |-> "notify", due |-> n, mine |-> IF waits THEN ToSet(new) ELSE {}]]
    /\ submitted' = submitted + n
    /\ queueSize' = queueSize + n
    /\ UNCHANGED <<stop, worker, on, freeWorkers, pool, finished>>

\* Mutant: the notification is not sent.
Notified_None == {worker}

\* What notify_one can lead to.
Notified ==
    LET waiting == {w \in Worker : worker[w] = "waiting"} IN
    IF waiting = {} THEN {worker} ELSE {[worker EXCEPT ![w] = "woken"] : w \in waiting}

\* notify_one, after the mutex is released.
NotifyOne(c) ==
    /\ call[c].pc = "notify"
    /\ worker' \in Notified
    /\ call' = [call EXCEPT ![c].due = @ - 1,
                            ![c].pc = IF call[c].due > 1 THEN "notify"
                                      ELSE IF call[c].mine = {} THEN "idle" ELSE "wait"]
    /\ UNCHANGED <<tasks, stop, on, queueSize, freeWorkers, pool, submitted, finished>>

\* ConcurrentRun has all results.
RunEnds(c) ==
    /\ call[c].pc = "wait" /\ call[c].mine \subseteq finished
    /\ call' = [call EXCEPT ![c] = NoCall]
    /\ UNCHANGED <<tasks, stop, worker, on, queueSize, freeWorkers, pool, submitted, finished>>

(***************************************************************************)
(* The destructor, called when no client is inside a call.                 *)
(***************************************************************************)
PoolStop ==
    /\ pool = "alive" /\ \A c \in Client : call[c].pc = "idle"
    /\ pool' = "stopping" /\ stop' = TRUE
    /\ UNCHANGED <<tasks, worker, on, queueSize, freeWorkers, call, submitted, finished>>

AllWoken == [w \in Worker |-> IF worker[w] = "waiting" THEN "woken" ELSE worker[w]]

PoolNotifyAll ==
    /\ pool = "stopping"
    /\ pool' = "joining"
    /\ worker' = AllWoken
    /\ UNCHANGED <<tasks, stop, on, queueSize, freeWorkers, call, submitted, finished>>

PoolJoin ==
    /\ pool = "joining" /\ \A w \in Worker : worker[w] = "returned"
    /\ pool' = "gone"
    /\ UNCHANGED <<tasks, stop, worker, on, queueSize, freeWorkers, call, submitted, finished>>
=============================================================================
