------------------------------ MODULE AsyncWriter ----------------------------
(***************************************************************************)
(* The asynchronous SST writer (lsm/async_sst_writer.cpp and .hpp) and the *)
(* batch writer in front of it.  A request is the id of the SST; building  *)
(* the SST may throw.  The destructor sets running_ without the mutex of   *)
(* the queue, so this can happen between the writer thread's look at the   *)
(* predicate and its wait ("blocking"): the notification is then lost.     *)
(***************************************************************************)
EXTENDS Integers, Sequences, SequencesExt, FiniteSets

CONSTANTS
    MaxFail     \* bound: SSTs that cannot be built

ASSUME WriterAssumption == MaxFail \in Nat

VARIABLES
    writeQueue, \* write_queue_
    running,    \* running_
    writer,     \* "loop", "lock", "blocking", "waiting", "writing" or "returned"
    request,    \* the request the thread works on, 0 without one
    closing,    \* "no", "stopped", "notified" or "joined": the destructor
    stats,      \* total_writes, successful_writes, failed_writes
    batch,      \* batch_ of a BatchAsyncSSTWriter
    commit,     \* tables its commit has written, -1 outside of a commit
    fails,
    pushed,     \* history: the requests, in the order of WriteAsync
    answered,   \* history: the requests whose callback ran, in that order
    added,      \* history: tables given to Add
    written     \* history: tables of batches whose SST was built

writerVars == <<writeQueue, running, writer, request, closing, stats, batch, commit, fails,
                pushed, answered, added, written>>
queueVars == <<writeQueue, running, writer, request, closing, pushed, answered>>
batchVars == <<batch, commit, added, written>>

WriterInit ==
    /\ writeQueue = <<>> /\ running = TRUE
    /\ writer = "loop" /\ request = 0 /\ closing = "no"
    /\ stats = [total |-> 0, successful |-> 0, failed |-> 0]
    /\ batch = <<>> /\ commit = -1
    /\ fails = 0
    /\ pushed = <<>> /\ answered = <<>>
    /\ added = {} /\ written = {}

\* The writer thread holds write_queue_mutex_ until it is in the wait.
QueueFree == writer # "blocking"

(***************************************************************************)
(* Callers.                                                                *)
(***************************************************************************)
\* WriteAsync, with the mutex.
Push(id) ==
    /\ QueueFree
    /\ writeQueue' = Append(writeQueue, id)
    /\ pushed' = Append(pushed, id)
    /\ UNCHANGED <<running, writer, request, answered, stats, fails, closing>>
    /\ UNCHANGED batchVars

\* Mutant: no notification.
Woken_Never == writer

Woken == IF writer = "waiting" THEN "lock" ELSE writer

\* WriteAsync, after the mutex is released.
NotifyWriter ==
    /\ writer' = Woken
    /\ UNCHANGED <<writeQueue, running, request, pushed, answered, stats, fails, closing>>
    /\ UNCHANGED batchVars

\* Flush returns when it sees an empty queue.
FlushMayReturn == QueueFree /\ writeQueue = <<>>

(***************************************************************************)
(* The writer thread.                                                      *)
(***************************************************************************)
\* while (running_)
WriterLoop ==
    /\ writer = "loop"
    /\ writer' = IF running THEN "lock" ELSE "returned"
    /\ UNCHANGED <<writeQueue, running, request, pushed, answered, stats, fails, closing>>
    /\ UNCHANGED batchVars

\* Mutant: the request is read but not taken out of the queue.
Popped_Kept == writeQueue

\* pop()
Popped == Tail(writeQueue)

\* The predicate of the wait, under the mutex; then the break or the first request.
WriterLock ==
    /\ writer = "lock"
    /\ \/ /\ running /\ writeQueue = <<>>
          /\ writer' = "blocking"
          /\ UNCHANGED <<writeQueue, request>>
       \/ /\ ~ running /\ writeQueue = <<>>
          /\ writer' = "returned"
          /\ UNCHANGED <<writeQueue, request>>
       \/ /\ writeQueue # <<>>
          /\ writer' = "writing"
          /\ request' = Head(writeQueue)
          /\ writeQueue' = Popped
    /\ UNCHANGED <<running, pushed, answered, stats, fails, closing>>
    /\ UNCHANGED batchVars

WriterBlocks ==
    /\ writer = "blocking"
    /\ writer' = "waiting"
    /\ UNCHANGED <<writeQueue, running, request, pushed, answered, stats, fails, closing>>
    /\ UNCHANGED batchVars

\* WriteSync counts a success, and WriterThread counts it again.
WriterWrites(ok) ==
    /\ writer = "writing" /\ (~ ok => fails < MaxFail)
    /\ writer' = "loop"
    /\ request' = 0
    /\ answered' = Append(answered, request)
    /\ fails' = IF ok THEN fails ELSE fails + 1
    /\ stats' = [total |-> stats.total + (IF ok THEN 2 ELSE 1),
                 successful |-> stats.successful + (IF ok THEN 2 ELSE 0),
                 failed |-> stats.failed + (IF ok THEN 0 ELSE 1)]
    /\ UNCHANGED <<writeQueue, running, pushed, closing>>
    /\ UNCHANGED batchVars

(***************************************************************************)
(* The destructor: neither step takes the mutex.                           *)
(***************************************************************************)
WriterStop ==
    /\ closing = "no"
    /\ closing' = "stopped" /\ running' = FALSE
    /\ UNCHANGED <<writeQueue, writer, request, pushed, answered, stats, fails>>
    /\ UNCHANGED batchVars

WriterNotifyAll ==
    /\ closing = "stopped"
    /\ closing' = "notified"
    /\ writer' = Woken
    /\ UNCHANGED <<writeQueue, running, request, pushed, answered, stats, fails>>
    /\ UNCHANGED batchVars

WriterJoin ==
    /\ closing = "notified" /\ writer = "returned"
    /\ closing' = "joined"
    /\ UNCHANGED <<writeQueue, running, writer, request, pushed, answered, stats, fails>>
    /\ UNCHANGED batchVars

(***************************************************************************)
(* BatchAsyncSSTWriter, used by one thread.  CommitAsync and CommitSync    *)
(* both write on the thread that calls them, table by table.               *)
(***************************************************************************)
BatchAdd(id) ==
    /\ commit = -1
    /\ batch' = Append(batch, id)
    /\ added' = added \cup {id}
    /\ UNCHANGED <<commit, written, stats, fails>> /\ UNCHANGED queueVars

BatchCommit ==
    /\ commit = -1 /\ batch # <<>>
    /\ commit' = 0
    /\ UNCHANGED <<batch, added, written, stats, fails>> /\ UNCHANGED queueVars

BatchWrite ==
    /\ commit \in 0..Len(batch) - 1
    /\ commit' = commit + 1
    /\ written' = written \cup {batch[commit + 1]}
    /\ stats' = [stats EXCEPT !.total = @ + 1, !.successful = @ + 1]
    /\ UNCHANGED <<batch, added, fails>> /\ UNCHANGED queueVars

\* Mutant: a table is taken out of the batch before it is written.
KeptAfterThrow_Popped == SubSeq(batch, commit + 2, Len(batch))

\* An exception passes through the commit, before Clear.
KeptAfterThrow == batch

BatchThrow ==
    /\ commit \in 0..Len(batch) - 1 /\ fails < MaxFail
    /\ commit' = -1
    /\ fails' = fails + 1
    /\ batch' = KeptAfterThrow
    /\ UNCHANGED <<added, written, stats>> /\ UNCHANGED queueVars

\* Clear.
BatchEnd ==
    /\ commit = Len(batch)
    /\ commit' = -1 /\ batch' = <<>>
    /\ UNCHANGED <<added, written, stats, fails>> /\ UNCHANGED queueVars
=============================================================================
