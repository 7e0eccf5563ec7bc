# Shuai-KV: TLA+ specifications, model checking and proofs

Shuai-KV is a replicated key-value store in C++: a Raft-like cluster of *Pods*
(`src/shuaikv/raft`) in front of an LSM-tree database (`src/shuaikv/db.hpp`,
`src/shuaikv/lsm`), with a client library in front of it. This directory models the
system from its source, checks it with TLC on small instances, and proves with TLAPS,
for every size, what matters about the election, replication, the clients, the database
from memtable to table files, the background components and the caches.
`PROJECT.json` maps every definition to the lines it stands for. Paths below are
relative to `src/shuaikv/` unless they begin with `learn_docs/` or `DEPLOYMENT.md`.

## 1. Inventory

| component | state | operations | interacts with | hard because | correct means |
|---|---|---|---|---|---|
| Pod: election (`raft/pod.hpp`) | `term_`, `voted_`, `status_`, `leader_id_`, `election_mutex_` | `Vote`, `RequestVote`, `SolveAppend` (term part), heartbeat loop | other Pods by blocking gRPC calls with a 2 s deadline | the thread writes `term_`/`status_` without the mutex; calls are made *with* the mutex; late requests; nothing persisted | one vote while in a term, two winners of a term only through the unlocked `++term_`, elections end |
| Pod: replication (`raft/pod.hpp`, class `Follower`) | one thread and one `nextindex_` per address of raft.cfg | `Run`, `Stop`, `SolveAppend`, `UpdateRaftLog`, `Put`, `InnerPut`, `PutTest` | RaftLog, client library | lost answers, retries, signed/unsigned `nextindex_`, check-then-act in `Put` | logs agree, commited and acknowledged writes are on a majority |
| RaftLog (`raft/raft_log.hpp`, `utils/ring_buffer_queue.hpp`) | ring buffer, `index_`, `commited_`, `last_append_`, `raft_log_meta` file | `Put` (two), `At`, `Reset`, `UpdateCommit`, apply thread, save | DB | capacity, reads outside the buffer, restart without entries | entries are applied in order, at most once |
| DB (`db.hpp`) | `memtable_`, `inmemtables_`, `manifest_queue_`, flush thread, `sst_id_` | `Put`, `Get`, `ToSSTLoop`, `ToSST`, constructor, destructor | MemTable, Manifest | three locks, condition variable, a table between two places | reads see completed writes; every table reaches the manifest once, in order, and before a clean close ends; all but for the races of section 5 |
| Manifest and compaction (`lsm/manifest.hpp`) | levels of SSTs, manifest file | `Get`, `InsertAndUpdate`, `SizeTieredCompaction`, `Save`, `Load` | SST files | order of tables, reuse of ids after a kill, views of mapped files | newest value wins; levels sorted; saved files intact |
| MemTable, SkipList (`lsm/memtable.hpp`, `lsm/skiplist.hpp`) | nodes with vectors of successors, sizes | `Put`, `Get`, `Delete`, iteration | DB, batches | levels of very different heights; vectors read without looking at their length | the list is the map its operations make |
| SST (`lsm/sst.hpp`, `utils/bloom_filter.hpp`) | mapped file, block index, bloom filter | four constructors, `Load`, `Close`, `Get`, iteration, prefetch | Manifest, block cache | offsets computed in several places; files overwritten in place | lookup and scan give what the table was built from |
| Block cache (`lsm/block_cache.hpp`) | LRU list, map, byte and block accounts | `Get`, `Put`, `Remove`, `Clear`, `ResetStats`, `CacheGuard` | SST | accounting, eviction at the limit, guards that overlap | exact accounts, bytes of the right table, oldest out first |
| Concurrent LRU (`cache/`) | two parts with list and map, sketch of use counts, refresh thread | `Get`, `Put`, `stop`, move assignment | none | check and insert under two holds of a lock; a thread that sleeps for a minute | list and map agree, counts not too low, stop returns |
| Batch commit (`lsm/batch_commit.hpp`) | collected operations, status, manager | begin, put, delete, commit, rollback | MemTable | one operation after the other, exceptions in the middle | what a commit returns is true of its batch |
| Async SST writer (`lsm/async_sst_writer.*`) | request queue, writer thread, batch | `WriteAsync`, `Flush`, `CommitAsync`, `CommitSync`, destructor | SST | condition variable, shutdown, failing writes | every request answered once and in order |
| Thread pool (`pool/thread_pool.hpp`) | task queue, workers, counters | `Enqueue`, `MultiEnqueue`, `ConcurrentRun`, destructor | none | notifications after the unlock, tasks that hand in tasks | every accepted task runs once, callers return |
| Client library (`db_client.hpp`, `client.cpp`, `raft/client.hpp`) | stubs of all pods | `Put`, `Get` (two), `SyncGet` | Pod | a request that timed out still runs; redirection; retries | a reported write is in a log, reads are commited, calls return |
| Server process (`server.cpp`, `resource_manager.hpp`) | singletons | start, stop | all | order of destruction | a clean stop saves everything |
| Read quorum, async I/O, compression, RW lock | - | - | none (RW lock: DB) | - | not modelled, section 6 |

A client write travels: `Put` on the leader (checks `status_` under the mutex,
releases it) → `InnerPut` appends to the leader's RaftLog and polls → the
leader's `Follower` threads send the entry with `Append` → `SolveAppend` on the
others appends it → a `Follower` thread advances the leader's `commited_` →
heartbeats carry the commit index → each node's apply thread calls `DB::Put` →
a full memtable is rotated → the flush thread writes an SST and publishes a new
manifest, perhaps compacted.

## 2. Modules

| module | models | checked by |
|---|---|---|
| `Election` | `Vote`, the election thread (timeout, `RequestVote`, heartbeats), the part of `SolveAppend` under `election_mutex_`, restarts | `MCElection` |
| `PodProofs` | theorems about the cluster in four parts: the election; `Pod` (types, votes and terms, threads, logs); replication (agreement, commits on a majority); `Client` (refinement of `Pod`, writes and retries, reads) | tlapm |
| `DBProofs`, `ManifestProofs`, `SSTProofs`, `BatchProofs`, `BackgroundProofs`, `ConcurrentCacheProofs` | theorems about the module of that name; `SSTProofs` also about `BlockCache`, `BatchProofs` about `SkipList` | tlapm |
| `Extrema` | lemmas about least and greatest elements, sums, functions defined step by step, and counting up | tlapm |
| `RaftLog` | the log of one node as a value, its operations as functions | through `Pod` |
| `Pod` | extends `Election` and `RaftLog`: sync threads, `UpdateRaftLog`, apply thread, `Put`/`InnerPut`, probes, kills and stops | `MCPod` |
| `Manifest` | levels, lookup, compaction, ids, files, save and load | `MCManifest` |
| `Store` | abstract: what a database promises about its tables | through `DB` |
| `DB` | memtables, flush thread with its condition variable, reads, close, kill | `MCDB` |
| `Client` | extends `Pod`: client processes, their calls, requests on their way | `MCClient` |
| `SkipList` | the skip list as a value, its operations as functions | through `Batch` |
| `Batch` | extends `SkipList`: single writes and transactions on a memtable | `MCBatch` |
| `BlockCache` | the block cache as a value, its operations as functions | through `SST` |
| `SST` | extends `BlockCache`: files, tables, filters, prefetching, guards | `MCSST` |
| `ConcurrentCache` | the two-part cache, its sketch and its refresh thread | `MCConcurrentCache` |
| `ThreadPool` | workers, queue, notifications, shutdown | through `Background` |
| `AsyncWriter` | the writer thread, its queue, the batch writer | through `Background` |
| `Background` | tasks of a pool that use an asynchronous writer | `MCBackground` |

### Election
`call[s]` is the request an election thread is blocked on, and at the same time
says that `election_mutex_` of `s` is held: the handlers of `s` that need it are
not enabled. A call ends with an answer (`VoteAnswer`, which runs the whole
`Vote` handler of the callee) or at its deadline (`VoteTimeout`); then the
request is lost or stays in `lateVote` and may be handled at any later time.
Heartbeats are treated in the same way.

`++term_` in `RequestVote` runs without the mutex, while `Vote` reads `term_` four
times (`raft/pod.hpp:246-256`) and may store it, and `SolveAppend` tests it and stores
it later (`:326-327`). A handler's action therefore takes the moment `n` of the
increment (`Moments`): the accesses before it see the old term, those from it on the
new one (`TermRead`), and a store after it overwrites it. Between two handlers the
increment is the step `RequestVote`. Nothing else of a node can come between the steps
of a handler: other handlers wait for the mutex, and so does the election thread once it
has incremented; before, it only writes `Candidate` to `status_`, which a handler does not
tell from `Follower`. The log is abstracted to the index passed to the actions, every index up
to `MaxIndex` being possible. `granted` and `leaders` are history variables.

### Pod
Each Pod action that is a step of the election *conjoins* the Election action
with what the same code does to log and threads; the others leave `electionVars`
unchanged, so that what is proved of `Election` holds in the cluster. A handler that
deposes a leader stops its sync threads and then changes `status_`, all under
`election_mutex_`; this is one step, since a sync thread reads neither `term_` nor
`status_`, so its steps between the two are the same before the handler, and whoever
reads `status_` waits for the mutex or has only the heartbeats to send. What a thread
still does between `stop_ = true` and its end is in `StoppedLog`. A `Follower` thread is `off`,
`idle`, `sending`, `calling`, or holds an answer `ok`/`nak` that may still be
lost. `nextindex` is signed and converted with `SizeT` where the code compares
it as `size_t`. `Reset`, `PutEntry`, `UpdateCommit` keep the code's conditions,
also those that never hold because `Follower::Run` leaves `term` and
`commited_index` of an entry request unset.

### Manifest
An SST object is a view of a mapped file, so a level is a sequence of ids and
contents are in `file[id]`. `Flush`, `Compact` (one iteration of the loop in
`SizeTieredCompaction(id)`) and `Publish` are the steps of one `ToSST`; a kill
may fall between any two. `NewTable` is nondeterministic when the file being
written is one of those being read. A flushed file is taken to be readable, as tables of
the plain constructors are, and `Save` to be complete; neither is so in general (section 5).

### DB and Store
The flush thread is modelled down to the gap between evaluating the predicate of
the condition variable and blocking on it, since `Put` notifies without the
mutex. `inmemtables_` is a `std::vector` that `Put` and `Get` use under `memtable_lock_`
and the flush thread under `to_sst_mutex_`, so both races are in the model:
- an append that overlaps an erase (`AppendMeetsErase`): the erase has no effect and the
  front is flushed twice, or the append has none and its table is lost, or neither has. (That
  both have is the two steps one after the other.) `lost` records the puts of a table
  dropped so;
- a `Get` that iterates while the front is erased (`GetScan`, one slot per step): the
  tables move down under its iterator. Past the end it reads an empty slot or, when the
  last table was taken, that table.

Outcomes that leave a null pointer in the list end the process, which `Kill` covers.

`Get` takes the second lock in a step of its own. Of the manifest `DB` knows which tables
were inserted and not what a lookup returns: `ToSST` writes compressed blocks that are read
back as plain ones (section 5), so nothing is claimed of the values. `Store` is the
promise about tables: they are published in the order in which they were filled, none
skipped, a clean close saves all of them, a kill returns to the last close; `Collide` is
the one exception. `Tables == INSTANCE Store WITH ...` maps the table in the hands of the
flush thread and those on the list to `pending`.

### Client
`client[p]` is the main loop of `client.cpp` and the call it is in: the position in
`all_pod_`, whether the request is the redirected one, the result. A Put request is on
its way to a node (`request`), is refused there in one step, or becomes a write of
`Pod` (`PutAccepted` is `PutCheck`); its answer reaches the process only while the
process still waits for it. The deadline can pass at any time and removes nothing.
Every other step of the cluster is a step of `Pod`. A read changes nothing, so each
of its calls is one step. Where a node that knows no leader is asked for a read from
the leader, `Pod::Get` answers with an uninitialised pointer: the model lets the
answer have any address or none. That the node may crash instead is left to
`PodRestartSpec`. A second call of `Get` with a used `ClientContext` may abort.

### SkipList and Batch
All operations hold the spin lock of the list throughout, so they are functions of the
list. `Put` and `Delete` index vectors without a check: such an access makes the list
`broken`, with no further claim. `Commit` applies operation after operation; other
writers come in between. A failed allocation leaves the spin lock held (`stuck`): what was
applied of the batch stays, and `Get`, `Put` and `Delete` of the list never return again.

### BlockCache and SST
A file is a set of fields at computed offsets, so that two parts of the code that
disagree about an offset do not find each other's data. `Get` is the two-level search
(`Bisect` is the loop of the code); it must agree with the entries the table was built
from, as must iteration. A table may be written over an older and longer file of its id,
as happens after a kill. Bit positions of the filter come from `Hashes`, which is chosen
so that false positives occur.

### ThreadPool, AsyncWriter, Background
Everything under one hold of a mutex is one step, and a notification is another. A
waiter that has evaluated its predicate and not yet blocked is a state of its own
exactly where the code changes the predicate without the mutex (`running_`), so a lost
wakeup is possible there and only there. The repository builds neither component into
the server: `Background` uses each as the environment of the other.

### ConcurrentCache
`Put` and `Get` are the steps between two holds of a part's mutex. `stop` notifies with
the mutex held after it has set `stop_` without it. Move assignment stops the target,
takes over the contents and starts a new refresh thread.

### Abstractions
- Followers are visited in any order (the code uses the order of raft.cfg).
- The index in a vote request is read when the mutex is taken.
- `Stop()` of all `Follower` objects is one step of the handler that calls it (see Pod);
  a call in progress at that time is lost or handled late.
- `SolveAppend` with an entry is one step: the check and the append in
  `UpdateRaftLog`, under two acquisitions of the log's lock, are not separated.
- `DB` has one writer, the apply thread, which is the only caller of `DB::Put`.
- In `Manifest` an SST holds what it was built from. `SST` shows this of the plain
  constructors, which compactions and `tests/compaction_test.cpp` use. `DB::ToSST` uses a
  compressing one, of which it is not so (section 5): the results of `Manifest` are about
  tables that can be read, and `DB` claims nothing of values in the manifest.
- `Manifest::Save` is one step: a kill while it writes the file in place is left out.
- Each client process makes one `Put` and any number of reads.
- In `ConcurrentCache` a value is its key; `CounterMax` is 15 in the code and 3 in the run.
- `RandLevel` has no upper bound; the model has `MaxLevel`.
- Sizes are counted in entries instead of bytes.

## 3. Runs

Bounds are constants and appear in guards only. `Electors`, `MaxTerm`: who starts
elections, up to which term. `MaxIndex`: log length. `MaxLateVote/Beat/Append`:
requests alive after their caller gave up. `MinNext`: how far `nextindex_` is
followed below zero. `LossyAppend`: whether an entry request may time out.
`Capacity`, `SizeMod`: ring buffer and `size_t`. `MaxFlush`, `MaxKill`, `MaxPut`,
`MaxBuild`, `MaxReset`, `MaxOp`, `MaxBatch`, `MaxThrow`, `MaxTask`, `MaxFail`, `MaxAdd`:
how often something is done or fails.

| run | instance | shows |
|---|---|---|
| `election_safety` | 3 nodes that all start elections, terms ≤ 2, `++term_` at every place within the handlers | type invariant, the inductive invariant `ElectionInv`, `VoteOncePerTerm`, `ElectionSafety`, `OneLeaderPerTerm` |
| `election_live` | 2 of 3 nodes start elections, term 1, one late vote and one late heartbeat, with fairness | `ElectionEnds`: no deadlock among candidates that call each other and themselves with their mutex held; `TermDiscipline` |
| `pod_lossy` | 3 nodes, 1 leader, 2 writes, lossy entry requests | `LogsAgree`, `CommitedOnMajority`, `LogAppendOnly` |
| `pod_terms` | 2 nodes that list each other, both electing, terms ≤ 2, late requests of all kinds | `SyncOnlyWhileLeading`: leaders are deposed with entries on their way; `VoteOncePerTerm` with real logs |
| `pod_restart` | 2 nodes, kills, clean stops, clean stops killed half way | `AppliedAtMostOnce` |
| `manifest_levels` | 4 keys, 4 flushes, one kill, one-round compactions | `ReadsNewest`, `LevelsSorted`, `SavedIntact`, `LiveFilesFixed` |
| `db_store` | 2 keys, tables of one entry, 5 puts, both races on the list, with fairness | `ImplementsStore`, `ReadsLatest`, `CloseEnds` |
| `client_retry` | 3 nodes that list each other, one leader, a process that knows two of them, 2 log entries, with fairness | `TrueMeansLogged`, `LoggedOncePerTry`, `ReadsCommited`, `CallReturns` |
| `sst_cache` | 3 ids, 2 contents, 3 tables built, a cache of two blocks, 2 threads with guards | `TableReads`, `CacheAccounts`, `CacheFaithful`, `EvictsOldest` |
| `memtable_batch` | 3 keys, levels 1 and 2, 4 operations, one batch, one failed allocation | `ListIsMap`, `CommitTellsTruth` |
| `background` | 2 workers, 3 tasks, one failing write, batches of up to two tables, both destructors, with fairness | `DrainedOnce`, `WritesInOrder`, `BatchNotLost`, `PoolServes`, `WritesAnswered` |
| `lru_cache` | 3 keys, 2 threads, 5 calls, window of two and main of one, with fairness | `MapMatchesList`, `NeverUnderestimates`, `StopReturns` |

Instances to run by hand. Each of these configurations checks one property that the code
does *not* have, and TLC reports it violated; section 5 says what it means.

| configuration | module | property |
|---|---|---|
| `MCElection_twoleaders.cfg` | `MCElection` | `NoTwoLeaders` |
| `MCPod_ack.cfg` | `MCPod` | `AckedOnMajority` |
| `MCPod_complete.cfg` | `MCPod` | `LeaderCompleteness` |
| `MCPod_putreturns.cfg` | `MCPod` | `PutReturns` |
| `MCManifest_cascade.cfg` | `MCManifest` | `ReadsNewest` |
| `MCDB_gap.cfg` | `MCDB` | `ReadsAlwaysLatest` |
| `MCClient_late.cfg` | `MCClient` | `NoLateWrite` |
| `MCSST_packed.cfg` | `MCSST` | `EveryTableReads` |
| `MCBatch_broken.cfg` | `MCBatch` | `NeverBroken` |
| `MCBatch_half.cfg` | `MCBatch` | `BatchAllOrNothing` |
| `MCBackground_stop.cfg` | `MCBackground` | `WriterStops` |
| `MCBackground_flush.cfg` | `MCBackground` | `FlushWaits` |
| `MCConcurrentCache_assign.cfg` | `MCConcurrentCache` | `RefreshAlive` |

`ManifestTypeOK`, `DbTypeOK`, `ClientTypeOK`, `SstTypeOK` and `BackgroundTypeOK` hold on
the instances of the corresponding runs too; the runs leave them out.

Why the bounds suffice for what is asked: two terms allow a deposed leader and a vote in each,
and in `pod_terms` a late vote of the earlier term; three electors allow two winners of a term
with the votes of a third node whose timer runs out as well, so the exceptions in
`ElectionSafety` and `OneLeaderPerTerm` are met (`MCElection_twoleaders.cfg`); two electors
allow a split vote and mutual calls; two log entries allow a repeated, a skipped and a
following entry; four flushes with a threshold of one allow two compactions into a Level 1
that already has tables; five puts over tables that hold one key fill two full tables while
one is being written, and let a rotation meet an erase. Two log entries are what a write that
is retried at its leader needs, and a process that knows two of three nodes can be refused,
redirected and time out in every order (with all three nodes the run takes more than two
million states). Three ids with three builds allow a table to be overwritten, after a restart,
by a shorter one while a block of another is cached; a cache of two blocks is full with three.
Four operations with levels 1 and 2 reach every way in which the search and insertion loops of
the skip list meet nodes of different heights. Three tasks on two workers allow a task to be
queued while a shutdown begins; two tables allow a commit to fail after the first. Five calls
fill both parts of the cache and let two threads insert the same key. Larger instances are not
claimed.

Symmetry: nodes are permuted within `Electors` and within the rest, and only in
runs without liveness properties. `NotTimedOut`, a wait loop that starts again,
is an explicit stuttering step, so that a cluster which has used up its bounds is
not reported as a deadlock.

Fairness. `election_live` assumes weak fairness of the steps an election thread
takes by itself, among them the deadline of a call, which gRPC enforces; nothing
is assumed of handlers or the network. `client_retry` assumes the same of a client: the
deadline of its request passes, unless it is answered before. `MCPod_putreturns.cfg`
assumes that sync threads, handlers, apply thread and the polling `Put` run; messages
are not lost there. `db_store` assumes that the flush thread runs and that a destructor that has
begun goes on; nobody has to begin one. `background` assumes that a thread that can take
a step takes it; nobody has to hand in a task or to destroy anything. `lru_cache` assumes
that the refresh thread and a `stop` that has begun run; the minute need not pass.
`CHECK_DEADLOCK FALSE` is used where everything may have been destroyed or all calls made.

`pod_lossy` has one term: over several terms `LogsAgree` does not hold, see section
5. It has no late entry requests for size only; with one of them the same properties
hold (4.5 million states, five minutes with four workers). A sync thread is followed
until `nextindex_` is -1: from there every further entry it sends has an index of 0
or less, which no log accepts. `manifest_levels` excludes the empty key and a second
round of compaction, with which its properties do not hold. `ReadsLatest` says of a `Get`
that finds nothing in memory that the put is in the manifest or with the flush thread; in the
second case the `Get` misses it (`MCDB_gap.cfg`). It excepts the puts of a table that the
race on the list dropped, one by one (`lost`). `client_retry` has one leader and no lost
entry requests: otherwise what `AckedOnMajority` is about enters. `TableReads` is about
the plain constructors and `ListIsMap` about lists that are not broken, see section 5.

## 4. Proofs

Every theorem holds for all values of the constants that satisfy the named assumptions of
the module (`ASSUME` in the module that declares them; TLC evaluates them in the runs).
Most of these say of which set a constant is an element. Three say more: `PoolAssumption`
that the workers are finitely many, `IndexAssumption` of `Pod` that log indexes stay below
2^w for the width w of `size_t` (an index counts entries in memory), `CacheAssumption`
that a row of the sketch has whole bytes and hashes fall into it.

| theorem | statement | further assumptions |
|---|---|---|
| `PodProofs!TypeCorrect` | `ElectionSpec => []ElectionTypeOK` | |
| `InvariantHolds` | `ElectionSpec => []ElectionInv` | |
| `VotesAreUnique` | `ElectionSpec => []VoteOncePerTerm`, whatever raft.cfg lists | |
| `TermsOnlyGrow` | `ElectionSpec => TermDiscipline` | |
| `CoreHoldsThroughRestarts` | `RestartSpec => [](ElectionTypeOK /\ CallInv)` | |
| `OneWinnerPerTerm` | `ElectionSpec => []ElectionSafety` | `DocumentedCluster` |
| `OneLeaderAtATime` | `ElectionSpec => []OneLeaderPerTerm` | `DocumentedCluster` |
| `SoleElectorWinsOnce` | one victory, and its winner leads from then on | one node starts elections |
| `PodTypeCorrect` | `PodRestartSpec => []PodTypeOK` | |
| `PodVotesAndTerms` | `VoteOncePerTerm` and `TermDiscipline` for `PodSpec` | |
| `PodElectionSafety` | `ElectionSafety` and `OneLeaderPerTerm` for `PodSpec` | `DocumentedCluster` |
| `OnlyLeadersReplicate` | `PodRestartSpec => []SyncOnlyWhileLeading` | |
| `NothingAppliedTwice` | `PodRestartSpec => []AppliedAtMostOnce` | |
| `LogsOnlyAppend` | `PodSpec => LogAppendOnly` | |
| `OneWinnerLogsAgree` | `PodSpec => [](OneWinner => LogsAgree)` | |
| `SoleElectorLogsAgree` | `PodSpec => []LogsAgree` | one node starts elections |
| `OneVictoryCommitsOnMajority` | `PodSpec => [](OneVictory => CommitedOnMajority)` | `FullLists`, `Roomy` |
| `SoleElectorCommitsOnMajority` | `PodSpec => []CommitedOnMajority` | `FullLists`, `Roomy`, one node starts elections |
| `ClientTypeCorrect` | `ClientSpec => []ClientTypeOK` | |
| `ClientsUsePods` | `ClientSpec => PodSpec` | |
| `TrueIsLogged` | `ClientSpec => []TrueMeansLogged` | |
| `OneWinnerLogsOnce` | `ClientSpec => [](OneWinner => LoggedOncePerTry)` | `all_pod_` repeats no node |
| `SoleElectorLogsOnce` | `ClientSpec => []LoggedOncePerTry` | the same, one node starts elections |
| `SoleElectorReadsCommited` | `ClientSpec => ReadsCommited` | `FullLists`, `Roomy`, one node starts elections |
| `DBProofs!DbTypeCorrect` | `DbSpec => []DbTypeOK` | |
| `DatabaseIsStore` | `DbSpec => ImplementsStore` | |
| `GetsReadLatest` | `DbSpec => []ReadsLatest` | |
| `ManifestProofs!ManifestTypeCorrect` | `Spec => []ManifestTypeOK` | |
| `LiveFilesNotWritten` | `Spec => LiveFilesFixed` | |
| `LevelsStaySorted` | `Spec => []LevelsSorted` | no empty key |
| `ManifestReadsNewest` | `Spec /\ []CopiesWhole => []ReadsNewest` | no empty key |
| `ManifestSavedIntact` | `Spec /\ []CopiesWhole => []SavedIntact` | no empty key |
| `ShallowReadsNewest` | `Spec => []ReadsNewest` | no empty key, `Shallow` |
| `ShallowSavedIntact` | `Spec => []SavedIntact` | no empty key, `Shallow` |
| `SSTProofs!SstTypeCorrect` | `Spec => []SstTypeOK` | |
| `OldestEvicted` | `Spec => EvictsOldest` | |
| `AccountsExact` | `Spec => []CacheAccounts` | `SmallIndex` |
| `BlocksFaithful` | `Spec => []CacheFaithful` | `SmallIndex` |
| `TablesReadBack` | `Spec => []TableReads` | `SizesPositive` |
| `BatchProofs!CommitsTellTheTruth` | `Spec => []CommitTellsTruth` | |
| `MemtableIsMap` | `Spec => []ListIsMap` | |
| `BackgroundProofs!TasksRunOnce` | `Spec => []DrainedOnce` | there is a worker |
| `CallbacksInOrder` | `Spec => []WritesInOrder` | |
| `BatchKept` | `Spec => []BatchNotLost` | |
| `ConcurrentCacheProofs!MapsMatchLists` | `Spec => []MapMatchesList` | |
| `EstimatesCoverUses` | `Spec => []NeverUnderestimates` | |

`DocumentedCluster`: every raft.cfg lists all nodes, as `DEPLOYMENT.md` shows, and their
number is odd. `FullLists`: every raft.cfg lists all nodes, of any number. `Roomy`: the
ring buffer holds every entry; a full one drops entries and answers 0 (section 5), and
then the property is false. "One node starts elections" (`Electors` has at most that
node): the cluster before its leader first fails. `OneWinner` and `OneVictory` put the same
as a condition on the state: all victories so far are of one node, or there was at most one.
Beyond it the replication properties are false of the code (section 5), so no theorem
leaves the condition out. A pool without a worker drops what is queued, hence `Worker # {}`;
the constructor defaults to the number of hardware threads.

"No empty key": `SizeTieredCompaction` uses the empty string as "no bound yet" (section 5);
with it among the keys TLC finds unsorted levels. `CopiesWhole` is a condition on the state:
no round of a compaction is about to write over a table that it merges, unless the result is
what that table already holds. It excludes exactly what `MCManifest_cascade.cfg` shows to go
wrong. `Shallow` implies it without looking at states: Level 1 has no
threshold, or its threshold is not below the number of keys, so a compaction has one round.
`SmallIndex`: the data block of a table begins before 2^32 (`KeyShift`); `MakeKey` puts id
and offset together with a shift by 32 and an *or*, which gives different tables the same
keys beyond it. `SizesPositive`: keys and values have at least one byte. The model finds a
part of an entry by its offset, and an empty part has the offset of the one behind it.

### Election
The inductive invariant is `ElectionTypeOK /\ ElectionInv /\ VoteOncePerTerm`. A recorded
vote has two terms: that of the request, and `own`, the term the voter had when the handler
returned. They differ when `++term_` came between the checks of `Vote`: the vote is then for
the term the node has just left. `VoteOncePerTerm` is about `own`, and alone it is not
inductive: a state in which the last vote was cast in the present term but `voted_` is false
could vote again. `GrantInv` rules it out: a vote with the present `own` implies `voted_`, and
the others have a smaller one. This must survive `SolveAppend`, which clears `voted_`: for a
request without an entry only together with a larger term, and entry requests carry term 0,
which is adopted by a node of term 0 only; it has no votes, also if its increment to 1 is
overwritten. `CallInv` and `LateInv` say that all vote requests are for positive terms and
that a candidate's call is for its present term: a store that overwrites the increment has
made the node a follower before it asked anybody. `TicketInv` ties the tickets to recorded
votes as long as the node is a candidate, which needs that the term of a candidate in
`RequestVote` changes only together with its status. `VictoryInv` then keeps the voters of
every win. In the documented cluster with 2k + 1 nodes `1 + tickets > (1 + 2k + 1) / 2`
gives more than k votes for each winner; two sets of more than k of 2k + 1 nodes meet
(lemma on cardinalities). The common voter voted for both in one term; if neither vote was
cast across its increment both have the same `own` and are one vote. For two leaders at
once the voter is a third node: a vote across the increment leaves its voter in a later term.

With restarts votes are forgotten, and of the invariant only types and `CallInv` remain.
With a sole elector (`SoleInv`) no node and no late request has a term above the elector's,
so nothing makes it step down, and a leader starts no second election.

### Pod
`PodInv` has the election's core, the order of the indexes of a log (`LogInv`: its start,
`last_append_`, `commited_`), the types of the rest, that sync threads ask for nothing past
the longest log (`SyncInv`), and what is on disk (`SavedInv`). A Pod step that belongs to the
election conjoins the action of `Election`; two lemmas about `PodSpec` and `PodRestartSpec`
carry the theorems about the election over to the cluster. `AppliedAtMostOnce` needs
`SavedInv`: a kill leaves only the files, and then what the database has on disk must not
exceed the commit index the log starts from. `LogsOnlyAppend` needs that `Reset` is out of
reach for the requests `Follower::Run` builds, which `ReqOK` records.

### Replication
While L has won all elections, `AgreeInv` says: every log is a prefix of L's (`LogsInv`), a
`Put` that checked the status is on L (`PutsInv`), and every request of L's threads and
every late one carries the entry L's log has at its index (`SendInv`). `SendInv` is what
makes late and repeated requests harmless: `UpdateRaftLog` accepts an entry only if its
index is the next one, and there L's log has exactly that entry. It also covers the time
after L was deposed and before anybody else has won.

For commits `MajorInv` adds: nothing is in a log before the first win (`QuietInv`), a
positive `nextindex_` is within the log of its follower and an answer `ok` came from a
follower that has the entry (`MatchInv`), only L sends heartbeats, none ahead of its
`commited_` (`BeatInv`), and what L counts as commited is on a majority (`CommitInv`).
`MatchInv` holds although lost answers make the leader retry an entry, be refused, and count
down: `nextindex_` is then too small and not too large. The commit check counts two for the
leader and the follower at hand; this is right only because the leader's thread for itself
never gets an answer `ok` (it sends what its log already has), also a part of `MatchInv`.

### Client
`LoopInv` says where the loops of the library can be: a `Put` that was not redirected has sent
as many requests as its position in `all_pod_`. The steps of `Pod` that `Client` takes are
steps of `PodNext` and all others leave the cluster alone, so `PodInv`, `AgreeInv` and
`MajorInv` hold with clients too. `TrueMeansLogged` speaks of the client's result; the step
that sets it sees a handler that answered, so `TrueInv` adds that a handler past its append
has its entry in a log, which rests on logs only growing.

For `LoggedOncePerTry`, `TriesInv` ties every request and every handler to its place in the
loop (request k was sent to node k of `all_pod_`, unless it was the redirected one), and
`OriginInv` every write in the winner's log to a handler on the winner. All logs are
prefixes of the winner's, so of the requests sent in the loop only the one to the winner
can be in any log. A request that timed out needs no special case: it keeps its node.

For `ReadsCommited`, `FollowInv` says that no node, request or late request is ahead of the
winner's `commited_`, and `GotInv` that a database has been handed entries of its own log
up to that index or, where `commited_` ran ahead of the log (section 5), the default entry.
With `CommitInv` the entry is on a majority, provided the winner still leads: a sole
elector is never deposed. TLC checked these invariants on the instance of `MCClient` with
full lists and lossy calls before they were proved.

### DB
`DbInv`: types (`TablesType`), what the flush thread holds at each of its steps
(`FlushInv`), that of two tables the later has nothing older, from the manifest over the
table being flushed and the list to the active one (`OrderInv`), that the last put of a key is
in one of these places or was dropped by the race (`LatestInv`), and that a `Get` in the
middle of the list still has the put it must find before it: in a slot it has not visited,
with the flush thread or in the manifest (`GetInv`). An erase moves the put to a smaller
slot, so the iterator meets it later or it is the table that was taken; an append puts
newer tables above the iterator only. The refinement maps a `Put` to `Write`, a rotation
to `Fill`, or to `Collide` where it meets an erase, `ToSST` to `Publish`, the save of a close to
`Save` and a kill to `Lose`; the steps of a read and of the condition variable stutter. That
`Save` finds no pending table needs `FlushInv`: the flush thread ends only when the stop
flag is set and the list empty, and the destructor has put the last table there before.

### Manifest
`ManifestInv` holds whatever the keys are: numbers and shapes (`NumbersInv`, `ShapeInv`), all
ids in use are at most `sst_id_`, and the id a compaction writes to is in neither the
published manifest nor the manifest file (`IdInv`), and it can be only in the level that is
compacted next (`DraftInv`). `LiveFilesFixed` follows from `IdInv`; `DraftInv` is what keeps
the later rounds, which reuse the id, from touching two levels at once.

`FormInv` has sorted levels and tables with entries, for the published, the draft and the
saved manifest at the same time, since a kill goes back to the last one. For a compaction it
needs that the bounds computed by the loop over the level are its least and greatest key (here
the empty key must be absent), and that in a sorted level the tables that meet this range are
a contiguous run, so that cutting at `insert_l` and `insert_r` removes exactly the merged
tables and the new table fits into the gap.

`ReadInv` says that the draft reads as `newest` and the manifest file as `saved`. The binary
search returns the number of tables that begin at or below the key, and in a sorted level no
other table can have it. A flush hides older values by the order of Level 0. A compaction
keeps every answer: of the merged tables the one that is searched first wins the merge, and
a key of Level n + 1 in no merged table is found where it was. The merge reads its sources
while it writes its target; `CopiesWhole` makes the outcome of that definite.

### SST and block cache
`SstInv`: every file has an index that leads to its block (`FilesOK`), an open table is what
`Load` makes of its file (`TablesOK`), a guard that missed has the key of a table in use, one
that was filled has bytes of that table (`GuardsOK`), and list and map of the cache name the
same blocks, each once, each with bytes of the file of its table (`BlocksOK`). Guards of
several threads can put the same block; `AccountsInv` survives this since both read the
same size from a file that does not change any more: a process writes an id once and then
uses it (`used`), and the cache ends with the process. `EvictIfNeeded` is a loop: the proof
shows that what it leaves is a prefix of the list, and the sum of the sizes that of the prefix.
`SmallIndex` gives that two tables never share a key.

`ReadInv` of `SSTProofs` says that a file written by a plain constructor has every field at the
place `Load` computes, where the older and longer file underneath ends being visible only
behind it. Offsets grow by at least the length words, so no field is found at two places
(`SizesPositive` for the parts of an entry). `Bisect` returns the first position whose key is
not smaller, entries are in key order, and the bits `Insert` sets are those `Check` asks for.

### Batch and skip list
`AppliedOK` relates a transaction and what was applied of it: nothing while it is active, the
first `next` entries during a commit, all of them after one that returned true, and after a
rollback nothing, or a proper part with the list locked; `stuck` is never taken back. A
rollback forgets entries only if none was applied.

The skip list is subtle because not all of its pointers are maintained. A new node is linked
behind the place where the search from `start` stopped, on all of its levels, even on those
where `head_` does not reach that place; `Delete` repairs only the pointers it meets coming from
`head_`. So nodes may point to deleted nodes. `Towers` says what is maintained: R[n], the
nodes `head_` reaches on level n, decreases with n, is everything on the lowest level, and the
level n pointers of R[n] lead to the next node of R[n] in key order. `PointersOK` says of
all other pointers only that they lead to larger keys if they lead to a node at all, from
which it follows that every walk ends. With both, a search that stays inside nodes stops at
the last node before the key on each level (`WalkToPred`, `DescendIs`), and a lookup is exact
(`HeadHit`). An insertion on a level where its predecessor is not in R[n] leaves R[n] as it
was. A deletion can take levels from `head_`; the levels left keep their towers. The sizes
follow from sums over finite functions (`Extrema`). Steps in which the code reads outside a
node end the claim (`broken`), as in the run. TLC checked the invariant with four keys, three
levels and five operations before it was proved (not to the end: four million states).

### Background and ConcurrentCache
`PoolInv`: queue and workers hold different unfinished tasks (`QueueInv`, `WorkerInv`), every
accepted task is somewhere (`CoverInv`), a worker returns only from an empty queue of a
stopping pool (`StopInv`), counters count (`CountInv`). `StopInv` gives the claim about the
destructor: a queue that a worker found empty after `stop_` stays empty, as nothing is
accepted any more, not even from a task that still runs. `WriterInv` and `PushInv` keep
answered, current and queued requests one sequence without repetition; `BatchInv` says that a
commit has written what is before its position.

`PartsInv` is `MapMatchesList` with the types of a part; `ThreadInv` says that a thread
between two holds of the mutex still has its key. `SketchInv` bounds every counter of a key,
not only the least, from below by its uses: the least alone is not inductive. `Estimate`
reads two counters at once, which only raises it.

### Only model-checked
Liveness, fairness and `ENABLED` are outside what the prover can do (`ElectionEnds`,
`CloseEnds`, `CallReturns`, `PoolServes`, `WritesAnswered`, `StopReturns`). Every safety
property of a run is stated by a theorem; where the theorem has a condition the run is an
instance that satisfies it, with one exception: `ReadsCommited` is proved for raft.cfgs that list
the whole cluster, and the run checks it where they list the other nodes only. The
operators with loops (`Walk`, `Descend`, `Scan`, `Bisect`, `SearchLevel`, `EvictIfNeeded`, the
sums) are recursive functions; what they compute is proved by an induction over sets
(`CountingUp` of `Extrema`), as the induction theorems of the library cannot be instantiated.

## 5. Where the code departs from its documentation

Shown by the instances to be run by hand (section 3):
- `MCElection_twoleaders`: with `term_` = 1 and `voted_` set, `Vote` for term 1 passes
  `raft/pod.hpp:246`, the node's own `++term_` (`:383`, no mutex) makes the tests at 250, 253
  and 256 fail, and the vote is granted a second time: two nodes can lead one term.
  `learn_docs/09-raft-protocol.md:10`: "选出一个 Leader 处理客户端请求".
- `MCPod_ack`: after a lost answer the retried entry is refused, `nextindex_` falls
  below zero, and as `size_t` it passes every index (`raft/pod.hpp:362`).
  `learn_docs/13-module-relationship.md:99`: "多数派确认后提交".
- `MCPod_complete`: `Vote` compares logs only within one term (`raft/pod.hpp:250`).
  `learn_docs/09-raft-protocol.md:326`: a commited entry is in the logs of all later leaders.
- `MCPod_putreturns`: `InnerPut` waits for `nextindex_ > index`, so the last write is
  acknowledged only after another one (`raft/pod.hpp:362`), against
  `learn_docs/09-raft-protocol.md:245`.
- `MCManifest_cascade`: every round of a compaction writes to the same id
  (`lsm/manifest.hpp:487`), against "保留最新版本" (`lsm/manifest.hpp:26`).
- `MCDB_gap`: a table leaves `inmemtables_` before the manifest has it (`db.hpp:135`),
  against the order in `learn_docs/03-memtable.md:146`. A `Get` that began before the erase
  may miss it too, as the erase does not wait for `memtable_lock_`.
- `MCClient_late`: a request whose deadline passed may be handled after `Put` has
  returned, and after later writes.
- `MCSST_packed`: the compressing constructors write a block that `DataBlockIndex::Load`
  cannot read, and past the space they reserved (`lsm/sst.hpp:867`, `:926`); `DB::ToSST`
  calls one of them for every flush (`db.hpp:145`).
- `MCBatch_broken`: the insertion loop of the skip list starts at the height the head has
  *after* it grew and uses levels the node in hand may not have (`lsm/skiplist.hpp:259`).
- `MCBatch_half`: an allocation that fails in the middle of a commit leaves the operations
  before it applied. `lsm/batch_commit.hpp:7`: "原子性提交（全部成功或全部失败）".
- `MCBackground_stop`: `running_` is cleared without the mutex, so the destructor's
  notification can fall between predicate and wait (`lsm/async_sst_writer.cpp:19`).
- `MCBackground_flush`: `Flush` waits for an empty queue, not for the write in progress;
  `lsm/async_sst_writer.hpp:108`: "等待所有挂起的写入完成".
- `MCConcurrentCache_assign`: move assignment calls `stop()` and never clears `stop_`, so
  the new refresh thread ends at once and counts are no longer halved
  (`cache/concurrent_cache.hpp:342`).

Seen while modelling, without a run of their own:
- `SolveAppend` with an entry request (term 0) on a node of term 0 may overwrite the
  `++term_` of an election that begins (`raft/pod.hpp:326-327`): the term is 0 again.
- `inmemtables_` is appended to under `memtable_lock_` and erased from under
  `to_sst_mutex_` (`db.hpp:97`, `:135`): a table may be lost or flushed twice.
- `Manifest::Save` writes the mapped file in place (`lsm/manifest.hpp:258-275`): a process
  killed meanwhile leaves a file that mixes two manifests.
- `RequestVote` does not set `voted_` (`learn_docs/09-raft-protocol.md:111` shows
  it): where raft.cfg lists only the other nodes, two candidates can elect each other.
- Where raft.cfg lists the node itself, two of three votes do not win
  (`raft/pod.hpp:418`), so one stopped node stops elections.
- A deposed leader finishes its round of heartbeats with the new term, and the
  receiver takes it for the leader (`raft/pod.hpp:335`).
- A restarted node has forgotten `term_` and `voted_` and may vote again in a term;
  log entries are never on disk, so one killed node can lose an acknowledged write.
- A leader deposed between the check of `Put` and `InnerPut` appends under the new
  term, so logs with equal terms at an index may differ; since entry requests carry
  neither term nor previous entry, nodes may apply different entries.
- The empty key marks "no bound yet" in a compaction (`lsm/manifest.hpp:398`): a level whose
  tables begin with it is merged with too few tables of the next level, and the levels are no
  longer sorted (TLC finds this with the empty key in `Key`).
- A `notify_one` without the mutex may be lost (`db.hpp:100`); the table waits for
  the next rotation or the close.
- A node learns the leader only from a heartbeat of a *higher* term, so a node that voted
  for the leader answers clients with -1 and not with its address (`raft/pod.hpp:325`).
- `Pod::Get` makes a `Base` with code 1 for a missing key and does not attach it: clients
  see success with an empty value (`raft/pod.hpp:314`).
- `DBClient::Get` uses one `ClientContext` for several calls (`db_client.hpp:30`).
- `Commit` says "原子性应用所有操作" but other writers see a batch half applied; a
  `BatchTransaction` never removes its batch from the manager; `BatchWriteOptimizer`
  stores nothing.
- A `Put` of a cached key does not replace its value (`cache/concurrent_cache.hpp:174`).
- `BlockCache::Get` returns a pointer into a block after it has released the lock
  (`lsm/block_cache.hpp:140`); `ResetStats` also clears the sizes the eviction uses (`:258`).
- `ConcurrentRun` from a task of a pool with one worker waits for itself
  (`pool/thread_pool.hpp:118`).
- An entry brings the leader's commit index along (`raft/raft_log.hpp:121`), which may lie
  past the log of a node that is catching up: its apply thread then hands default entries,
  with the empty key, to the database and never the real ones for these indexes.
- A full ring buffer drops entries while the handler answers 0 (`raft/pod.hpp:448`).

## 6. Not modelled

- Read quorum (`lsm/read_quorum.hpp`): no file includes it and it does not compile
  (`CreateSnapshot` assigns to an element of an `unordered_set`).
- `lsm/async_io.hpp`: `IOEngine` is declared and nowhere defined, `IOBufferPool` unused.
- Compression codecs (`utils/compression.hpp`): byte transformations without state that
  only the compressing SST constructors call, which already fail for their layout.
- `CompressedDataBlock`, `CachedDataBlock` (`lsm/sst.hpp`), `BatchWriteOptimizer`,
  `lsm/skiplist_simple.hpp`: unused.
- `Put(const T&)`, `Put(T&&)` and the bucket wrappers of the LRU caches: the wrappers pick
  one of several caches by hash.
- RW lock, option parsing, daemon, logging: wrappers and I/O without protocol state.
- A kill within `Manifest::Save`, and what a lookup makes of a compressed table in `DB`: both
  leave bytes that have no meaning to state a property about (section 5).
- The pointer `BlockCache::Get` returns, and the data races on `list_` in
  `ConcurrentLRUCache::Peek`: memory after its owner released it has no state to model.

## 7. Plan

1. Built: the cluster (`Election`, `RaftLog`, `Pod`, `Client`), the database (`Store`,
   `DB`, `Manifest`, `SST`, `BlockCache`, `SkipList`, `Batch`), the background components
   (`ThreadPool`, `AsyncWriter`, `Background`) and `ConcurrentCache`. Proved: section 4.
2. Model: `SolveAppend` split at the two locks of `UpdateRaftLog`; two client processes
   writing at the same time; a key in `ConcurrentCache` with more than one value.
3. Proofs: `CommitedOnMajority` and `ReadsCommited` where raft.cfg lists the other nodes only;
   a condition on the levels drawn under which the skip list is never `broken`.
