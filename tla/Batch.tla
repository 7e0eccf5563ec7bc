-------------------------------- MODULE Batch -------------------------------
(***************************************************************************)
(* Batches written to a memtable (lsm/batch_commit.hpp, lsm/memtable.hpp)  *)
(* beside single writes (DB::Put).  A thread collects operations in a      *)
(* BatchTransaction; Commit applies them one by one, each under the lock   *)
(* of the skip list and none under a lock of the batch, so other threads'  *)
(* writes come in between.  An exception in the middle (new Node failing)  *)
(* leaves the skip list locked for ever.                                   *)
(***************************************************************************)
EXTENDS SkipList

CONSTANTS
    Thread,     \* threads with a transaction
    MaxLevel,   \* bound: level of a node, RandLevel has none
    MaxOp,      \* bound: operations, single or in a batch
    MaxBatch,   \* bound: batches
    MaxThrow    \* bound: failed allocations

ASSUME BatchAssumption == {MaxLevel, MaxOp, MaxBatch, MaxThrow} \subseteq Nat

VARIABLES
    list,       \* the skip list of the memtable
    stuck,      \* its spin lock was not released
    txn,        \* txn[t]: the transaction of thread t
    batches,    \* ids in the BatchCommitManager
    ops, made, throws,
    map,        \* history: the map the applied operations make
    applied     \* history: the operations applied of the batch of t

vars == <<list, stuck, txn, batches, ops, made, throws, map, applied>>

Op == [type : {"put"}, key : Key, value : Value] \cup [type : {"delete"}, key : Key]

\* next: how many entries Commit has applied; committed: committed_; managed: the
\* commit runs in CommitBatch.
Txn == [id : 0..MaxBatch, status : {"idle", "active", "committing", "rolledback"},
        entries : Seq(Op), next : 0..MaxOp, committed : BOOLEAN, managed : BOOLEAN]

NoTxn == [id |-> 0, status |-> "idle", entries |-> <<>>, next |-> 0,
          committed |-> FALSE, managed |-> FALSE]

Init ==
    /\ list = EmptyList /\ stuck = FALSE
    /\ txn = [t \in Thread |-> NoTxn]
    /\ batches = {}
    /\ ops = 0 /\ made = 0 /\ throws = 0
    /\ map = [k \in Key |-> NotFound]
    /\ applied = [t \in Thread |-> <<>>]

(***************************************************************************)
(* The memtable.  Nothing is asked of a broken list, and nobody gets past  *)
(* a lock that is not released.                                            *)
(***************************************************************************)
Usable == ~ stuck /\ ~ list.broken

ApplyPut(k, v) ==
    /\ \E level \in 1..MaxLevel : list' = Put(list, k, v, level)
    /\ map' = [map EXCEPT ![k] = v]

ApplyDelete(k) ==
    /\ list' = Delete(list, k)
    /\ map' = [map EXCEPT ![k] = NotFound]

Apply(op) == IF op.type = "put" THEN ApplyPut(op.key, op.value) ELSE ApplyDelete(op.key)

\* DB::Put.
SinglePut(k, v) ==
    /\ Usable /\ ops < MaxOp
    /\ ops' = ops + 1
    /\ ApplyPut(k, v)
    /\ UNCHANGED <<stuck, txn, batches, made, throws, applied>>

(***************************************************************************)
(* BatchTransaction.                                                       *)
(***************************************************************************)
Open(t) == txn[t].id # 0

\* CreateBatch, GetBatch and Begin.
Begin(t) ==
    /\ ~ Open(t) /\ made < MaxBatch
    /\ made' = made + 1
    /\ batches' = batches \cup {made'}
    /\ txn' = [txn EXCEPT ![t] = [NoTxn EXCEPT !.id = made', !.status = "active"]]
    /\ applied' = [applied EXCEPT ![t] = <<>>]
    /\ UNCHANGED <<list, stuck, ops, throws, map>>

\* BatchPut and BatchDelete do nothing unless the batch is active.
Collect(t, op) ==
    /\ Open(t) /\ txn[t].status = "active" /\ ops < MaxOp
    /\ ops' = ops + 1
    /\ txn' = [txn EXCEPT ![t].entries = Append(@, op)]
    /\ UNCHANGED <<list, stuck, batches, made, throws, map, applied>>

\* Mutant: any batch that is not being committed can be committed.
CanCommit_Again(t) == Open(t) /\ txn[t].status # "committing" /\ txn[t].entries # <<>>

\* Commit returns false unless the batch is active.
CanCommit(t) == Open(t) /\ txn[t].status = "active"

\* Commit of the transaction, or CommitBatch of the manager.
CommitBegin(t, managed) ==
    /\ CanCommit(t)
    /\ txn' = [txn EXCEPT ![t].status = "committing", ![t].next = 0, ![t].managed = managed]
    /\ UNCHANGED <<list, stuck, batches, ops, made, throws, map, applied>>

CommitStep(t) ==
    /\ Usable
    /\ txn[t].status = "committing" /\ txn[t].next < Len(txn[t].entries)
    /\ Apply(txn[t].entries[txn[t].next + 1])
    /\ txn' = [txn EXCEPT ![t].next = @ + 1]
    /\ applied' = [applied EXCEPT ![t] = Append(@, txn[t].entries[txn[t].next + 1])]
    /\ UNCHANGED <<stuck, batches, ops, made, throws>>

\* The manager forgets a batch whose commit ended, the transaction does not.
Forget(t) == IF txn[t].managed THEN batches \ {txn[t].id} ELSE batches

\* committed_ is set by the transaction's own Commit only.
Finished(x) == [x EXCEPT !.status = "idle", !.committed = ~ x.managed]

CommitEnd(t) ==
    /\ txn[t].status = "committing" /\ txn[t].next = Len(txn[t].entries)
    /\ txn' = [txn EXCEPT ![t] = Finished(@)]
    /\ batches' = Forget(t)
    /\ UNCHANGED <<list, stuck, ops, made, throws, map, applied>>

\* The allocation of a new node throws: before the list changes, with its lock held.
CommitThrow(t) ==
    /\ Usable /\ throws < MaxThrow
    /\ txn[t].status = "committing" /\ txn[t].next < Len(txn[t].entries)
    /\ LET op == txn[t].entries[txn[t].next + 1] IN op.type = "put" /\ map[op.key] = NotFound
    /\ throws' = throws + 1
    /\ stuck' = TRUE
    /\ txn' = [txn EXCEPT ![t].status = "rolledback"]
    /\ batches' = Forget(t)
    /\ UNCHANGED <<list, ops, made, map, applied>>

\* BatchCommit::Rollback.
RolledBack(x) ==
    IF x.status = "active" THEN [x EXCEPT !.status = "rolledback", !.entries = <<>>] ELSE x

Rollback(t) ==
    /\ Open(t) /\ txn[t].status # "committing" /\ ~ txn[t].committed
    /\ txn' = [txn EXCEPT ![t] = RolledBack(@)]
    /\ UNCHANGED <<list, stuck, batches, ops, made, throws, map, applied>>

\* The destructor rolls back a transaction that was not committed.  Its batch stays in
\* the manager, out of everybody's reach.
End(t) ==
    /\ Open(t) /\ txn[t].status # "committing"
    /\ txn' = [txn EXCEPT ![t] = NoTxn]
    /\ applied' = [applied EXCEPT ![t] = <<>>]
    /\ UNCHANGED <<list, stuck, batches, ops, made, throws, map>>

Next ==
    \/ \E k \in Key, v \in Value : SinglePut(k, v)
    \/ \E t \in Thread :
          \/ Begin(t) \/ Rollback(t) \/ End(t)
          \/ \E op \in Op : Collect(t, op)
          \/ \E managed \in BOOLEAN : CommitBegin(t, managed)
          \/ CommitStep(t) \/ CommitEnd(t) \/ CommitThrow(t)

Spec == Init /\ [][Next]_vars

-----------------------------------------------------------------------------
(***************************************************************************)
(* As long as no operation has read outside a node, the list is the map    *)
(* that the applied operations make: lookups through the levels find every *)
(* key with its last value and no deleted one, iteration is in key order,  *)
(* and the sizes that decide when the memtable is full are exact.          *)
(***************************************************************************)
ListIsMap ==
    ~ list.broken =>
        LET present == {k \in Key : map[k] # NotFound} IN
        /\ Range(Scan(list)) = present
        /\ \A i, j \in DOMAIN Scan(list) : i < j => Scan(list)[i] < Scan(list)[j]
        /\ \A k \in Key : Get(list, k) = map[k]
        /\ list.size = Cardinality(present)
        /\ list.bytes = SumFunction([k \in present |-> KeySize[k] + ValueSize[map[k]]])

(***************************************************************************)
(* What the end of a commit says is true, through other threads' writes,   *)
(* failed allocations and repeated calls: of a batch whose Commit returned *)
(* true every entry was applied, once and in order; of one that was rolled *)
(* back nothing was applied, or a part that no Get can return, as the list *)
(* stays locked; and a commit that waits for the lock has applied a part   *)
(* in order, without gaps or repetitions.                                  *)
(***************************************************************************)
FirstEntries(t, n) == SubSeq(txn[t].entries, 1, n)

CommitTellsTruth ==
    \A t \in Thread : Open(t) =>
        \/ txn[t].status = "active" /\ applied[t] = <<>>
        \/ txn[t].status = "committing" /\ applied[t] = FirstEntries(t, txn[t].next)
        \/ txn[t].status = "idle" /\ applied[t] = txn[t].entries
        \/ txn[t].status = "rolledback" /\ applied[t] = <<>>
        \/ /\ txn[t].status = "rolledback" /\ stuck
           /\ \E n \in 1..Len(txn[t].entries) - 1 : applied[t] = FirstEntries(t, n)

(***************************************************************************)
(* What batch_commit.hpp promises in its first lines: a commit applies     *)
(* everything or nothing.  A throw half way through breaks it.             *)
(***************************************************************************)
BatchAllOrNothing ==
    \A t \in Thread : Open(t) /\ txn[t].status # "committing" =>
        applied[t] \in {<<>>, txn[t].entries}

(***************************************************************************)
(* No operation reads outside a node or follows a pointer to a node that   *)
(* was deleted.                                                            *)
(***************************************************************************)
NeverBroken == ~ list.broken
=============================================================================
