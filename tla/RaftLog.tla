------------------------------- MODULE RaftLog -------------------------------
(***************************************************************************)
(* The replicated log of one node (raft/raft_log.hpp over                  *)
(* utils/ring_buffer_queue.hpp) as a value, and its operations as          *)
(* functions from logs to logs.  Each of them runs under lock_.            *)
(*                                                                         *)
(* A log is a record:                                                      *)
(*   start        start_index_, the index the process was started with     *)
(*   queue        the entries start + 1, start + 2, ... of the ring buffer *)
(*   commited     commited_                                                *)
(*   last_append  last_append_, the last index handed to the database      *)
(* index_ is not kept: it is incremented with every push and reduced with  *)
(* every truncation, so it is start plus the length of the queue.          *)
(***************************************************************************)
EXTENDS Integers, Sequences

CONSTANTS
    Value,      \* the client writes, one for each key and value put
    Empty,      \* the write of the empty key: PutTest, and the default Entry
    Garbage,    \* what is read from memory outside the ring buffer
    Capacity,   \* entries the ring buffer holds: its size less one
    SizeMod     \* 2^64 in the program: the range of size_t

ASSUME PayloadAssumption == Empty \notin Value /\ Garbage \notin Value
ASSUME CapacityAssumption == Capacity \in Nat \ {0} /\ SizeMod \in Nat /\ SizeMod > Capacity

Payload == Value \cup {Empty, Garbage}
Entry   == [val : Payload, term : Nat]
Log     == [start : Nat, queue : Seq(Entry), commited : Nat, last_append : Nat]

\* A slot of the ring buffer that was never written.
DefaultEntry == [val |-> Empty, term |-> 0]
WildEntry    == [val |-> Garbage, term |-> 0]

\* The conversion of a signed index to size_t.
SizeT(n) == n % SizeMod

\* RaftLog(db): everything starts at the index saved by the last clean stop.
NewLog(saved) ==
    [start |-> saved, queue |-> <<>>, commited |-> saved, last_append |-> saved]

Index(l) == l.start + Len(l.queue)

\* data_[k] for a queue that was never popped, slot 0 being unused.
Slot(l, k) ==
    IF k \in 1..Len(l.queue) THEN l.queue[k]
    ELSE IF k < 0 THEN WildEntry ELSE DefaultEntry

\* At(index), the entry a sync thread sends.
At(l, index) == Slot(l, index - l.start)

HasRoom(l) == Len(l.queue) < Capacity

\* Put(key, value, term, idx): the leader's own append.
PutLocal(l, entry) ==
    IF HasRoom(l) THEN [l EXCEPT !.queue = Append(@, entry)] ELSE l

\* Put(entry): an entry from the leader brings the leader's commit index along.
PutEntry(l, entry, commited) ==
    IF HasRoom(l)
    THEN [l EXCEPT !.queue = Append(@, entry),
                   !.commited = IF commited > @ THEN commited ELSE @]
    ELSE l

\* Reset(expect_index): drop what lies behind it, as far as there are entries.
Reset(l, expect) ==
    IF Index(l) > expect
    THEN [l EXCEPT !.queue = SubSeq(@, 1, IF expect > l.start THEN expect - l.start ELSE 0)]
    ELSE l

\* UpdateCommit(leader_commit)
UpdateCommit(l, commit) ==
    LET capped == IF Index(l) < commit THEN Index(l) ELSE commit IN
    [l EXCEPT !.commited = IF capped > @ THEN capped ELSE @]

\* Mutant: what is in the log is applied, commited or not.
CanApply_Early(l) == l.last_append < Index(l)

\* The apply thread: the next entry for the database, if there is one.
CanApply(l) == l.last_append < l.commited

NextApplied(l) == Slot(l, l.last_append + 1 - l.start)

\* Mutant: --last_append_.
Applied_Down(l) == [l EXCEPT !.last_append = @ - 1]

Applied(l) == [l EXCEPT !.last_append = @ + 1]
=============================================================================
