--------------------------------- MODULE DB ---------------------------------
(***************************************************************************)
(* The database (db.hpp): the active memtable, the list of full memtables  *)
(* waiting for the flush thread, the flush thread with its condition       *)
(* variable, reads across all of them, and the destructor.                 *)
(*                                                                         *)
(* A table is a function from keys to values, NoValue where it has no      *)
(* entry; puts are numbered and write their number, so a greater value is  *)
(* a newer one.  The manifest is the sequence of the tables inserted into  *)
(* it.  What a lookup in it returns is not modelled here: ToSST writes     *)
(* compressed blocks that SST reads back as plain ones, so nothing is      *)
(* claimed of the value, only whether the table was in the manifest.       *)
(* Lookup and compaction of tables that can be read are the subject of     *)
(* module Manifest.  The program has one writer, the apply thread of       *)
(* RaftLog, and any number of readers, of which one is enough.             *)
(*                                                                         *)
(* inmemtables_ is guarded by memtable_lock_ in Put and Get and by         *)
(* to_sst_mutex_ in the flush thread, so the two do not exclude each       *)
(* other.  An append that overlaps an erase, and a scan during which the   *)
(* vector moves down by one place, are both steps of DbNext.  Outcomes of  *)
(* the race that leave a null pointer behind end the process (Kill).       *)
(***************************************************************************)
EXTENDS Naturals, Sequences, FiniteSets

CONSTANTS
    Key,
    MaxSize,   \* memtable_max_size, in entries
    MaxPut     \* bound: number of puts

ASSUME DbAssumption ==
    IsFiniteSet(Key) /\ MaxSize \in Nat /\ MaxPut \in Nat

VARIABLES
    memtable,     \* memtable_
    inmemtables,  \* inmemtables_
    flushing,     \* the table the flush thread took, until it is in the manifest
    published,    \* the tables inserted into the manifests of manifest_queue_
    flusher,      \* where the flush thread is
    full,         \* Put found the memtable too large and is about to rotate it
    closing,      \* how far ~DB has got
    disk,         \* the tables of the manifest file
    get,          \* the reader
    puts,         \* number of puts so far
    latest,       \* history: the last value this process put for each key
    lost          \* history: the puts whose table an overlapping erase dropped

tableVars == <<memtable, inmemtables, flushing, published>>
historyVars == <<puts, latest, lost>>
dbVars == <<tableVars, flusher, full, closing, disk, get, historyVars>>

NoValue == 0
Table == [Key -> 0..MaxPut]
EmptyTable == [k \in Key |-> NoValue]
Size(t) == Cardinality({k \in Key : t[k] # NoValue})
Values(t) == {t[k] : k \in Key} \ {NoValue}

\* "check": before the predicate; "parking": it was false, still with the mutex;
\* "blocked": in the condition variable; "loop": before inmemtables_.empty();
\* "erasing": front() is read; "writing": in ToSST, without the mutex.
FlusherState == {"check", "parking", "blocked", "loop", "erasing", "writing", "done"}

\* A Get: "scanning" is in the loop over inmemtables_ with memtable_lock_ held,
\* at: the slot its iterator points to; "missed" has left the memtables; the
\* others are how it ended: found in memory, or in the manifest, or nowhere.
\* History: the last put of the key when it began.
GetState == [stage : {"idle", "scanning", "missed", "hit", "manifest", "absent"},
             key : Key, at : Nat, value : 0..MaxPut, since : 0..MaxPut]

\* The state is well typed, and an active memtable past its limit is one that
\* Put is about to rotate.
DbTypeOK ==
    /\ memtable \in Table /\ flushing \in Table /\ latest \in Table
    /\ inmemtables \in Seq(Table) /\ published \in Seq(Table) /\ disk \in Seq(Table)
    /\ flusher \in FlusherState
    /\ full = (Size(memtable) > MaxSize)
    /\ closing \in {"no", "rotated", "stopped"}
    /\ get \in GetState
    /\ puts \in 0..MaxPut
    /\ lost \subseteq 1..MaxPut

DbInit ==
    /\ memtable = EmptyTable /\ inmemtables = <<>> /\ flushing = EmptyTable
    /\ published = <<>> /\ disk = <<>>
    /\ flusher = "check"
    /\ full = FALSE
    /\ closing = "no"
    /\ \E k \in Key : get = [stage |-> "idle", key |-> k, at |-> 0, value |-> NoValue,
                             since |-> NoValue]
    /\ puts = 0
    /\ latest = EmptyTable
    /\ lost = {}

\* notify_one and notify_all: there is only the flush thread to wake.
Notified == IF flusher = "blocked" THEN "check" ELSE flusher

\* Who holds to_sst_mutex_, and who holds memtable_lock_ for reading.
FlusherHasMutex == flusher \in {"parking", "loop", "erasing"}
GetHasLock == get.stage = "scanning"

(***************************************************************************)
(* inmemtables_.emplace_back(table) while the flush thread executes        *)
(* inmemtables_.erase(begin()): of the two, one or both have no effect     *)
(* (the end of the vector is written back by the other, or a reallocation  *)
(* copies what is being moved).                                            *)
(***************************************************************************)
AppendMeetsErase(table) ==
    /\ flusher = "erasing"
    /\ flusher' = "writing"
    /\ \/ /\ inmemtables' = Append(inmemtables, table)
          /\ UNCHANGED lost
       \/ /\ inmemtables' \in {inmemtables, Tail(inmemtables)}
          /\ lost' = lost \cup Values(table)

(***************************************************************************)
(* Put.                                                                    *)
(***************************************************************************)
Put(k) ==
    /\ closing = "no" /\ ~ full
    /\ puts < MaxPut
    /\ puts' = puts + 1
    /\ memtable' = [memtable EXCEPT ![k] = puts']
    /\ latest' = [latest EXCEPT ![k] = puts']
    /\ full' = (Size(memtable') > MaxSize)
    /\ UNCHANGED <<inmemtables, flushing, published, flusher, closing, disk, get, lost>>

\* The flush thread is notified without its mutex.
Rotate ==
    /\ full /\ ~ GetHasLock
    /\ \/ inmemtables' = Append(inmemtables, memtable) /\ flusher' = Notified /\ UNCHANGED lost
       \/ AppendMeetsErase(memtable)
    /\ memtable' = EmptyTable
    /\ full' = FALSE
    /\ UNCHANGED <<flushing, published, closing, disk, get, puts, latest>>

(***************************************************************************)
(* ToSSTLoop.                                                              *)
(***************************************************************************)
FlusherTo(state) ==
    /\ flusher' = state
    /\ UNCHANGED <<memtable, full, closing, disk, get, historyVars>>

FlusherCheck ==
    /\ flusher = "check"
    /\ FlusherTo(IF inmemtables # <<>> THEN "loop"
                 ELSE IF closing = "stopped" THEN "done" ELSE "parking")
    /\ UNCHANGED <<inmemtables, flushing, published>>

FlusherPark ==
    /\ flusher = "parking"
    /\ FlusherTo("blocked")
    /\ UNCHANGED <<inmemtables, flushing, published>>

FlusherFront ==
    /\ flusher = "loop" /\ inmemtables # <<>>
    /\ flushing' = Head(inmemtables)
    /\ FlusherTo("erasing")
    /\ UNCHANGED <<inmemtables, published>>

FlusherErase ==
    /\ flusher = "erasing"
    /\ inmemtables' = Tail(inmemtables)
    /\ FlusherTo("writing")
    /\ UNCHANGED <<flushing, published>>

\* ToSST writes the file and publishes a manifest with the table in front.
ToSST ==
    /\ flusher = "writing"
    /\ published' = Append(published, flushing)
    /\ flushing' = EmptyTable
    /\ FlusherTo("loop")
    /\ UNCHANGED inmemtables

FlusherLoopEnd ==
    /\ flusher = "loop" /\ inmemtables = <<>>
    /\ FlusherTo("check")
    /\ UNCHANGED <<inmemtables, flushing, published>>

(***************************************************************************)
(* Get: the memtables under memtable_lock_, newest first, then the         *)
(* manifest under manifest_lock_.                                          *)
(***************************************************************************)
GetTo(stage, at, value) ==
    /\ get' = [get EXCEPT !.stage = stage, !.at = at, !.value = value]
    /\ UNCHANGED <<tableVars, flusher, full, closing, disk, historyVars>>

GetMemory(k) ==
    /\ closing = "no"
    /\ get.stage \notin {"scanning", "missed"}
    /\ get' = [stage |-> IF memtable[k] = NoValue THEN "scanning" ELSE "hit",
               key |-> k, at |-> Len(inmemtables), value |-> memtable[k], since |-> latest[k]]
    /\ UNCHANGED <<tableVars, flusher, full, closing, disk, historyVars>>

\* Mutant: the loop runs from begin() to end().
GetScan_OldestFirst ==
    /\ get.stage = "scanning" /\ get.at > 0
    /\ LET i == Len(inmemtables) + 1 - get.at
           v == IF i \in DOMAIN inmemtables THEN inmemtables[i][get.key] ELSE NoValue IN
       IF v = NoValue THEN GetTo("scanning", get.at - 1, NoValue) ELSE GetTo("hit", get.at, v)

\* One table of the list.  An erase meanwhile moves the tables down by one slot,
\* so the iterator meets a table twice rather than missing one; what it finds in
\* a slot past the end is the only table of the list, already taken, or nothing.
GetScan ==
    /\ get.stage = "scanning" /\ get.at > 0
    /\ \E v \in IF get.at <= Len(inmemtables) THEN {inmemtables[get.at][get.key]}
                ELSE {NoValue} \cup (IF inmemtables = <<>> THEN {flushing[get.key]} ELSE {}) :
          IF v = NoValue THEN GetTo("scanning", get.at - 1, NoValue) ELSE GetTo("hit", get.at, v)

GetUnlock ==
    /\ get.stage = "scanning" /\ get.at = 0
    /\ GetTo("missed", 0, NoValue)

InManifest(k, v) == \E i \in DOMAIN published : published[i][k] = v

GetManifest ==
    /\ get.stage = "missed"
    /\ GetTo(IF InManifest(get.key, get.since) THEN "manifest" ELSE "absent", 0, NoValue)

(***************************************************************************)
(* ~DB, after the last Put and Get, and the DB() of the next start.        *)
(***************************************************************************)
\* Mutant: the active table is forgotten.
CloseRotate_Forgotten ==
    /\ closing = "no" /\ ~ full /\ get.stage \notin {"scanning", "missed"}
    /\ closing' = "rotated"
    /\ UNCHANGED <<tableVars, flusher, full, disk, get, historyVars>>

CloseRotate ==
    /\ closing = "no" /\ ~ full /\ get.stage \notin {"scanning", "missed"}
    /\ closing' = "rotated"
    /\ \/ Size(memtable) = 0 /\ UNCHANGED <<inmemtables, flusher, lost>>
       \/ Size(memtable) > 0 /\ inmemtables' = Append(inmemtables, memtable)
                             /\ UNCHANGED <<flusher, lost>>
       \/ Size(memtable) > 0 /\ AppendMeetsErase(memtable)
    /\ UNCHANGED <<memtable, flushing, published, full, disk, get, puts, latest>>

\* Mutant: the flush thread is not notified.
CloseStop_Silent ==
    /\ closing = "rotated" /\ ~ FlusherHasMutex
    /\ closing' = "stopped"
    /\ UNCHANGED <<tableVars, flusher, full, disk, get, historyVars>>

CloseStop ==
    /\ closing = "rotated" /\ ~ FlusherHasMutex
    /\ closing' = "stopped"
    /\ flusher' = Notified
    /\ UNCHANGED <<tableVars, full, disk, get, historyVars>>

\* A process starts with the tables of the manifest file.
StartFrom(saved) ==
    /\ memtable' = EmptyTable /\ inmemtables' = <<>> /\ flushing' = EmptyTable
    /\ published' = saved
    /\ flusher' = "check"
    /\ full' = FALSE
    /\ closing' = "no"
    /\ get' = [get EXCEPT !.stage = "idle", !.at = 0]
    /\ latest' = EmptyTable /\ lost' = {}
    /\ UNCHANGED puts

\* The flush thread has ended: the manifest is saved.
CloseSave ==
    /\ closing = "stopped" /\ flusher = "done"
    /\ disk' = published
    /\ StartFrom(published)

Kill ==
    /\ StartFrom(disk)
    /\ UNCHANGED disk

-----------------------------------------------------------------------------
Flusher == FlusherCheck \/ FlusherPark \/ FlusherFront \/ FlusherErase \/ ToSST \/ FlusherLoopEnd

Get == (\E k \in Key : GetMemory(k)) \/ GetScan \/ GetUnlock \/ GetManifest

Close == CloseRotate \/ CloseStop \/ CloseSave

DbNext ==
    \/ \E k \in Key : Put(k)
    \/ Rotate
    \/ Flusher
    \/ Get
    \/ Close
    \/ Kill

DbSpec == DbInit /\ [][DbNext]_dbVars

(***************************************************************************)
(* Fairness: the flush thread runs when it can, and a destructor that has  *)
(* begun goes on.                                                          *)
(***************************************************************************)
FairDbSpec == DbSpec /\ WF_dbVars(Flusher) /\ WF_dbVars(CloseStop) /\ WF_dbVars(CloseSave)

-----------------------------------------------------------------------------
(***************************************************************************)
(* The full tables on their way to the manifest: the one in the hands of   *)
(* the flush thread comes first.  ~DB leaves the table it put on the list  *)
(* in memtable_ as well.                                                   *)
(***************************************************************************)
Pending == IF flusher = "writing" THEN <<flushing>> \o inmemtables ELSE inmemtables
Active  == IF closing = "no" THEN memtable ELSE EmptyTable

(***************************************************************************)
(* The database keeps the promise of module Store: every full table is     *)
(* inserted into the manifest, in order, though it may be on the list, in  *)
(* the hands of the flush thread or still the active one when the          *)
(* destructor begins; the manifest is saved only when it has them all; a   *)
(* kill returns to the last close; and a table is lost or inserted twice   *)
(* only where an append to the list overlaps an erase.                     *)
(***************************************************************************)
Tables == INSTANCE Store WITH active <- Active, pending <- Pending, durable <- disk
ImplementsStore == Tables!StoreSpec

(***************************************************************************)
(* A Get that finds its key in memory finds the last put that was complete *)
(* when it began, or a later one, though the list moves under its          *)
(* iterator; and it goes on to the manifest only if that put is in the     *)
(* manifest or in the hands of the flush thread.  The puts of a table that *)
(* an overlapping erase dropped are excepted, each by name.                *)
(***************************************************************************)
ReadsLatest ==
    get.since \notin lost \cup {NoValue} =>
        /\ get.stage = "hit" => get.value >= get.since
        /\ get.stage \in {"missed", "absent"} =>
              flushing[get.key] = get.since \/ InManifest(get.key, get.since)

(***************************************************************************)
(* A Get misses no put that was complete when it began.                    *)
(***************************************************************************)
ReadsAlwaysLatest == get.stage = "absent" => get.since = NoValue

(***************************************************************************)
(* Closing the database ends: the flush thread gets the stop signal even   *)
(* if it is about to wait, or busy, when the destructor sends it.          *)
(***************************************************************************)
CloseEnds == closing # "no" ~> closing = "no"
=============================================================================
