------------------------------ MODULE Manifest ------------------------------
(***************************************************************************)
(* The levels of SST files of one database (lsm/manifest.hpp) with what    *)
(* DB::ToSST does to them under manifest_lock_ (db.hpp): a new manifest is *)
(* made from the current one, the flushed table is put on Level 0, levels  *)
(* that grew too large are compacted into the next, and the new manifest   *)
(* is published.  The manifest file is written by the destructor of DB and *)
(* read by its constructor; a killed process leaves its SST files behind.  *)
(*                                                                         *)
(* An SST object is a view of its file (mmap), so an SST is represented by *)
(* its id and its contents are those of file[id].  Its contents are a      *)
(* function from keys to values; blocks, bloom filter and binary search    *)
(* inside the file are not modelled.  Every flush writes a value of its    *)
(* own, the number of the flush, for each of its keys.                     *)
(*                                                                         *)
(* Two things are assumed.  A file that was written can be read back: so   *)
(* it is with the constructors SST(entries, id), which compaction uses,    *)
(* and SST(memtable, id), but not with the compressing one that DB::ToSST  *)
(* calls, whose blocks are read as if they were plain (module SST).  And   *)
(* Save, which writes the manifest file in place, is not cut short by a    *)
(* kill: one that is leaves a file that mixes two manifests.               *)
(***************************************************************************)
EXTENDS Integers, FiniteSets, FiniteSetsExt, Sequences, SequencesExt

CONSTANTS
    Key,        \* keys in their order; EmptyKey, the least, is the string ""
    LevelMax,   \* LevelMax[n]: entries Level n - 1 may hold, its threshold
    MaxFlush,   \* bound: number of flushes
    MaxKill     \* bound: number of kills

EmptyKey == 0
Scrambled == -1   \* what is read from a file that was written while it was read
NoValue == 0      \* the key is in no table

ASSUME KeyAssumption == Key \subseteq Nat /\ IsFiniteSet(Key) /\ Key # {}
ASSUME LevelAssumption == LevelMax \in Seq(Nat) /\ Len(LevelMax) > 0
ASSUME FlushAssumption == MaxFlush \in Nat /\ MaxKill \in Nat

VARIABLES
    levels,     \* manifest_queue_.back(): levels[n] lists the SSTs of Level n - 1
    draft,      \* the manifest ToSST is working on
    at,         \* 0: manifest_lock_ is free; n: Level n - 1 is next to be compacted
    sst_id,     \* sst_id_ of DB
    file,       \* contents of the SST files by id
    disk,       \* the levels in the manifest file
    flushes,    \* number of flushes so far
    kills,      \* number of kills so far
    newest,     \* history: the last value flushed for each key
    saved       \* history: newest at the time the manifest file was written

vars == <<levels, draft, at, sst_id, file, disk, flushes, kills, newest, saved>>

MaxId == 2 * MaxFlush   \* every flush uses at most two ids
Tables == UNION {[S -> Int] : S \in SUBSET Key}
Levels == Seq(Seq(1..MaxId))

\* The variables have the types the code gives them.
ManifestTypeOK ==
    /\ levels \in Levels /\ draft \in Levels /\ disk \in Levels
    /\ Len(levels) > 0 /\ Len(levels) <= Len(LevelMax) + 1
    /\ at \in 0..Len(LevelMax) + 1
    /\ sst_id \in 0..MaxId
    /\ \A id \in 1..MaxId : DOMAIN file[id] \subseteq Key
    /\ newest \in [Key -> Nat] /\ saved \in [Key -> Nat]

-----------------------------------------------------------------------------
(***************************************************************************)
(* SST and Level.                                                          *)
(***************************************************************************)
BeginKey(f, id) == Min(DOMAIN f[id])
EndKey(f, id) == Max(DOMAIN f[id])
Ids(lv) == UNION {Range(lv[n]) : n \in DOMAIN lv}

\* Level::binary_size(), counting entries.
LevelSize(f, level) == SumFunction([i \in DOMAIN level |-> Cardinality(DOMAIN f[level[i]])])

\* Level 0: the newest table that has the key.
GetLevel0(f, level, k) ==
    LET hits == {i \in DOMAIN level : k \in DOMAIN f[level[i]]} IN
    IF hits = {} THEN NoValue ELSE f[level[Max(hits)]][k]

\* Other levels: binary search for the last table that begins at or before k, in the
\* sequence of the tables' begins, which is right if the tables are in order.
SearchLevel(begins, k) ==
    LET n == Len(begins)
        search[p \in (0..n) \X (0..n)] ==
            LET l == p[1]
                r == p[2]
                mid == (l + r) \div 2
            IN  IF l >= r THEN l
                ELSE IF begins[mid + 1] > k THEN search[<<l, mid>>] ELSE search[<<mid + 1, r>>]
    IN  search[<<0, n>>]

GetLevelN(f, level, k) ==
    LET found == SearchLevel([i \in 1..Len(level) |-> BeginKey(f, level[i])], k) IN
    IF found > 0 /\ k \in DOMAIN f[level[found]] THEN f[level[found]][k] ELSE NoValue

GetLevel(f, lv, n, k) == IF n = 1 THEN GetLevel0(f, lv[1], k) ELSE GetLevelN(f, lv[n], k)

\* Manifest::Get: the first level that has the key.
Get(f, lv, k) ==
    LET hits == {n \in DOMAIN lv : GetLevel(f, lv, n, k) # NoValue} IN
    IF hits = {} THEN NoValue ELSE GetLevel(f, lv, Min(hits), k)

-----------------------------------------------------------------------------
(***************************************************************************)
(* SizeTieredCompaction(level, id), for level = n - 1.                     *)
(***************************************************************************)
NewestFirst(lv, n) == Reverse(lv[n])
NextLevel(lv, n) == IF n < Len(lv) THEN lv[n + 1] ELSE <<>>

\* Mutant: the bound is the least key of the newest table alone.
CompactMinKey_NewestOnly(f, lv, n) == BeginKey(f, NewestFirst(lv, n)[1])

\* min_key starts as an empty string_view, and "empty" also means "not set":
\* a table that begins with the empty key is forgotten by the next one.
CompactMinKey(f, lv, n) ==
    LET tables == NewestFirst(lv, n)
        unset  == {i \in DOMAIN tables : BeginKey(f, tables[i]) = EmptyKey}
        since  == IF unset = {} THEN 1 ELSE Max(unset) + 1
    IN  IF since > Len(tables) THEN EmptyKey
        ELSE Min({BeginKey(f, tables[i]) : i \in since..Len(tables)})

CompactMaxKey(f, lv, n) == Max({EndKey(f, id) : id \in Range(lv[n])})

\* Position of the first table of the next level behind max_key (insert_r) and
\* of the last one visited before min_key (insert_l).
InsertRight(f, lv, n) ==
    LET next == NextLevel(lv, n) IN
    Min({Len(next) + 1} \cup {i \in DOMAIN next : /\ EndKey(f, next[i]) >= CompactMinKey(f, lv, n)
                                                  /\ BeginKey(f, next[i]) > CompactMaxKey(f, lv, n)})

Before(f, lv, n) ==
    {i \in 1..InsertRight(f, lv, n) - 1 : EndKey(f, NextLevel(lv, n)[i]) < CompactMinKey(f, lv, n)}

InsertLeft(f, lv, n) == Max({0} \cup Before(f, lv, n))

Overlapping(f, lv, n) == (1..InsertRight(f, lv, n) - 1) \ Before(f, lv, n)

\* The numbers the merged tables get: those of the level come first, then those of the
\* next level in its order.  Only the order of the numbers matters; they leave gaps here.
SourceNumbers(f, lv, n) ==
    1..Len(lv[n]) \cup {Len(lv[n]) + i : i \in Overlapping(f, lv, n)}

\* Mutant: the oldest table comes first.
MergeSources_OldestFirst(f, lv, n) ==
    [v \in SourceNumbers(f, lv, n) |->
        IF v <= Len(lv[n]) THEN lv[n][v] ELSE NextLevel(lv, n)[v - Len(lv[n])]]

\* The tables that are merged; of two with the same key the one with the smaller
\* number wins.
MergeSources(f, lv, n) ==
    [v \in SourceNumbers(f, lv, n) |->
        IF v <= Len(lv[n]) THEN NewestFirst(lv, n)[v] ELSE NextLevel(lv, n)[v - Len(lv[n])]]

Merged(f, sources) ==
    [k \in UNION {DOMAIN f[id] : id \in Range(sources)} |->
        f[sources[Min({i \in DOMAIN sources : k \in DOMAIN f[sources[i]]})]][k]]

\* The new table is written to the file of its id while the merged entries are
\* still views of the sources' files.  If it is one of them, and other entries
\* move its own to other places, they may be overwritten before they are copied.
NewTable(f, sources, id) ==
    LET table == Merged(f, sources) IN
    IF id \in Range(sources) /\ table # f[id]
    THEN {table, [k \in DOMAIN table |-> Scrambled]}
    ELSE {table}

\* The current level is emptied; the new table replaces the merged ones.
Compacted(f, lv, n, id) ==
    LET next == NextLevel(lv, n)
        left == SubSeq(next, 1, InsertLeft(f, lv, n))
        right == SubSeq(next, InsertRight(f, lv, n), Len(next))
    IN  [i \in 1..Max({Len(lv), n + 1}) |->
            IF i = n THEN <<>> ELSE IF i = n + 1 THEN left \o <<id>> \o right ELSE lv[i]]

-----------------------------------------------------------------------------
EmptyTable == [k \in {} |-> NoValue]
EmptyManifest == << <<>> >>

Init ==
    /\ levels = EmptyManifest /\ draft = EmptyManifest /\ disk = EmptyManifest
    /\ at = 0
    /\ sst_id = 0
    /\ file = [id \in 1..MaxId |-> EmptyTable]
    /\ flushes = 0 /\ kills = 0
    /\ newest = [k \in Key |-> NoValue]
    /\ saved = newest

TooLarge(f, lv, n) == LevelSize(f, lv[n]) > LevelMax[n]

(***************************************************************************)
(* A table with the keys S enters the manifest: take an id, write the SST, *)
(* lock, copy the manifest and insert (InsertAndUpdate), as ToSST does.    *)
(* The compaction takes an id of its own.  The file is one that can be     *)
(* read back, written by a plain constructor as tests/compaction_test.cpp  *)
(* does, not by the constructor that ToSST calls.                          *)
(***************************************************************************)
Flush(S) ==
    /\ at = 0
    /\ flushes < MaxFlush
    /\ flushes' = flushes + 1
    /\ file' = [file EXCEPT ![sst_id + 1] = [k \in S |-> flushes']]
    /\ newest' = [k \in Key |-> IF k \in S THEN flushes' ELSE newest[k]]
    /\ draft' = [levels EXCEPT ![1] = Append(@, sst_id + 1)]
    /\ IF TooLarge(file', draft', 1)
       THEN /\ at' = 1
            /\ sst_id' = sst_id + 2
            /\ UNCHANGED levels
       ELSE /\ sst_id' = sst_id + 1
            /\ levels' = draft'
            /\ UNCHANGED at
    /\ UNCHANGED <<disk, kills, saved>>

\* The loop of SizeTieredCompaction(id) goes on as long as levels are too large.
LoopGoesOn == at <= Len(draft) /\ at <= Len(LevelMax) /\ TooLarge(file, draft, at)

\* One iteration; all of them write to the same id.
Compact ==
    /\ at > 0
    /\ LoopGoesOn
    /\ \E table \in NewTable(file, MergeSources(file, draft, at), sst_id) :
          file' = [file EXCEPT ![sst_id] = table]
    /\ draft' = Compacted(file, draft, at, sst_id)
    /\ at' = at + 1
    /\ UNCHANGED <<levels, sst_id, disk, flushes, kills, newest, saved>>

\* The new manifest is published and manifest_lock_ released.
Publish ==
    /\ at > 0
    /\ ~ LoopGoesOn
    /\ levels' = draft
    /\ at' = 0
    /\ UNCHANGED <<draft, sst_id, file, disk, flushes, kills, newest, saved>>

\* Mutant: sst_id_ starts at the number of tables.
LoadedId_Count(lv) == Cardinality(Ids(lv))

\* Level::Load finds the largest id in the manifest file.
LoadedId(lv) == Max({0} \cup Ids(lv))

\* ~DB writes the manifest file and DB() reads it; Save is one step (see above).
Reopen ==
    /\ at = 0
    /\ disk' = levels
    /\ draft' = levels
    /\ saved' = newest
    /\ sst_id' = LoadedId(levels)
    /\ UNCHANGED <<levels, at, file, flushes, kills, newest>>

\* The process is killed, even within a compaction, and started again.
Kill ==
    /\ kills < MaxKill
    /\ kills' = kills + 1
    /\ levels' = disk
    /\ draft' = disk
    /\ at' = 0
    /\ sst_id' = LoadedId(disk)
    /\ newest' = saved
    /\ UNCHANGED <<file, disk, flushes, saved>>

Next == (\E S \in (SUBSET Key) \ {{}} : Flush(S)) \/ Compact \/ Publish \/ Reopen \/ Kill

Spec == Init /\ [][Next]_vars

-----------------------------------------------------------------------------
(***************************************************************************)
(* Whenever the manifest can be read, a key has the value flushed last for *)
(* it: level order, newest-first order within Level 0, the merge and the   *)
(* place of the merged table together never hide or lose a newer value.    *)
(***************************************************************************)
ReadsNewest == at = 0 => \A k \in Key : Get(file, levels, k) = newest[k]

(***************************************************************************)
(* The tables of every level but Level 0 have disjoint key ranges and are  *)
(* in key order, as the binary search of Level::Get needs it.              *)
(***************************************************************************)
LevelsSorted ==
    \A n \in 2..Len(levels) : \A i \in 1..Len(levels[n]) - 1 :
        EndKey(file, levels[n][i]) < BeginKey(file, levels[n][i + 1])

(***************************************************************************)
(* What the last clean stop saved can be read back after any number of     *)
(* flushes, compactions and kills since: the files the manifest file names *)
(* are never written again, although ids are handed out anew.              *)
(***************************************************************************)
SavedIntact == \A k \in Key : Get(file, disk, k) = saved[k]

(***************************************************************************)
(* The file of a table that the readable manifest or the manifest file     *)
(* names is never written: readers hold views of it.                       *)
(***************************************************************************)
LiveFilesFixed ==
    [][\A id \in Ids(levels) \cup Ids(disk) : id \in Ids(levels') \cup Ids(disk') =>
          file'[id] = file[id]]_vars
=============================================================================
