-------------------------------- MODULE SST ---------------------------------
(***************************************************************************)
(* SST files (lsm/sst.hpp) with their bloom filters                        *)
(* (utils/bloom_filter.hpp), and the block cache their blocks go into      *)
(* (lsm/block_cache.hpp, CacheGuard included).                             *)
(*                                                                         *)
(* A file is its size and the set of fields <<offset, bytes, data>> that   *)
(* were written; keys, values and numbers are data, lengths and offsets    *)
(* are computed as the code computes them.  A table object is what Load    *)
(* found in the file.  A file is opened without O_TRUNC, so one written    *)
(* over an older one keeps the older one's end: ids are handed out again   *)
(* after a process was killed.                                             *)
(***************************************************************************)
EXTENDS BlockCache

CONSTANTS
    Key,        \* the keys, in their order
    KeySize,    \* KeySize[k]: length of key k in bytes
    Value,
    ValueSize,
    Contents,   \* what tables are written from: functions from some keys to values
    Id,         \* SST ids
    Hashes,     \* functions from keys to the bits that the seeds of a filter give them
    PackedBytes, \* how many bytes CompressedBlockBuilder makes
    Thread,     \* threads that use the cache
    MaxBuild,   \* bound: number of tables written
    MaxReset    \* bound: number of ResetStats

ASSUME TableAssumption ==
    /\ Key \subseteq Nat /\ Value \subseteq Nat /\ Id \subseteq Nat
    /\ KeySize \in [Key -> Nat] /\ ValueSize \in [Value -> Nat]
    /\ \A m \in Contents :
          /\ DOMAIN m \subseteq Key /\ IsFiniteSet(DOMAIN m) /\ DOMAIN m # {}
          /\ m \in [DOMAIN m -> Value]
    /\ \A h \in Hashes : DOMAIN h = Key
    /\ PackedBytes \in Nat /\ PackedBytes > 8   \* a size and a flag come first
    /\ MaxBuild \in Nat /\ MaxReset \in Nat

VARIABLES
    file,       \* file[id]: the file <id>.sst
    table,      \* table[id]: the SST object of the running process
    used,       \* ids this process has written or loaded
    cache,      \* the block cache
    guard,      \* guard[t]: the CacheGuard of thread t
    builds, resets,
    built,      \* history: the entries file id was written from
    packed      \* history: files written by a constructor that compresses

vars == <<file, table, used, cache, guard, builds, resets, built, packed>>

W == 8   \* sizeof(size_t)
NoFile == [size |-> 0, fields |-> {}]
Closed == [state |-> "closed"]
Unreadable == [state |-> "unreadable"]
NoGuard == [stage |-> "none"]
NotFound == 0   \* what Get answers when it returns false; no value is 0

-----------------------------------------------------------------------------
(***************************************************************************)
(* BloomFilter, for n entries with p = 0.01.                               *)
(***************************************************************************)
CalcLength(n) == (22525 * n) \div 1000 + 1

HashNum(n) == Max({1, (69 * CalcLength(n)) \div (100 * n)})

\* binary_size(): counts, seeds, eight bytes of padding, the words of the bit array.
BloomSize(n) == HashNum(n) * W + 2 * W + W + (CalcLength(n) \div 64 + 1) * W

BloomInit(n, h) == [n |-> n, hash |-> h, bits |-> {}]

BloomInsert(b, k) == [b EXCEPT !.bits = @ \cup b.hash[k]]

BloomCheck(b, k) == b.hash[k] \subseteq b.bits

-----------------------------------------------------------------------------
(***************************************************************************)
(* What the constructors write.                                            *)
(***************************************************************************)
\* The entries of a table in key order.
Entries(m) ==
    LET keys == [i \in 1..Cardinality(DOMAIN m) |->
                    CHOOSE k \in DOMAIN m : Cardinality({j \in DOMAIN m : j < k}) = i - 1]
    IN  [i \in DOMAIN keys |-> [key |-> keys[i], value |-> m[keys[i]]]]

EntrySize(e) == KeySize[e.key] + ValueSize[e.value] + 2 * W

\* Offsets of the entries that begin at start; one more for their end.
EntryOffsets(es, start) ==
    LET at[i \in 1..Len(es) + 1] == IF i = 1 THEN start ELSE at[i - 1] + EntrySize(es[i - 1])
    IN  at

\* Room for one index entry per entry, although there is one block.
IndexSize(es) == 2 * W * (Len(es) + 1) + KeySize[es[1].key]

IndexFields(es) ==
    LET key == es[1].key IN
    {<<0, W, IndexSize(es)>>, <<W, W, 1>>, <<2 * W, W, IndexSize(es)>>,
     <<3 * W, W, KeySize[key]>>, <<4 * W, KeySize[key], key>>}

EntryFields(e, at) ==
    {<<at, W, KeySize[e.key]>>, <<at + W, W, ValueSize[e.value]>>,
     <<at + 2 * W, KeySize[e.key], e.key>>,
     <<at + 2 * W + KeySize[e.key], ValueSize[e.value], e.value>>}

BuiltBloom(es, h) ==
    LET bloom[i \in 0..Len(es)] ==
            IF i = 0 THEN BloomInit(Len(es), h) ELSE BloomInsert(bloom[i - 1], es[i].key)
    IN  bloom[Len(es)]

PlainSize(es) ==
    LET at == EntryOffsets(es, IndexSize(es) + 2 * W + BloomSize(Len(es))) IN at[Len(es) + 1]

\* The constructors without CompressionConfig.
PlainFile(es, h) ==
    LET block == IndexSize(es)
        count == block + W + BloomSize(Len(es))
        at    == EntryOffsets(es, count + W)
    IN  [size |-> PlainSize(es),
         fields |-> IndexFields(es)
              \cup {<<block, W, PlainSize(es) - block>>,
                    <<block + W, BloomSize(Len(es)), BuiltBloom(es, h)>>,
                    <<count, W, Len(es)>>}
              \cup UNION {EntryFields(es[i], at[i]) : i \in DOMAIN es}]

\* The constructors with CompressionConfig: behind the index, the size of what
\* CompressedBlockBuilder made and its bytes, one word past the end of the file.
\* Build copies the entries behind the end of its buffer, and its filter was never
\* initialized: which bytes they are, and how many, is not defined.
PackedFile(es, bytes) ==
    [size |-> IndexSize(es) + bytes,
     fields |-> IndexFields(es) \cup {<<IndexSize(es), W, bytes>>}]

\* lseek, write, mmap: an older and longer file keeps its end.
Overwrite(old, new) ==
    [size |-> Max({old.size, new.size}),
     fields |-> new.fields \cup {x \in old.fields : x[1] >= new.size}]

-----------------------------------------------------------------------------
(***************************************************************************)
(* Load: the index, and every data block it names.                         *)
(***************************************************************************)
HasField(f, at) == \E x \in f.fields : x[1] = at
Field(f, at) == (CHOOSE x \in f.fields : x[1] = at)[3]

\* DataBlockIndex::Load.
LoadBlock(f, key, offset) ==
    LET bloom == Field(f, offset + W)
        count == offset + W + BloomSize(bloom.n)
        next(at) == at + 2 * W + Field(f, at) + Field(f, at + W)
        at[i \in 1..Field(f, count)] == IF i = 1 THEN count + W ELSE next(at[i - 1])
    IN  [key |-> key, offset |-> offset, bloom |-> bloom,
         entries |-> [i \in 1..Field(f, count) |->
             [key |-> Field(f, at[i] + 2 * W),
              value |-> Field(f, at[i] + 2 * W + Field(f, at[i]))]]]

\* IndexBlockIndex::Load and DataBlockIndexIndex::Load.  A packed block read as a
\* plain one has no filter where Load looks for it.
Loaded(f) ==
    LET at[i \in 1..Field(f, W)] ==
            IF i = 1 THEN 2 * W ELSE at[i - 1] + 2 * W + Field(f, at[i - 1] + W)
        blocks == [i \in 1..Field(f, W) |->
                      LoadBlock(f, Field(f, at[i] + 2 * W), Field(f, at[i]))]
    IN  IF \E i \in 1..Field(f, W) : ~ HasField(f, Field(f, at[i]) + W) THEN Unreadable
        ELSE [state |-> "open", size |-> f.size, blocks |-> blocks]

\* The binary searches: the number of positions before the first one at which before
\* is false, if it is false from there on.
Bisect(n, before) ==
    LET search[p \in (0..n) \X (0..n)] ==
            IF p[1] >= p[2] THEN p[2]
            ELSE LET mid == (p[1] + p[2]) \div 2 IN
                 IF before[mid + 1] THEN search[<<mid + 1, p[2]>>] ELSE search[<<p[1], mid>>]
    IN  search[<<0, n>>]

\* Mutant: the key at the position found is not compared.
BlockGet_NoCompare(b, k) ==
    LET r == Bisect(Len(b.entries), [i \in 1..Len(b.entries) |-> b.entries[i].key < k]) IN
    IF ~ BloomCheck(b.bloom, k) \/ r = Len(b.entries)
    THEN NotFound ELSE b.entries[r + 1].value

\* DataBlockIndex::Get.
BlockGet(b, k) ==
    LET r == Bisect(Len(b.entries), [i \in 1..Len(b.entries) |-> b.entries[i].key < k]) IN
    IF ~ BloomCheck(b.bloom, k) \/ r = Len(b.entries) \/ b.entries[r + 1].key # k
    THEN NotFound ELSE b.entries[r + 1].value

\* IndexBlockIndex::Get: the last block that begins at or before the key.
Get(t, k) ==
    LET r == Bisect(Len(t.blocks), [i \in 1..Len(t.blocks) |-> ~ (t.blocks[i].key > k)]) IN
    IF r = 0 THEN NotFound ELSE BlockGet(t.blocks[r], k)

\* SST::Iterator from begin() to the end.
Scan(t) ==
    LET before[i \in 0..Len(t.blocks)] ==
            IF i = 0 THEN <<>> ELSE before[i - 1] \o t.blocks[i].entries
    IN  before[Len(t.blocks)]

-----------------------------------------------------------------------------
Init ==
    /\ file = [id \in Id |-> NoFile]
    /\ table = [id \in Id |-> Closed]
    /\ used = {}
    /\ cache = EmptyCache
    /\ guard = [t \in Thread |-> NoGuard]
    /\ builds = 0 /\ resets = 0
    /\ built = [id \in Id |-> <<>>]
    /\ packed = {}

(***************************************************************************)
(* A constructor writes the file of an id the process has not used before  *)
(* and loads it.  BuildFromEntries is a compaction, BuildFromMemtable a    *)
(* flush, each also with a CompressionConfig, as DB::ToSST flushes.        *)
(***************************************************************************)
Construct(id, es, new) ==
    /\ id \notin used /\ table[id] = Closed
    /\ builds < MaxBuild
    /\ builds' = builds + 1
    /\ used' = used \cup {id}
    /\ file' = [file EXCEPT ![id] = Overwrite(@, new)]
    /\ table' = [table EXCEPT ![id] = Loaded(file'[id])]
    /\ built' = [built EXCEPT ![id] = es]
    /\ UNCHANGED <<cache, guard, resets>>

BuildFromEntries(id, m, h) ==
    /\ Construct(id, Entries(m), PlainFile(Entries(m), h))
    /\ packed' = packed \ {id}

BuildFromMemtable(id, m, h) ==
    /\ Construct(id, Entries(m), PlainFile(Entries(m), h))
    /\ packed' = packed \ {id}

BuildPackedFromEntries(id, m, bytes) ==
    /\ Construct(id, Entries(m), PackedFile(Entries(m), bytes))
    /\ packed' = packed \cup {id}

BuildPackedFromMemtable(id, m, bytes) ==
    /\ Construct(id, Entries(m), PackedFile(Entries(m), bytes))
    /\ packed' = packed \cup {id}

\* SST::Load of a file the manifest names; new ids are larger than those.
LoadTable(id) ==
    /\ table[id] = Closed /\ file[id] # NoFile
    /\ table' = [table EXCEPT ![id] = Loaded(file[id])]
    /\ used' = used \cup {id}
    /\ UNCHANGED <<file, cache, guard, builds, resets, built, packed>>

CloseTable(id) ==
    /\ table[id] # Closed
    /\ table' = [table EXCEPT ![id] = Closed]
    /\ UNCHANGED <<file, used, cache, guard, builds, resets, built, packed>>

\* The process ends, in order or not: files stay, ids may be handed out again.
Restart ==
    /\ table' = [id \in Id |-> Closed]
    /\ used' = {}
    /\ cache' = EmptyCache
    /\ guard' = [t \in Thread |-> NoGuard]
    /\ UNCHANGED <<file, builds, resets, built, packed>>

-----------------------------------------------------------------------------
(***************************************************************************)
(* The cache.                                                              *)
(***************************************************************************)
Open(id) == table[id].state = "open"

\* The bytes of the file from `from` on, as a block for the cache.
Bytes(id, from, size) ==
    [size |-> size, sst |-> id,
     fields |-> {x \in file[id].fields : x[1] >= from /\ x[1] + x[2] <= from + size}]

\* PrefetchDataBlock: looks under the number of the block, stores under its offset.
\* The size includes its own word, which is also skipped: a block at the very end of
\* its file is refused.
Prefetched(c, id, i) ==
    LET offset == table[id].blocks[i].offset
        size   == Field(file[id], offset)
    IN  IF MakeKey(id, i - 1) \in DOMAIN c.map THEN CacheGet(c, MakeKey(id, i - 1))
        ELSE IF size = 0 \/ offset + W + size > table[id].size THEN c
        ELSE CachePut(c, MakeKey(id, offset), Bytes(id, offset + W, size))

\* PrefetchAllBlocks.
Prefetch(id) ==
    /\ Open(id)
    /\ LET after[i \in 0..Len(table[id].blocks)] ==
               IF i = 0 THEN cache ELSE Prefetched(after[i - 1], id, i)
       IN  cache' = after[Len(table[id].blocks)]
    /\ UNCHANGED <<file, table, used, guard, builds, resets, built, packed>>

\* CacheGuard: the constructor looks the block up,
GuardOpen(t, id) ==
    /\ guard[t] = NoGuard /\ Open(id)
    /\ LET key == MakeKey(id, table[id].blocks[1].offset) IN
       /\ cache' = CacheGet(cache, key)
       /\ guard' = [guard EXCEPT ![t] =
             IF key \in DOMAIN cache.map THEN [stage |-> "hit", id |-> id, key |-> key]
             ELSE [stage |-> "missed", id |-> id, key |-> key]]
    /\ UNCHANGED <<file, table, used, builds, resets, built, packed>>

\* after a miss the caller reads the block from the file,
GuardSetData(t) ==
    /\ guard[t].stage = "missed" /\ Open(guard[t].id)
    /\ LET id == guard[t].id
           offset == table[id].blocks[1].offset
       IN  guard' = [guard EXCEPT ![t] =
               [stage |-> "filled", id |-> id, key |-> guard[t].key,
                data |-> Bytes(id, offset, Field(file[id], offset))]]
    /\ UNCHANGED <<file, table, used, cache, builds, resets, built, packed>>

\* and the destructor puts it into the cache.
GuardClose(t) ==
    /\ guard[t] # NoGuard
    /\ guard' = [guard EXCEPT ![t] = NoGuard]
    /\ cache' = IF guard[t].stage = "filled" THEN CachePut(cache, guard[t].key, guard[t].data)
                ELSE cache
    /\ UNCHANGED <<file, table, used, builds, resets, built, packed>>

RemoveCached(id) ==
    /\ Open(id)
    /\ cache' = CacheRemove(cache, MakeKey(id, table[id].blocks[1].offset))
    /\ UNCHANGED <<file, table, used, guard, builds, resets, built, packed>>

ClearCache ==
    /\ cache' = EmptyCache
    /\ UNCHANGED <<file, table, used, guard, builds, resets, built, packed>>

ResetStats ==
    /\ resets < MaxReset
    /\ resets' = resets + 1
    /\ cache' = CacheResetStats(cache)
    /\ UNCHANGED <<file, table, used, guard, builds, built, packed>>

Next ==
    \/ \E id \in Id, m \in Contents : \E h \in Hashes :
          BuildFromEntries(id, m, h) \/ BuildFromMemtable(id, m, h)
    \/ \E id \in Id, m \in Contents :
          BuildPackedFromEntries(id, m, PackedBytes) \/ BuildPackedFromMemtable(id, m, PackedBytes)
    \/ \E id \in Id : LoadTable(id) \/ CloseTable(id) \/ Prefetch(id) \/ RemoveCached(id)
    \/ \E t \in Thread : (\E id \in Id : GuardOpen(t, id)) \/ GuardSetData(t) \/ GuardClose(t)
    \/ Restart \/ ClearCache \/ ResetStats

Spec == Init /\ [][Next]_vars

-----------------------------------------------------------------------------
(***************************************************************************)
(* The state is well typed, and the list and the map of the cache name the *)
(* same blocks, each once.                                                 *)
(***************************************************************************)
SstTypeOK ==
    /\ \A id \in Id : table[id].state \in {"closed", "open", "unreadable"}
    /\ used \subseteq Id
    /\ Range(cache.lru) = DOMAIN cache.map /\ Len(cache.lru) = Cardinality(DOMAIN cache.map)
    /\ \A t \in Thread : guard[t].stage \in {"none", "hit", "missed", "filled"}

(***************************************************************************)
(* A lookup in an open table answers for every key what the table was      *)
(* written from, and iteration yields its entries in order, whatever older *)
(* file the table was written over: the offsets the constructors compute   *)
(* are the ones Load finds, the filter has no false negatives and a false  *)
(* positive is caught by the search.  For constructors that do not         *)
(* compress.                                                               *)
(***************************************************************************)
ReadsBack(id) ==
    /\ Open(id)
    /\ Scan(table[id]) = built[id]
    /\ \A k \in Key : Get(table[id], k) =
          LET hits == {i \in DOMAIN built[id] : built[id][i].key = k} IN
          IF hits = {} THEN NotFound ELSE built[id][Min(hits)].value

TableReads == \A id \in Id : table[id] # Closed /\ id \notin packed => ReadsBack(id)

(***************************************************************************)
(* The same for every constructor.                                         *)
(***************************************************************************)
EveryTableReads == \A id \in Id : table[id] # Closed => ReadsBack(id)

(***************************************************************************)
(* Until the statistics are reset, the cache's accounts are the sizes of   *)
(* the blocks it holds and stay within its capacity, although two guards   *)
(* may put the same block one after the other and a put that replaces a    *)
(* block leaves the accounts alone.                                        *)
(***************************************************************************)
CacheAccounts ==
    resets = 0 =>
        /\ cache.size = CachedBytes(cache) /\ cache.size <= Capacity
        /\ cache.count = Cardinality(DOMAIN cache.map)
        /\ MaxCount > 0 => cache.count <= MaxCount

(***************************************************************************)
(* A cached block is one of the table and the place its key stands for,    *)
(* and its bytes are still those of the file.                              *)
(***************************************************************************)
CacheFaithful ==
    \A id \in Id : Open(id) =>
        LET key == MakeKey(id, table[id].blocks[1].offset) IN
        key \in DOMAIN cache.map =>
            cache.map[key].sst = id /\ cache.map[key].fields \subseteq file[id].fields

(***************************************************************************)
(* A step that puts a block drops only blocks that were used less recently *)
(* than all the blocks that stay.                                          *)
(***************************************************************************)
EvictsOldest ==
    [][Range(cache'.lru) \ Range(cache.lru) # {} =>
          \A i, j \in DOMAIN cache.lru :
              /\ cache.lru[i] \notin Range(cache'.lru)
              /\ cache.lru[j] \in Range(cache'.lru)
              => j < i]_vars
=============================================================================
