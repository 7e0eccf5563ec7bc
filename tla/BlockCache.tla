----------------------------- MODULE BlockCache -----------------------------
(***************************************************************************)
(* The block cache (lsm/block_cache.hpp) as a value and its operations as  *)
(* functions of it: every method but ResetStats runs under the one mutex.  *)
(* A cached block is its data with the data's size in bytes.  Hit, miss    *)
(* and rejection counters are left out, nothing depends on them.           *)
(***************************************************************************)
EXTENDS Integers, FiniteSets, FiniteSetsExt, Sequences, SequencesExt, Functions

CONSTANTS
    Capacity,   \* max_capacity, bytes
    MinBlock,   \* min_block_size, bytes
    MaxBlock,   \* max_block_size, bytes
    MaxCount,   \* max_block_count, 0 for no limit
    KeyShift,   \* what the shift of MakeKey multiplies by
    SizeMod     \* size_t counts modulo this

ASSUME CacheAssumption ==
    /\ {Capacity, MinBlock, MaxBlock, MaxCount, SizeMod} \subseteq Nat
    /\ MaxBlock <= Capacity /\ 2 * Capacity < SizeMod
    /\ KeyShift \in Nat \ {0}

\* map: cache_map_; lru: lru_list_, the most recent first; size and count:
\* stats_.current_size and stats_.current_count.
EmptyCache == [map |-> <<>>, lru |-> <<>>, size |-> 0, count |-> 0]

SizeT(n) == n % SizeMod

\* Mutant: blocks of different tables share a key.
MakeKey_NoTable(sst_id, offset) == offset

\* (sst_id << 32) | block_offset, for offsets below 2^32.
MakeKey(sst_id, offset) == sst_id * KeyShift + offset

\* lru_list_.remove: a block is in the list once.
Without(lru, key) == RemoveAt(lru, CHOOSE i \in DOMAIN lru : lru[i] = key)

MoveToFront(c, key) == [c EXCEPT !.lru = <<key>> \o Without(@, key)]

\* Mutant: the size is not given back.
RemoveBlock_KeepsSize(c, key) ==
    [c EXCEPT !.lru = Without(@, key), !.count = SizeT(@ - 1)]

RemoveBlock(c, key) ==
    [c EXCEPT !.lru = Without(@, key),
              !.size = SizeT(@ - c.map[key].size),
              !.count = SizeT(@ - 1)]

Erase(c, key) == [RemoveBlock(c, key) EXCEPT !.map = Restrict(@, DOMAIN @ \ {key})]

TooFull(c, bytes) ==
    SizeT(c.size + bytes) > Capacity \/ (MaxCount > 0 /\ c.count >= MaxCount)

\* Mutant: the most recently used block goes first.
EvictIfNeeded_Front(c, bytes) ==
    LET evicted[n \in 0..Len(c.lru)] ==
            IF n = 0 THEN c ELSE Erase(evicted[n - 1], Head(evicted[n - 1].lru))
    IN  evicted[Min({n \in 0..Len(c.lru) : n = Len(c.lru) \/ ~ TooFull(evicted[n], bytes)})]

\* Blocks leave from the back until the new one fits or none is left.
EvictIfNeeded(c, bytes) ==
    LET evicted[n \in 0..Len(c.lru)] ==
            IF n = 0 THEN c ELSE Erase(evicted[n - 1], Last(evicted[n - 1].lru))
    IN  evicted[Min({n \in 0..Len(c.lru) : n = Len(c.lru) \/ ~ TooFull(evicted[n], bytes)})]

\* Put refuses blocks that are empty, too large, or below half of min_block_size.
Accepts(data) == data.size > 0 /\ data.size <= MaxBlock /\ 2 * data.size >= MinBlock

\* A block that is there already is replaced; the accounts are not touched.
CachePut(c, key, data) ==
    IF ~ Accepts(data) THEN c
    ELSE IF key \in DOMAIN c.map
    THEN MoveToFront([c EXCEPT !.map[key] = data], key)
    ELSE LET e == EvictIfNeeded(c, data.size) IN
         [map |-> [x \in DOMAIN e.map \cup {key} |-> IF x = key THEN data ELSE e.map[x]],
          lru |-> <<key>> \o e.lru,
          size |-> SizeT(e.size + data.size),
          count |-> SizeT(e.count + 1)]

CacheGet(c, key) == IF key \in DOMAIN c.map THEN MoveToFront(c, key) ELSE c

CacheRemove(c, key) == IF key \in DOMAIN c.map THEN Erase(c, key) ELSE c

\* ResetStats clears the accounts with the statistics and keeps the blocks.
CacheResetStats(c) == [c EXCEPT !.size = 0, !.count = 0]

CachedBytes(c) == SumFunction([key \in DOMAIN c.map |-> c.map[key].size])
=============================================================================
