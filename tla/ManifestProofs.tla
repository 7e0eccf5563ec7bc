--------------------------- MODULE ManifestProofs ---------------------------
(***************************************************************************)
(* Proofs about the levels of SST files, for every set of keys, every      *)
(* table of thresholds and every number of flushes and kills: no file that *)
(* a reader or the manifest file names is written again, the levels below  *)
(* Level 0 stay sorted, and, as long as a compaction ends with Level 1,    *)
(* every key reads as the value flushed last for it, now and after a kill. *)
(***************************************************************************)
EXTENDS Manifest, Extrema, FiniteSetTheorems, SequenceTheorems, TLAPS

\* The files, by id.
Files == [1..MaxId -> Tables]

\* id is in level n.
InLevel(lv, n, id) == \E i \in 1..Len(lv[n]) : lv[n][i] = id

\* LevelsSorted for any two tables of a level, and for any manifest.
Sorted(f, level) ==
    \A i, j \in 1..Len(level) : i < j => EndKey(f, level[i]) < BeginKey(f, level[j])

\* The levels of a manifest: there is a Level 0 and no more than one without a threshold.
Shaped(lv) == lv \in Levels /\ Len(lv) \in 1..Len(LevelMax) + 1

\* A manifest whose tables have entries and whose levels below Level 0 are sorted.
WellFormed(f, lv) ==
    /\ Shaped(lv)
    /\ \A id \in Ids(lv) : DOMAIN f[id] # {}
    /\ \A n \in 2..Len(lv) : Sorted(f, lv[n])

(***************************************************************************)
(* The inductive invariant.                                                *)
(***************************************************************************)
NumbersInv ==
    /\ at \in 0..Len(LevelMax) + 1
    /\ flushes \in 0..MaxFlush /\ kills \in 0..MaxKill
    /\ sst_id \in 0..2 * flushes
    /\ newest \in [Key -> 0..flushes] /\ saved \in [Key -> 0..flushes]

ShapeInv == file \in Files /\ Shaped(levels) /\ Shaped(draft) /\ Shaped(disk)

FormInv ==
    /\ WellFormed(file, levels) /\ WellFormed(file, draft) /\ WellFormed(file, disk)

\* The ids handed out, and the one a compaction writes to.
IdInv ==
    /\ Ids(levels) \cup Ids(draft) \cup Ids(disk) \subseteq 1..sst_id
    /\ at > 0 => sst_id \notin Ids(levels) \cup Ids(disk)

\* The manifest in hand: the level to be compacted next has tables, and only that
\* level may have the table the compaction wrote before.
DraftInv ==
    /\ at = 0 => draft = levels
    /\ at > 0 => /\ at <= Len(draft) /\ draft[at] # <<>>
                 /\ \A n \in 1..Len(draft) : InLevel(draft, n, sst_id) => n = at /\ n > 1

ManifestInv == NumbersInv /\ ShapeInv /\ IdInv /\ DraftInv

-----------------------------------------------------------------------------
(***************************************************************************)
(* Tables, ids and key ranges.                                             *)
(***************************************************************************)
\* A manifest with its levels as functions.
LEMMA LevelsShape ==
    ASSUME NEW lv \in Levels
    PROVE  /\ Len(lv) \in Nat /\ DOMAIN lv = 1..Len(lv)
           /\ \A n \in 1..Len(lv) : /\ lv[n] \in Seq(1..MaxId)
                                    /\ Len(lv[n]) \in Nat /\ DOMAIN lv[n] = 1..Len(lv[n])
                                    /\ \A i \in 1..Len(lv[n]) : lv[n][i] \in 1..MaxId
<1>1. Len(lv) \in Nat /\ DOMAIN lv = 1..Len(lv) /\ lv \in [1..Len(lv) -> Seq(1..MaxId)]
  BY LenProperties DEF Levels
<1>2. \A n \in 1..Len(lv) : lv[n] \in Seq(1..MaxId)
  BY <1>1
<1>3. \A s \in Seq(1..MaxId) : Len(s) \in Nat /\ DOMAIN s = 1..Len(s) /\ s \in [1..Len(s) -> 1..MaxId]
  BY LenProperties
<1>. QED
  BY <1>1, <1>2, <1>3

\* The ids of a manifest are those of its levels.
LEMMA IdsOfLevels ==
    ASSUME NEW lv \in Levels, NEW id
    PROVE  id \in Ids(lv) <=> \E n \in 1..Len(lv) : InLevel(lv, n, id)
<1>1. \A n \in 1..Len(lv) : DOMAIN lv[n] = 1..Len(lv[n])
  BY LevelsShape
<1>2. DOMAIN lv = 1..Len(lv)
  BY LevelsShape
<1>. QED
  BY <1>1, <1>2 DEF Ids, Range, InLevel

\* Ids are numbers of files.
LEMMA IdsType ==
    ASSUME NEW lv \in Levels
    PROVE  Ids(lv) \subseteq 1..MaxId /\ MaxId \in Nat
<1>1. \A n \in 1..Len(lv) : \A i \in 1..Len(lv[n]) : lv[n][i] \in 1..MaxId
  BY LevelsShape
<1>2. MaxId \in Nat
  BY FlushAssumption DEF MaxId
<1>. QED
  BY <1>1, <1>2, IdsOfLevels DEF InLevel

\* The keys of a file, as a finite set of numbers.
LEMMA TableKeys ==
    ASSUME NEW f \in Files, NEW id \in 1..MaxId
    PROVE  /\ DOMAIN f[id] \subseteq Key /\ DOMAIN f[id] \subseteq Nat
           /\ IsFiniteSet(DOMAIN f[id])
           /\ f[id] \in [DOMAIN f[id] -> Int]
<1>1. f[id] \in Tables
  BY DEF Files
<1>2. PICK S \in SUBSET Key : f[id] \in [S -> Int]
  BY <1>1 DEF Tables
<1>3. IsFiniteSet(S)
  BY KeyAssumption, FS_Subset
<1>. QED
  BY <1>2, <1>3, KeyAssumption

\* The first and the last key of a file with entries.
LEMMA KeyRange ==
    ASSUME NEW f \in Files, NEW id \in 1..MaxId, DOMAIN f[id] # {}
    PROVE  /\ BeginKey(f, id) \in DOMAIN f[id] /\ EndKey(f, id) \in DOMAIN f[id]
           /\ \A k \in DOMAIN f[id] : BeginKey(f, id) <= k /\ k <= EndKey(f, id)
<1>1. DOMAIN f[id] \subseteq Nat /\ IsFiniteSet(DOMAIN f[id])
  BY TableKeys
<1>2. DOMAIN f[id] \subseteq Int
  BY <1>1
<1>. QED
  BY <1>1, <1>2, MinOfNaturals, MaxOfFinite DEF BeginKey, EndKey

\* The tables of a well-formed manifest have entries.
LEMMA TablesHaveKeys ==
    ASSUME NEW f \in Files, NEW lv, WellFormed(f, lv), NEW n \in 1..Len(lv),
           NEW i \in 1..Len(lv[n])
    PROVE  /\ lv[n][i] \in 1..MaxId /\ DOMAIN f[lv[n][i]] # {}
           /\ BeginKey(f, lv[n][i]) \in DOMAIN f[lv[n][i]] /\ EndKey(f, lv[n][i]) \in DOMAIN f[lv[n][i]]
           /\ BeginKey(f, lv[n][i]) \in Key \cap Nat /\ EndKey(f, lv[n][i]) \in Key \cap Nat
           /\ BeginKey(f, lv[n][i]) <= EndKey(f, lv[n][i])
           /\ \A k \in DOMAIN f[lv[n][i]] : /\ k \in Nat
                                            /\ BeginKey(f, lv[n][i]) <= k /\ k <= EndKey(f, lv[n][i])
<1>1. lv \in Levels
  BY DEF WellFormed, Shaped
<1>2. lv[n][i] \in 1..MaxId /\ lv[n][i] \in Ids(lv)
  BY <1>1, LevelsShape, IdsOfLevels DEF InLevel
<1>3. DOMAIN f[lv[n][i]] # {}
  BY <1>2 DEF WellFormed, Shaped
<1>. QED
  BY <1>2, <1>3, KeyRange, TableKeys

\* A manifest keeps its form when only files it does not name are written.
LEMMA FormFrame ==
    ASSUME NEW f, NEW g, NEW lv, WellFormed(f, lv), \A id \in Ids(lv) : g[id] = f[id]
    PROVE  WellFormed(g, lv)
<1>1. lv \in Levels
  BY DEF WellFormed, Shaped
<1>2. \A n \in 1..Len(lv) : \A i \in 1..Len(lv[n]) : g[lv[n][i]] = f[lv[n][i]]
  BY <1>1, IdsOfLevels DEF InLevel
<1>3. ASSUME NEW n \in 2..Len(lv) PROVE Sorted(g, lv[n])
  <2>1. Sorted(f, lv[n]) /\ n \in 1..Len(lv)
    BY <1>1, <1>3, LevelsShape DEF WellFormed, Shaped
  <2>. QED
    BY <1>2, <2>1 DEF Sorted, BeginKey, EndKey
<1>. QED
  BY <1>3 DEF WellFormed, Shaped

-----------------------------------------------------------------------------
(***************************************************************************)
(* Insert.                                                                 *)
(***************************************************************************)
\* Level 0 with one more table.
LEMMA InsertedShape ==
    ASSUME NEW lv \in Levels, Len(lv) > 0, NEW id \in 1..MaxId
    PROVE  LET new == [lv EXCEPT ![1] = Append(@, id)] IN
           /\ new \in Levels /\ Len(new) = Len(lv)
           /\ \A n \in 2..Len(lv) : new[n] = lv[n]
           /\ Len(new[1]) = Len(lv[1]) + 1 /\ new[1][Len(lv[1]) + 1] = id
           /\ \A i \in 1..Len(lv[1]) : new[1][i] = lv[1][i]
           /\ Ids(new) = Ids(lv) \cup {id}
<1>. DEFINE new == [lv EXCEPT ![1] = Append(@, id)]
<1>1. Len(lv) \in Nat /\ DOMAIN lv = 1..Len(lv) /\ 1 \in 1..Len(lv)
      /\ lv[1] \in Seq(1..MaxId) /\ Len(lv[1]) \in Nat
  BY LevelsShape
<1>2. /\ Append(lv[1], id) \in Seq(1..MaxId) /\ Len(Append(lv[1], id)) = Len(lv[1]) + 1
      /\ \A i \in 1..Len(lv[1]) : Append(lv[1], id)[i] = lv[1][i]
      /\ Append(lv[1], id)[Len(lv[1]) + 1] = id
  BY <1>1, AppendProperties
<1>3. new = [lv EXCEPT ![1] = Append(lv[1], id)] /\ lv \in Seq(Seq(1..MaxId))
  BY DEF Levels
<1>4. /\ new \in Seq(Seq(1..MaxId)) /\ Len(new) = Len(lv)
      /\ \A j \in 1..Len(lv) : new[j] = IF j = 1 THEN Append(lv[1], id) ELSE lv[j]
  BY <1>1, <1>2, <1>3, ExceptSeq
<1>5. new \in Levels /\ new[1] = Append(lv[1], id) /\ \A n \in 2..Len(lv) : new[n] = lv[n]
  BY <1>1, <1>4 DEF Levels
<1>. HIDE DEF new
<1>6. ASSUME NEW x PROVE InLevel(new, 1, x) <=> InLevel(lv, 1, x) \/ x = id
  <2>1. Len(new[1]) = Len(lv[1]) + 1 /\ new[1][Len(lv[1]) + 1] = id
        /\ \A i \in 1..Len(lv[1]) : new[1][i] = lv[1][i]
    BY <1>2, <1>5
  <2>. QED
    BY <1>1, <2>1 DEF InLevel
<1>7. ASSUME NEW x, NEW n \in 2..Len(lv) PROVE InLevel(new, n, x) <=> InLevel(lv, n, x)
  BY <1>5 DEF InLevel
<1>8. ASSUME NEW x PROVE x \in Ids(new) <=> x \in Ids(lv) \cup {id}
  <2>1. x \in Ids(new) <=> InLevel(new, 1, x) \/ \E n \in 2..Len(lv) : InLevel(new, n, x)
    BY <1>1, <1>4, <1>5, IdsOfLevels
  <2>2. x \in Ids(lv) <=> InLevel(lv, 1, x) \/ \E n \in 2..Len(lv) : InLevel(lv, n, x)
    BY <1>1, IdsOfLevels
  <2>. QED
    BY <1>6, <1>7, <2>1, <2>2
<1>9. Ids(new) = Ids(lv) \cup {id}
  BY <1>8
<1>10. Len(new[1]) = Len(lv[1]) + 1 /\ new[1][Len(lv[1]) + 1] = id
       /\ \A i \in 1..Len(lv[1]) : new[1][i] = lv[1][i]
  BY <1>2, <1>5
<1>11. new \in Levels /\ Len(new) = Len(lv) /\ \A n \in 2..Len(lv) : new[n] = lv[n]
  BY <1>4, <1>5
<1>. QED
  BY <1>9, <1>10, <1>11 DEF new

\* Inserting a table with entries keeps the form.
LEMMA InsertedForm ==
    ASSUME NEW f \in Files, NEW lv, WellFormed(f, lv), NEW id \in 1..MaxId, DOMAIN f[id] # {}
    PROVE  WellFormed(f, [lv EXCEPT ![1] = Append(@, id)])
<1>. DEFINE new == [lv EXCEPT ![1] = Append(@, id)]
<1>1. lv \in Levels /\ Len(lv) > 0
  BY LevelAssumption DEF WellFormed, Shaped
<1>2. /\ new \in Levels /\ Len(new) = Len(lv)
      /\ \A n \in 2..Len(lv) : new[n] = lv[n]
      /\ Ids(new) = Ids(lv) \cup {id}
  BY <1>1, InsertedShape
<1>. HIDE DEF new
<1>3. WellFormed(f, new)
  BY <1>2 DEF WellFormed, Shaped
<1>. QED
  BY <1>3 DEF new

-----------------------------------------------------------------------------
(***************************************************************************)
(* SizeTieredCompaction: key range and insert positions.                   *)
(***************************************************************************)
\* The next level is a level, or empty.
LEMMA NextLevelType ==
    ASSUME NEW lv \in Levels, NEW n \in 1..Len(lv)
    PROVE  /\ NextLevel(lv, n) \in Seq(1..MaxId) /\ Len(NextLevel(lv, n)) \in Nat
           /\ \A i \in 1..Len(NextLevel(lv, n)) : /\ n + 1 \in 1..Len(lv) /\ NextLevel(lv, n) = lv[n + 1]
                                                  /\ NextLevel(lv, n)[i] \in 1..MaxId
           /\ DOMAIN NextLevel(lv, n) = 1..Len(NextLevel(lv, n))
<1>1. Len(lv) \in Nat
  BY LevelsShape
<1>2. CASE n < Len(lv)
  <2>1. n + 1 \in 1..Len(lv) /\ NextLevel(lv, n) = lv[n + 1]
    BY <1>1, <1>2 DEF NextLevel
  <2>. QED
    BY <2>1, LevelsShape
<1>3. CASE ~ (n < Len(lv))
  <2>1. NextLevel(lv, n) = <<>>
    BY <1>3 DEF NextLevel
  <2>. QED
    BY <2>1, EmptySeq
<1>. QED
  BY <1>2, <1>3

\* In a well-formed manifest the next level is sorted.
LEMMA NextLevelShape ==
    ASSUME NEW f, NEW lv, WellFormed(f, lv), NEW n \in 1..Len(lv)
    PROVE  /\ NextLevel(lv, n) \in Seq(1..MaxId) /\ Len(NextLevel(lv, n)) \in Nat
           /\ \A i \in 1..Len(NextLevel(lv, n)) : /\ n + 1 \in 1..Len(lv) /\ NextLevel(lv, n) = lv[n + 1]
                                                  /\ NextLevel(lv, n)[i] \in 1..MaxId
           /\ DOMAIN NextLevel(lv, n) = 1..Len(NextLevel(lv, n))
           /\ Sorted(f, NextLevel(lv, n))
<1>1. lv \in Levels /\ Len(lv) \in Nat
  BY LevelsShape DEF WellFormed, Shaped
<1>2. CASE n < Len(lv)
  <2>1. n + 1 \in 2..Len(lv) /\ n + 1 \in 1..Len(lv) /\ NextLevel(lv, n) = lv[n + 1]
    BY <1>1, <1>2 DEF NextLevel
  <2>2. Sorted(f, lv[n + 1])
    BY <2>1 DEF WellFormed, Shaped
  <2>. QED
    BY <1>1, <2>1, <2>2, LevelsShape
<1>3. CASE ~ (n < Len(lv))
  <2>1. NextLevel(lv, n) = <<>>
    BY <1>3 DEF NextLevel
  <2>. QED
    BY <2>1, EmptySeq DEF Sorted
<1>. QED
  BY <1>2, <1>3

\* The bounds a compaction computes are bounds of all keys of the level, if no key is
\* the empty one.
LEMMA CompactBounds ==
    ASSUME EmptyKey \notin Key,
           NEW f \in Files, NEW lv, WellFormed(f, lv), NEW n \in 1..Len(lv), lv[n] # <<>>
    PROVE  /\ CompactMinKey(f, lv, n) \in Nat /\ CompactMaxKey(f, lv, n) \in Nat
           /\ \A i \in 1..Len(lv[n]) : \A k \in DOMAIN f[lv[n][i]] :
                 CompactMinKey(f, lv, n) <= k /\ k <= CompactMaxKey(f, lv, n)
<1>. DEFINE tables == NewestFirst(lv, n)
            N == Len(lv[n])
            begins == {BeginKey(f, tables[i]) : i \in 1..N}
            ends == {EndKey(f, id) : id \in Range(lv[n])}
<1>1. lv \in Levels
  BY DEF WellFormed, Shaped
<1>2. lv[n] \in Seq(1..MaxId) /\ N \in Nat /\ N > 0 /\ DOMAIN lv[n] = 1..N
  BY <1>1, LevelsShape, EmptySeq
<1>3. /\ tables = [i \in 1..N |-> lv[n][N - i + 1]]
      /\ DOMAIN tables = 1..N
  BY <1>2 DEF NewestFirst, Reverse
<1>4. tables \in Seq(1..MaxId) /\ Len(tables) = N
  <2>1. \A i \in 1..N : N - i + 1 \in 1..N /\ lv[n][N - i + 1] \in 1..MaxId
    BY <1>1, <1>2, LevelsShape
  <2>. QED
    BY <1>2, <1>3, <2>1
<1>5. \A i \in 1..N : tables[i] = lv[n][N - i + 1] /\ N - i + 1 \in 1..N
  BY <1>2, <1>3
<1>6. \A i \in 1..N : BeginKey(f, tables[i]) \in Key
  <2>1. \A j \in 1..N : BeginKey(f, lv[n][j]) \in Key
    BY TablesHaveKeys
  <2>. QED
    BY <1>5, <2>1
<1>7. {i \in DOMAIN tables : BeginKey(f, tables[i]) = EmptyKey} = {}
  BY <1>3, <1>6
<1>8. CompactMinKey(f, lv, n) = Min(begins)
  BY <1>2, <1>4, <1>7 DEF CompactMinKey
<1>9. begins \subseteq Nat /\ begins # {}
  <2>1. 1 \in 1..N
    BY <1>2
  <2>2. BeginKey(f, tables[1]) \in begins
    BY <2>1
  <2>3. begins \subseteq Key
    BY <1>6
  <2>. QED
    BY <2>2, <2>3, KeyAssumption
<1>10. CompactMinKey(f, lv, n) \in Nat /\ \A b \in begins : CompactMinKey(f, lv, n) <= b
  BY <1>8, <1>9, MinOfNaturals
<1>11. \A i \in 1..N : BeginKey(f, lv[n][i]) \in begins
  <2>. SUFFICES ASSUME NEW i \in 1..N PROVE BeginKey(f, lv[n][i]) \in begins
    OBVIOUS
  <2>1. N - i + 1 \in 1..N /\ tables[N - i + 1] = lv[n][i]
    BY <1>2, <1>3
  <2>. QED
    BY <2>1
<1>12. ends = {EndKey(f, lv[n][i]) : i \in 1..N}
  BY <1>2 DEF Range
<1>13. \A i \in 1..N : EndKey(f, lv[n][i]) \in Key
  BY TablesHaveKeys
<1>14. ends \subseteq Key /\ ends # {}
  <2>1. 1 \in 1..N
    BY <1>2
  <2>2. EndKey(f, lv[n][1]) \in ends
    BY <1>12, <2>1
  <2>3. ends \subseteq Key
    BY <1>12, <1>13
  <2>. QED
    BY <2>2, <2>3
<1>15. IsFiniteSet(ends) /\ ends \subseteq Int
  <2>. HIDE DEF ends
  <2>1. ends \in SUBSET Key
    BY <1>14
  <2>2. IsFiniteSet(ends)
    BY <2>1, KeyAssumption, FS_Subset
  <2>. QED
    BY <2>1, <2>2, KeyAssumption
<1>16. CompactMaxKey(f, lv, n) \in Nat /\ \A e \in ends : e <= CompactMaxKey(f, lv, n)
  BY <1>14, <1>15, MaxOfFinite, KeyAssumption DEF CompactMaxKey
<1>17. ASSUME NEW i \in 1..N, NEW k \in DOMAIN f[lv[n][i]]
       PROVE  CompactMinKey(f, lv, n) <= k /\ k <= CompactMaxKey(f, lv, n)
  <2>1. BeginKey(f, lv[n][i]) <= k /\ k <= EndKey(f, lv[n][i]) /\ k \in Nat
        /\ BeginKey(f, lv[n][i]) \in Nat /\ EndKey(f, lv[n][i]) \in Nat
    BY TablesHaveKeys
  <2>2. CompactMinKey(f, lv, n) <= BeginKey(f, lv[n][i]) /\ EndKey(f, lv[n][i]) <= CompactMaxKey(f, lv, n)
    BY <1>10, <1>11, <1>12, <1>16
  <2>. QED
    BY <1>10, <1>16, <2>1, <2>2
<1>. QED
  BY <1>10, <1>16, <1>17

\* The two positions are in order, whatever the keys.
LEMMA InsertRange ==
    ASSUME NEW f \in Files, NEW lv \in Levels, NEW n \in 1..Len(lv)
    PROVE  LET next == NextLevel(lv, n)
               l == InsertLeft(f, lv, n)
               r == InsertRight(f, lv, n)
           IN  /\ r \in 1..Len(next) + 1 /\ l \in 0..r - 1
               /\ \A i \in Overlapping(f, lv, n) : i \in 1..Len(next)
<1>. DEFINE next == NextLevel(lv, n)
            l == InsertLeft(f, lv, n)
            r == InsertRight(f, lv, n)
            lo == CompactMinKey(f, lv, n)
            hi == CompactMaxKey(f, lv, n)
            behind == {i \in DOMAIN next : EndKey(f, next[i]) >= lo /\ BeginKey(f, next[i]) > hi}
            before == Before(f, lv, n)
<1>1. Len(next) \in Nat /\ DOMAIN next = 1..Len(next)
  BY NextLevelType
<1>2. r = Min({Len(next) + 1} \cup behind)
  BY DEF InsertRight
<1>3. \A i \in before : i \in 1..r - 1
  BY DEF Before
<1>4. l = Max({0} \cup before)
  BY DEF InsertLeft
<1>5. Overlapping(f, lv, n) = (1..r - 1) \ before
  BY DEF Overlapping
<1>6. \A i \in behind : i \in 1..Len(next)
  BY <1>1
<1>. HIDE DEF next, l, r, behind, before
<1>7. r \in 1..Len(next) + 1
  <2>1. {Len(next) + 1} \cup behind \subseteq 1..Len(next) + 1
    BY <1>1, <1>6
  <2>2. {Len(next) + 1} \cup behind \subseteq Nat /\ {Len(next) + 1} \cup behind # {}
    BY <1>1, <2>1
  <2>3. r \in {Len(next) + 1} \cup behind
    BY <1>2, <2>2, MinOfNaturals
  <2>. QED
    BY <2>1, <2>3
<1>8. l \in 0..r - 1
  <2>1. r \in Nat /\ r >= 1
    BY <1>1, <1>7
  <2>2. {0} \cup before \subseteq Nat /\ {0} \cup before # {}
        /\ \A i \in {0} \cup before : i <= r
    BY <1>3, <2>1
  <2>3. l \in {0} \cup before
    BY <1>4, <2>1, <2>2, MaxOfBounded
  <2>. QED
    BY <1>3, <2>1, <2>3
<1>9. \A i \in Overlapping(f, lv, n) : i \in 1..Len(next)
  BY <1>1, <1>5, <1>7
<1>. QED
  BY <1>7, <1>8, <1>9 DEF next, l, r

\* Where the merged table goes: the tables up to InsertLeft lie below the range, those
\* from InsertRight on above it, and all others are merged.
LEMMA InsertPositions ==
    ASSUME EmptyKey \notin Key,
           NEW f \in Files, NEW lv, WellFormed(f, lv), NEW n \in 1..Len(lv), lv[n] # <<>>
    PROVE  LET next == NextLevel(lv, n)
               l == InsertLeft(f, lv, n)
               r == InsertRight(f, lv, n)
           IN  /\ r \in 1..Len(next) + 1 /\ l \in 0..r - 1
               /\ \A i \in 1..l : EndKey(f, next[i]) < CompactMinKey(f, lv, n)
               /\ \A i \in r..Len(next) : CompactMaxKey(f, lv, n) < BeginKey(f, next[i])
               /\ Overlapping(f, lv, n) = l + 1..r - 1
<1>. DEFINE next == NextLevel(lv, n)
            l == InsertLeft(f, lv, n)
            r == InsertRight(f, lv, n)
            lo == CompactMinKey(f, lv, n)
            hi == CompactMaxKey(f, lv, n)
            behind == {i \in DOMAIN next : EndKey(f, next[i]) >= lo /\ BeginKey(f, next[i]) > hi}
            before == Before(f, lv, n)
<1>1. lo \in Nat /\ hi \in Nat
  BY CompactBounds
<1>2. Len(next) \in Nat /\ DOMAIN next = 1..Len(next) /\ Sorted(f, next)
  BY NextLevelShape
<1>3. \A i \in 1..Len(next) : /\ BeginKey(f, next[i]) \in Nat /\ EndKey(f, next[i]) \in Nat
                              /\ BeginKey(f, next[i]) <= EndKey(f, next[i])
  <2>. SUFFICES ASSUME NEW i \in 1..Len(next)
                PROVE  /\ BeginKey(f, next[i]) \in Nat /\ EndKey(f, next[i]) \in Nat
                       /\ BeginKey(f, next[i]) <= EndKey(f, next[i])
    OBVIOUS
  <2>1. n + 1 \in 1..Len(lv) /\ next = lv[n + 1]
    BY NextLevelShape
  <2>. QED
    BY <2>1, TablesHaveKeys
<1>4. r = Min({Len(next) + 1} \cup behind)
  BY DEF InsertRight
<1>5. before = {i \in 1..r - 1 : EndKey(f, next[i]) < lo}
  BY DEF Before
<1>6. l = Max({0} \cup before)
  BY DEF InsertLeft
<1>. HIDE DEF next, l, r, lo, hi, before
<1>7. r \in 1..Len(next) + 1 /\ (r = Len(next) + 1 \/ r \in behind)
  <2>0. Len(next) \in Nat /\ \A i \in behind : i \in 1..Len(next)
    BY <1>2
  <2>. HIDE DEF behind
  <2>1. {Len(next) + 1} \cup behind \subseteq 1..Len(next) + 1
    BY <2>0
  <2>2. {Len(next) + 1} \cup behind \subseteq Nat /\ {Len(next) + 1} \cup behind # {}
    BY <1>2, <2>1
  <2>3. r \in {Len(next) + 1} \cup behind
    BY <1>4, <2>2, MinOfNaturals
  <2>. QED
    BY <2>1, <2>3
<1>8. /\ l \in {0} \cup before /\ \A i \in before : i <= l
      /\ before \subseteq 1..r - 1 /\ l \in 0..r - 1
  <2>1. before \subseteq 1..r - 1
    BY <1>5
  <2>0. r \in Nat /\ r >= 1
    BY <1>2, <1>7
  <2>2. {0} \cup before \subseteq Nat /\ {0} \cup before # {}
        /\ \A i \in {0} \cup before : i <= r
    BY <2>0, <2>1
  <2>3. l \in {0} \cup before /\ \A i \in {0} \cup before : i <= l
    BY <1>6, <2>0, <2>2, MaxOfBounded
  <2>4. l \in 0..r - 1
    BY <2>0, <2>1, <2>3
  <2>. QED
    BY <2>1, <2>3, <2>4
<1>9. \A i \in 1..Len(next) : \A j \in 1..Len(next) :
          i < j => EndKey(f, next[i]) < BeginKey(f, next[j])
  BY <1>2 DEF Sorted
<1>10. ASSUME NEW i \in 1..l PROVE EndKey(f, next[i]) < lo
  <2>1. l \in before /\ EndKey(f, next[l]) < lo /\ i \in 1..Len(next) /\ l \in 1..Len(next)
    BY <1>2, <1>5, <1>7, <1>8
  <2>2. CASE i = l
    BY <2>1, <2>2
  <2>3. CASE i # l
    <3>1. i < l
      BY <1>8, <2>3
    <3>2. EndKey(f, next[i]) < BeginKey(f, next[l])
      BY <1>9, <2>1, <3>1
    <3>. QED
      BY <1>1, <1>3, <2>1, <3>2
  <2>. QED
    BY <2>2, <2>3
<1>11. ASSUME NEW i \in r..Len(next) PROVE hi < BeginKey(f, next[i])
  <2>1. r \in behind /\ BeginKey(f, next[r]) > hi /\ i \in 1..Len(next) /\ r \in 1..Len(next)
    BY <1>2, <1>7
  <2>2. CASE i = r
    <3>1. BeginKey(f, next[r]) \in Nat
      BY <1>3, <2>1
    <3>. QED
      BY <1>1, <2>1, <2>2, <3>1
  <2>3. CASE i # r
    <3>1. r < i
      BY <1>7, <2>3
    <3>2. EndKey(f, next[r]) < BeginKey(f, next[i])
      BY <1>9, <2>1, <3>1
    <3>. QED
      BY <1>1, <1>3, <2>1, <3>2
  <2>. QED
    BY <2>2, <2>3
<1>12. Overlapping(f, lv, n) = (1..r - 1) \ before
  BY DEF Overlapping, r, before
<1>13. ASSUME NEW i \in 1..r - 1 PROVE i \in before <=> i <= l
  <2>1. CASE i <= l
    <3>1. i \in 1..l
      BY <1>8, <2>1
    <3>. QED
      BY <1>5, <1>10, <2>1, <3>1
  <2>2. CASE ~ (i <= l)
    BY <1>8, <2>2
  <2>. QED
    BY <2>1, <2>2
<1>14. Overlapping(f, lv, n) = l + 1..r - 1
  BY <1>7, <1>8, <1>12, <1>13
<1>. QED
  BY <1>7, <1>8, <1>10, <1>11, <1>14 DEF next, l, r, lo, hi

-----------------------------------------------------------------------------
(***************************************************************************)
(* SizeTieredCompaction: the merged table.                                 *)
(***************************************************************************)
\* The tables that are merged, by their numbers.
LEMMA SourcesShape ==
    ASSUME EmptyKey \notin Key,
           NEW f \in Files, NEW lv, WellFormed(f, lv), NEW n \in 1..Len(lv), lv[n] # <<>>
    PROVE  LET sources == MergeSources(f, lv, n)
               N == Len(lv[n])
               next == NextLevel(lv, n)
               between == InsertLeft(f, lv, n) + 1..InsertRight(f, lv, n) - 1
           IN  /\ N \in Nat \ {0}
               /\ between \subseteq 1..Len(next)
               /\ \A v : v \in DOMAIN sources <=> v \in 1..N \/ \E i \in between : v = N + i
               /\ \A i \in 1..N : sources[i] = lv[n][N - i + 1] /\ N - i + 1 \in 1..N
               /\ \A i \in between : N + i \in DOMAIN sources /\ sources[N + i] = next[i]
               /\ \A v \in DOMAIN sources : /\ v \in Nat
                                            /\ sources[v] \in 1..MaxId /\ DOMAIN f[sources[v]] # {}
<1>. DEFINE sources == MergeSources(f, lv, n)
            N == Len(lv[n])
            next == NextLevel(lv, n)
            between == InsertLeft(f, lv, n) + 1..InsertRight(f, lv, n) - 1
<1>1. lv \in Levels /\ lv[n] \in Seq(1..MaxId) /\ DOMAIN lv[n] = 1..N
  BY LevelsShape DEF WellFormed, Shaped
<1>2. N \in Nat \ {0}
  BY <1>1, EmptySeq
<1>3. Overlapping(f, lv, n) = between /\ Len(next) \in Nat
  BY InsertPositions, NextLevelShape
<1>4. between \subseteq 1..Len(next)
  BY <1>3, InsertPositions
<1>5. SourceNumbers(f, lv, n) = 1..N \cup {N + i : i \in between}
  BY <1>3 DEF SourceNumbers
<1>6. NewestFirst(lv, n) = [i \in 1..N |-> lv[n][N - i + 1]]
  BY DEF NewestFirst, Reverse
<1>7. sources = [v \in SourceNumbers(f, lv, n) |->
                    IF v <= N THEN NewestFirst(lv, n)[v] ELSE next[v - N]]
  BY DEF MergeSources
<1>8. \A i \in 1..N : N - i + 1 \in 1..N /\ lv[n][N - i + 1] \in 1..MaxId
                      /\ DOMAIN f[lv[n][N - i + 1]] # {}
  <2>1. \A j \in 1..N : lv[n][j] \in 1..MaxId /\ DOMAIN f[lv[n][j]] # {}
    BY TablesHaveKeys
  <2>. QED
    BY <1>2, <2>1
<1>9. \A i \in between : i \in Nat \ {0} /\ next[i] \in 1..MaxId /\ DOMAIN f[next[i]] # {}
  <2>. SUFFICES ASSUME NEW i \in between
                PROVE  i \in Nat \ {0} /\ next[i] \in 1..MaxId /\ DOMAIN f[next[i]] # {}
    OBVIOUS
  <2>1. i \in 1..Len(next)
    BY <1>4
  <2>2. n + 1 \in 1..Len(lv) /\ next = lv[n + 1]
    BY <2>1, NextLevelShape
  <2>3. next[i] \in 1..MaxId /\ DOMAIN f[next[i]] # {}
    BY <2>1, <2>2, TablesHaveKeys
  <2>. QED
    BY <2>1, <2>3
<1>. HIDE DEF sources, N, next, between
<1>10. \A v : v \in DOMAIN sources <=> v \in 1..N \/ \E i \in between : v = N + i
  BY <1>5, <1>7
<1>11. \A i \in 1..N : sources[i] = lv[n][N - i + 1]
  <2>1. \A i \in 1..N : i \in SourceNumbers(f, lv, n) /\ i <= N
    BY <1>2, <1>5
  <2>. QED
    BY <1>6, <1>7, <2>1
<1>12. \A i \in between : N + i \in DOMAIN sources /\ sources[N + i] = next[i]
  <2>. SUFFICES ASSUME NEW i \in between
                PROVE  N + i \in DOMAIN sources /\ sources[N + i] = next[i]
    OBVIOUS
  <2>1. N + i \in SourceNumbers(f, lv, n)
    BY <1>5
  <2>2. ~ (N + i <= N) /\ (N + i) - N = i
    BY <1>2, <1>9
  <2>. QED
    BY <1>7, <2>1, <2>2
<1>13. ASSUME NEW v \in DOMAIN sources
       PROVE  v \in Nat /\ sources[v] \in 1..MaxId /\ DOMAIN f[sources[v]] # {}
  <2>1. CASE v \in 1..N
    BY <1>2, <1>8, <1>11, <2>1
  <2>2. CASE \E i \in between : v = N + i
    BY <1>2, <1>9, <1>12, <2>2
  <2>. QED
    BY <1>10, <2>1, <2>2
<1>. QED
  BY <1>2, <1>4, <1>8, <1>10, <1>11, <1>12, <1>13 DEF sources, N, next, between

\* A merged table has the keys of all its sources, and for each key the value of the
\* source with the smallest number.
LEMMA MergedShape ==
    ASSUME NEW f \in Files, NEW sources,
           \A v \in DOMAIN sources : v \in Nat /\ sources[v] \in 1..MaxId
    PROVE  /\ Merged(f, sources) \in Tables
           /\ \A k : k \in DOMAIN Merged(f, sources)
                       <=> \E v \in DOMAIN sources : k \in DOMAIN f[sources[v]]
           /\ \A k \in DOMAIN Merged(f, sources) :
                 \E v \in DOMAIN sources :
                    /\ k \in DOMAIN f[sources[v]]
                    /\ \A w \in DOMAIN sources : k \in DOMAIN f[sources[w]] => v <= w
                    /\ Merged(f, sources)[k] = f[sources[v]][k]
<1>. DEFINE keys == UNION {DOMAIN f[id] : id \in Range(sources)}
            having(k) == {v \in DOMAIN sources : k \in DOMAIN f[sources[v]]}
<1>1. \A v \in DOMAIN sources : /\ DOMAIN f[sources[v]] \subseteq Key
                                /\ f[sources[v]] \in [DOMAIN f[sources[v]] -> Int]
  BY TableKeys
<1>2. \A k : k \in keys <=> \E v \in DOMAIN sources : k \in DOMAIN f[sources[v]]
  BY DEF Range
<1>3. Merged(f, sources) = [k \in keys |-> f[sources[Min(having(k))]][k]]
  BY DEF Merged
<1>4. \A k \in keys : /\ Min(having(k)) \in DOMAIN sources /\ k \in DOMAIN f[sources[Min(having(k))]]
                      /\ \A w \in having(k) : Min(having(k)) <= w
  <2>. SUFFICES ASSUME NEW k \in keys
                PROVE  /\ Min(having(k)) \in having(k)
                       /\ \A w \in having(k) : Min(having(k)) <= w
    OBVIOUS
  <2>1. having(k) \subseteq Nat /\ having(k) # {}
    BY <1>2
  <2>. HIDE DEF having
  <2>. QED
    BY <2>1, MinOfNaturals
<1>. HIDE DEF keys
<1>5. keys \subseteq Key
  BY <1>1, <1>2
<1>6. \A k \in keys : f[sources[Min(having(k))]][k] \in Int
  BY <1>1, <1>4
<1>7. Merged(f, sources) \in [keys -> Int]
  <2>. HIDE DEF having
  <2>. QED
    BY <1>3, <1>6
<1>8. Merged(f, sources) \in Tables
  BY <1>5, <1>7 DEF Tables
<1>9. DOMAIN Merged(f, sources) = keys
  BY <1>7
<1>10. \A k \in keys : \E v \in DOMAIN sources :
          /\ k \in DOMAIN f[sources[v]]
          /\ \A w \in DOMAIN sources : k \in DOMAIN f[sources[w]] => v <= w
          /\ Merged(f, sources)[k] = f[sources[v]][k]
  BY <1>3, <1>4
<1>. QED
  BY <1>2, <1>8, <1>9, <1>10

\* What a compaction writes is a table, whatever the keys.
LEMMA WrittenType ==
    ASSUME NEW f \in Files, NEW lv \in Levels, NEW n \in 1..Len(lv),
           NEW id, NEW g \in NewTable(f, MergeSources(f, lv, n), id)
    PROVE  g \in Tables
<1>. DEFINE sources == MergeSources(f, lv, n)
            N == Len(lv[n])
            next == NextLevel(lv, n)
            over == Overlapping(f, lv, n)
            merged == Merged(f, sources)
<1>1. N \in Nat /\ \A i \in 1..N : lv[n][i] \in 1..MaxId
  BY LevelsShape
<1>2. Len(next) \in Nat /\ \A i \in 1..Len(next) : next[i] \in 1..MaxId
  BY NextLevelType
<1>3. \A i \in over : i \in 1..Len(next)
  BY InsertRange
<1>4. SourceNumbers(f, lv, n) = 1..N \cup {N + i : i \in over}
  BY DEF SourceNumbers
<1>5. NewestFirst(lv, n) = [i \in 1..N |-> lv[n][N - i + 1]]
  BY DEF NewestFirst, Reverse
<1>6. sources = [v \in SourceNumbers(f, lv, n) |->
                    IF v <= N THEN NewestFirst(lv, n)[v] ELSE next[v - N]]
  BY DEF MergeSources
<1>7. g = merged \/ g = [k \in DOMAIN merged |-> Scrambled]
  BY DEF NewTable
<1>. HIDE DEF sources, N, next, over, merged
<1>8. ASSUME NEW v \in DOMAIN sources PROVE v \in Nat /\ sources[v] \in 1..MaxId
  <2>1. CASE v \in 1..N
    <3>1. v <= N /\ N - v + 1 \in 1..N /\ v \in Nat
      BY <1>1, <2>1
    <3>. QED
      BY <1>1, <1>5, <1>6, <2>1, <3>1
  <2>2. ASSUME NEW i \in over, v = N + i PROVE v \in Nat /\ sources[v] \in 1..MaxId
    <3>1. ~ (v <= N) /\ v - N = i /\ v \in Nat /\ i \in 1..Len(next)
      BY <1>1, <1>2, <1>3, <2>2
    <3>. QED
      BY <1>2, <1>6, <3>1
  <2>. QED
    BY <1>4, <1>6, <2>1, <2>2
<1>9. merged \in Tables
  BY <1>8, MergedShape DEF merged
<1>10. PICK S \in SUBSET Key : merged \in [S -> Int]
  BY <1>9 DEF Tables
<1>11. g \in [S -> Int]
  BY <1>7, <1>10 DEF Scrambled
<1>. QED
  BY <1>11 DEF Tables

\* Whatever a compaction writes has the keys of the tables it merged.
LEMMA WrittenTable ==
    ASSUME EmptyKey \notin Key,
           NEW f \in Files, NEW lv, WellFormed(f, lv), NEW n \in 1..Len(lv), lv[n] # <<>>,
           NEW id, NEW g \in NewTable(f, MergeSources(f, lv, n), id)
    PROVE  /\ g \in Tables /\ DOMAIN g # {}
           /\ \A k : k \in DOMAIN g <=>
                 \/ \E i \in 1..Len(lv[n]) : k \in DOMAIN f[lv[n][i]]
                 \/ \E i \in InsertLeft(f, lv, n) + 1..InsertRight(f, lv, n) - 1 :
                       k \in DOMAIN f[NextLevel(lv, n)[i]]
<1>. DEFINE sources == MergeSources(f, lv, n)
            N == Len(lv[n])
            next == NextLevel(lv, n)
            between == InsertLeft(f, lv, n) + 1..InsertRight(f, lv, n) - 1
            merged == Merged(f, sources)
<1>1. /\ N \in Nat \ {0}
      /\ between \subseteq 1..Len(next)
      /\ \A v : v \in DOMAIN sources <=> v \in 1..N \/ \E i \in between : v = N + i
      /\ \A i \in 1..N : sources[i] = lv[n][N - i + 1] /\ N - i + 1 \in 1..N
      /\ \A i \in between : N + i \in DOMAIN sources /\ sources[N + i] = next[i]
      /\ \A v \in DOMAIN sources : /\ v \in Nat
                                   /\ sources[v] \in 1..MaxId /\ DOMAIN f[sources[v]] # {}
  <2>0. N \in Nat \ {0} /\ between \subseteq 1..Len(next)
    BY SourcesShape
  <2>1. \A v : v \in DOMAIN sources <=> v \in 1..N \/ \E i \in between : v = N + i
    BY SourcesShape
  <2>2. \A i \in 1..N : sources[i] = lv[n][N - i + 1] /\ N - i + 1 \in 1..N
    BY SourcesShape
  <2>3. \A i \in between : N + i \in DOMAIN sources /\ sources[N + i] = next[i]
    BY SourcesShape
  <2>4. \A v \in DOMAIN sources : v \in Nat
    BY SourcesShape
  <2>5. \A v \in DOMAIN sources : sources[v] \in 1..MaxId
    BY SourcesShape
  <2>6. \A v \in DOMAIN sources : DOMAIN f[sources[v]] # {}
    BY SourcesShape
  <2>. QED
    BY <2>0, <2>1, <2>2, <2>3, <2>4, <2>5, <2>6
<1>2. g = merged \/ g = [k \in DOMAIN merged |-> Scrambled]
  BY DEF NewTable
<1>. HIDE DEF sources, N, next, between
<1>3. DOMAIN sources # {}
  BY <1>1
<1>4. /\ merged \in Tables
      /\ \A k : k \in DOMAIN merged <=> \E v \in DOMAIN sources : k \in DOMAIN f[sources[v]]
  <2>. HIDE DEF merged
  <2>1. \A v \in DOMAIN sources : v \in Nat /\ sources[v] \in 1..MaxId
    BY <1>1
  <2>. QED
    BY <2>1, MergedShape DEF merged
<1>. HIDE DEF merged
<1>41. DOMAIN merged # {}
  <2>1. PICK v \in DOMAIN sources : DOMAIN f[sources[v]] # {}
    BY <1>1, <1>3
  <2>2. PICK k : k \in DOMAIN f[sources[v]]
    BY <2>1
  <2>. QED
    BY <1>4, <2>2
<1>5. PICK S \in SUBSET Key : merged \in [S -> Int]
  BY <1>4 DEF Tables
<1>6. g \in [S -> Int] /\ S = DOMAIN merged
  BY <1>2, <1>5 DEF Scrambled
<1>7. g \in Tables /\ DOMAIN g = DOMAIN merged
  BY <1>6 DEF Tables
<1>8. ASSUME NEW k
      PROVE  k \in DOMAIN merged <=> \/ \E i \in 1..N : k \in DOMAIN f[lv[n][i]]
                                     \/ \E i \in between : k \in DOMAIN f[next[i]]
  <2>1. ASSUME NEW v \in DOMAIN sources, k \in DOMAIN f[sources[v]]
        PROVE  \/ \E i \in 1..N : k \in DOMAIN f[lv[n][i]]
               \/ \E i \in between : k \in DOMAIN f[next[i]]
    <3>1. CASE v \in 1..N
      BY <1>1, <2>1, <3>1
    <3>2. ASSUME NEW i \in between, v = N + i PROVE k \in DOMAIN f[next[i]]
      BY <1>1, <2>1, <3>2
    <3>. QED
      BY <1>1, <3>1, <3>2
  <2>2. ASSUME NEW i \in 1..N, k \in DOMAIN f[lv[n][i]]
        PROVE  \E v \in DOMAIN sources : k \in DOMAIN f[sources[v]]
    <3>1. N - i + 1 \in 1..N /\ N - (N - i + 1) + 1 = i
      BY <1>1
    <3>2. sources[N - i + 1] = lv[n][i] /\ N - i + 1 \in DOMAIN sources
      BY <1>1, <3>1
    <3>. QED
      BY <2>2, <3>2
  <2>3. ASSUME NEW i \in between, k \in DOMAIN f[next[i]]
        PROVE  \E v \in DOMAIN sources : k \in DOMAIN f[sources[v]]
    BY <1>1, <2>3
  <2>. QED
    BY <1>4, <2>1, <2>2, <2>3
<1>. QED
  BY <1>41, <1>7, <1>8 DEF N, next, between

\* The levels after a compaction.
LEMMA CompactedShape ==
    ASSUME NEW f \in Files, NEW lv \in Levels, NEW n \in 1..Len(lv),
           NEW id \in 1..MaxId
    PROVE  LET new == Compacted(f, lv, n, id)
               next == NextLevel(lv, n)
               l == InsertLeft(f, lv, n)
               r == InsertRight(f, lv, n)
           IN  /\ new \in Levels
               /\ Len(new) = (IF n = Len(lv) THEN n + 1 ELSE Len(lv))
               /\ n + 1 \in 1..Len(new)
               /\ new[n] = <<>>
               /\ Len(new[n + 1]) = l + 1 + (Len(next) - r + 1)
               /\ \A i \in 1..l : new[n + 1][i] = next[i]
               /\ new[n + 1][l + 1] = id
               /\ \A i \in r..Len(next) : new[n + 1][l + 1 + (i - r + 1)] = next[i]
               /\ \A m \in 1..Len(lv) : m # n /\ m # n + 1 => new[m] = lv[m]
<1>. DEFINE new == Compacted(f, lv, n, id)
            next == NextLevel(lv, n)
            l == InsertLeft(f, lv, n)
            r == InsertRight(f, lv, n)
            left == SubSeq(next, 1, l)
            right == SubSeq(next, r, Len(next))
            size == Max({Len(lv), n + 1})
            all == left \o <<id>> \o right
<1>1. lv \in Levels /\ Len(lv) \in Nat /\ \A m \in 1..Len(lv) : lv[m] \in Seq(1..MaxId)
  BY LevelsShape
<1>2. next \in Seq(1..MaxId) /\ Len(next) \in Nat /\ \A i \in 1..Len(next) : next[i] \in 1..MaxId
  BY NextLevelType
<1>3. r \in 1..Len(next) + 1 /\ l \in 0..r - 1
  BY InsertRange
<1>4. new = [i \in 1..size |-> IF i = n THEN <<>> ELSE IF i = n + 1 THEN all ELSE lv[i]]
  BY DEF Compacted
<1>5. size = IF n = Len(lv) THEN n + 1 ELSE Len(lv)
  <2>. DEFINE both == {Len(lv), n + 1}
  <2>1. both \subseteq Nat /\ both # {} /\ Len(lv) + 1 \in Nat /\ \A m \in both : m <= Len(lv) + 1
    BY <1>1
  <2>. HIDE DEF both
  <2>2. Max(both) \in both /\ \A m \in both : m <= Max(both)
    BY <2>1, MaxOfBounded
  <2>3. size = Max(both)
    BY DEF both
  <2>. HIDE DEF size
  <2>. QED
    BY <1>1, <2>2, <2>3 DEF both
<1>. HIDE DEF new, next, l, r, size
<1>6. /\ left \in Seq(1..MaxId) /\ Len(left) = l
      /\ \A i \in 1..l : left[i] = next[i]
  <2>1. \A i \in 1..l : next[i] \in 1..MaxId
    BY <1>2, <1>3
  <2>2. /\ left \in Seq(1..MaxId) /\ Len(left) = (IF 1 <= l THEN l - 1 + 1 ELSE 0)
        /\ \A i \in 1..l - 1 + 1 : left[i] = next[1 + i - 1]
    BY <1>3, <2>1, SubSeqProperties
  <2>. HIDE DEF left
  <2>. QED
    BY <1>3, <2>2
<1>7. /\ right \in Seq(1..MaxId) /\ Len(right) = Len(next) - r + 1
      /\ \A i \in 1..Len(next) - r + 1 : right[i] = next[r + i - 1]
  <2>1. \A i \in r..Len(next) : next[i] \in 1..MaxId
    BY <1>2, <1>3
  <2>2. /\ right \in Seq(1..MaxId) /\ Len(right) = (IF r <= Len(next) THEN Len(next) - r + 1 ELSE 0)
        /\ \A i \in 1..Len(next) - r + 1 : right[i] = next[r + i - 1]
    BY <1>2, <1>3, <2>1, SubSeqProperties
  <2>. HIDE DEF right
  <2>. QED
    BY <1>2, <1>3, <2>2
<1>. HIDE DEF left, right
<1>8. <<id>> \in Seq(1..MaxId) /\ Len(<<id>>) = 1 /\ <<id>>[1] = id
  OBVIOUS
<1>9. /\ left \o <<id>> \in Seq(1..MaxId) /\ Len(left \o <<id>>) = l + 1
      /\ \A i \in 1..l + 1 : (left \o <<id>>)[i] = IF i <= l THEN left[i] ELSE <<id>>[i - l]
  <2>. HIDE DEF all
  <2>. QED
    BY <1>6, <1>8, ConcatProperties
<1>10. /\ all \in Seq(1..MaxId) /\ Len(all) = l + 1 + (Len(next) - r + 1)
       /\ \A i \in 1..l + 1 + (Len(next) - r + 1) :
             all[i] = IF i <= l + 1 THEN (left \o <<id>>)[i] ELSE right[i - (l + 1)]
  <2>. DEFINE first == left \o <<id>>
  <2>1. first \in Seq(1..MaxId) /\ Len(first) = l + 1
    BY <1>9
  <2>. HIDE DEF first
  <2>2. /\ first \o right \in Seq(1..MaxId) /\ Len(first \o right) = Len(first) + Len(right)
        /\ \A i \in 1..Len(first) + Len(right) :
             (first \o right)[i] = IF i <= Len(first) THEN first[i] ELSE right[i - Len(first)]
    BY <1>7, <2>1, ConcatProperties
  <2>. QED
    BY <1>7, <2>1, <2>2 DEF first
<1>. HIDE DEF all
<1>11. \A i \in 1..l : all[i] = next[i]
  <2>. SUFFICES ASSUME NEW i \in 1..l PROVE all[i] = next[i]
    OBVIOUS
  <2>1. i \in 1..l + 1 /\ i \in 1..l + 1 + (Len(next) - r + 1) /\ i <= l + 1 /\ i <= l
    BY <1>2, <1>3
  <2>. QED
    BY <1>6, <1>9, <1>10, <2>1
<1>12. all[l + 1] = id
  <2>1. l + 1 \in 1..l + 1 /\ l + 1 \in 1..l + 1 + (Len(next) - r + 1) /\ l + 1 <= l + 1
        /\ ~ (l + 1 <= l) /\ (l + 1) - l = 1
    BY <1>2, <1>3
  <2>. QED
    BY <1>8, <1>9, <1>10, <2>1
<1>13. ASSUME NEW i \in r..Len(next) PROVE all[l + 1 + (i - r + 1)] = next[i]
  <2>. DEFINE j == l + 1 + (i - r + 1)
  <2>1. /\ j \in 1..l + 1 + (Len(next) - r + 1) /\ ~ (j <= l + 1) /\ j - (l + 1) = i - r + 1
        /\ i - r + 1 \in 1..Len(next) - r + 1 /\ r + (i - r + 1) - 1 = i
    BY <1>2, <1>3
  <2>. HIDE DEF j
  <2>2. all[j] = right[i - r + 1]
    BY <1>10, <2>1
  <2>3. right[i - r + 1] = next[i]
    BY <1>7, <2>1
  <2>. QED
    BY <2>2, <2>3 DEF j
<1>14. size \in Nat /\ n \in 1..size /\ n + 1 \in 1..size /\ n # n + 1 /\ Len(lv) <= size
       /\ \A m \in 1..size : m \in 1..Len(lv) \/ m = n + 1
  BY <1>1, <1>5
<1>15. /\ new[n] = <<>> /\ new[n + 1] = all
       /\ \A m \in 1..Len(lv) : m # n /\ m # n + 1 => new[m] = lv[m]
  BY <1>1, <1>4, <1>14
<1>16. \A m \in 1..size : new[m] \in Seq(1..MaxId)
  BY <1>1, <1>10, <1>14, <1>15, EmptySeq
<1>17. DOMAIN new = 1..size /\ new \in [1..size -> Seq(1..MaxId)]
  BY <1>4, <1>16
<1>18. new \in Levels /\ Len(new) = size
  BY <1>14, <1>17, SeqDef, LenProperties DEF Levels
<1>. QED
  BY <1>5, <1>10, <1>11, <1>12, <1>13, <1>14, <1>15, <1>18 DEF new, next, l, r

\* Each position of the next level after a compaction.
LEMMA CompactedTables ==
    ASSUME NEW f \in Files, NEW lv \in Levels, NEW n \in 1..Len(lv),
           NEW id \in 1..MaxId, NEW j \in 1..Len(Compacted(f, lv, n, id)[n + 1])
    PROVE  LET table == Compacted(f, lv, n, id)[n + 1][j]
               next == NextLevel(lv, n)
               l == InsertLeft(f, lv, n)
               r == InsertRight(f, lv, n)
           IN  \/ j <= l /\ j \in 1..Len(next) /\ table = next[j]
               \/ j = l + 1 /\ table = id
               \/ /\ j > l + 1 /\ r + j - (l + 2) \in r..Len(next)
                  /\ r + j - (l + 2) \in 1..Len(next)
                  /\ table = next[r + j - (l + 2)]
<1>. DEFINE new == Compacted(f, lv, n, id)
            next == NextLevel(lv, n)
            l == InsertLeft(f, lv, n)
            r == InsertRight(f, lv, n)
<1>1. /\ Len(new[n + 1]) = l + 1 + (Len(next) - r + 1)
      /\ \A i \in 1..l : new[n + 1][i] = next[i]
      /\ new[n + 1][l + 1] = id
      /\ \A i \in r..Len(next) : new[n + 1][l + 1 + (i - r + 1)] = next[i]
  BY CompactedShape
<1>2. r \in 1..Len(next) + 1 /\ l \in 0..r - 1
  BY InsertRange
<1>3. Len(next) \in Nat
  BY NextLevelType
<1>. HIDE DEF next, l, r
<1>4. j \in 1..l + 1 + (Len(next) - r + 1) /\ l \in Nat /\ r \in Nat /\ j \in Nat
  <2>1. j \in 1..Len(new[n + 1])
    OBVIOUS
  <2>2. Len(new[n + 1]) = l + 1 + (Len(next) - r + 1)
    BY <1>1
  <2>. QED
    BY <1>2, <1>3, <2>1, <2>2
<1>. HIDE DEF new
<1>5. CASE j <= l
  <2>1. j \in 1..l /\ j \in 1..Len(next)
    BY <1>2, <1>3, <1>4, <1>5
  <2>2. new[n + 1][j] = next[j]
    BY <1>1, <2>1
  <2>. QED
    BY <1>5, <2>1, <2>2 DEF new, next, l, r
<1>6. CASE j = l + 1
  <2>1. new[n + 1][j] = id
    BY <1>1, <1>6
  <2>. QED
    BY <1>6, <2>1 DEF new, next, l, r
<1>7. CASE j > l + 1
  <2>. DEFINE i == r + j - (l + 2)
  <2>1. i \in r..Len(next) /\ i \in 1..Len(next) /\ l + 1 + (i - r + 1) = j
    BY <1>2, <1>3, <1>4, <1>7
  <2>2. new[n + 1][l + 1 + (i - r + 1)] = next[i]
    BY <1>1, <2>1
  <2>3. new[n + 1][j] = next[i]
    BY <2>1, <2>2
  <2>. QED
    BY <1>7, <2>1, <2>3 DEF new, next, l, r
<1>. QED
  BY <1>4, <1>5, <1>6, <1>7

\* A compaction names no table that was not named before, but its own.
LEMMA CompactedIds ==
    ASSUME NEW f \in Files, NEW lv \in Levels, NEW n \in 1..Len(lv),
           NEW id \in 1..MaxId, NEW m \in 1..Len(Compacted(f, lv, n, id)),
           NEW x, InLevel(Compacted(f, lv, n, id), m, x)
    PROVE  /\ m # n
           /\ \/ m = n + 1 /\ x = id
              \/ m \in 1..Len(lv) /\ InLevel(lv, m, x)
<1>. DEFINE new == Compacted(f, lv, n, id)
            next == NextLevel(lv, n)
<1>1. /\ Len(new) = (IF n = Len(lv) THEN n + 1 ELSE Len(lv))
      /\ new[n] = <<>>
      /\ \A i \in 1..Len(lv) : i # n /\ i # n + 1 => new[i] = lv[i]
  <2>1. Len(new) = (IF n = Len(lv) THEN n + 1 ELSE Len(lv)) /\ new[n] = <<>>
    BY CompactedShape
  <2>2. \A i \in 1..Len(lv) : i # n /\ i # n + 1 => new[i] = lv[i]
    BY CompactedShape
  <2>. QED
    BY <2>1, <2>2
<1>2. lv \in Levels /\ Len(lv) \in Nat
  BY LevelsShape
<1>3. PICK j \in 1..Len(new[m]) : new[m][j] = x
  BY DEF InLevel
<1>4. m # n
  BY <1>1, <1>3
<1>5. CASE m = n + 1
  <2>0. j \in 1..Len(Compacted(f, lv, n, id)[n + 1]) /\ new[n + 1][j] = x
    BY <1>3, <1>5
  <2>1. new[n + 1][j] = id \/ \E i \in 1..Len(next) : new[n + 1][j] = next[i]
    <3>. DEFINE l == InsertLeft(f, lv, n)
                r == InsertRight(f, lv, n)
    <3>1. \/ j <= l /\ j \in 1..Len(next) /\ new[n + 1][j] = next[j]
          \/ j = l + 1 /\ new[n + 1][j] = id
          \/ /\ j > l + 1 /\ r + j - (l + 2) \in r..Len(next)
             /\ r + j - (l + 2) \in 1..Len(next)
             /\ new[n + 1][j] = next[r + j - (l + 2)]
      BY <2>0, CompactedTables
    <3>. HIDE DEF new, next, l, r
    <3>. QED
      BY <3>1
  <2>2. \A i \in 1..Len(next) : n + 1 \in 1..Len(lv) /\ next = lv[n + 1]
    BY NextLevelType
  <2>. HIDE DEF new, next
  <2>. QED
    BY <1>4, <1>5, <2>0, <2>1, <2>2 DEF InLevel
<1>6. CASE m # n + 1
  <2>1. m \in 1..Len(lv)
    BY <1>1, <1>2, <1>6
  <2>2. new[m] = lv[m]
    BY <1>1, <1>4, <1>6, <2>1
  <2>. QED
    BY <1>3, <1>4, <2>1, <2>2 DEF InLevel
<1>. QED
  BY <1>5, <1>6

\* The table written lies between its neighbours.
LEMMA WrittenBetween ==
    ASSUME EmptyKey \notin Key,
           NEW f \in Files, NEW lv, WellFormed(f, lv), NEW n \in 1..Len(lv), lv[n] # <<>>,
           NEW id, NEW g \in NewTable(f, MergeSources(f, lv, n), id), NEW k \in DOMAIN g
    PROVE  LET next == NextLevel(lv, n) IN
           /\ k \in Nat
           /\ \A i \in 1..InsertLeft(f, lv, n) : EndKey(f, next[i]) < k
           /\ \A i \in InsertRight(f, lv, n)..Len(next) : k < BeginKey(f, next[i])
<1>. DEFINE next == NextLevel(lv, n)
            l == InsertLeft(f, lv, n)
            r == InsertRight(f, lv, n)
            lo == CompactMinKey(f, lv, n)
            hi == CompactMaxKey(f, lv, n)
<1>1. \/ \E i \in 1..Len(lv[n]) : k \in DOMAIN f[lv[n][i]]
      \/ \E i \in l + 1..r - 1 : k \in DOMAIN f[next[i]]
  BY WrittenTable
<1>2. /\ lo \in Nat /\ hi \in Nat
      /\ \A i \in 1..Len(lv[n]) : \A x \in DOMAIN f[lv[n][i]] : lo <= x /\ x <= hi
  BY CompactBounds
<1>3. /\ r \in 1..Len(next) + 1 /\ l \in 0..r - 1
      /\ \A i \in 1..l : EndKey(f, next[i]) < lo
      /\ \A i \in r..Len(next) : hi < BeginKey(f, next[i])
  BY InsertPositions
<1>4. Len(next) \in Nat /\ Sorted(f, next)
  BY NextLevelShape
<1>5. \A i \in 1..Len(next) :
         /\ BeginKey(f, next[i]) \in Nat /\ EndKey(f, next[i]) \in Nat
         /\ \A x \in DOMAIN f[next[i]] : x \in Nat /\ BeginKey(f, next[i]) <= x /\ x <= EndKey(f, next[i])
  <2>. SUFFICES ASSUME NEW i \in 1..Len(next)
                PROVE  /\ BeginKey(f, next[i]) \in Nat /\ EndKey(f, next[i]) \in Nat
                       /\ \A x \in DOMAIN f[next[i]] :
                             x \in Nat /\ BeginKey(f, next[i]) <= x /\ x <= EndKey(f, next[i])
    OBVIOUS
  <2>1. n + 1 \in 1..Len(lv) /\ next = lv[n + 1]
    BY NextLevelShape
  <2>. QED
    BY <2>1, TablesHaveKeys
<1>6. \A i \in 1..Len(lv[n]) : \A x \in DOMAIN f[lv[n][i]] : x \in Nat
  BY TablesHaveKeys
<1>. HIDE DEF next, l, r, lo, hi
<1>7. \A i \in 1..l : i \in 1..Len(next)
  BY <1>3, <1>4
<1>8. \A i \in r..Len(next) : i \in 1..Len(next)
  BY <1>3, <1>4
<1>9. ASSUME NEW j \in 1..Len(lv[n]), k \in DOMAIN f[lv[n][j]]
      PROVE  k \in Nat /\ (\A i \in 1..l : EndKey(f, next[i]) < k)
             /\ \A i \in r..Len(next) : k < BeginKey(f, next[i])
  <2>1. k \in Nat /\ lo <= k /\ k <= hi
    BY <1>2, <1>6, <1>9
  <2>2. ASSUME NEW i \in 1..l PROVE EndKey(f, next[i]) < k
    <3>1. EndKey(f, next[i]) < lo /\ EndKey(f, next[i]) \in Nat
      BY <1>3, <1>5, <1>7
    <3>. QED
      BY <1>2, <2>1, <3>1
  <2>3. ASSUME NEW i \in r..Len(next) PROVE k < BeginKey(f, next[i])
    <3>1. hi < BeginKey(f, next[i]) /\ BeginKey(f, next[i]) \in Nat
      BY <1>3, <1>5, <1>8
    <3>. QED
      BY <1>2, <2>1, <3>1
  <2>. QED
    BY <2>1, <2>2, <2>3
<1>10. ASSUME NEW j \in l + 1..r - 1, k \in DOMAIN f[next[j]]
       PROVE  k \in Nat /\ (\A i \in 1..l : EndKey(f, next[i]) < k)
              /\ \A i \in r..Len(next) : k < BeginKey(f, next[i])
  <2>1. j \in 1..Len(next)
    BY <1>3, <1>4
  <2>2. k \in Nat /\ BeginKey(f, next[j]) <= k /\ k <= EndKey(f, next[j])
    BY <1>5, <1>10, <2>1
  <2>3. ASSUME NEW i \in 1..l PROVE EndKey(f, next[i]) < k
    <3>1. i < j /\ i \in 1..Len(next)
      BY <1>3, <1>7
    <3>2. EndKey(f, next[i]) < BeginKey(f, next[j])
      BY <1>4, <2>1, <3>1 DEF Sorted
    <3>. QED
      BY <1>5, <2>1, <2>2, <3>1, <3>2
  <2>4. ASSUME NEW i \in r..Len(next) PROVE k < BeginKey(f, next[i])
    <3>1. j < i /\ i \in 1..Len(next)
      BY <1>3, <1>8
    <3>2. EndKey(f, next[j]) < BeginKey(f, next[i])
      BY <1>4, <2>1, <3>1 DEF Sorted
    <3>. QED
      BY <1>5, <2>1, <2>2, <3>1, <3>2
  <2>. QED
    BY <2>2, <2>3, <2>4
<1>. QED
  BY <1>1, <1>9, <1>10 DEF next, l, r

\* A compaction keeps a manifest well formed, whatever the table it wrote holds.
LEMMA CompactedForm ==
    ASSUME EmptyKey \notin Key,
           NEW f \in Files, NEW lv, WellFormed(f, lv), NEW n \in 1..Len(lv), lv[n] # <<>>,
           n <= Len(LevelMax), NEW id \in 1..MaxId,
           \A m \in 1..Len(lv) : InLevel(lv, m, id) => m = n,
           NEW g \in NewTable(f, MergeSources(f, lv, n), id)
    PROVE  /\ [f EXCEPT ![id] = g] \in Files
           /\ WellFormed([f EXCEPT ![id] = g], Compacted(f, lv, n, id))
<1>. DEFINE h == [f EXCEPT ![id] = g]
            new == Compacted(f, lv, n, id)
            next == NextLevel(lv, n)
            l == InsertLeft(f, lv, n)
            r == InsertRight(f, lv, n)
<1>1. g \in Tables /\ DOMAIN g # {}
  BY WrittenTable
<1>2. h \in Files /\ h[id] = g /\ \A x \in 1..MaxId : x # id => h[x] = f[x]
  BY <1>1 DEF Files
<1>3. lv \in Levels /\ Len(lv) \in Nat /\ Len(LevelMax) \in Nat /\ Len(lv) <= Len(LevelMax) + 1
  BY LevelAssumption, LevelsShape, LenProperties DEF WellFormed, Shaped
<1>4. new \in Levels /\ Len(new) = (IF n = Len(lv) THEN n + 1 ELSE Len(lv))
  BY <1>3, CompactedShape
<1>5. \A m \in 1..Len(lv) : m # n /\ m # n + 1 => new[m] = lv[m]
  BY <1>3, CompactedShape
<1>6. new[n] = <<>>
  BY <1>3, CompactedShape
<1>7. \A m \in 1..Len(lv) : \A i \in 1..Len(lv[m]) :
         lv[m][i] \in 1..MaxId /\ DOMAIN f[lv[m][i]] # {}
  BY TablesHaveKeys
<1>8. \A m \in 1..Len(lv) : \A i \in 1..Len(lv[m]) : m # n => h[lv[m][i]] = f[lv[m][i]]
  BY <1>2, <1>7 DEF InLevel
<1>9. Len(next) \in Nat /\ Sorted(f, next)
  BY NextLevelShape
<1>10. \A i \in 1..Len(next) : /\ h[next[i]] = f[next[i]]
                               /\ BeginKey(f, next[i]) \in Nat /\ EndKey(f, next[i]) \in Nat
  <2>. SUFFICES ASSUME NEW i \in 1..Len(next)
                PROVE  /\ h[next[i]] = f[next[i]]
                       /\ BeginKey(f, next[i]) \in Nat /\ EndKey(f, next[i]) \in Nat
    OBVIOUS
  <2>1. n + 1 \in 1..Len(lv) /\ next = lv[n + 1]
    BY NextLevelShape
  <2>2. BeginKey(f, next[i]) \in Nat /\ EndKey(f, next[i]) \in Nat
    BY <2>1, TablesHaveKeys
  <2>3. h[next[i]] = f[next[i]]
    <3>. HIDE DEF h, next
    <3>. QED
      BY <1>8, <2>1
  <2>. QED
    BY <2>2, <2>3
<1>11. r \in 1..Len(next) + 1 /\ l \in 0..r - 1
  BY InsertPositions
<1>12. \A k \in DOMAIN g : /\ k \in Nat
                           /\ \A i \in 1..l : EndKey(f, next[i]) < k
                           /\ \A i \in r..Len(next) : k < BeginKey(f, next[i])
  BY WrittenBetween
<1>13. BeginKey(h, id) \in DOMAIN g /\ EndKey(h, id) \in DOMAIN g
  <2>1. DOMAIN h[id] # {}
    BY <1>1, <1>2
  <2>. HIDE DEF h
  <2>2. BeginKey(h, id) \in DOMAIN h[id] /\ EndKey(h, id) \in DOMAIN h[id]
    BY <1>2, <2>1, KeyRange
  <2>. QED
    BY <1>2, <2>2
<1>14. ASSUME NEW j \in 1..Len(new[n + 1])
       PROVE  \/ j <= l /\ j \in 1..Len(next) /\ new[n + 1][j] = next[j]
              \/ j = l + 1 /\ new[n + 1][j] = id
              \/ /\ j > l + 1 /\ r + j - (l + 2) \in r..Len(next)
                 /\ r + j - (l + 2) \in 1..Len(next)
                 /\ new[n + 1][j] = next[r + j - (l + 2)]
  BY SMTT(30), <1>3, CompactedTables
<1>15. \A i \in 1..Len(next) : /\ BeginKey(h, next[i]) = BeginKey(f, next[i])
                               /\ EndKey(h, next[i]) = EndKey(f, next[i])
  <2>. HIDE DEF h, next
  <2>. QED
    BY <1>10 DEF BeginKey, EndKey
<1>. HIDE DEF h, new, next, l, r
<1>16. Sorted(h, new[n + 1])
  <2>. SUFFICES ASSUME NEW i \in 1..Len(new[n + 1]), NEW j \in 1..Len(new[n + 1]), i < j
                PROVE  EndKey(h, new[n + 1][i]) < BeginKey(h, new[n + 1][j])
    BY DEF Sorted
  <2>. DEFINE a == r + i - (l + 2)
              b == r + j - (l + 2)
  <2>0. i \in Nat /\ j \in Nat /\ l \in Nat /\ r \in Nat
    <3>1. Len(new[n + 1]) \in Nat
      <4>1. n + 1 \in 1..Len(new)
        BY <1>3, <1>4
      <4>. QED
        BY <1>4, <4>1, LevelsShape
    <3>. QED
      BY <1>9, <1>11, <3>1
  <2>1. CASE i <= l /\ j <= l
    <3>1. i \in 1..Len(next) /\ j \in 1..Len(next) /\ new[n + 1][i] = next[i] /\ new[n + 1][j] = next[j]
      BY SMTT(30), <1>14, <2>0, <2>1
    <3>. QED
      BY <1>9, <1>15, <3>1 DEF Sorted
  <2>2. CASE i <= l /\ j = l + 1
    <3>1. i \in 1..l /\ i \in 1..Len(next) /\ new[n + 1][i] = next[i] /\ new[n + 1][j] = id
      BY <1>14, <2>0, <2>2
    <3>. QED
      BY <1>12, <1>13, <1>15, <3>1
  <2>3. CASE i <= l /\ j > l + 1
    <3>1. i \in 1..Len(next) /\ new[n + 1][i] = next[i]
      BY <1>14, <2>0, <2>3
    <3>2. b \in 1..Len(next) /\ b \in r..Len(next) /\ new[n + 1][j] = next[b]
      BY <1>14, <2>0, <2>3
    <3>3. i < b
      BY <1>9, <1>11, <2>0, <2>3, <3>2
    <3>. HIDE DEF b
    <3>. QED
      BY <1>9, <1>15, <3>1, <3>2, <3>3 DEF Sorted
  <2>4. CASE i = l + 1
    <3>1. new[n + 1][i] = id
      BY <1>14, <2>0, <2>4
    <3>2. b \in 1..Len(next) /\ b \in r..Len(next) /\ new[n + 1][j] = next[b]
      BY <1>14, <2>0, <2>4
    <3>. HIDE DEF b
    <3>. QED
      BY <1>12, <1>13, <1>15, <3>1, <3>2
  <2>5. CASE i > l + 1
    <3>0. ~ (i <= l) /\ i # l + 1
      BY <2>0, <2>5
    <3>1. a \in 1..Len(next) /\ new[n + 1][i] = next[a]
      BY <1>14, <3>0
    <3>2. b \in 1..Len(next) /\ new[n + 1][j] = next[b]
      BY <1>14, <2>0, <2>5
    <3>3. a < b
      BY <2>0
    <3>. HIDE DEF a, b
    <3>. QED
      BY <1>9, <1>15, <3>1, <3>2, <3>3 DEF Sorted
  <2>. QED
    BY <2>0, <2>1, <2>2, <2>3, <2>4, <2>5
<1>17. \A m \in 2..Len(new) : Sorted(h, new[m])
  <2>. SUFFICES ASSUME NEW m \in 2..Len(new), m # n + 1
                PROVE  Sorted(h, new[m])
    BY <1>16
  <2>1. m \in 1..Len(lv)
    BY <1>3, <1>4
  <2>2. CASE m = n
    BY <1>6, <2>2 DEF Sorted
  <2>3. CASE m # n
    <3>1. new[m] = lv[m]
      BY <1>5, <2>1, <2>3
    <3>2. Sorted(f, lv[m])
      BY <1>3, <2>1 DEF WellFormed, Shaped
    <3>3. \A i \in 1..Len(lv[m]) : h[lv[m][i]] = f[lv[m][i]]
      BY <1>8, <2>1, <2>3
    <3>. QED
      BY <3>1, <3>2, <3>3 DEF Sorted, BeginKey, EndKey
  <2>. QED
    BY <2>2, <2>3
<1>18. \A x \in Ids(new) : DOMAIN h[x] # {}
  <2>. SUFFICES ASSUME NEW x \in Ids(new), x # id
                PROVE  DOMAIN h[x] # {}
    BY <1>1, <1>2
  <2>1. PICK m \in 1..Len(new) : InLevel(new, m, x)
    BY <1>4, IdsOfLevels
  <2>2. m # n /\ m \in 1..Len(lv) /\ InLevel(lv, m, x)
    BY <1>3, <2>1, CompactedIds DEF new
  <2>. QED
    BY <1>7, <1>8, <2>2 DEF InLevel
<1>19. Len(new) \in 1..Len(LevelMax) + 1
  BY <1>3, <1>4
<1>20. WellFormed(h, new)
  BY <1>4, <1>17, <1>18, <1>19 DEF WellFormed, Shaped
<1>. QED
  BY <1>2, <1>20 DEF h, new

-----------------------------------------------------------------------------
(***************************************************************************)
(* Ids and shapes are kept by every step, whatever the keys.               *)
(***************************************************************************)
\* The largest id of a manifest file, or zero.
LEMMA LoadedIdBounds ==
    ASSUME NEW lv \in Levels, NEW N \in Nat, Ids(lv) \subseteq 1..N
    PROVE  LoadedId(lv) \in 0..N /\ Ids(lv) \subseteq 1..LoadedId(lv)
<1>. DEFINE S == {0} \cup Ids(lv)
<1>1. S \subseteq Nat /\ S # {} /\ \A m \in S : m <= N
  OBVIOUS
<1>. HIDE DEF S
<1>2. Max(S) \in S /\ \A m \in S : m <= Max(S)
  BY <1>1, MaxOfBounded
<1>3. LoadedId(lv) = Max(S)
  BY DEF LoadedId, S
<1>4. \A m \in Ids(lv) : m \in S /\ m \in 1..N
  BY DEF S
<1>5. Max(S) \in 0..N
  <2>1. Max(S) \in Nat /\ Max(S) <= N
    BY <1>1, <1>2
  <2>. QED
    BY <2>1
<1>6. \A m \in Ids(lv) : m \in 1..Max(S)
  BY <1>2, <1>4, <1>5
<1>. QED
  BY <1>3, <1>5, <1>6

\* The initial state.
LEMMA ManifestInit == Init => ManifestInv /\ FormInv
<1>. SUFFICES ASSUME Init PROVE ManifestInv /\ FormInv
  OBVIOUS
<1>1. Len(LevelMax) \in Nat /\ Len(LevelMax) > 0 /\ MaxId \in Nat
  BY LevelAssumption, FlushAssumption, LenProperties DEF MaxId
<1>2. NumbersInv
  <2>1. at = 0 /\ flushes = 0 /\ kills = 0 /\ sst_id = 0
    BY DEF Init
  <2>2. newest \in [Key -> 0..flushes] /\ saved \in [Key -> 0..flushes]
    BY <2>1 DEF Init, NoValue
  <2>. QED
    BY <1>1, <2>1, <2>2, FlushAssumption DEF NumbersInv
<1>3. EmptyTable \in Tables
  <2>1. EmptyTable \in [{} -> Int] /\ {} \in SUBSET Key
    BY DEF EmptyTable
  <2>. QED
    BY <2>1 DEF Tables
<1>4. file \in Files
  BY <1>3 DEF Init, Files
<1>5. /\ EmptyManifest \in Seq(Seq(1..MaxId)) /\ Len(EmptyManifest) = 1 /\ EmptyManifest[1] = <<>>
      /\ Len(<<>>) = 0
  <2>1. <<>> \in Seq(1..MaxId)
    BY EmptySeq
  <2>. QED
    BY <2>1 DEF EmptyManifest
<1>6. EmptyManifest \in Levels /\ Shaped(EmptyManifest)
  BY <1>1, <1>5 DEF Shaped, Levels
<1>7. Ids(EmptyManifest) = {}
  <2>1. \A n \in 1..Len(EmptyManifest) : \A id : ~ InLevel(EmptyManifest, n, id)
    BY <1>5 DEF InLevel
  <2>. QED
    BY <1>6, <2>1, IdsOfLevels
<1>8. levels = EmptyManifest /\ draft = EmptyManifest /\ disk = EmptyManifest /\ at = 0
  BY DEF Init
<1>9. ShapeInv
  BY <1>4, <1>6, <1>8 DEF ShapeInv
<1>10. IdInv /\ DraftInv
  BY <1>7, <1>8 DEF IdInv, DraftInv
<1>11. WellFormed(file, EmptyManifest)
  <2>1. 2..Len(EmptyManifest) = {}
    BY <1>5
  <2>. QED
    BY <1>6, <1>7, <2>1 DEF WellFormed
<1>. QED
  BY <1>2, <1>8, <1>9, <1>10, <1>11 DEF ManifestInv, FormInv

\* A flush writes a file whose id no manifest names.
LEMMA FlushWrites ==
    ASSUME ManifestInv, NEW S \in (SUBSET Key) \ {{}}, Flush(S)
    PROVE  LET id == sst_id + 1
               table == [k \in S |-> flushes + 1]
           IN  /\ id \in 1..MaxId /\ id <= 2 * flushes + 1 /\ sst_id + 2 <= 2 * flushes + 2
               /\ flushes \in Nat /\ flushes + 1 <= MaxFlush
               /\ table \in Tables /\ DOMAIN table = S /\ S # {}
               /\ file' = [file EXCEPT ![id] = table] /\ file' \in Files /\ file'[id] = table
               /\ id \notin Ids(levels) /\ id \notin Ids(disk)
               /\ \A x \in Ids(levels) \cup Ids(disk) : file'[x] = file[x]
<1>. DEFINE id == sst_id + 1
            table == [k \in S |-> flushes + 1]
<1>1. /\ at = 0 /\ flushes \in Nat /\ flushes + 1 <= MaxFlush
      /\ sst_id \in 0..2 * flushes /\ MaxFlush \in Nat
  BY FlushAssumption DEF ManifestInv, NumbersInv, Flush
<1>2. id \in 1..MaxId /\ id <= 2 * flushes + 1 /\ sst_id + 2 <= 2 * flushes + 2 /\ flushes + 1 \in Int
  BY <1>1 DEF MaxId
<1>3. table \in Tables /\ DOMAIN table = S /\ S # {}
  <2>0. S \in SUBSET Key /\ S # {}
    OBVIOUS
  <2>1. table \in [S -> Int] /\ DOMAIN table = S
    BY <1>2
  <2>. HIDE DEF table
  <2>2. table \in Tables
    BY <2>0, <2>1 DEF Tables
  <2>. QED
    BY <2>0, <2>1, <2>2
<1>4. file' = [file EXCEPT ![id] = table] /\ file \in Files
  BY DEF Flush, ManifestInv, ShapeInv
<1>. HIDE DEF table
<1>5. id \notin Ids(levels) /\ id \notin Ids(disk)
  <2>1. \A x \in Ids(levels) \cup Ids(disk) : x \in 1..sst_id
    BY DEF ManifestInv, IdInv
  <2>. QED
    BY <1>1, <2>1
<1>6. Ids(levels) \subseteq 1..MaxId /\ Ids(disk) \subseteq 1..MaxId
  BY IdsType DEF ManifestInv, ShapeInv, Shaped
<1>. HIDE DEF id
<1>7. file' \in Files /\ file'[id] = table /\ \A x \in 1..MaxId : x # id => file'[x] = file[x]
  BY <1>2, <1>3, <1>4 DEF Files
<1>8. \A x \in Ids(levels) \cup Ids(disk) : file'[x] = file[x]
  BY <1>5, <1>6, <1>7
<1>. QED
  BY <1>1, <1>2, <1>3, <1>4, <1>5, <1>7, <1>8 DEF id, table

\* Flush keeps the invariant.
LEMMA FlushInv ==
    ASSUME ManifestInv, NEW S \in (SUBSET Key) \ {{}}, Flush(S)
    PROVE  ManifestInv'
<1>. DEFINE id == sst_id + 1
<1>1. /\ id \in 1..MaxId /\ id <= 2 * flushes + 1 /\ sst_id + 2 <= 2 * flushes + 2
      /\ flushes \in Nat /\ flushes + 1 <= MaxFlush /\ file' \in Files
  BY FlushWrites
<1>2. /\ at = 0 /\ levels \in Levels /\ Len(levels) > 0 /\ Len(levels) \in 1..Len(LevelMax) + 1
      /\ Len(LevelMax) \in Nat /\ Len(LevelMax) > 0
  BY LevelAssumption, LevelsShape, LenProperties DEF Flush, ManifestInv, ShapeInv, Shaped
<1>3. draft' = [levels EXCEPT ![1] = Append(@, id)]
  BY DEF Flush
<1>4. /\ draft' \in Levels /\ Len(draft') = Len(levels)
      /\ Len(draft'[1]) = Len(levels[1]) + 1
      /\ Ids(draft') = Ids(levels) \cup {id}
  BY <1>1, <1>2, <1>3, InsertedShape
<1>5. \/ at' = 1 /\ sst_id' = sst_id + 2 /\ levels' = levels
      \/ at' = 0 /\ sst_id' = sst_id + 1 /\ levels' = draft'
  BY <1>2 DEF Flush
<1>6. flushes' = flushes + 1 /\ disk' = disk /\ kills' = kills /\ saved' = saved
      /\ newest' = [k \in Key |-> IF k \in S THEN flushes + 1 ELSE newest[k]]
  BY DEF Flush
<1>7. /\ Ids(levels) \subseteq 1..sst_id /\ Ids(disk) \subseteq 1..sst_id /\ sst_id \in 0..2 * flushes
      /\ kills \in 0..MaxKill /\ newest \in [Key -> 0..flushes] /\ saved \in [Key -> 0..flushes]
      /\ disk \in Levels /\ Shaped(levels) /\ Shaped(disk)
  BY DEF ManifestInv, IdInv, NumbersInv, ShapeInv, Shaped
<1>8. NumbersInv'
  <2>1. newest' \in [Key -> 0..flushes + 1] /\ saved' \in [Key -> 0..flushes + 1]
    <3>1. \A m \in 0..flushes : m \in 0..flushes + 1
      BY <1>1
    <3>2. flushes + 1 \in 0..flushes + 1
      BY <1>1
    <3>. QED
      BY <1>6, <1>7, <3>1, <3>2
  <2>2. flushes' \in 0..MaxFlush /\ at' \in 0..Len(LevelMax) + 1 /\ sst_id' \in 0..2 * flushes'
    BY <1>1, <1>2, <1>5, <1>6, <1>7, FlushAssumption
  <2>. QED
    BY <1>6, <1>7, <2>1, <2>2 DEF NumbersInv
<1>9. ShapeInv'
  BY <1>1, <1>2, <1>4, <1>5, <1>6, <1>7 DEF ShapeInv, Shaped
<1>10. IdInv'
  <2>1. \A x \in Ids(draft') \cup Ids(levels') \cup Ids(disk') : x \in 1..sst_id + 1
    BY <1>4, <1>5, <1>6, <1>7
  <2>2. Ids(levels') \cup Ids(draft') \cup Ids(disk') \subseteq 1..sst_id'
    BY <1>5, <1>7, <2>1
  <2>3. at' > 0 => sst_id' \notin Ids(levels') \cup Ids(disk')
    BY <1>5, <1>7, <2>1
  <2>. QED
    BY <2>2, <2>3 DEF IdInv
<1>11. DraftInv'
  <2>1. CASE at' = 0
    BY <1>5, <2>1 DEF DraftInv
  <2>2. CASE at' = 1 /\ sst_id' = sst_id + 2
    <3>1. at' <= Len(draft') /\ draft'[at'] # <<>>
      <4>1. Len(levels[1]) \in Nat
        BY <1>2, LevelsShape
      <4>. QED
        BY <1>2, <1>4, <2>2, <4>1
    <3>2. \A n \in 1..Len(draft') : ~ InLevel(draft', n, sst_id')
      <4>1. sst_id' \notin Ids(draft')
        BY <1>4, <1>7, <2>2
      <4>. QED
        BY <1>4, <4>1, IdsOfLevels
    <3>. QED
      BY <2>2, <3>1, <3>2 DEF DraftInv
  <2>. QED
    BY <1>5, <2>1, <2>2
<1>. QED
  BY <1>8, <1>9, <1>10, <1>11 DEF ManifestInv

\* Compact writes a file that only the manifest in hand may name.
LEMMA CompactWrites ==
    ASSUME ManifestInv, Compact
    PROVE  /\ sst_id \in 1..MaxId /\ at \in 1..Len(draft) /\ at <= Len(LevelMax) /\ draft[at] # <<>>
           /\ draft \in Levels
           /\ \E g \in NewTable(file, MergeSources(file, draft, at), sst_id) :
                 file' = [file EXCEPT ![sst_id] = g] /\ g \in Tables
           /\ file' \in Files
           /\ \A x \in 1..MaxId : x # sst_id => file'[x] = file[x]
           /\ \A x \in Ids(levels) \cup Ids(disk) : file'[x] = file[x]
<1>1. /\ at \in Nat /\ at > 0 /\ at <= Len(draft) /\ at <= Len(LevelMax) /\ draft[at] # <<>>
      /\ draft \in Levels /\ file \in Files
      /\ sst_id \in 0..2 * flushes /\ flushes \in 0..MaxFlush
      /\ sst_id \notin Ids(levels) \cup Ids(disk)
  <2>1. at \in Nat /\ at > 0
    BY LevelAssumption, LenProperties DEF ManifestInv, NumbersInv, Compact
  <2>2. at <= Len(draft) /\ at <= Len(LevelMax)
    BY DEF Compact, LoopGoesOn
  <2>3. draft[at] # <<>> /\ sst_id \notin Ids(levels) \cup Ids(disk)
    BY <2>1 DEF ManifestInv, DraftInv, IdInv
  <2>4. draft \in Levels /\ file \in Files
    BY DEF ManifestInv, ShapeInv, Shaped
  <2>5. sst_id \in 0..2 * flushes /\ flushes \in 0..MaxFlush
    BY DEF ManifestInv, NumbersInv
  <2>. QED
    BY <2>1, <2>2, <2>3, <2>4, <2>5
<1>2. at \in 1..Len(draft) /\ draft[at] \in Seq(1..MaxId) /\ Len(draft[at]) \in Nat
  <2>1. Len(draft) \in Nat
    BY <1>1, LevelsShape
  <2>2. at \in 1..Len(draft)
    BY <1>1, <2>1
  <2>. QED
    BY <1>1, <2>2, LevelsShape
<1>3. sst_id \in 1..MaxId
  <2>1. Len(draft[at]) # 0
    BY <1>1, <1>2, EmptySeq
  <2>2. 1 \in 1..Len(draft[at])
    BY <1>2, <2>1
  <2>3. draft[at][1] \in Ids(draft)
    BY <1>1, <1>2, <2>2, IdsOfLevels DEF InLevel
  <2>4. draft[at][1] \in 1..sst_id
    BY <2>3 DEF ManifestInv, IdInv
  <2>. QED
    BY <1>1, <2>4, FlushAssumption DEF MaxId
<1>4. PICK g \in NewTable(file, MergeSources(file, draft, at), sst_id) : file' = [file EXCEPT ![sst_id] = g]
  BY DEF Compact
<1>5. g \in Tables
  BY <1>1, <1>2, <1>4, WrittenType
<1>6. file' \in Files /\ \A x \in 1..MaxId : x # sst_id => file'[x] = file[x]
  BY <1>1, <1>3, <1>4, <1>5 DEF Files
<1>7. Ids(levels) \subseteq 1..MaxId /\ Ids(disk) \subseteq 1..MaxId
  BY IdsType DEF ManifestInv, ShapeInv, Shaped
<1>8. \A x \in Ids(levels) \cup Ids(disk) : file'[x] = file[x]
  BY <1>1, <1>6, <1>7
<1>9. \E x \in NewTable(file, MergeSources(file, draft, at), sst_id) :
         file' = [file EXCEPT ![sst_id] = x] /\ x \in Tables
  BY <1>4, <1>5
<1>. QED
  BY <1>1, <1>2, <1>3, <1>6, <1>8, <1>9

\* Compact keeps the invariant.
LEMMA CompactInv ==
    ASSUME ManifestInv, Compact
    PROVE  ManifestInv'
<1>1. /\ sst_id \in 1..MaxId /\ at \in 1..Len(draft) /\ at <= Len(LevelMax)
      /\ draft \in Levels /\ file' \in Files
  BY CompactWrites
<1>2. /\ draft' = Compacted(file, draft, at, sst_id) /\ at' = at + 1
      /\ UNCHANGED <<levels, sst_id, disk, flushes, kills, newest, saved>>
  BY DEF Compact
<1>3. file \in Files /\ Len(LevelMax) \in Nat /\ Len(draft) \in 1..Len(LevelMax) + 1
  BY LevelAssumption, LenProperties DEF ManifestInv, ShapeInv, Shaped
<1>. DEFINE new == Compacted(file, draft, at, sst_id)
<1>4. draft' \in Levels /\ Len(draft') = (IF at = Len(draft) THEN at + 1 ELSE Len(draft))
      /\ at + 1 \in 1..Len(draft')
  <2>1. new \in Levels /\ at + 1 \in 1..Len(new)
    BY <1>1, <1>3, CompactedShape
  <2>2. Len(new) = (IF at = Len(draft) THEN at + 1 ELSE Len(draft))
    BY <1>1, <1>3, CompactedShape
  <2>. QED
    BY <1>2, <2>1, <2>2
<1>5. draft'[at + 1] # <<>>
  <2>. DEFINE next == NextLevel(draft, at)
              l == InsertLeft(file, draft, at)
              r == InsertRight(file, draft, at)
  <2>1. Len(draft'[at + 1]) = l + 1 + (Len(next) - r + 1)
    <3>1. Len(new[at + 1]) = l + 1 + (Len(next) - r + 1)
      BY <1>1, <1>3, CompactedShape
    <3>. QED
      BY <1>2, <3>1
  <2>2. r \in 1..Len(next) + 1 /\ l \in 0..r - 1
    BY <1>1, <1>3, InsertRange
  <2>3. Len(next) \in Nat
    BY <1>1, NextLevelType
  <2>. HIDE DEF next, l, r
  <2>4. Len(draft'[at + 1]) > 0
    BY <2>1, <2>2, <2>3
  <2>. QED
    BY <2>4
<1>6. \A m \in 1..Len(draft') : \A x :
         InLevel(draft', m, x) => \/ m = at + 1 /\ x = sst_id
                                  \/ m # at /\ m \in 1..Len(draft) /\ InLevel(draft, m, x)
  BY <1>1, <1>2, <1>3, CompactedIds
<1>7. NumbersInv'
  BY <1>1, <1>2, <1>3 DEF ManifestInv, NumbersInv
<1>8. ShapeInv'
  <2>1. Len(draft') \in 1..Len(LevelMax) + 1
    BY <1>1, <1>3, <1>4
  <2>. QED
    BY <1>1, <1>2, <1>4, <2>1 DEF ManifestInv, ShapeInv, Shaped
<1>9. IdInv'
  <2>1. Ids(draft') \subseteq Ids(draft) \cup {sst_id}
    <3>. SUFFICES ASSUME NEW x \in Ids(draft') PROVE x \in Ids(draft) \cup {sst_id}
      OBVIOUS
    <3>1. PICK m \in 1..Len(draft') : InLevel(draft', m, x)
      BY <1>4, IdsOfLevels
    <3>. QED
      BY <1>1, <1>6, <3>1, IdsOfLevels
  <2>2. sst_id \in 1..sst_id
    BY <1>1
  <2>. QED
    BY <1>1, <1>2, <2>1, <2>2 DEF ManifestInv, IdInv
<1>10. DraftInv'
  <2>1. at' > 0 /\ at' <= Len(draft') /\ draft'[at'] # <<>>
    BY <1>1, <1>2, <1>3, <1>4, <1>5
  <2>2. \A m \in 1..Len(draft') : InLevel(draft', m, sst_id) => m = at + 1
    <3>1. \A m \in 1..Len(draft) : InLevel(draft, m, sst_id) => m = at
      BY <1>1 DEF ManifestInv, DraftInv
    <3>. QED
      BY <1>6, <3>1
  <2>3. at' # 0 /\ at + 1 > 1
    BY <1>1, <1>2
  <2>. QED
    BY <1>2, <2>1, <2>2, <2>3 DEF DraftInv
<1>. QED
  BY <1>7, <1>8, <1>9, <1>10 DEF ManifestInv

\* Publish, Reopen and Kill keep the invariant.
LEMMA RestInv ==
    ASSUME ManifestInv, Publish \/ Reopen \/ Kill
    PROVE  ManifestInv'
<1>1. CASE Publish
  BY <1>1 DEF Publish, ManifestInv, NumbersInv, ShapeInv, IdInv, DraftInv
<1>2. /\ levels \in Levels /\ disk \in Levels /\ Shaped(levels) /\ Shaped(disk) /\ file \in Files
      /\ sst_id \in 0..2 * flushes /\ flushes \in Nat /\ sst_id \in Nat
      /\ Ids(levels) \subseteq 1..sst_id /\ Ids(disk) \subseteq 1..sst_id
  BY FlushAssumption DEF ManifestInv, ShapeInv, Shaped, IdInv, NumbersInv
<1>3. CASE Reopen
  <2>1. /\ at = 0 /\ disk' = levels /\ draft' = levels /\ saved' = newest /\ levels' = levels /\ at' = at
        /\ sst_id' = LoadedId(levels)
        /\ UNCHANGED <<file, flushes, kills, newest>>
    BY <1>3 DEF Reopen
  <2>2. LoadedId(levels) \in 0..sst_id /\ Ids(levels) \subseteq 1..LoadedId(levels)
    BY <1>2, LoadedIdBounds
  <2>3. LoadedId(levels) \in 0..2 * flushes
    BY <1>2, <2>2
  <2>4. NumbersInv'
    BY <2>1, <2>3 DEF ManifestInv, NumbersInv
  <2>5. ShapeInv' /\ IdInv' /\ DraftInv'
    BY <1>2, <2>1, <2>2 DEF ShapeInv, IdInv, DraftInv
  <2>. QED
    BY <2>4, <2>5 DEF ManifestInv
<1>4. CASE Kill
  <2>1. /\ kills < MaxKill /\ kills' = kills + 1 /\ levels' = disk /\ draft' = disk /\ at' = 0
        /\ sst_id' = LoadedId(disk) /\ newest' = saved
        /\ UNCHANGED <<file, disk, flushes, saved>>
    BY <1>4 DEF Kill
  <2>2. LoadedId(disk) \in 0..sst_id /\ Ids(disk) \subseteq 1..LoadedId(disk)
    BY <1>2, LoadedIdBounds
  <2>3. LoadedId(disk) \in 0..2 * flushes
    BY <1>2, <2>2
  <2>4. NumbersInv'
    <3>1. kills + 1 \in 0..MaxKill /\ 0 \in 0..Len(LevelMax) + 1
      BY <2>1, FlushAssumption, LevelAssumption, LenProperties DEF ManifestInv, NumbersInv
    <3>. QED
      BY <2>1, <2>3, <3>1 DEF ManifestInv, NumbersInv
  <2>5. ShapeInv' /\ IdInv' /\ DraftInv'
    BY <1>2, <2>1, <2>2 DEF ShapeInv, IdInv, DraftInv
  <2>. QED
    BY <2>4, <2>5 DEF ManifestInv
<1>. QED
  BY <1>1, <1>3, <1>4

\* Every step keeps the invariant.
LEMMA ManifestStep == ManifestInv /\ [Next]_vars => ManifestInv'
<1>. SUFFICES ASSUME ManifestInv, [Next]_vars PROVE ManifestInv'
  OBVIOUS
<1>1. CASE Next
  BY <1>1, FlushInv, CompactInv, RestInv DEF Next
<1>2. CASE UNCHANGED vars
  BY <1>2 DEF vars, ManifestInv, NumbersInv, ShapeInv, IdInv, DraftInv
<1>. QED
  BY <1>1, <1>2

\* The ids handed out and the shape of the manifests, in every reachable state.
LEMMA ManifestInvariant == Spec => []ManifestInv
<1>1. Init => ManifestInv
  BY ManifestInit
<1>. QED
  BY <1>1, ManifestStep, PTL DEF Spec

(***************************************************************************)
(* The variables of the manifest have the types the code gives them, for   *)
(* every set of keys, every table of thresholds and every number of        *)
(* flushes and kills.                                                      *)
(***************************************************************************)
THEOREM ManifestTypeCorrect == Spec => []ManifestTypeOK
<1>1. ManifestInv => ManifestTypeOK
  <2>. SUFFICES ASSUME ManifestInv PROVE ManifestTypeOK
    OBVIOUS
  <2>1. /\ levels \in Levels /\ draft \in Levels /\ disk \in Levels
        /\ Len(levels) > 0 /\ Len(levels) <= Len(LevelMax) + 1
    BY LevelAssumption, LenProperties DEF ManifestInv, ShapeInv, Shaped
  <2>2. \A id \in 1..MaxId : DOMAIN file[id] \subseteq Key
    <3>1. file \in Files
      BY DEF ManifestInv, ShapeInv
    <3>. QED
      BY <3>1, TableKeys
  <2>3. sst_id \in 0..MaxId /\ at \in 0..Len(LevelMax) + 1
    BY FlushAssumption DEF ManifestInv, NumbersInv, MaxId
  <2>4. newest \in [Key -> Nat] /\ saved \in [Key -> Nat]
    <3>1. 0..flushes \subseteq Nat
      BY FlushAssumption DEF ManifestInv, NumbersInv
    <3>. QED
      BY <3>1 DEF ManifestInv, NumbersInv
  <2>. QED
    BY <2>1, <2>2, <2>3, <2>4 DEF ManifestTypeOK
<1>. QED
  BY <1>1, ManifestInvariant, PTL

(***************************************************************************)
(* No step writes the file of a table that a reader of the published       *)
(* manifest or the manifest file on disk names: DB::ToSST gives a flush    *)
(* and its compaction ids of their own, later rounds of the compaction     *)
(* write to the same id before it is published, and a restart goes on with *)
(* the largest id of the manifest file.  Whatever the keys and thresholds. *)
(***************************************************************************)
THEOREM LiveFilesNotWritten == Spec => LiveFilesFixed
<1>1. ManifestInv /\ [Next]_vars =>
         [\A id \in Ids(levels) \cup Ids(disk) : id \in Ids(levels') \cup Ids(disk') =>
             file'[id] = file[id]]_vars
  <2>. SUFFICES ASSUME ManifestInv, Next, NEW id \in Ids(levels) \cup Ids(disk)
                PROVE  file'[id] = file[id]
    OBVIOUS
  <2>1. ASSUME NEW S \in (SUBSET Key) \ {{}}, Flush(S) PROVE file'[id] = file[id]
    BY <2>1, FlushWrites
  <2>2. CASE Compact
    BY <2>2, CompactWrites
  <2>3. CASE Publish \/ Reopen \/ Kill
    BY <2>3 DEF Publish, Reopen, Kill
  <2>. QED
    BY <2>1, <2>2, <2>3 DEF Next
<1>. QED
  BY <1>1, ManifestInvariant, PTL DEF Spec, LiveFilesFixed

-----------------------------------------------------------------------------
(***************************************************************************)
(* The levels stay sorted, if no key is the empty one.                     *)
(***************************************************************************)
\* Every step keeps the manifests well formed.
LEMMA FormStep ==
    ASSUME EmptyKey \notin Key, ManifestInv, FormInv, [Next]_vars
    PROVE  FormInv'
<1>0. file \in Files
  BY DEF ManifestInv, ShapeInv
<1>1. WellFormed(file, levels) /\ WellFormed(file, draft) /\ WellFormed(file, disk)
  BY DEF FormInv
<1>2. ASSUME NEW S \in (SUBSET Key) \ {{}}, Flush(S) PROVE FormInv'
  <2>. DEFINE id == sst_id + 1
              new == [levels EXCEPT ![1] = Append(@, id)]
  <2>1. /\ id \in 1..MaxId /\ file' \in Files
        /\ \A x \in Ids(levels) \cup Ids(disk) : file'[x] = file[x]
    BY <1>2, FlushWrites
  <2>2. DOMAIN file'[id] # {}
    <3>. DEFINE table == [k \in S |-> flushes + 1]
    <3>1. file'[id] = table /\ DOMAIN table = S /\ S # {}
      BY <1>2, FlushWrites
    <3>. HIDE DEF table, id
    <3>. QED
      BY <3>1
  <2>3. WellFormed(file', levels) /\ WellFormed(file', disk)
    BY <1>1, <2>1, FormFrame
  <2>4. WellFormed(file', new)
    <3>. HIDE DEF id
    <3>. QED
      BY <2>1, <2>2, <2>3, InsertedForm
  <2>5. draft' = new /\ disk' = disk /\ (levels' = levels \/ levels' = new)
    BY <1>2 DEF Flush
  <2>. HIDE DEF new
  <2>. QED
    BY <2>3, <2>4, <2>5 DEF FormInv
<1>3. CASE Compact
  <2>1. /\ sst_id \in 1..MaxId /\ at \in 1..Len(draft) /\ at <= Len(LevelMax) /\ draft[at] # <<>>
        /\ \A x \in Ids(levels) \cup Ids(disk) : file'[x] = file[x]
    BY <1>3, CompactWrites
  <2>2. PICK g \in NewTable(file, MergeSources(file, draft, at), sst_id) :
           file' = [file EXCEPT ![sst_id] = g]
    BY <1>3, CompactWrites
  <2>3. \A m \in 1..Len(draft) : InLevel(draft, m, sst_id) => m = at
    BY <2>1 DEF ManifestInv, DraftInv
  <2>4. WellFormed([file EXCEPT ![sst_id] = g], Compacted(file, draft, at, sst_id))
    BY <1>0, <1>1, <2>1, <2>3, CompactedForm
  <2>5. WellFormed(file', draft')
    BY <1>3, <2>2, <2>4 DEF Compact
  <2>6. WellFormed(file', levels) /\ WellFormed(file', disk)
    BY <1>1, <2>1, FormFrame
  <2>7. levels' = levels /\ disk' = disk
    BY <1>3 DEF Compact
  <2>. QED
    BY <2>5, <2>6, <2>7 DEF FormInv
<1>4. CASE Publish \/ Reopen \/ Kill
  BY <1>1, <1>4 DEF FormInv, Publish, Reopen, Kill
<1>5. CASE UNCHANGED vars
  BY <1>1, <1>5 DEF FormInv, vars
<1>. QED
  BY <1>2, <1>3, <1>4, <1>5 DEF Next

\* The form of the manifests, in every reachable state.
LEMMA FormInvariant ==
    ASSUME EmptyKey \notin Key
    PROVE  Spec => []FormInv
<1>1. Init => FormInv
  BY ManifestInit
<1>2. ManifestInv /\ FormInv /\ [Next]_vars => FormInv'
  BY FormStep
<1>. QED
  BY <1>1, <1>2, ManifestInvariant, PTL DEF Spec

(***************************************************************************)
(* If no key is the empty string, the tables of every level but Level 0    *)
(* are in key order with disjoint ranges, which the binary search of       *)
(* Level::Get relies on: SizeTieredCompaction merges every table of the    *)
(* next level that meets the range of the level and puts the result in the *)
(* gap.  With the empty key among the keys the theorem is false, since     *)
(* min_key then forgets the tables that begin with it.                     *)
(***************************************************************************)
THEOREM LevelsStaySorted ==
    ASSUME EmptyKey \notin Key
    PROVE  Spec => []LevelsSorted
<1>1. ManifestInv /\ FormInv => LevelsSorted
  <2>. SUFFICES ASSUME ManifestInv, FormInv,
                       NEW n \in 2..Len(levels), NEW i \in 1..Len(levels[n]) - 1
                PROVE  EndKey(file, levels[n][i]) < BeginKey(file, levels[n][i + 1])
    BY DEF LevelsSorted
  <2>1. Sorted(file, levels[n])
    BY DEF FormInv, WellFormed
  <2>2. Len(levels[n]) \in Nat
    <3>1. levels \in Levels /\ n \in 1..Len(levels)
      BY LevelAssumption, LenProperties DEF ManifestInv, ShapeInv, Shaped
    <3>. QED
      BY <3>1, LevelsShape
  <2>3. i \in 1..Len(levels[n]) /\ i + 1 \in 1..Len(levels[n]) /\ i < i + 1
    BY <2>2
  <2>. QED
    BY <2>1, <2>3 DEF Sorted
<1>. QED
  BY <1>1, ManifestInvariant, FormInvariant, PTL

-----------------------------------------------------------------------------
(***************************************************************************)
(* Level::Get: the binary search and what a manifest answers.              *)
(***************************************************************************)
\* The middle of a range that is not empty.
LEMMA MidRange ==
    ASSUME NEW l \in Nat, NEW r \in Nat, l < r
    PROVE  (l + r) \div 2 \in l..r - 1
OBVIOUS

\* The equation of the binary search for k in the n begins b.
Halves(g, b, n, k) ==
    \A l \in 0..n : \A r \in 0..n :
        g[<<l, r>>] = IF l >= r THEN l
                      ELSE IF b[(l + r) \div 2 + 1] > k THEN g[<<l, (l + r) \div 2>>]
                      ELSE g[<<(l + r) \div 2 + 1, r>>]

\* The binary search exists: on begins in order it goes to the first table that begins
\* behind k, whatever the range it starts with.
LEMMA SearchEquation ==
    ASSUME NEW n \in Nat, NEW b \in [1..n -> Nat], Len(b) = n, NEW k \in Nat,
           \A i \in 1..n : \A j \in 1..n : i <= j => b[i] <= b[j]
    PROVE  \E g : SearchLevel(b, k) = g[<<0, n>>] /\ Halves(g, b, n, k)
<1>. DEFINE P == (0..n) \X (0..n)
            mid(p) == (p[1] + p[2]) \div 2
            Step(g, p) == IF p[1] >= p[2] THEN p[1]
                          ELSE IF b[mid(p) + 1] > k THEN g[<<p[1], mid(p)>>] ELSE g[<<mid(p) + 1, p[2]>>]
            search == CHOOSE g : g = [p \in P |-> Step(g, p)]
            ends(l, r) == {x \in l..r : x = r \/ b[x + 1] > k}
            w == [p \in P |-> IF p[1] >= p[2] THEN p[1] ELSE Min(ends(p[1], p[2]))]
<1>1. SearchLevel(b, k) = search[<<0, n>>]
  BY DEF SearchLevel
<1>2. ASSUME NEW l \in 0..n, NEW r \in 0..n, l < r
      PROVE  /\ Min(ends(l, r)) \in l..r /\ (Min(ends(l, r)) = r \/ b[Min(ends(l, r)) + 1] > k)
             /\ \A x \in l..r : x < Min(ends(l, r)) => ~ (b[x + 1] > k)
  <2>1. ends(l, r) \subseteq Nat /\ r \in ends(l, r)
    BY <1>2
  <2>2. Min(ends(l, r)) \in ends(l, r) /\ \A x \in ends(l, r) : Min(ends(l, r)) <= x
    <3>. HIDE DEF ends
    <3>. QED
      BY <2>1, MinOfNaturals
  <2>. DEFINE m == Min(ends(l, r))
  <2>3. m \in l..r /\ (m = r \/ b[m + 1] > k) /\ \A x \in l..r : x = r \/ b[x + 1] > k => m <= x
    BY <2>2
  <2>. HIDE DEF m
  <2>4. \A x \in l..r : x < m => ~ (b[x + 1] > k)
    BY <2>3
  <2>. QED
    BY <2>3, <2>4 DEF m
<1>3. ASSUME NEW l \in 0..n, NEW r \in 0..n, l < r
      PROVE  LET m == (l + r) \div 2 IN
             w[<<l, r>>] = IF b[m + 1] > k THEN w[<<l, m>>] ELSE w[<<m + 1, r>>]
  <2>. DEFINE m == (l + r) \div 2
  <2>1. m \in l..r - 1 /\ m \in 0..n /\ m + 1 \in 0..n /\ m + 1 \in 1..n
    BY <1>3, MidRange
  <2>. HIDE DEF m
  <2>2. /\ w[<<l, r>>] = Min(ends(l, r))
        /\ w[<<l, m>>] = (IF l >= m THEN l ELSE Min(ends(l, m)))
        /\ w[<<m + 1, r>>] = (IF m + 1 >= r THEN m + 1 ELSE Min(ends(m + 1, r)))
    <3>1. <<l, r>> \in P /\ <<l, m>> \in P /\ <<m + 1, r>> \in P
      BY <2>1
    <3>. HIDE DEF ends
    <3>. QED
      BY <1>3, <3>1
  <2>. DEFINE a == Min(ends(l, r))
              c == Min(ends(l, m))
              d == Min(ends(m + 1, r))
  <2>3. a \in l..r /\ (a = r \/ b[a + 1] > k) /\ \A x \in l..r : x < a => ~ (b[x + 1] > k)
    BY <1>2, <1>3
  <2>4. l < m => c \in l..m /\ (c = m \/ b[c + 1] > k) /\ \A x \in l..m : x < c => ~ (b[x + 1] > k)
    BY <1>2, <2>1
  <2>5. m + 1 < r => /\ d \in m + 1..r /\ (d = r \/ b[d + 1] > k)
                     /\ \A x \in m + 1..r : x < d => ~ (b[x + 1] > k)
    BY <1>2, <2>1
  <2>. HIDE DEF a, c, d, w
  <2>6. CASE b[m + 1] > k
    <3>1. w[<<l, m>>] \in l..m /\ b[w[<<l, m>>] + 1] > k
          /\ \A x \in l..m : x < w[<<l, m>>] => ~ (b[x + 1] > k)
      <4>1. CASE l >= m
        <5>1. l = m /\ w[<<l, m>>] = l
          BY <2>1, <2>2, <4>1
        <5>. QED
          BY <2>1, <2>6, <5>1
      <4>2. CASE l < m
        <5>1. w[<<l, m>>] = c
          BY <2>1, <2>2, <4>2 DEF c
        <5>. QED
          BY <2>1, <2>4, <2>6, <4>2, <5>1
      <4>3. l >= m \/ l < m
        BY <2>1
      <4>. QED
        BY <4>1, <4>2, <4>3, Zenon
    <3>. DEFINE e == w[<<l, m>>]
    <3>. HIDE DEF e
    <3>2. e \in l..m /\ b[e + 1] > k /\ \A x \in l..m : x < e => ~ (b[x + 1] > k)
      BY <3>1 DEF e
    <3>3. ~ (e < a)
      BY <2>1, <2>3, <3>2
    <3>4. ~ (a < e)
      <4>. SUFFICES ASSUME a < e PROVE FALSE
        OBVIOUS
      <4>1. a \in l..m /\ a # r
        BY <2>1, <2>3, <3>2
      <4>. QED
        BY <2>3, <3>2, <4>1
    <3>5. a = e
      BY <2>1, <2>3, <3>2, <3>3, <3>4
    <3>. QED
      BY <2>2, <2>6, <3>5 DEF a, e, m
  <2>7. CASE ~ (b[m + 1] > k)
    <3>1. \A x \in l..m : ~ (b[x + 1] > k)
      <4>. SUFFICES ASSUME NEW x \in l..m PROVE ~ (b[x + 1] > k)
        OBVIOUS
      <4>1. x + 1 \in 1..n /\ x + 1 <= m + 1
        BY <2>1
      <4>2. b[x + 1] <= b[m + 1] /\ b[x + 1] \in Nat /\ b[m + 1] \in Nat
        BY <2>1, <4>1
      <4>. QED
        BY <2>7, <4>2
    <3>. DEFINE e == w[<<m + 1, r>>]
    <3>2. e \in m + 1..r /\ (e = r \/ b[e + 1] > k) /\ \A x \in m + 1..r : x < e => ~ (b[x + 1] > k)
      <4>1. CASE m + 1 >= r
        <5>1. m + 1 = r /\ e = r
          BY <2>1, <2>2, <4>1
        <5>. QED
          BY <2>1, <5>1
      <4>2. CASE m + 1 < r
        <5>1. e = d
          BY <2>1, <2>2, <4>2 DEF d
        <5>. QED
          BY <2>5, <4>2, <5>1
      <4>3. m + 1 >= r \/ m + 1 < r
        BY <2>1
      <4>. QED
        BY <4>1, <4>2, <4>3, Zenon
    <3>. HIDE DEF e
    <3>3. a \in m + 1..r
      <4>. SUFFICES ASSUME ~ (a \in m + 1..r) PROVE FALSE
        OBVIOUS
      <4>1. a \in l..m /\ a # r
        BY <2>1, <2>3
      <4>. QED
        BY <2>3, <3>1, <4>1
    <3>4. ~ (e < a)
      <4>. SUFFICES ASSUME e < a PROVE FALSE
        OBVIOUS
      <4>1. e \in l..r /\ e # r
        BY <2>1, <2>3, <3>2
      <4>. QED
        BY <2>3, <3>2, <4>1
    <3>5. ~ (a < e)
      <4>. SUFFICES ASSUME a < e PROVE FALSE
        OBVIOUS
      <4>1. a # r
        BY <2>1, <3>2, <3>3
      <4>. QED
        BY <2>3, <3>2, <3>3, <4>1
    <3>6. a = e
      BY <2>1, <3>2, <3>3, <3>4, <3>5
    <3>. QED
      BY <2>2, <2>7, <3>6 DEF a, e, m
  <2>. QED
    BY <2>6, <2>7
<1>4. w = [p \in P |-> Step(w, p)]
  <2>. SUFFICES ASSUME NEW p \in P PROVE w[p] = Step(w, p)
    <3>1. w = [p \in P |-> w[p]]
      OBVIOUS
    <3>. HIDE DEF w, Step
    <3>. QED
      BY <3>1
  <2>1. PICK l \in 0..n, r \in 0..n : p = <<l, r>>
    OBVIOUS
  <2>2. p[1] = l /\ p[2] = r
    BY <2>1
  <2>3. CASE l >= r
    <3>1. w[p] = l
      <4>. HIDE DEF ends
      <4>. QED
        BY <2>2, <2>3
    <3>. HIDE DEF w
    <3>. QED
      BY <2>2, <2>3, <3>1
  <2>4. CASE l < r
    <3>. HIDE DEF w
    <3>1. w[<<l, r>>] = IF b[(l + r) \div 2 + 1] > k THEN w[<<l, (l + r) \div 2>>]
                        ELSE w[<<(l + r) \div 2 + 1, r>>]
      BY <1>3, <2>4
    <3>2. ~ (l >= r)
      BY <2>4
    <3>. QED
      BY <2>1, <2>2, <3>1, <3>2
  <2>. QED
    BY <2>3, <2>4
<1>. HIDE DEF w
<1>5. search = [p \in P |-> Step(search, p)]
  <2>. HIDE DEF Step, P
  <2>. QED
    BY <1>4
<1>. HIDE DEF search
<1>6. ASSUME NEW l \in 0..n, NEW r \in 0..n
      PROVE  search[<<l, r>>] = IF l >= r THEN l
                                ELSE IF b[(l + r) \div 2 + 1] > k THEN search[<<l, (l + r) \div 2>>]
                                ELSE search[<<(l + r) \div 2 + 1, r>>]
  <2>1. <<l, r>> \in P /\ <<l, r>>[1] = l /\ <<l, r>>[2] = r
    OBVIOUS
  <2>2. search[<<l, r>>] = Step(search, <<l, r>>)
    <3>. HIDE DEF Step, P
    <3>. QED
      BY <1>5, <2>1
  <2>. QED
    BY <2>1, <2>2
<1>7. Halves(search, b, n, k)
  BY <1>6 DEF Halves
<1>. QED
  BY <1>1, <1>7

\* The search finds the number of tables that begin at or before k.
LEMMA SearchFinds ==
    ASSUME NEW n \in Nat, NEW b \in [1..n -> Nat], Len(b) = n, NEW k \in Nat,
           \A i \in 1..n : \A j \in 1..n : i <= j => b[i] <= b[j]
    PROVE  /\ SearchLevel(b, k) \in 0..n
           /\ \A i \in 1..n : i <= SearchLevel(b, k) <=> b[i] <= k
<1>1. PICK g : SearchLevel(b, k) = g[<<0, n>>] /\ Halves(g, b, n, k)
  BY SearchEquation
<1>. DEFINE Good(l, r) == /\ g[<<l, r>>] \in l..r
                          /\ \A i \in l + 1..r : i <= g[<<l, r>>] <=> b[i] <= k
            Bad == {d \in Nat : \E l \in 0..n : \E r \in l..n : r - l = d /\ ~ Good(l, r)}
<1>2. Bad = {}
  <2>. SUFFICES ASSUME Bad # {} PROVE FALSE
    OBVIOUS
  <2>1. PICK d \in Bad : \A e \in Bad : d <= e
    <3>1. Bad \subseteq Nat
      OBVIOUS
    <3>. HIDE DEF Bad
    <3>. QED
      BY <3>1, LeastNatural
  <2>2. d \in Nat
    OBVIOUS
  <2>3. PICK l \in 0..n : \E r \in l..n : r - l = d /\ ~ Good(l, r)
    OBVIOUS
  <2>4. PICK r \in l..n : r - l = d /\ ~ Good(l, r)
    BY <2>3
  <2>5. \A x \in 0..n : \A y \in x..n : y - x < d => Good(x, y)
    <3>. SUFFICES ASSUME NEW x \in 0..n, NEW y \in x..n, y - x < d, ~ Good(x, y)
                  PROVE  FALSE
      OBVIOUS
    <3>1. y - x \in Nat
      OBVIOUS
    <3>2. y - x \in Bad
      <4>. HIDE DEF Good
      <4>. QED
        BY <3>1
    <3>. HIDE DEF Bad
    <3>. QED
      BY <2>1, <2>2, <3>1, <3>2
  <2>. HIDE DEF Bad
  <2>6. CASE l = r
    <3>0. r \in 0..n /\ l >= r
      BY <2>6
    <3>1. g[<<l, r>>] = l
      BY <1>1, <3>0 DEF Halves
    <3>. QED
      BY <2>4, <2>6, <3>1
  <2>7. CASE l < r
    <3>. DEFINE m == (l + r) \div 2
                x == g[<<l, r>>]
    <3>1. m \in l..r - 1 /\ m \in 0..n /\ m + 1 \in 1..n /\ r \in 0..n /\ ~ (l >= r)
      <4>1. m \in l..r - 1
        BY <2>7, MidRange
      <4>. HIDE DEF m
      <4>. QED
        BY <2>7, <4>1
    <3>2. x = IF b[m + 1] > k THEN g[<<l, m>>] ELSE g[<<m + 1, r>>]
      <4>1. x = IF l >= r THEN l ELSE IF b[m + 1] > k THEN g[<<l, m>>] ELSE g[<<m + 1, r>>]
        BY <1>1, <3>1 DEF Halves
      <4>. QED
        BY <3>1, <4>1
    <3>. HIDE DEF m
    <3>3. CASE b[m + 1] > k
      <4>1. Good(l, m)
        <5>1. m \in l..n /\ m - l < d
          BY <2>4, <3>1
        <5>. HIDE DEF Good
        <5>. QED
          BY <2>5, <5>1
      <4>2. x \in l..m /\ \A i \in l + 1..m : i <= x <=> b[i] <= k
        BY <3>2, <3>3, <4>1
      <4>3. \A i \in m + 1..r : ~ (i <= x) /\ ~ (b[i] <= k)
        <5>. SUFFICES ASSUME NEW i \in m + 1..r PROVE ~ (i <= x) /\ ~ (b[i] <= k)
          OBVIOUS
        <5>1. i \in 1..n /\ m + 1 <= i
          BY <3>1
        <5>2. b[m + 1] <= b[i] /\ b[m + 1] \in Nat /\ b[i] \in Nat
          BY <3>1, <5>1
        <5>. HIDE DEF x
        <5>. QED
          BY <3>1, <3>3, <4>2, <5>1, <5>2
      <4>. HIDE DEF x
      <4>4. x \in l..r /\ \A i \in l + 1..r : i <= x <=> b[i] <= k
        <5>1. \A i \in l + 1..r : i \in l + 1..m \/ i \in m + 1..r
          BY <3>1
        <5>. QED
          BY <3>1, <4>2, <4>3, <5>1
      <4>. QED
        BY <2>4, <4>4 DEF x
    <3>4. CASE ~ (b[m + 1] > k)
      <4>1. Good(m + 1, r)
        <5>1. m + 1 \in 0..n /\ r \in m + 1..n /\ r - (m + 1) < d
          BY <2>4, <3>1
        <5>. HIDE DEF Good
        <5>. QED
          BY <2>5, <5>1
      <4>2. x \in m + 1..r /\ \A i \in (m + 1) + 1..r : i <= x <=> b[i] <= k
        BY <3>2, <3>4, <4>1
      <4>. HIDE DEF x
      <4>3. \A i \in l + 1..m + 1 : i <= x /\ b[i] <= k
        <5>. SUFFICES ASSUME NEW i \in l + 1..m + 1 PROVE i <= x /\ b[i] <= k
          OBVIOUS
        <5>1. i \in 1..n /\ i <= m + 1
          BY <3>1
        <5>2. b[i] <= b[m + 1] /\ b[m + 1] \in Nat /\ b[i] \in Nat
          BY <3>1, <5>1
        <5>. QED
          BY <3>1, <3>4, <4>2, <5>1, <5>2
      <4>4. x \in l..r /\ \A i \in l + 1..r : i <= x <=> b[i] <= k
        <5>1. \A i \in l + 1..r : i \in l + 1..m + 1 \/ i \in (m + 1) + 1..r
          BY <3>1
        <5>. QED
          BY <3>1, <4>2, <4>3, <5>1
      <4>. QED
        BY <2>4, <4>4 DEF x
    <3>. QED
      BY <3>3, <3>4
  <2>. QED
    BY <2>6, <2>7
<1>3. Good(0, n)
  <2>1. 0 \in 0..n /\ n \in 0..n /\ n - 0 = n
    OBVIOUS
  <2>. HIDE DEF Good
  <2>2. ~ Good(0, n) => n \in Bad
    BY <2>1
  <2>. HIDE DEF Bad
  <2>. QED
    BY <1>2, <2>2
<1>4. 0 + 1..n = 1..n
  OBVIOUS
<1>5. g[<<0, n>>] \in 0..n /\ \A i \in 1..n : i <= g[<<0, n>>] <=> b[i] <= k
  BY <1>3, <1>4
<1>. QED
  BY <1>1, <1>5

\* In a sorted level at most one table has a key, and the search finds it.
LEMMA GetSortedLevel ==
    ASSUME NEW f \in Files, NEW lv, WellFormed(f, lv), NEW n \in 2..Len(lv), NEW k \in Key
    PROVE  /\ \A i \in 1..Len(lv[n]) : k \in DOMAIN f[lv[n][i]] => GetLevelN(f, lv[n], k) = f[lv[n][i]][k]
           /\ (\A i \in 1..Len(lv[n]) : k \notin DOMAIN f[lv[n][i]]) => GetLevelN(f, lv[n], k) = NoValue
<1>. DEFINE level == lv[n]
            N == Len(level)
            b == [i \in 1..N |-> BeginKey(f, level[i])]
            x == SearchLevel(b, k)
<1>1. lv \in Levels /\ n \in 1..Len(lv) /\ N \in Nat /\ Sorted(f, level) /\ k \in Nat
  <2>1. lv \in Levels /\ Len(lv) \in Nat /\ k \in Nat
    BY KeyAssumption, LevelsShape DEF WellFormed, Shaped
  <2>2. n \in 1..Len(lv)
    BY <2>1
  <2>. QED
    BY <2>1, <2>2, LevelsShape DEF WellFormed
<1>2. \A i \in 1..N : /\ BeginKey(f, level[i]) \in Nat /\ EndKey(f, level[i]) \in Nat
                      /\ BeginKey(f, level[i]) <= EndKey(f, level[i])
  BY <1>1, TablesHaveKeys
<1>3. \A i \in 1..N : \A j \in DOMAIN f[level[i]] : BeginKey(f, level[i]) <= j /\ j <= EndKey(f, level[i])
  BY <1>1, TablesHaveKeys
<1>4. GetLevelN(f, level, k) = IF x > 0 /\ k \in DOMAIN f[level[x]] THEN f[level[x]][k] ELSE NoValue
  BY DEF GetLevelN
<1>. HIDE DEF level, N
<1>5. \A i \in 1..N : \A j \in 1..N : i < j => EndKey(f, level[i]) < BeginKey(f, level[j])
  BY <1>1 DEF Sorted, N
<1>6. b \in [1..N -> Nat] /\ Len(b) = N /\ \A i \in 1..N : b[i] = BeginKey(f, level[i])
  <2>1. b \in [1..N -> Nat] /\ \A i \in 1..N : b[i] = BeginKey(f, level[i])
    BY <1>2
  <2>. HIDE DEF b
  <2>. QED
    BY <1>1, <2>1, SeqDef, LenProperties
<1>. HIDE DEF b
<1>7. \A i \in 1..N : \A j \in 1..N : i <= j => b[i] <= b[j]
  <2>. SUFFICES ASSUME NEW i \in 1..N, NEW j \in 1..N, i < j PROVE b[i] <= b[j]
    BY <1>1, <1>6
  <2>1. b[i] \in Nat /\ b[j] \in Nat /\ b[i] <= EndKey(f, level[i]) /\ EndKey(f, level[i]) < b[j]
        /\ EndKey(f, level[i]) \in Nat
    BY <1>2, <1>5, <1>6
  <2>. QED
    BY <2>1
<1>8. x \in 0..N /\ \A i \in 1..N : i <= x <=> b[i] <= k
  BY <1>1, <1>6, <1>7, SearchFinds
<1>. HIDE DEF x
<1>9. ASSUME NEW i \in 1..N, k \in DOMAIN f[level[i]]
      PROVE  GetLevelN(f, level, k) = f[level[i]][k]
  <2>1. b[i] <= k /\ k <= EndKey(f, level[i]) /\ EndKey(f, level[i]) \in Nat
    BY <1>2, <1>3, <1>6, <1>9
  <2>2. i <= x
    BY <1>8, <2>1
  <2>3. ~ (i < x)
    <3>. SUFFICES ASSUME i < x PROVE FALSE
      OBVIOUS
    <3>1. x \in 1..N /\ x <= x
      BY <1>1, <1>8, <2>2
    <3>2. b[x] <= k /\ EndKey(f, level[i]) < b[x] /\ b[x] \in Nat
      BY <1>5, <1>6, <1>8, <3>1
    <3>. QED
      BY <1>1, <2>1, <3>2
  <2>4. x = i /\ x > 0
    BY <1>1, <1>8, <2>2, <2>3
  <2>. QED
    BY <1>4, <1>9, <2>4
<1>10. ASSUME \A i \in 1..N : k \notin DOMAIN f[level[i]]
       PROVE  GetLevelN(f, level, k) = NoValue
  <2>1. x > 0 => x \in 1..N
    BY <1>1, <1>8
  <2>. QED
    BY <1>4, <1>10, <2>1
<1>. QED
  BY <1>9, <1>10 DEF level, N

\* No entry reads as if its key were missing.
Valued(f, lv) == \A id \in Ids(lv) : \A k \in DOMAIN f[id] : f[id][k] # NoValue

\* No table of level n has k.
Misses(f, lv, n, k) == \A i \in 1..Len(lv[n]) : k \notin DOMAIN f[lv[n][i]]

\* Table i of level n is the one whose entry of k counts.
Answers(f, lv, n, i, k) ==
    /\ k \in DOMAIN f[lv[n][i]]
    /\ \A m \in 1..n - 1 : Misses(f, lv, m, k)
    /\ n = 1 => \A j \in 1..Len(lv[1]) : j > i => k \notin DOMAIN f[lv[1][j]]

\* A level without the key is passed over.
LEMMA GetLevelMiss ==
    ASSUME NEW f \in Files, NEW lv, WellFormed(f, lv), NEW n \in 1..Len(lv), NEW k \in Key,
           Misses(f, lv, n, k)
    PROVE  GetLevel(f, lv, n, k) = NoValue
<1>1. CASE n = 1
  <2>1. DOMAIN lv[1] = 1..Len(lv[1])
    BY <1>1, LevelsShape DEF WellFormed, Shaped
  <2>2. GetLevel0(f, lv[1], k) = NoValue
    BY <1>1, <2>1 DEF GetLevel0, Misses
  <2>. QED
    BY <1>1, <2>2 DEF GetLevel
<1>2. CASE n # 1
  <2>1. n \in 2..Len(lv)
    BY <1>2, LevelsShape DEF WellFormed, Shaped
  <2>2. \A i \in 1..Len(lv[n]) : k \notin DOMAIN f[lv[n][i]]
    BY DEF Misses
  <2>3. GetLevelN(f, lv[n], k) = NoValue
    BY <2>1, <2>2, GetSortedLevel
  <2>. QED
    BY <1>2, <2>3 DEF GetLevel
<1>. QED
  BY <1>1, <1>2

\* The level with the table that counts answers with its entry.
LEMMA GetLevelHit ==
    ASSUME NEW f \in Files, NEW lv, WellFormed(f, lv), NEW n \in 1..Len(lv), NEW k \in Key,
           NEW i \in 1..Len(lv[n]), Answers(f, lv, n, i, k)
    PROVE  GetLevel(f, lv, n, k) = f[lv[n][i]][k]
<1>0. k \in DOMAIN f[lv[n][i]]
  BY DEF Answers
<1>1. CASE n = 1
  <2>. DEFINE level == lv[1]
              hits == {j \in DOMAIN level : k \in DOMAIN f[level[j]]}
  <2>1. DOMAIN level = 1..Len(level) /\ Len(level) \in Nat
    BY <1>1, LevelsShape DEF WellFormed, Shaped
  <2>2. hits \subseteq 1..Len(level) /\ i \in hits
    BY <1>0, <1>1, <2>1
  <2>3. \A j \in hits : j <= i
    <3>1. \A j \in 1..Len(level) : j > i => k \notin DOMAIN f[level[j]]
      BY <1>1 DEF Answers
    <3>. QED
      BY <1>1, <2>1, <3>1
  <2>4. GetLevel0(f, level, k) = IF hits = {} THEN NoValue ELSE f[level[Max(hits)]][k]
    BY DEF GetLevel0
  <2>. HIDE DEF hits
  <2>5. Max(hits) = i
    <3>1. hits \subseteq Nat /\ hits # {} /\ \A j \in hits : j <= Len(level)
      BY <2>1, <2>2
    <3>2. Max(hits) \in hits /\ \A j \in hits : j <= Max(hits)
      BY <2>1, <3>1, MaxOfBounded
    <3>3. Max(hits) \in Nat /\ i \in Nat /\ Max(hits) <= i /\ i <= Max(hits)
      BY <2>2, <2>3, <3>1, <3>2
    <3>. QED
      BY <3>3
  <2>6. GetLevel0(f, level, k) = f[level[i]][k]
    BY <2>2, <2>4, <2>5
  <2>. QED
    BY <1>1, <2>6 DEF GetLevel
<1>2. CASE n # 1
  <2>1. n \in 2..Len(lv)
    BY <1>2, LevelsShape DEF WellFormed, Shaped
  <2>2. GetLevelN(f, lv[n], k) = f[lv[n][i]][k]
    BY <1>0, <2>1, GetSortedLevel
  <2>. QED
    BY <1>2, <2>2 DEF GetLevel
<1>. QED
  BY <1>1, <1>2

\* Get returns the entry of the table that counts.
LEMMA GetAnswer ==
    ASSUME NEW f \in Files, NEW lv, WellFormed(f, lv), Valued(f, lv), NEW k \in Key,
           NEW n \in 1..Len(lv), NEW i \in 1..Len(lv[n]), Answers(f, lv, n, i, k)
    PROVE  Get(f, lv, k) = f[lv[n][i]][k]
<1>. DEFINE hits == {m \in DOMAIN lv : GetLevel(f, lv, m, k) # NoValue}
<1>1. lv \in Levels /\ DOMAIN lv = 1..Len(lv) /\ Len(lv) \in Nat
  BY LevelsShape DEF WellFormed, Shaped
<1>2. GetLevel(f, lv, n, k) = f[lv[n][i]][k]
  BY GetLevelHit
<1>3. f[lv[n][i]][k] # NoValue
  <2>1. lv[n][i] \in Ids(lv)
    BY <1>1, IdsOfLevels DEF InLevel
  <2>. QED
    BY <2>1 DEF Valued, Answers
<1>4. \A m \in 1..Len(lv) : m < n => GetLevel(f, lv, m, k) = NoValue
  <2>. SUFFICES ASSUME NEW m \in 1..Len(lv), m < n PROVE GetLevel(f, lv, m, k) = NoValue
    OBVIOUS
  <2>1. m \in 1..n - 1
    BY <1>1
  <2>2. Misses(f, lv, m, k)
    BY <2>1 DEF Answers
  <2>. QED
    BY <2>2, GetLevelMiss
<1>5. Get(f, lv, k) = IF hits = {} THEN NoValue ELSE GetLevel(f, lv, Min(hits), k)
  BY DEF Get
<1>6. n \in hits /\ hits \subseteq 1..Len(lv) /\ \A m \in hits : ~ (m < n)
  BY <1>1, <1>2, <1>3, <1>4
<1>. HIDE DEF hits
<1>7. Min(hits) = n
  <2>1. hits \subseteq Nat /\ hits # {}
    BY <1>1, <1>6
  <2>2. Min(hits) \in hits /\ \A m \in hits : Min(hits) <= m
    BY <2>1, MinOfNaturals
  <2>3. Min(hits) \in Nat /\ n \in Nat /\ ~ (Min(hits) < n) /\ Min(hits) <= n
    BY <1>6, <2>1, <2>2
  <2>. QED
    BY <2>3
<1>. QED
  BY <1>2, <1>5, <1>6, <1>7

\* Get of a key that no table has.
LEMMA GetMiss ==
    ASSUME NEW f \in Files, NEW lv, WellFormed(f, lv), NEW k \in Key,
           \A n \in 1..Len(lv) : Misses(f, lv, n, k)
    PROVE  Get(f, lv, k) = NoValue
<1>1. DOMAIN lv = 1..Len(lv)
  BY LevelsShape DEF WellFormed, Shaped
<1>2. \A n \in 1..Len(lv) : GetLevel(f, lv, n, k) = NoValue
  BY GetLevelMiss
<1>. QED
  BY <1>1, <1>2 DEF Get

\* Some table counts, unless no table has the key.
LEMMA AnswerExists ==
    ASSUME NEW f \in Files, NEW lv, WellFormed(f, lv), NEW k \in Key,
           NEW n \in 1..Len(lv), ~ Misses(f, lv, n, k)
    PROVE  \E m \in 1..Len(lv) : \E i \in 1..Len(lv[m]) : m <= n /\ Answers(f, lv, m, i, k)
<1>. DEFINE found == {m \in 1..Len(lv) : ~ Misses(f, lv, m, k)}
<1>0. lv \in Levels /\ Len(lv) \in Nat
  BY LevelsShape DEF WellFormed, Shaped
<1>1. found \subseteq Nat /\ n \in found
  BY <1>0
<1>2. PICK m \in found : \A x \in found : m <= x
  <2>. HIDE DEF found
  <2>. QED
    BY <1>1, LeastNatural
<1>3. m \in 1..Len(lv) /\ m <= n /\ \A x \in 1..m - 1 : Misses(f, lv, x, k)
  <2>1. m \in 1..Len(lv) /\ m <= n
    BY <1>1, <1>2
  <2>2. ASSUME NEW x \in 1..m - 1 PROVE Misses(f, lv, x, k)
    <3>1. x \in 1..Len(lv) /\ ~ (m <= x)
      BY <1>0, <2>1
    <3>. QED
      BY <1>2, <3>1
  <2>. QED
    BY <2>1, <2>2
<1>4. Len(lv[m]) \in Nat
  BY <1>0, <1>3, LevelsShape
<1>. DEFINE having == {i \in 1..Len(lv[m]) : k \in DOMAIN f[lv[m][i]]}
<1>5. having \subseteq Nat /\ having # {} /\ \A i \in having : i <= Len(lv[m])
  BY <1>2, <1>4 DEF Misses
<1>6. Max(having) \in having /\ \A i \in having : i <= Max(having)
  <2>. HIDE DEF having
  <2>. QED
    BY <1>4, <1>5, MaxOfBounded
<1>. DEFINE i == Max(having)
<1>. HIDE DEF i
<1>7. i \in 1..Len(lv[m]) /\ k \in DOMAIN f[lv[m][i]]
  BY <1>6 DEF i
<1>8. \A j \in 1..Len(lv[m]) : j > i => k \notin DOMAIN f[lv[m][j]]
  <2>1. \A j \in having : j <= i
    BY <1>6 DEF i
  <2>. QED
    BY <1>4, <1>7, <2>1
<1>9. Answers(f, lv, m, i, k)
  BY <1>3, <1>7, <1>8 DEF Answers
<1>. QED
  BY <1>3, <1>7, <1>9

\* What a manifest answers depends only on the files it names.
LEMMA GetFrame ==
    ASSUME NEW f \in Files, NEW g \in Files, NEW lv, WellFormed(f, lv), Valued(f, lv),
           \A id \in Ids(lv) : g[id] = f[id], NEW k \in Key
    PROVE  Get(g, lv, k) = Get(f, lv, k)
<1>1. lv \in Levels
  BY DEF WellFormed, Shaped
<1>2. \A n \in 1..Len(lv) : \A i \in 1..Len(lv[n]) : g[lv[n][i]] = f[lv[n][i]]
  BY <1>1, IdsOfLevels DEF InLevel
<1>3. WellFormed(g, lv) /\ Valued(g, lv)
  BY FormFrame DEF Valued
<1>4. \A n \in 1..Len(lv) : Misses(g, lv, n, k) <=> Misses(f, lv, n, k)
  BY <1>2 DEF Misses
<1>5. CASE \A n \in 1..Len(lv) : Misses(f, lv, n, k)
  <2>1. Get(f, lv, k) = NoValue
    BY <1>5, GetMiss
  <2>2. Get(g, lv, k) = NoValue
    BY <1>3, <1>4, <1>5, GetMiss
  <2>. QED
    BY <2>1, <2>2
<1>6. ASSUME NEW x \in 1..Len(lv), ~ Misses(f, lv, x, k)
      PROVE  Get(g, lv, k) = Get(f, lv, k)
  <2>1. PICK n \in 1..Len(lv) : \E i \in 1..Len(lv[n]) : Answers(f, lv, n, i, k)
    BY <1>6, AnswerExists
  <2>2. PICK i \in 1..Len(lv[n]) : Answers(f, lv, n, i, k)
    BY <2>1
  <2>3. Answers(g, lv, n, i, k)
    <3>1. Len(lv) \in Nat /\ 1 \in 1..Len(lv) /\ \A m \in 1..n - 1 : m \in 1..Len(lv)
      BY <1>1, LevelsShape
    <3>2. \A m \in 1..n - 1 : Misses(g, lv, m, k)
      BY <1>4, <2>2, <3>1 DEF Answers
    <3>3. k \in DOMAIN g[lv[n][i]]
      BY <1>2, <2>2 DEF Answers
    <3>4. n = 1 => \A j \in 1..Len(lv[1]) : j > i => k \notin DOMAIN g[lv[1][j]]
      BY <1>2, <2>2, <3>1 DEF Answers
    <3>. QED
      BY <3>2, <3>3, <3>4 DEF Answers
  <2>4. Get(f, lv, k) = f[lv[n][i]][k]
    BY <2>2, GetAnswer
  <2>5. Get(g, lv, k) = g[lv[n][i]][k]
    BY <1>3, <2>3, GetAnswer
  <2>. QED
    BY <1>2, <2>4, <2>5
<1>. QED
  BY <1>5, <1>6

-----------------------------------------------------------------------------
(***************************************************************************)
(* Flushes and compactions keep what a manifest answers.                   *)
(***************************************************************************)
\* A table put on Level 0 hides all others, for its own keys.
LEMMA GetInserted ==
    ASSUME NEW f \in Files, NEW lv, WellFormed(f, lv), Valued(f, lv), NEW id \in 1..MaxId,
           DOMAIN f[id] # {}, \A k \in DOMAIN f[id] : f[id][k] # NoValue, NEW k \in Key
    PROVE  Get(f, [lv EXCEPT ![1] = Append(@, id)], k) =
              IF k \in DOMAIN f[id] THEN f[id][k] ELSE Get(f, lv, k)
<1>. DEFINE new == [lv EXCEPT ![1] = Append(@, id)]
<1>1. lv \in Levels /\ Len(lv) \in Nat /\ Len(lv) > 0
  BY LevelsShape DEF WellFormed, Shaped
<1>2. /\ new \in Levels /\ Len(new) = Len(lv)
      /\ \A n \in 2..Len(lv) : new[n] = lv[n]
  BY <1>1, InsertedShape
<1>3. /\ Len(new[1]) = Len(lv[1]) + 1 /\ new[1][Len(lv[1]) + 1] = id
      /\ \A i \in 1..Len(lv[1]) : new[1][i] = lv[1][i]
  BY <1>1, InsertedShape
<1>4. Ids(new) = Ids(lv) \cup {id}
  BY <1>1, InsertedShape
<1>5. WellFormed(f, new)
  BY InsertedForm
<1>. HIDE DEF new
<1>6. Valued(f, new)
  BY <1>4 DEF Valued
<1>7. Len(lv[1]) \in Nat /\ 1 \in 1..Len(new) /\ 1 \in 1..Len(lv)
  BY <1>1, <1>2, LevelsShape
<1>8. CASE k \in DOMAIN f[id]
  <2>. DEFINE i == Len(lv[1]) + 1
  <2>1. i \in 1..Len(new[1]) /\ \A j \in 1..Len(new[1]) : ~ (j > i)
    BY <1>3, <1>7
  <2>2. new[1][i] = id
    BY <1>3
  <2>. HIDE DEF i
  <2>3. 1..1 - 1 = {}
    OBVIOUS
  <2>4. Answers(f, new, 1, i, k)
    BY <1>8, <2>1, <2>2, <2>3 DEF Answers
  <2>. QED
    BY <1>5, <1>6, <1>7, <1>8, <2>1, <2>2, <2>4, GetAnswer DEF new
<1>9. CASE k \notin DOMAIN f[id]
  <2>0. \A j \in 1..Len(new[1]) : j \in 1..Len(lv[1]) \/ j = Len(lv[1]) + 1
    BY <1>3, <1>7
  <2>1. \A j \in 1..Len(lv[1]) : j \in 1..Len(new[1])
    BY <1>3, <1>7
  <2>2. \A n \in 1..Len(lv) : Misses(f, new, n, k) <=> Misses(f, lv, n, k)
    <3>. SUFFICES ASSUME NEW n \in 1..Len(lv)
                  PROVE  Misses(f, new, n, k) <=> Misses(f, lv, n, k)
      OBVIOUS
    <3>1. CASE n = 1
      BY <1>3, <1>9, <2>0, <2>1, <3>1 DEF Misses
    <3>2. CASE n # 1
      <4>1. n \in 2..Len(lv)
        BY <1>1, <3>2
      <4>. QED
        BY <1>2, <4>1 DEF Misses
    <3>. QED
      BY <3>1, <3>2
  <2>3. CASE \A n \in 1..Len(lv) : Misses(f, lv, n, k)
    <3>1. Get(f, lv, k) = NoValue
      BY <2>3, GetMiss
    <3>2. Get(f, new, k) = NoValue
      BY <1>2, <1>5, <2>2, <2>3, GetMiss
    <3>. QED
      BY <1>9, <3>1, <3>2 DEF new
  <2>4. ASSUME NEW x \in 1..Len(lv), ~ Misses(f, lv, x, k)
        PROVE  Get(f, new, k) = Get(f, lv, k)
    <3>1. PICK n \in 1..Len(lv) : \E i \in 1..Len(lv[n]) : Answers(f, lv, n, i, k)
      BY <2>4, AnswerExists
    <3>2. PICK i \in 1..Len(lv[n]) : Answers(f, lv, n, i, k)
      BY <3>1
    <3>3. i \in 1..Len(new[n]) /\ new[n][i] = lv[n][i]
      <4>1. CASE n = 1
        BY <1>3, <2>1, <4>1
      <4>2. CASE n # 1
        <5>1. n \in 2..Len(lv)
          BY <1>1, <4>2
        <5>. QED
          BY <1>2, <5>1
      <4>. QED
        BY <4>1, <4>2
    <3>4. \A m \in 1..n - 1 : m \in 1..Len(lv)
      BY <1>1
    <3>5. \A m \in 1..n - 1 : Misses(f, new, m, k)
      BY <2>2, <3>2, <3>4 DEF Answers
    <3>6. ASSUME n = 1, NEW j \in 1..Len(new[1]), j > i
          PROVE  k \notin DOMAIN f[new[1][j]]
      <4>1. CASE j \in 1..Len(lv[1])
        BY <1>3, <3>2, <3>6, <4>1 DEF Answers
      <4>2. CASE j = Len(lv[1]) + 1
        BY <1>3, <1>9, <4>2
      <4>. QED
        BY <2>0, <4>1, <4>2
    <3>7. k \in DOMAIN f[new[n][i]]
      BY <3>2, <3>3 DEF Answers
    <3>8. Answers(f, new, n, i, k)
      BY <3>5, <3>6, <3>7 DEF Answers
    <3>9. Get(f, lv, k) = f[lv[n][i]][k]
      BY <3>2, GetAnswer
    <3>10. Get(f, new, k) = f[new[n][i]][k]
      BY <1>2, <1>5, <1>6, <3>3, <3>8, GetAnswer
    <3>. QED
      BY <3>3, <3>9, <3>10
  <2>. QED
    BY <1>9, <2>3, <2>4 DEF new
<1>. QED
  BY <1>8, <1>9

\* In a sorted level one table at most has a key.
LEMMA SortedUnique ==
    ASSUME NEW f \in Files, NEW lv, WellFormed(f, lv), NEW n \in 2..Len(lv), NEW k,
           NEW i \in 1..Len(lv[n]), NEW j \in 1..Len(lv[n]),
           k \in DOMAIN f[lv[n][i]], k \in DOMAIN f[lv[n][j]]
    PROVE  i = j
<1>1. n \in 1..Len(lv) /\ lv \in Levels
  BY LevelsShape DEF WellFormed, Shaped
<1>2. Len(lv[n]) \in Nat /\ Sorted(f, lv[n])
  BY <1>1, LevelsShape DEF WellFormed
<1>. DEFINE bi == BeginKey(f, lv[n][i])
            ei == EndKey(f, lv[n][i])
            bj == BeginKey(f, lv[n][j])
            ej == EndKey(f, lv[n][j])
<1>3. bi \in Nat /\ ei \in Nat /\ k \in Nat /\ bi <= k /\ k <= ei
  BY <1>1, TablesHaveKeys
<1>4. bj \in Nat /\ ej \in Nat /\ bj <= k /\ k <= ej
  BY <1>1, TablesHaveKeys
<1>5. (i < j => ei < bj) /\ (j < i => ej < bi)
  BY <1>2 DEF Sorted
<1>. HIDE DEF bi, ei, bj, ej
<1>6. ~ (i < j) /\ ~ (j < i)
  BY <1>3, <1>4, <1>5
<1>. QED
  BY <1>2, <1>6

\* Of the tables that are merged, the newest with a key gives its value.
LEMMA MergedWinner ==
    ASSUME EmptyKey \notin Key,
           NEW f \in Files, NEW lv, WellFormed(f, lv), NEW n \in 1..Len(lv), lv[n] # <<>>, NEW k
    PROVE  LET merged == Merged(f, MergeSources(f, lv, n))
               next == NextLevel(lv, n)
           IN  /\ \A i \in 1..Len(lv[n]) :
                     /\ k \in DOMAIN f[lv[n][i]]
                     /\ \A j \in 1..Len(lv[n]) : k \in DOMAIN f[lv[n][j]] => j <= i
                     => merged[k] = f[lv[n][i]][k]
               /\ \A i \in InsertLeft(f, lv, n) + 1..InsertRight(f, lv, n) - 1 :
                     /\ k \in DOMAIN f[next[i]] /\ Misses(f, lv, n, k)
                     /\ \A j \in 1..Len(next) : k \in DOMAIN f[next[j]] => j = i
                     => merged[k] = f[next[i]][k]
<1>. DEFINE sources == MergeSources(f, lv, n)
            N == Len(lv[n])
            next == NextLevel(lv, n)
            between == InsertLeft(f, lv, n) + 1..InsertRight(f, lv, n) - 1
            merged == Merged(f, sources)
<1>1. N \in Nat \ {0} /\ between \subseteq 1..Len(next)
  BY SourcesShape
<1>2. \A v : v \in DOMAIN sources <=> v \in 1..N \/ \E i \in between : v = N + i
  BY SourcesShape
<1>3. \A i \in 1..N : sources[i] = lv[n][N - i + 1] /\ N - i + 1 \in 1..N
  BY SourcesShape
<1>4. \A i \in between : N + i \in DOMAIN sources /\ sources[N + i] = next[i]
  BY SourcesShape
<1>5. \A v \in DOMAIN sources : v \in Nat /\ sources[v] \in 1..MaxId
  BY SourcesShape
<1>6. Len(next) \in Nat
  BY NextLevelShape
<1>. HIDE DEF sources, N, next, between
<1>7. \A v \in DOMAIN sources : k \in DOMAIN f[sources[v]] =>
         \E u \in DOMAIN sources : /\ k \in DOMAIN f[sources[u]]
                                   /\ \A w \in DOMAIN sources : k \in DOMAIN f[sources[w]] => u <= w
                                   /\ merged[k] = f[sources[u]][k]
  <2>1. /\ \A x : x \in DOMAIN merged <=> \E v \in DOMAIN sources : x \in DOMAIN f[sources[v]]
        /\ \A x \in DOMAIN merged :
              \E u \in DOMAIN sources : /\ x \in DOMAIN f[sources[u]]
                                        /\ \A w \in DOMAIN sources : x \in DOMAIN f[sources[w]] => u <= w
                                        /\ merged[x] = f[sources[u]][x]
    BY <1>5, MergedShape
  <2>. HIDE DEF merged
  <2>. QED
    BY <2>1
<1>. HIDE DEF merged
<1>8. ASSUME NEW i \in 1..N, k \in DOMAIN f[lv[n][i]],
             \A j \in 1..N : k \in DOMAIN f[lv[n][j]] => j <= i
      PROVE  merged[k] = f[lv[n][i]][k]
  <2>. DEFINE v == N - i + 1
  <2>1. v \in 1..N /\ N - v + 1 = i
    BY <1>1
  <2>. HIDE DEF v
  <2>2. v \in DOMAIN sources /\ sources[v] = lv[n][i]
    BY <1>2, <1>3, <2>1
  <2>3. PICK u \in DOMAIN sources : /\ k \in DOMAIN f[sources[u]]
                                    /\ \A w \in DOMAIN sources : k \in DOMAIN f[sources[w]] => u <= w
                                    /\ merged[k] = f[sources[u]][k]
    BY <1>7, <1>8, <2>2
  <2>4. u \in Nat /\ u <= v
    BY <1>5, <1>8, <2>2, <2>3
  <2>5. u \in 1..N
    <3>1. ASSUME NEW x \in between, u = N + x PROVE FALSE
      BY <1>1, <1>6, <2>1, <2>4, <3>1
    <3>. QED
      BY <1>2, <3>1
  <2>6. sources[u] = lv[n][N - u + 1] /\ N - u + 1 \in 1..N
    BY <1>3, <2>5
  <2>7. N - u + 1 <= i
    BY <1>8, <2>3, <2>6
  <2>8. u = v
    BY <1>1, <2>1, <2>4, <2>5, <2>7
  <2>. QED
    BY <2>2, <2>3, <2>8
<1>9. ASSUME NEW i \in between, k \in DOMAIN f[next[i]], Misses(f, lv, n, k),
             \A j \in 1..Len(next) : k \in DOMAIN f[next[j]] => j = i
      PROVE  merged[k] = f[next[i]][k]
  <2>1. PICK u \in DOMAIN sources : k \in DOMAIN f[sources[u]] /\ merged[k] = f[sources[u]][k]
    BY <1>4, <1>7, <1>9
  <2>2. u \notin 1..N
    BY <1>3, <1>9, <2>1 DEF Misses, N
  <2>3. PICK x \in between : u = N + x
    BY <1>2, <2>2
  <2>4. sources[u] = next[x] /\ x \in 1..Len(next)
    BY <1>1, <1>4, <2>3
  <2>. QED
    BY <1>9, <2>1, <2>4
<1>. QED
  BY <1>8, <1>9 DEF merged, sources, N, next, between

\* The table g that is written has the entries of its sources.
CopiedWhole(f, lv, n, g) == g = Merged(f, MergeSources(f, lv, n))

\* A compaction that copies its sources whole leaves every answer as it was.
LEMMA GetCompacted ==
    ASSUME EmptyKey \notin Key,
           NEW f \in Files, NEW lv, WellFormed(f, lv), Valued(f, lv),
           NEW n \in 1..Len(lv), lv[n] # <<>>, n <= Len(LevelMax), NEW id \in 1..MaxId,
           \A m \in 1..Len(lv) : InLevel(lv, m, id) => m = n,
           NEW g \in NewTable(f, MergeSources(f, lv, n), id), CopiedWhole(f, lv, n, g),
           Valued([f EXCEPT ![id] = g], Compacted(f, lv, n, id)), NEW k \in Key
    PROVE  Get([f EXCEPT ![id] = g], Compacted(f, lv, n, id), k) = Get(f, lv, k)
<1>. DEFINE h == [f EXCEPT ![id] = g]
            new == Compacted(f, lv, n, id)
            next == NextLevel(lv, n)
            l == InsertLeft(f, lv, n)
            r == InsertRight(f, lv, n)
<1>1. h \in Files /\ WellFormed(h, new)
  BY CompactedForm
<1>2. lv \in Levels /\ Len(lv) \in Nat
  BY LevelsShape DEF WellFormed, Shaped
<1>3. /\ Len(new) = (IF n = Len(lv) THEN n + 1 ELSE Len(lv))
      /\ n + 1 \in 1..Len(new) /\ new[n] = <<>>
  <2>1. Len(new) = (IF n = Len(lv) THEN n + 1 ELSE Len(lv))
    BY <1>2, CompactedShape
  <2>2. n + 1 \in 1..Len(new) /\ new[n] = <<>>
    BY <1>2, CompactedShape
  <2>. QED
    BY <2>1, <2>2
<1>4. \A m \in 1..Len(lv) : m # n /\ m # n + 1 => new[m] = lv[m]
  BY <1>2, CompactedShape
<1>5. Len(new[n + 1]) = l + 1 + (Len(next) - r + 1) /\ new[n + 1][l + 1] = id
  BY <1>2, CompactedShape
<1>6. \A i \in 1..l : new[n + 1][i] = next[i]
  BY SMTT(30), <1>2, CompactedShape
<1>7. \A i \in r..Len(next) : new[n + 1][l + 1 + (i - r + 1)] = next[i]
  BY SMTT(30), <1>2, CompactedShape
<1>8. r \in 1..Len(next) + 1 /\ l \in 0..r - 1
  BY <1>2, InsertRange
<1>9. Len(next) \in Nat
  BY NextLevelShape
<1>10. \A i \in 1..Len(next) : n + 1 \in 1..Len(lv) /\ next = lv[n + 1]
  BY NextLevelShape
<1>11. h[id] = g /\ \A x \in 1..MaxId : x # id => h[x] = f[x]
  BY DEF Files
<1>12. \A m \in 1..Len(lv) : \A i \in 1..Len(lv[m]) : m # n => h[lv[m][i]] = f[lv[m][i]]
  <2>1. \A m \in 1..Len(lv) : \A i \in 1..Len(lv[m]) : lv[m][i] \in 1..MaxId
    BY <1>2, LevelsShape
  <2>. HIDE DEF h
  <2>. QED
    BY <1>11, <2>1 DEF InLevel
<1>13. k \in DOMAIN g <=> \/ \E i \in 1..Len(lv[n]) : k \in DOMAIN f[lv[n][i]]
                          \/ \E i \in l + 1..r - 1 : k \in DOMAIN f[next[i]]
  BY WrittenTable
<1>14. \A j \in 1..Len(new[n + 1]) : new[n + 1][j] = id \/ \E i \in 1..Len(next) : new[n + 1][j] = next[i]
  <2>. SUFFICES ASSUME NEW j \in 1..Len(new[n + 1])
                PROVE  new[n + 1][j] = id \/ \E i \in 1..Len(next) : new[n + 1][j] = next[i]
    OBVIOUS
  <2>1. \/ j <= l /\ j \in 1..Len(next) /\ new[n + 1][j] = next[j]
        \/ j = l + 1 /\ new[n + 1][j] = id
        \/ /\ j > l + 1 /\ r + j - (l + 2) \in r..Len(next)
           /\ r + j - (l + 2) \in 1..Len(next)
           /\ new[n + 1][j] = next[r + j - (l + 2)]
    BY <1>2, CompactedTables
  <2>. HIDE DEF h, new, next, l, r
  <2>. QED
    BY <2>1
<1>15. \A i \in 1..Len(lv[n]) :
          /\ k \in DOMAIN f[lv[n][i]]
          /\ \A j \in 1..Len(lv[n]) : k \in DOMAIN f[lv[n][j]] => j <= i
          => g[k] = f[lv[n][i]][k]
  <2>. DEFINE merged == Merged(f, MergeSources(f, lv, n))
  <2>1. \A i \in 1..Len(lv[n]) :
            /\ k \in DOMAIN f[lv[n][i]]
            /\ \A j \in 1..Len(lv[n]) : k \in DOMAIN f[lv[n][j]] => j <= i
            => merged[k] = f[lv[n][i]][k]
    BY MergedWinner
  <2>. HIDE DEF merged
  <2>2. g = merged
    BY DEF CopiedWhole, merged
  <2>. QED
    BY <2>1, <2>2
<1>16. \A i \in l + 1..r - 1 :
          /\ k \in DOMAIN f[next[i]] /\ Misses(f, lv, n, k)
          /\ \A j \in 1..Len(next) : k \in DOMAIN f[next[j]] => j = i
          => g[k] = f[next[i]][k]
  <2>. DEFINE merged == Merged(f, MergeSources(f, lv, n))
  <2>1. \A i \in l + 1..r - 1 :
            /\ k \in DOMAIN f[next[i]] /\ Misses(f, lv, n, k)
            /\ \A j \in 1..Len(next) : k \in DOMAIN f[next[j]] => j = i
            => merged[k] = f[next[i]][k]
    BY MergedWinner
  <2>. HIDE DEF merged
  <2>2. g = merged
    BY DEF CopiedWhole, merged
  <2>. QED
    BY <2>1, <2>2
<1>. HIDE DEF h, new, next, l, r
<1>17. Valued(h, new)
  BY DEF h, new
<1>18. Misses(h, new, n, k)
  BY <1>3 DEF Misses
<1>19. \A m \in 1..Len(lv) : m # n /\ m # n + 1 => (Misses(h, new, m, k) <=> Misses(f, lv, m, k))
  <2>. SUFFICES ASSUME NEW m \in 1..Len(lv), m # n, m # n + 1
                PROVE  Misses(h, new, m, k) <=> Misses(f, lv, m, k)
    OBVIOUS
  <2>1. new[m] = lv[m] /\ \A i \in 1..Len(lv[m]) : h[lv[m][i]] = f[lv[m][i]]
    BY <1>4, <1>12
  <2>. QED
    BY <2>1 DEF Misses
<1>20. Misses(f, lv, n, k) /\ (\A i \in 1..Len(next) : k \notin DOMAIN f[next[i]])
          => Misses(h, new, n + 1, k)
  <2>. SUFFICES ASSUME Misses(f, lv, n, k), \A i \in 1..Len(next) : k \notin DOMAIN f[next[i]],
                       NEW j \in 1..Len(new[n + 1])
                PROVE  k \notin DOMAIN h[new[n + 1][j]]
    BY DEF Misses
  <2>1. k \notin DOMAIN g
    <3>1. \A i \in l + 1..r - 1 : i \in 1..Len(next)
      BY <1>8, <1>9
    <3>. QED
      BY <1>13, <3>1 DEF Misses
  <2>2. \A i \in 1..Len(next) : h[next[i]] = f[next[i]]
    <3>. SUFFICES ASSUME NEW i \in 1..Len(next) PROVE h[next[i]] = f[next[i]]
      OBVIOUS
    <3>1. n + 1 \in 1..Len(lv) /\ next = lv[n + 1] /\ n + 1 # n
      BY <1>10
    <3>. QED
      BY <1>12, <3>1
  <2>3. CASE new[n + 1][j] = id
    BY <1>11, <2>1, <2>3
  <2>4. ASSUME NEW i \in 1..Len(next), new[n + 1][j] = next[i]
        PROVE  k \notin DOMAIN h[new[n + 1][j]]
    <3>1. h[new[n + 1][j]] = f[next[i]]
      BY <2>2, <2>4
    <3>. QED
      BY <3>1
  <2>. QED
    BY <1>14, <2>3, <2>4
<1>21. \A m \in 1..Len(new) : m \in 1..Len(lv) \/ m = n + 1
  BY <1>2, <1>3
<1>22. \A m \in 1..Len(lv) : m \in 1..Len(new)
  BY <1>2, <1>3
<1>23. \A i \in 1..Len(next) : k \in DOMAIN f[next[i]] =>
          \A j \in 1..Len(next) : k \in DOMAIN f[next[j]] => j = i
  <2>. SUFFICES ASSUME NEW i \in 1..Len(next), NEW j \in 1..Len(next),
                       k \in DOMAIN f[next[i]], k \in DOMAIN f[next[j]]
                PROVE  j = i
    OBVIOUS
  <2>1. n + 1 \in 2..Len(lv) /\ next = lv[n + 1]
    BY <1>2, <1>10
  <2>. QED
    BY <2>1, SortedUnique
<1>24. CASE \A m \in 1..Len(lv) : Misses(f, lv, m, k)
  <2>1. \A i \in 1..Len(next) : k \notin DOMAIN f[next[i]]
    BY <1>10, <1>24 DEF Misses
  <2>2. \A m \in 1..Len(new) : Misses(h, new, m, k)
    BY <1>18, <1>19, <1>20, <1>21, <1>24, <2>1
  <2>3. Get(f, lv, k) = NoValue
    BY <1>24, GetMiss
  <2>4. Get(h, new, k) = NoValue
    BY <1>1, <2>2, GetMiss
  <2>. QED
    BY <2>3, <2>4 DEF h, new
<1>25. ASSUME NEW x \in 1..Len(lv), ~ Misses(f, lv, x, k)
       PROVE  Get(h, new, k) = Get(f, lv, k)
  <2>1. PICK m \in 1..Len(lv) : \E i \in 1..Len(lv[m]) : Answers(f, lv, m, i, k)
    BY <1>25, AnswerExists
  <2>2. PICK i \in 1..Len(lv[m]) : Answers(f, lv, m, i, k)
    BY <2>1
  <2>3. Get(f, lv, k) = f[lv[m][i]][k]
    BY <2>2, GetAnswer
  <2>4. k \in DOMAIN f[lv[m][i]] /\ \A y \in 1..m - 1 : Misses(f, lv, y, k)
    BY <2>2 DEF Answers
  <2>. SUFFICES ASSUME TRUE
                PROVE  \E y \in 1..Len(new) : \E j \in 1..Len(new[y]) :
                          Answers(h, new, y, j, k) /\ h[new[y][j]][k] = f[lv[m][i]][k]
    BY <1>1, <1>17, <2>3, GetAnswer
  \* The merged table has the key.
  <2>5. ASSUME m >= n, k \in DOMAIN g, g[k] = f[lv[m][i]][k]
        PROVE  Answers(h, new, n + 1, l + 1, k)
               /\ l + 1 \in 1..Len(new[n + 1]) /\ h[new[n + 1][l + 1]][k] = f[lv[m][i]][k]
    <3>1. l + 1 \in 1..Len(new[n + 1])
      <4>1. l \in Nat /\ Len(next) - r + 1 \in Nat
        BY <1>8, <1>9
      <4>. QED
        BY <1>5, <4>1
    <3>2. \A y \in 1..(n + 1) - 1 : y = n \/ (y \in 1..m - 1 /\ y \in 1..Len(lv) /\ y # n + 1)
      BY <1>2, <2>5
    <3>3. \A y \in 1..(n + 1) - 1 : Misses(h, new, y, k)
      BY <1>18, <1>19, <2>4, <3>2
    <3>4. n + 1 # 1
      OBVIOUS
    <3>. QED
      BY <1>5, <1>11, <2>5, <3>1, <3>3, <3>4 DEF Answers
  <2>6. CASE m = n
    <3>1. \A j \in 1..Len(lv[n]) : k \in DOMAIN f[lv[n][j]] => j <= i
      <4>. SUFFICES ASSUME NEW j \in 1..Len(lv[n]), k \in DOMAIN f[lv[n][j]] PROVE j <= i
        OBVIOUS
      <4>0. Len(lv[n]) \in Nat
        BY <1>2, LevelsShape
      <4>1. CASE n = 1
        BY <2>2, <2>6, <4>0, <4>1 DEF Answers
      <4>2. CASE n # 1
        <5>1. n \in 2..Len(lv)
          BY <1>2, <4>2
        <5>2. j = i
          BY <2>4, <2>6, <5>1, SortedUnique
        <5>. QED
          BY <4>0, <5>2
      <4>. QED
        BY <4>1, <4>2
    <3>2. k \in DOMAIN g /\ g[k] = f[lv[m][i]][k]
      BY <1>13, <1>15, <2>4, <2>6, <3>1
    <3>3. m >= n
      BY <1>2, <2>6
    <3>. QED
      BY <1>3, <2>5, <3>2, <3>3
  <2>7. CASE m < n
    <3>1. m # n /\ m # n + 1 /\ m \in 1..Len(new)
      BY <1>2, <1>22, <2>7
    <3>2. new[m] = lv[m] /\ h[lv[m][i]] = f[lv[m][i]]
      BY <1>4, <1>12, <3>1
    <3>3. \A y \in 1..m - 1 : y \in 1..Len(lv) /\ y # n /\ y # n + 1
      BY <1>2, <2>7
    <3>4. \A y \in 1..m - 1 : Misses(h, new, y, k)
      BY <1>19, <2>4, <3>3
    <3>5. m = 1 => \A j \in 1..Len(new[1]) : j > i => k \notin DOMAIN h[new[1][j]]
      BY <1>12, <2>2, <3>1, <3>2 DEF Answers
    <3>6. Answers(h, new, m, i, k)
      BY <2>4, <3>2, <3>4, <3>5 DEF Answers
    <3>. QED
      BY <3>1, <3>2, <3>6
  <2>8. CASE m > n
    <3>1. m \in Nat /\ n \in Nat /\ n \in 1..m - 1 /\ m # 1
      BY <1>2, <2>8
    <3>2. Misses(f, lv, n, k)
      BY <2>4, <3>1
    <3>3. CASE m = n + 1
      <4>1. next = lv[m] /\ i \in 1..Len(next)
        <5>1. n < Len(lv)
          BY <1>2, <3>3
        <5>. QED
          BY <3>3, <5>1 DEF next, NextLevel
      <4>2. \A j \in 1..Len(next) : k \in DOMAIN f[next[j]] => j = i
        BY <1>23, <2>4, <4>1
      <4>3. \A y \in 1..m - 1 : y = n \/ (y \in 1..Len(lv) /\ y # n + 1 /\ y # n)
        BY <1>2, <3>3
      <4>4. \A y \in 1..m - 1 : Misses(h, new, y, k)
        BY <1>18, <1>19, <2>4, <4>3
      <4>5. h[next[i]] = f[next[i]]
        BY <1>12, <3>1, <4>1
      <4>6. ASSUME NEW j \in 1..Len(new[n + 1]), new[n + 1][j] = next[i]
            PROVE  Answers(h, new, m, j, k) /\ h[new[m][j]][k] = f[lv[m][i]][k]
        BY <2>4, <3>1, <3>3, <4>1, <4>4, <4>5, <4>6 DEF Answers
      <4>7. CASE i \in 1..l
        <5>1. i \in 1..Len(new[n + 1])
          BY <1>5, <1>8, <1>9, <4>7
        <5>2. new[n + 1][i] = next[i]
          BY <1>6, <4>7
        <5>. QED
          BY <1>3, <3>3, <4>6, <5>1, <5>2
      <4>8. CASE i \in r..Len(next)
        <5>. DEFINE j == l + 1 + (i - r + 1)
        <5>1. j \in 1..Len(new[n + 1])
          BY <1>5, <1>8, <1>9, <4>8
        <5>2. new[n + 1][j] = next[i]
          BY <1>7, <4>8
        <5>. HIDE DEF j
        <5>. QED
          BY <1>3, <3>3, <4>6, <5>1, <5>2
      <4>9. CASE i \in l + 1..r - 1
        <5>1. k \in DOMAIN g /\ g[k] = f[lv[m][i]][k]
          BY <1>13, <1>16, <2>4, <3>2, <4>1, <4>2, <4>9
        <5>2. m >= n
          BY <3>1
        <5>. QED
          BY <1>3, <2>5, <5>1, <5>2
      <4>. QED
        BY <1>8, <1>9, <4>1, <4>7, <4>8, <4>9
    <3>4. CASE m # n + 1
      <4>1. m # n /\ m \in 1..Len(new) /\ n + 1 \in 1..m - 1 /\ n + 1 \in 1..Len(lv)
        BY <1>2, <1>22, <2>8, <3>4
      <4>2. new[m] = lv[m] /\ h[lv[m][i]] = f[lv[m][i]]
        BY <1>4, <1>12, <3>4, <4>1
      <4>3. Misses(f, lv, n + 1, k)
        BY <2>4, <4>1
      <4>4. \A j \in 1..Len(next) : k \notin DOMAIN f[next[j]]
        BY <1>10, <4>3 DEF Misses
      <4>5. Misses(h, new, n + 1, k)
        BY <1>20, <3>2, <4>4
      <4>6. \A y \in 1..m - 1 : y \in 1..Len(lv)
        BY <1>2
      <4>7. \A y \in 1..m - 1 : Misses(h, new, y, k)
        BY <1>18, <1>19, <2>4, <4>5, <4>6
      <4>8. Answers(h, new, m, i, k)
        BY <2>4, <3>1, <4>2, <4>7 DEF Answers
      <4>. QED
        BY <4>1, <4>2, <4>8
    <3>. QED
      BY <3>3, <3>4
  <2>9. m = n \/ m < n \/ m > n
    BY <1>2
  <2>. QED
    BY <2>6, <2>7, <2>8, <2>9
<1>. QED
  BY <1>24, <1>25 DEF h, new

-----------------------------------------------------------------------------
(***************************************************************************)
(* Every key reads as the value flushed last, as long as no compaction     *)
(* overwrites one of its own sources.                                      *)
(***************************************************************************)
ValueInv == Valued(file, levels) /\ Valued(file, draft) /\ Valued(file, disk)

ReadInv == \A k \in Key : Get(file, draft, k) = newest[k] /\ Get(file, disk, k) = saved[k]

\* The next round of a compaction does not move entries within the file it writes.
CopiesWhole ==
    at > 0 /\ LoopGoesOn =>
        LET sources == MergeSources(file, draft, at) IN
        sst_id \notin Range(sources) \/ Merged(file, sources) = file[sst_id]

\* A manifest keeps its values as long as its files are not written.
LEMMA ValueFrame ==
    ASSUME NEW f, NEW g, NEW lv, Valued(f, lv), \A id \in Ids(lv) : g[id] = f[id]
    PROVE  Valued(g, lv)
BY DEF Valued

\* A compaction writes values of its sources, or scrambled ones.
LEMMA ValueCompacted ==
    ASSUME EmptyKey \notin Key,
           NEW f \in Files, NEW lv, WellFormed(f, lv), Valued(f, lv),
           NEW n \in 1..Len(lv), lv[n] # <<>>, NEW id \in 1..MaxId,
           NEW g \in NewTable(f, MergeSources(f, lv, n), id)
    PROVE  Valued([f EXCEPT ![id] = g], Compacted(f, lv, n, id))
<1>. DEFINE h == [f EXCEPT ![id] = g]
            new == Compacted(f, lv, n, id)
            sources == MergeSources(f, lv, n)
            N == Len(lv[n])
            next == NextLevel(lv, n)
            between == InsertLeft(f, lv, n) + 1..InsertRight(f, lv, n) - 1
            merged == Merged(f, sources)
<1>1. lv \in Levels /\ new \in Levels
  <2>1. lv \in Levels
    BY DEF WellFormed, Shaped
  <2>. QED
    BY <2>1, CompactedShape
<1>2. h[id] = g /\ \A x \in 1..MaxId : x # id => h[x] = f[x]
  BY DEF Files
<1>3. \A m \in 1..Len(new) : \A x :
         InLevel(new, m, x) => x = id \/ (m \in 1..Len(lv) /\ InLevel(lv, m, x))
  BY <1>1, CompactedIds
<1>4. g = merged \/ g = [k \in DOMAIN merged |-> Scrambled]
  BY DEF NewTable
<1>5. \A v : v \in DOMAIN sources <=> v \in 1..N \/ \E i \in between : v = N + i
  BY SourcesShape
<1>6. \A i \in 1..N : sources[i] = lv[n][N - i + 1] /\ N - i + 1 \in 1..N
  BY SourcesShape
<1>7. between \subseteq 1..Len(next) /\ \A i \in between : sources[N + i] = next[i]
  BY SourcesShape
<1>8. \A v \in DOMAIN sources : v \in Nat /\ sources[v] \in 1..MaxId
  BY SourcesShape
<1>9. \A i \in 1..Len(next) : n + 1 \in 1..Len(lv) /\ next = lv[n + 1]
  BY NextLevelShape
<1>. HIDE DEF sources, N, next, between
<1>10. \A k \in DOMAIN merged : \E v \in DOMAIN sources :
          k \in DOMAIN f[sources[v]] /\ merged[k] = f[sources[v]][k]
  BY <1>8, MergedShape
<1>. HIDE DEF h, new, merged
<1>11. \A v \in DOMAIN sources : sources[v] \in Ids(lv)
  <2>. SUFFICES ASSUME NEW v \in DOMAIN sources PROVE sources[v] \in Ids(lv)
    OBVIOUS
  <2>1. CASE v \in 1..N
    <3>1. N - v + 1 \in 1..Len(lv[n]) /\ sources[v] = lv[n][N - v + 1]
      BY <1>6, <2>1 DEF N
    <3>. QED
      BY <1>1, <3>1, IdsOfLevels DEF InLevel
  <2>2. ASSUME NEW i \in between, v = N + i PROVE sources[v] \in Ids(lv)
    <3>1. n + 1 \in 1..Len(lv) /\ i \in 1..Len(lv[n + 1]) /\ sources[v] = lv[n + 1][i]
      BY <1>7, <1>9, <2>2
    <3>. QED
      BY <1>1, <3>1, IdsOfLevels DEF InLevel
  <2>. QED
    BY <1>5, <2>1, <2>2
<1>12. \A k \in DOMAIN merged : merged[k] # NoValue
  BY <1>10, <1>11 DEF Valued
<1>13. \A k \in DOMAIN g : g[k] # NoValue
  BY <1>4, <1>12 DEF Scrambled, NoValue
<1>14. ASSUME NEW x \in Ids(new), NEW k \in DOMAIN h[x] PROVE h[x][k] # NoValue
  <2>1. PICK m \in 1..Len(new) : InLevel(new, m, x)
    BY <1>1, IdsOfLevels
  <2>2. CASE x = id
    BY <1>2, <1>13, <2>2
  <2>3. CASE x # id
    <3>1. x \in Ids(lv)
      BY <1>1, <1>3, <2>1, <2>3, IdsOfLevels
    <3>2. x \in 1..MaxId
      BY <1>1, <3>1, IdsType
    <3>3. h[x] = f[x]
      BY <1>2, <2>3, <3>2
    <3>. QED
      BY <3>1, <3>3 DEF Valued
  <2>. QED
    BY <2>2, <2>3
<1>. QED
  BY <1>14 DEF Valued, h, new

\* Every step keeps the answers of the manifest in hand and of the manifest file.
LEMMA ReadStep ==
    ASSUME EmptyKey \notin Key, ManifestInv, FormInv, ValueInv, ReadInv, CopiesWhole, [Next]_vars
    PROVE  ValueInv' /\ ReadInv'
<1>0. file \in Files
  BY DEF ManifestInv, ShapeInv
<1>1. WellFormed(file, levels) /\ WellFormed(file, draft) /\ WellFormed(file, disk)
  BY DEF FormInv
<1>2. Valued(file, levels) /\ Valued(file, draft) /\ Valued(file, disk)
  BY DEF ValueInv
<1>3. ASSUME NEW S \in (SUBSET Key) \ {{}}, Flush(S) PROVE ValueInv' /\ ReadInv'
  <2>. DEFINE id == sst_id + 1
              new == [levels EXCEPT ![1] = Append(@, id)]
              table == [k \in S |-> flushes + 1]
  <2>1. /\ id \in 1..MaxId /\ file' \in Files
        /\ \A x \in Ids(levels) \cup Ids(disk) : file'[x] = file[x]
    BY <1>3, FlushWrites
  <2>2. flushes \in Nat /\ DOMAIN table = S /\ S # {} /\ file'[id] = table
    BY <1>3, FlushWrites
  <2>3. \A k \in DOMAIN table : table[k] = flushes + 1 /\ table[k] # NoValue
    BY <2>2 DEF NoValue
  <2>. HIDE DEF id, table
  <2>4. WellFormed(file', levels)
    BY <1>1, <2>1, FormFrame
  <2>5. Valued(file', levels) /\ Valued(file', disk)
    BY <1>2, <2>1, ValueFrame
  <2>6. DOMAIN file'[id] = S /\ \A k \in DOMAIN file'[id] : file'[id][k] = flushes + 1 /\ file'[id][k] # NoValue
    BY <2>2, <2>3
  <2>7. \A k \in Key : Get(file', new, k) = IF k \in S THEN flushes + 1 ELSE Get(file', levels, k)
    <3>. SUFFICES ASSUME NEW k \in Key
                  PROVE  Get(file', new, k) = IF k \in S THEN flushes + 1 ELSE Get(file', levels, k)
      OBVIOUS
    <3>1. Get(file', new, k) = IF k \in DOMAIN file'[id] THEN file'[id][k] ELSE Get(file', levels, k)
      BY <2>1, <2>2, <2>4, <2>5, <2>6, GetInserted
    <3>. QED
      BY <2>6, <3>1
  <2>8. \A k \in Key : Get(file', levels, k) = Get(file, levels, k) /\ Get(file', disk, k) = Get(file, disk, k)
    BY <1>0, <1>1, <1>2, <2>1, GetFrame
  <2>9. at = 0 /\ draft = levels
    BY <1>3 DEF Flush, ManifestInv, DraftInv
  <2>10. draft' = new /\ disk' = disk /\ (levels' = levels \/ levels' = new) /\ saved' = saved
         /\ newest' = [k \in Key |-> IF k \in S THEN flushes + 1 ELSE newest[k]]
    BY <1>3 DEF Flush, id
  <2>11. Ids(new) = Ids(levels) \cup {id}
    <3>1. levels \in Levels /\ Len(levels) > 0
      BY <1>1, LevelsShape DEF WellFormed, Shaped
    <3>. QED
      BY <2>1, <3>1, InsertedShape
  <2>. HIDE DEF new
  <2>12. Valued(file', new)
    BY <2>5, <2>6, <2>11 DEF Valued
  <2>13. ValueInv'
    BY <2>5, <2>10, <2>12 DEF ValueInv
  <2>14. ReadInv'
    BY <2>7, <2>8, <2>9, <2>10 DEF ReadInv
  <2>. QED
    BY <2>13, <2>14
<1>4. CASE Compact
  <2>1. /\ sst_id \in 1..MaxId /\ at \in 1..Len(draft) /\ at <= Len(LevelMax) /\ draft[at] # <<>>
        /\ file' \in Files
        /\ \A x \in Ids(levels) \cup Ids(disk) : file'[x] = file[x]
    BY <1>4, CompactWrites
  <2>. DEFINE sources == MergeSources(file, draft, at)
  <2>2. PICK g \in NewTable(file, sources, sst_id) : file' = [file EXCEPT ![sst_id] = g]
    BY <1>4, CompactWrites
  <2>3. g = Merged(file, sources)
    <3>1. sst_id \notin Range(sources) \/ Merged(file, sources) = file[sst_id]
      BY <1>4 DEF Compact, CopiesWhole
    <3>. QED
      BY <2>2, <3>1 DEF NewTable
  <2>4. \A m \in 1..Len(draft) : InLevel(draft, m, sst_id) => m = at
    BY <2>1 DEF ManifestInv, DraftInv
  <2>5. Valued([file EXCEPT ![sst_id] = g], Compacted(file, draft, at, sst_id))
    BY <1>0, <1>1, <1>2, <2>1, <2>2, ValueCompacted
  <2>6. ASSUME NEW k \in Key
        PROVE  Get([file EXCEPT ![sst_id] = g], Compacted(file, draft, at, sst_id), k) = Get(file, draft, k)
    <3>1. CopiedWhole(file, draft, at, g)
      BY <2>3 DEF CopiedWhole
    <3>2. g \in NewTable(file, MergeSources(file, draft, at), sst_id)
      BY <2>2
    <3>3. sst_id \in 1..MaxId /\ at \in 1..Len(draft) /\ at <= Len(LevelMax) /\ draft[at] # <<>>
      BY <2>1
    <3>4. WellFormed(file, draft) /\ Valued(file, draft)
      BY <1>1, <1>2
    <3>. HIDE DEF sources
    <3>. QED
      BY <1>0, <2>4, <2>5, <3>1, <3>2, <3>3, <3>4, GetCompacted
  <2>7. draft' = Compacted(file, draft, at, sst_id)
        /\ UNCHANGED <<levels, disk, newest, saved>>
    BY <1>4 DEF Compact
  <2>8. Valued(file', levels) /\ Valued(file', disk)
    BY <1>2, <2>1, ValueFrame
  <2>9. \A k \in Key : Get(file', disk, k) = Get(file, disk, k)
    BY <1>0, <1>1, <1>2, <2>1, GetFrame
  <2>10. ValueInv'
    BY <2>2, <2>5, <2>7, <2>8 DEF ValueInv
  <2>11. ReadInv'
    BY <2>2, <2>6, <2>7, <2>9 DEF ReadInv
  <2>. QED
    BY <2>10, <2>11
<1>5. CASE Publish
  BY <1>2, <1>5 DEF ValueInv, ReadInv, Publish
<1>6. CASE Reopen
  <2>1. draft = levels
    BY <1>6 DEF Reopen, ManifestInv, DraftInv
  <2>. QED
    BY <1>2, <1>6, <2>1 DEF ValueInv, ReadInv, Reopen
<1>7. CASE Kill
  BY <1>2, <1>7 DEF ValueInv, ReadInv, Kill
<1>8. CASE UNCHANGED vars
  BY <1>2, <1>8 DEF ValueInv, ReadInv, vars
<1>. QED
  BY <1>3, <1>4, <1>5, <1>6, <1>7, <1>8 DEF Next

\* Nothing is read from the empty manifest.
LEMMA ReadInit == Init => ValueInv /\ ReadInv
<1>. SUFFICES ASSUME Init PROVE ValueInv /\ ReadInv
  OBVIOUS
<1>1. ManifestInv /\ FormInv
  BY ManifestInit
<1>2. sst_id = 0 /\ draft = levels /\ disk = levels /\ levels = EmptyManifest
      /\ newest = [k \in Key |-> NoValue] /\ saved = newest
  BY DEF Init
<1>3. Ids(levels) = {} /\ file \in Files /\ WellFormed(file, levels) /\ levels \in Levels
  <2>1. Ids(levels) \subseteq 1..0
    BY <1>1, <1>2 DEF ManifestInv, IdInv
  <2>. QED
    BY <1>1, <2>1 DEF ManifestInv, ShapeInv, FormInv, WellFormed, Shaped
<1>4. ValueInv
  BY <1>2, <1>3 DEF ValueInv, Valued
<1>5. \A k \in Key : \A n \in 1..Len(levels) : Misses(file, levels, n, k)
  <2>1. \A n \in 1..Len(levels) : \A id : ~ InLevel(levels, n, id)
    BY <1>3, IdsOfLevels
  <2>2. \A n \in 1..Len(levels) : \A i \in 1..Len(levels[n]) : FALSE
    BY <2>1 DEF InLevel
  <2>. QED
    BY <2>2 DEF Misses
<1>6. \A k \in Key : Get(file, levels, k) = NoValue
  BY <1>3, <1>5, GetMiss
<1>. QED
  BY <1>2, <1>4, <1>6 DEF ReadInv

\* What the two manifests answer, in every reachable state.
LEMMA ReadInvariant ==
    ASSUME EmptyKey \notin Key
    PROVE  Spec /\ []CopiesWhole => []ReadInv
<1>1. ManifestInv /\ FormInv /\ (ValueInv /\ ReadInv) /\ CopiesWhole /\ [Next]_vars
        => (ValueInv /\ ReadInv)'
  BY ReadStep
<1>. QED
  BY <1>1, ReadInit, ManifestInvariant, FormInvariant, PTL DEF Spec

(***************************************************************************)
(* If no key is the empty string and no round of a compaction moves        *)
(* entries within the file it writes, every key reads as the value flushed *)
(* last for it, for any number of levels: the order of the levels, the     *)
(* order within Level 0, the binary search, the merge and the place of the *)
(* merged table hide and lose nothing.                                     *)
(***************************************************************************)
THEOREM ManifestReadsNewest ==
    ASSUME EmptyKey \notin Key
    PROVE  Spec /\ []CopiesWhole => []ReadsNewest
<1>1. ManifestInv /\ ReadInv => ReadsNewest
  BY DEF ManifestInv, DraftInv, ReadInv, ReadsNewest
<1>. QED
  BY <1>1, ReadInvariant, ManifestInvariant, PTL

(***************************************************************************)
(* Under the same conditions the manifest file reads as what was newest    *)
(* when it was written, after any flushes, compactions and kills since.    *)
(***************************************************************************)
THEOREM ManifestSavedIntact ==
    ASSUME EmptyKey \notin Key
    PROVE  Spec /\ []CopiesWhole => []SavedIntact
<1>1. ReadInv => SavedIntact
  BY DEF ReadInv, SavedIntact
<1>. QED
  BY <1>1, ReadInvariant, PTL

-----------------------------------------------------------------------------
(***************************************************************************)
(* A Level 1 that may hold every key is never compacted, so that one round *)
(* is all a compaction does.                                               *)
(***************************************************************************)
\* A sorted level has no more entries than there are keys.
LEMMA SortedLevelSize ==
    ASSUME NEW f \in Files, NEW lv, WellFormed(f, lv), NEW n \in 2..Len(lv)
    PROVE  LevelSize(f, lv[n]) \in Nat /\ LevelSize(f, lv[n]) <= Cardinality(Key)
<1>. DEFINE D == 1..Len(lv[n])
            T == [i \in D |-> DOMAIN f[lv[n][i]]]
<1>1. lv \in Levels /\ n \in 1..Len(lv)
  BY LevelsShape DEF WellFormed, Shaped
<1>2. DOMAIN lv[n] = D /\ Len(lv[n]) \in Nat /\ \A i \in D : lv[n][i] \in 1..MaxId
  BY <1>1, LevelsShape
<1>3. IsFiniteSet(D) /\ IsFiniteSet(Key)
  <2>1. 1 \in Int /\ Len(lv[n]) \in Int
    BY <1>2
  <2>. QED
    BY <2>1, FS_Interval, KeyAssumption
<1>4. T \in [D -> SUBSET Key]
  <2>1. \A i \in D : DOMAIN f[lv[n][i]] \in SUBSET Key
    BY <1>2, TableKeys
  <2>. HIDE DEF D
  <2>. QED
    BY <2>1
<1>5. \A i \in D : \A j \in D : i # j => T[i] \cap T[j] = {}
  <2>. SUFFICES ASSUME NEW i \in D, NEW j \in D, NEW e, e \in T[i], e \in T[j] PROVE i = j
    OBVIOUS
  <2>1. e \in DOMAIN f[lv[n][i]] /\ e \in DOMAIN f[lv[n][j]]
    <3>. HIDE DEF D
    <3>. QED
      OBVIOUS
  <2>. QED
    BY <2>1, SortedUnique
<1>6. LevelSize(f, lv[n]) = SumFunction([i \in D |-> Cardinality(T[i])])
  <2>1. \A i \in D : Cardinality(T[i]) = Cardinality(DOMAIN f[lv[n][i]])
    <3>. HIDE DEF D
    <3>. QED
      OBVIOUS
  <2>2. [i \in D |-> Cardinality(T[i])] = [i \in DOMAIN lv[n] |-> Cardinality(DOMAIN f[lv[n][i]])]
    <3>. HIDE DEF D, T
    <3>. QED
      BY <1>2, <2>1
  <2>. HIDE DEF D, T
  <2>. QED
    BY <2>2 DEF LevelSize
<1>. HIDE DEF D, T
<1>. QED
  BY <1>3, <1>4, <1>5, <1>6, SumOfDisjoint

\* Level 1 may hold every key, or is the last level.
Shallow == Len(LevelMax) >= 2 => Cardinality(Key) <= LevelMax[2]

\* The first round of a compaction writes a file of its own, and there is no second.
LEMMA OneRound ==
    ASSUME EmptyKey \notin Key, Shallow, ManifestInv, FormInv, at <= 2
    PROVE  CopiesWhole /\ (at = 2 => ~ LoopGoesOn)
<1>1. file \in Files /\ WellFormed(file, draft) /\ draft \in Levels /\ at \in Nat
      /\ LevelMax \in Seq(Nat) /\ Len(LevelMax) \in Nat
  <2>1. Len(LevelMax) \in Nat
    BY LevelAssumption, LenProperties
  <2>2. at \in Nat
    BY <2>1 DEF ManifestInv, NumbersInv
  <2>. QED
    BY <2>1, <2>2, LevelAssumption DEF ManifestInv, ShapeInv, FormInv, Shaped
<1>2. ASSUME at = 2, LoopGoesOn PROVE FALSE
  <2>1. 2 <= Len(draft) /\ 2 <= Len(LevelMax) /\ LevelSize(file, draft[2]) > LevelMax[2]
    BY <1>2 DEF LoopGoesOn, TooLarge
  <2>2. 2 \in 2..Len(draft) /\ LevelMax[2] \in Nat
    <3>1. Len(draft) \in Nat
      BY <1>1, LevelsShape
    <3>2. 2 \in 1..Len(LevelMax) /\ LevelMax \in [1..Len(LevelMax) -> Nat]
      BY <1>1, <2>1, LenProperties
    <3>. QED
      BY <2>1, <3>1, <3>2
  <2>3. LevelSize(file, draft[2]) \in Nat /\ LevelSize(file, draft[2]) <= Cardinality(Key)
    BY <1>1, <2>2, SortedLevelSize
  <2>4. Cardinality(Key) <= LevelMax[2] /\ Cardinality(Key) \in Nat
    BY <1>1, <2>1, KeyAssumption, FS_CardinalityType DEF Shallow
  <2>. QED
    BY <2>1, <2>2, <2>3, <2>4
<1>3. ASSUME at = 1, LoopGoesOn PROVE sst_id \notin Range(MergeSources(file, draft, at))
  <2>. DEFINE sources == MergeSources(file, draft, 1)
              N == Len(draft[1])
              next == NextLevel(draft, 1)
              between == InsertLeft(file, draft, 1) + 1..InsertRight(file, draft, 1) - 1
  <2>1. 1 \in 1..Len(draft) /\ draft[1] # <<>>
    <3>1. Len(draft) \in Nat
      BY <1>1, LevelsShape
    <3>. QED
      BY <1>3, <3>1 DEF ManifestInv, DraftInv
  <2>2. \A m \in 1..Len(draft) : ~ InLevel(draft, m, sst_id)
    BY <1>3 DEF ManifestInv, DraftInv
  <2>3. \A v : v \in DOMAIN sources <=> v \in 1..N \/ \E i \in between : v = N + i
    BY <1>1, <2>1, SourcesShape
  <2>4. \A i \in 1..N : sources[i] = draft[1][N - i + 1] /\ N - i + 1 \in 1..N
    BY <1>1, <2>1, SourcesShape
  <2>5. between \subseteq 1..Len(next) /\ \A i \in between : sources[N + i] = next[i]
    BY <1>1, <2>1, SourcesShape
  <2>6. \A i \in 1..Len(next) : 1 + 1 \in 1..Len(draft) /\ next = draft[1 + 1]
    BY <1>1, <2>1, NextLevelShape
  <2>. HIDE DEF sources, next, between
  <2>7. ASSUME NEW v \in DOMAIN sources PROVE sources[v] # sst_id
    <3>1. CASE v \in 1..N
      BY <2>1, <2>2, <2>4, <3>1 DEF InLevel
    <3>2. ASSUME NEW i \in between, v = N + i PROVE sources[v] # sst_id
      <4>1. sources[v] = next[i] /\ i \in 1..Len(next)
        BY <2>5, <3>2
      <4>. QED
        BY <2>2, <2>6, <4>1 DEF InLevel
    <3>. QED
      BY <2>3, <3>1, <3>2
  <2>8. sst_id \notin Range(sources)
    BY <2>7 DEF Range
  <2>. QED
    BY <1>3, <2>8 DEF sources
<1>4. at > 0 => at = 1 \/ at = 2
  BY <1>1
<1>. QED
  BY <1>2, <1>3, <1>4 DEF CopiesWhole

\* A compaction of a shallow manifest never moves entries within the file it writes.
LEMMA ShallowCopies ==
    ASSUME EmptyKey \notin Key, Shallow
    PROVE  Spec => []CopiesWhole
<1>. DEFINE Inv == ManifestInv /\ FormInv /\ at <= 2
<1>1. Init => Inv
  <2>1. Init => at <= 2
    BY DEF Init
  <2>. QED
    BY <2>1, ManifestInit
<1>2. Inv /\ [Next]_vars => Inv'
  <2>. SUFFICES ASSUME Inv, [Next]_vars PROVE Inv'
    OBVIOUS
  <2>1. ManifestInv' /\ FormInv'
    BY ManifestStep, FormStep
  <2>2. at' <= 2
    <3>1. at \in Nat /\ (at = 2 => ~ LoopGoesOn)
      <4>1. Len(LevelMax) \in Nat
        BY LevelAssumption, LenProperties
      <4>2. at \in Nat
        BY <4>1 DEF ManifestInv, NumbersInv
      <4>. QED
        BY <4>2, OneRound
    <3>2. CASE Compact
      <4>1. at' = at + 1 /\ LoopGoesOn
        BY <3>2 DEF Compact
      <4>2. at # 2
        BY <3>1, <4>1
      <4>. QED
        BY <3>1, <4>1, <4>2
    <3>3. ASSUME NEW S \in (SUBSET Key) \ {{}}, Flush(S) PROVE at' <= 2
      <4>1. at' = 1 \/ at' = at
        BY <3>3 DEF Flush
      <4>. QED
        BY <4>1
    <3>4. CASE Publish \/ Reopen \/ Kill
      <4>1. at' = 0 \/ at' = at
        BY <3>4 DEF Publish, Reopen, Kill
      <4>. QED
        BY <4>1
    <3>5. CASE UNCHANGED vars
      BY <3>5 DEF vars
    <3>. QED
      BY <3>2, <3>3, <3>4, <3>5 DEF Next
  <2>. QED
    BY <2>1, <2>2
<1>3. Inv => CopiesWhole
  BY OneRound
<1>. QED
  BY <1>1, <1>2, <1>3, PTL DEF Spec

(***************************************************************************)
(* A database whose Level 1 may hold every key, or is its last level,      *)
(* reads every key as the value flushed last for it, for every set of keys *)
(* without the empty one and any number of flushes, restarts and kills.    *)
(***************************************************************************)
THEOREM ShallowReadsNewest ==
    ASSUME EmptyKey \notin Key, Shallow
    PROVE  Spec => []ReadsNewest
BY ShallowCopies, ManifestReadsNewest, PTL

(***************************************************************************)
(* The same database reads its manifest file as what was newest when the   *)
(* file was written.                                                       *)
(***************************************************************************)
THEOREM ShallowSavedIntact ==
    ASSUME EmptyKey \notin Key, Shallow
    PROVE  Spec => []SavedIntact
BY ShallowCopies, ManifestSavedIntact, PTL
=============================================================================
