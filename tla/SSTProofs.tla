----------------------------- MODULE SSTProofs ------------------------------
(***************************************************************************)
(* Proofs about SST files and the block cache, for every set of keys and   *)
(* tables, every size of keys, values and blocks, every configuration of   *)
(* the cache and any number of threads that use it.                        *)
(***************************************************************************)
EXTENDS SST, Extrema, FiniteSetTheorems, SequenceTheorems, TLAPS

(***************************************************************************)
(* The block cache as a value.                                             *)
(***************************************************************************)
\* The list names the blocks of the map, each once.
Listed(c) ==
    /\ c = [map |-> c.map, lru |-> c.lru, size |-> c.size, count |-> c.count]
    /\ c.map = [k \in DOMAIN c.map |-> c.map[k]]
    /\ IsFiniteSet(DOMAIN c.map)
    /\ c.lru \in Seq(DOMAIN c.map)
    /\ \A i, j \in 1..Len(c.lru) : c.lru[i] = c.lru[j] => i = j
    /\ \A k \in DOMAIN c.map : \E i \in 1..Len(c.lru) : c.lru[i] = k
    /\ Len(c.lru) = Cardinality(DOMAIN c.map)

\* Only blocks that Put accepts are held.
Sized(c) == \A k \in DOMAIN c.map : c.map[k].size \in 1..MaxBlock

\* The accounts are the sizes of the blocks.
Accounted(c) ==
    /\ c.size = CachedBytes(c) /\ c.size <= Capacity
    /\ c.count = Cardinality(DOMAIN c.map)

Limited(c) == MaxCount > 0 => c.count <= MaxCount

\* A number below the modulus is not changed.
LEMMA ModSmall ==
    ASSUME NEW n \in Nat, n < SizeMod
    PROVE  SizeT(n) = n
BY CacheAssumption DEF SizeT

\* A list without the key at position i.
LEMMA Removed ==
    ASSUME NEW S, NEW list \in Seq(S), NEW i \in 1..Len(list),
           \A j, k \in 1..Len(list) : list[j] = list[k] => j = k
    PROVE  LET rest == Without(list, list[i]) IN
           /\ rest \in Seq(S \ {list[i]}) /\ Len(rest) = Len(list) - 1
           /\ \A j \in 1..Len(list) - 1 : rest[j] = list[IF j < i THEN j ELSE j + 1]
<1>. DEFINE a == SubSeq(list, 1, i - 1)
            b == SubSeq(list, i + 1, Len(list))
            n == list[i]
            R == S \ {n}
<1>0. Len(list) \in Nat /\ i \in Nat /\ \A j \in 1..Len(list) : list[j] \in S
  OBVIOUS
<1>1. Without(list, n) = a \o b
  <2>1. (CHOOSE j \in DOMAIN list : list[j] = n) = i
    <3>1. DOMAIN list = 1..Len(list)
      OBVIOUS
    <3>. QED
      BY <3>1
  <2>. QED
    BY <2>1 DEF Without, RemoveAt
<1>2. a \in Seq(R) /\ Len(a) = i - 1 /\ \A j \in 1..i - 1 : a[j] = list[j]
  <2>1. \A j \in 1..i - 1 : list[j] \in R
    BY <1>0
  <2>. HIDE DEF R, n
  <2>. QED
    BY <1>0, <2>1, SubSeqProperties
<1>3. b \in Seq(R) /\ Len(b) = Len(list) - i /\ \A j \in 1..Len(list) - i : b[j] = list[i + j]
  <2>1. \A j \in i + 1..Len(list) : list[j] \in R
    BY <1>0
  <2>. HIDE DEF R, n
  <2>2. /\ b \in Seq(R) /\ Len(b) = IF i + 1 <= Len(list) THEN Len(list) - (i + 1) + 1 ELSE 0
        /\ \A j \in 1..Len(list) - (i + 1) + 1 : b[j] = list[(i + 1) + j - 1]
    BY <1>0, <2>1, SubSeqProperties
  <2>. QED
    BY <1>0, <2>2
<1>. HIDE DEF a, b, n, R
<1>4. /\ a \o b \in Seq(R) /\ Len(a \o b) = Len(a) + Len(b)
      /\ \A j \in 1..Len(a) + Len(b) : (a \o b)[j] = IF j <= Len(a) THEN a[j] ELSE b[j - Len(a)]
  <2>1. a \in Seq(R) /\ b \in Seq(R)
    BY <1>2, <1>3
  <2>. QED
    BY ONLY <2>1, ConcatProperties
<1>5. Len(a) + Len(b) = Len(list) - 1
  BY <1>0, <1>2, <1>3
<1>6. ASSUME NEW j \in 1..Len(list) - 1 PROVE (a \o b)[j] = list[IF j < i THEN j ELSE j + 1]
  <2>1. CASE j < i
    <3>1. j <= Len(a) /\ j \in 1..i - 1 /\ j \in 1..Len(a) + Len(b)
      BY <1>0, <1>2, <1>5, <2>1
    <3>. QED
      BY <1>2, <1>4, <2>1, <3>1
  <2>2. CASE ~ (j < i)
    <3>1. ~ (j <= Len(a)) /\ j - Len(a) \in 1..Len(list) - i /\ i + (j - Len(a)) = j + 1 /\ j \in 1..Len(a) + Len(b)
      BY <1>0, <1>2, <1>5, <2>2
    <3>. QED
      BY <1>3, <1>4, <2>2, <3>1
  <2>. QED
    BY <2>1, <2>2
<1>. QED
  BY <1>1, <1>4, <1>5, <1>6 DEF n, R

\* A list with a key in front.
LEMMA InFront ==
    ASSUME NEW S, NEW list \in Seq(S), NEW n \in S
    PROVE  /\ <<n>> \o list \in Seq(S) /\ Len(<<n>> \o list) = Len(list) + 1
           /\ (<<n>> \o list)[1] = n
           /\ \A j \in 1..Len(list) : (<<n>> \o list)[j + 1] = list[j]
<1>1. <<n>> \in Seq(S) /\ Len(<<n>>) = 1 /\ <<n>>[1] = n /\ Len(list) \in Nat
  OBVIOUS
<1>2. /\ <<n>> \o list \in Seq(S) /\ Len(<<n>> \o list) = Len(<<n>>) + Len(list)
      /\ \A j \in 1..Len(<<n>>) + Len(list) : (<<n>> \o list)[j] = IF j <= Len(<<n>>) THEN <<n>>[j] ELSE list[j - Len(<<n>>)]
  BY <1>1, ConcatProperties
<1>3. ASSUME NEW j \in 1..Len(list) PROVE (<<n>> \o list)[j + 1] = list[j]
  <2>1. j + 1 \in 1..Len(<<n>>) + Len(list) /\ ~ (j + 1 <= Len(<<n>>)) /\ (j + 1) - Len(<<n>>) = j
    BY <1>1
  <2>. QED
    BY <1>2, <2>1
<1>. QED
  BY <1>1, <1>2, <1>3

\* The bytes of the blocks m of the keys D.
SizeSum(m, D) == SumFunction([k \in D |-> m[k].size])

\* Blocks of at least one byte have at least as many bytes as there are blocks.
LEMMA SizeSumType ==
    ASSUME NEW D, IsFiniteSet(D), NEW m, \A k \in D : m[k].size \in 1..MaxBlock
    PROVE  SizeSum(m, D) \in Nat /\ Cardinality(D) <= SizeSum(m, D)
<1>. DEFINE f == [k \in D |-> m[k].size]
<1>1. f \in [D -> 1..MaxBlock] /\ f \in [D -> 0..MaxBlock] /\ MaxBlock \in Nat
  BY CacheAssumption
<1>2. SizeSum(m, D) = SumFunction(f)
  BY DEF SizeSum
<1>. HIDE DEF f
<1>3. SumFunction(f) \in Nat
  BY <1>1, SumAsSize
<1>4. Cardinality(D) <= SumFunction(f)
  BY <1>1, SumOfPositive
<1>. QED
  BY <1>2, <1>3, <1>4

\* A block's share of the bytes.
LEMMA SizeSumRemove ==
    ASSUME NEW D, IsFiniteSet(D), NEW m, \A k \in D : m[k].size \in 1..MaxBlock, NEW key \in D
    PROVE  SizeSum(m, D) = SizeSum(m, D \ {key}) + m[key].size
<1>. DEFINE f == [k \in D |-> m[k].size]
<1>1. f \in [D -> 0..MaxBlock] /\ MaxBlock \in Nat
  BY CacheAssumption
<1>2. SizeSum(m, D) = SumFunction(f) /\ f[key] = m[key].size
  BY DEF SizeSum
<1>3. [k \in D \ {key} |-> f[k]] = [k \in D \ {key} |-> m[k].size]
  OBVIOUS
<1>. HIDE DEF f
<1>4. SumFunction(f) = SumFunction([k \in D \ {key} |-> f[k]]) + f[key]
  BY <1>1, SumAdd, Zenon
<1>5. SizeSum(m, D \ {key}) = SumFunction([k \in D \ {key} |-> f[k]])
  BY <1>3 DEF SizeSum
<1>. QED
  BY <1>2, <1>4, <1>5

\* The bytes depend on the sizes only.
LEMMA SizeSumSame ==
    ASSUME NEW D, NEW m, NEW n, \A k \in D : m[k].size = n[k].size
    PROVE  SizeSum(m, D) = SizeSum(n, D)
<1>1. [k \in D |-> m[k].size] = [k \in D |-> n[k].size]
  OBVIOUS
<1>. QED
  BY <1>1 DEF SizeSum

\* The list names every element of D once.
Names(list, D) ==
    /\ list \in Seq(D)
    /\ \A i, j \in 1..Len(list) : list[i] = list[j] => i = j
    /\ \A k \in D : \E i \in 1..Len(list) : list[i] = k

\* After a removal it names every other one.
LEMMA RemovedNames ==
    ASSUME NEW D, NEW list, Names(list, D), NEW i \in 1..Len(list)
    PROVE  /\ Names(Without(list, list[i]), D \ {list[i]})
           /\ Len(Without(list, list[i])) = Len(list) - 1
           /\ \A j \in 1..Len(list) - 1 : Without(list, list[i])[j] = list[IF j < i THEN j ELSE j + 1]
<1>. DEFINE key == list[i]
            rest == Without(list, key)
            up(x) == IF x < i THEN x ELSE x + 1
<1>a. list \in Seq(D) /\ Len(list) \in Nat
  BY DEF Names
<1>b. \A j, k \in 1..Len(list) : list[j] = list[k] => j = k
  BY DEF Names
<1>c. \A k \in D : \E j \in 1..Len(list) : list[j] = k
  BY DEF Names
<1>1. rest \in Seq(D \ {key}) /\ Len(rest) = Len(list) - 1
  BY <1>a, <1>b, Removed
<1>2. \A j \in 1..Len(list) - 1 : rest[j] = list[up(j)]
  BY <1>a, <1>b, Removed, Zenon
<1>. HIDE DEF rest
<1>3. \A j, k \in 1..Len(list) - 1 : up(j) \in 1..Len(list) /\ (up(j) = up(k) => j = k)
  BY <1>a
<1>4. \A j \in 1..Len(list) : j # i => \E k \in 1..Len(list) - 1 : up(k) = j
  <2>. SUFFICES ASSUME NEW j \in 1..Len(list), j # i PROVE \E k \in 1..Len(list) - 1 : up(k) = j
    OBVIOUS
  <2>1. CASE j < i
    <3>1. j \in 1..Len(list) - 1 /\ up(j) = j
      BY <1>a, <2>1
    <3>. QED
      BY <3>1
  <2>2. CASE j > i
    <3>1. j - 1 \in 1..Len(list) - 1 /\ up(j - 1) = j
      BY <1>a, <2>2
    <3>. QED
      BY <3>1
  <2>. QED
    BY <1>a, <2>1, <2>2
<1>. HIDE DEF up, key
<1>5. ASSUME NEW j \in 1..Len(rest), NEW k \in 1..Len(rest), rest[j] = rest[k] PROVE j = k
  <2>1. j \in 1..Len(list) - 1 /\ k \in 1..Len(list) - 1
    BY <1>1
  <2>2. up(j) \in 1..Len(list) /\ up(k) \in 1..Len(list) /\ list[up(j)] = list[up(k)]
    BY <1>2, <1>3, <1>5, <2>1
  <2>3. up(j) = up(k)
    BY <1>b, <2>2
  <2>. QED
    BY <1>3, <2>1, <2>3
<1>6. ASSUME NEW k \in D \ {key} PROVE \E j \in 1..Len(rest) : rest[j] = k
  <2>1. PICK j \in 1..Len(list) : list[j] = k
    BY <1>c
  <2>2. j # i
    BY <2>1 DEF key
  <2>3. PICK m \in 1..Len(list) - 1 : up(m) = j
    BY <1>4, <2>2
  <2>4. rest[m] = k /\ m \in 1..Len(rest)
    BY <1>1, <1>2, <2>1, <2>3
  <2>. QED
    BY <2>4
<1>7. Names(rest, D \ {key})
  BY <1>1, <1>5, <1>6 DEF Names
<1>. QED
  BY <1>1, <1>2, <1>7 DEF rest, up, key

\* What the cache holds after a block was erased.
LEMMA Erased ==
    ASSUME NEW c, Listed(c), NEW i \in 1..Len(c.lru)
    PROVE  LET key == c.lru[i]
               d == Erase(c, key)
           IN  /\ Listed(d) /\ DOMAIN d.map = DOMAIN c.map \ {key}
               /\ Len(d.lru) = Len(c.lru) - 1
               /\ \A j \in 1..Len(c.lru) - 1 : d.lru[j] = c.lru[IF j < i THEN j ELSE j + 1]
               /\ \A k \in DOMAIN c.map \ {key} : d.map[k] = c.map[k]
               /\ d.size = SizeT(c.size - c.map[key].size) /\ d.count = SizeT(c.count - 1)
<1>. DEFINE list == c.lru
            key == list[i]
            D == DOMAIN c.map
            rest == Without(list, key)
            d == Erase(c, key)
<1>0. IsFiniteSet(D) /\ Names(list, D) /\ Len(list) = Cardinality(D) /\ key \in D
  <2>1. IsFiniteSet(D) /\ Names(list, D) /\ Len(list) = Cardinality(D)
    BY DEF Listed, Names
  <2>. HIDE DEF list, D
  <2>2. i \in 1..Len(list)
    BY DEF list
  <2>. QED
    BY <2>1, <2>2 DEF Names
<1>00. i \in 1..Len(list)
  OBVIOUS
<1>2. d = [map |-> [k \in D \ {key} |-> c.map[k]], lru |-> rest,
           size |-> SizeT(c.size - c.map[key].size), count |-> SizeT(c.count - 1)]
  <2>1. c = [map |-> c.map, lru |-> c.lru, size |-> c.size, count |-> c.count]
    BY DEF Listed
  <2>. HIDE DEF key
  <2>2. RemoveBlock(c, key) = [c EXCEPT !.lru = rest, !.size = SizeT(c.size - c.map[key].size),
                                        !.count = SizeT(c.count - 1)]
    BY DEF RemoveBlock
  <2>. DEFINE sz == SizeT(c.size - c.map[key].size)
              cn == SizeT(c.count - 1)
              m == c.map
              l0 == c.lru
              s0 == c.size
              n0 == c.count
  <2>. HIDE DEF rest, sz, cn, m, l0, s0, n0
  <2>3. RemoveBlock(c, key) = [map |-> m, lru |-> rest, size |-> sz, count |-> cn]
    <3>1. RemoveBlock(c, key) = [c EXCEPT !.lru = rest, !.size = sz, !.count = cn]
      BY <2>2 DEF sz, cn
    <3>2. c = [map |-> m, lru |-> l0, size |-> s0, count |-> n0]
      BY <2>1 DEF m, l0, s0, n0
    <3>. QED
      BY ONLY <3>1, <3>2
  <2>4. d = [map |-> [k \in DOMAIN m \ {key} |-> m[k]], lru |-> rest, size |-> sz, count |-> cn]
    BY <2>3 DEF Erase, Restrict
  <2>. QED
    BY <2>4 DEF m, sz, cn
<1>. HIDE DEF list, d, rest, key, D
<1>1. /\ Names(rest, D \ {key}) /\ Len(rest) = Len(list) - 1
      /\ \A j \in 1..Len(list) - 1 : rest[j] = list[IF j < i THEN j ELSE j + 1]
  BY <1>0, <1>00, RemovedNames DEF rest, key
<1>3. /\ d.map = [k \in D \ {key} |-> c.map[k]] /\ d.lru = rest
      /\ d.size = SizeT(c.size - c.map[key].size) /\ d.count = SizeT(c.count - 1)
      /\ DOMAIN d.map = D \ {key}
      /\ d = [map |-> d.map, lru |-> d.lru, size |-> d.size, count |-> d.count]
      /\ d.map = [k \in DOMAIN d.map |-> d.map[k]]
  BY <1>2
<1>6. IsFiniteSet(D \ {key}) /\ Cardinality(D \ {key}) = Cardinality(D) - 1
  BY <1>0, FS_RemoveElement
<1>7. Listed(d)
  <2>1. Len(rest) = Cardinality(D \ {key})
    BY <1>0, <1>1, <1>6
  <2>. QED
    BY <1>1, <1>3, <1>6, <2>1 DEF Listed, Names
<1>8. \A k \in D \ {key} : d.map[k] = c.map[k]
  BY <1>3
<1>. QED
  BY <1>1, <1>3, <1>7, <1>8 DEF d, key, D, list

\* The accounts of a cache that held what it counted stay right when a block is erased.
LEMMA ErasedAccounts ==
    ASSUME NEW c, Listed(c), Sized(c), Accounted(c), NEW key \in DOMAIN c.map,
           NEW d, DOMAIN d.map = DOMAIN c.map \ {key},
           \A k \in DOMAIN c.map \ {key} : d.map[k] = c.map[k],
           d.size = SizeT(c.size - c.map[key].size), d.count = SizeT(c.count - 1)
    PROVE  Accounted(d) /\ Sized(d) /\ d.count < c.count
<1>. DEFINE D == DOMAIN c.map
            E == D \ {key}
            sum == SizeSum(c.map, D)
            less == SizeSum(c.map, E)
<1>0. /\ Capacity \in Nat /\ SizeMod \in Nat /\ Capacity < SizeMod /\ MaxBlock \in Nat
      /\ c.size = sum /\ c.size <= Capacity /\ c.count = Cardinality(D) /\ IsFiniteSet(D)
  <2>1. CachedBytes(c) = sum
    BY DEF CachedBytes, SizeSum
  <2>. QED
    BY <2>1, CacheAssumption DEF Listed, Accounted
<1>1. \A k \in D : c.map[k].size \in 1..MaxBlock
  BY DEF Sized
<1>2. IsFiniteSet(E) /\ Cardinality(E) = Cardinality(D) - 1 /\ Cardinality(E) \in Nat
  <2>1. IsFiniteSet(E) /\ Cardinality(E) = Cardinality(D) - 1
    BY <1>0, FS_RemoveElement
  <2>. QED
    BY <2>1, FS_CardinalityType
<1>3. \A k \in E : c.map[k].size \in 1..MaxBlock
  BY <1>1
<1>4. sum = less + c.map[key].size
  BY <1>0, <1>1, SizeSumRemove
<1>5. less \in Nat /\ Cardinality(E) <= less
  BY <1>2, <1>3, SizeSumType
<1>6. c.map[key].size \in Nat
  BY <1>0, <1>1
<1>7. \A k \in E : d.map[k].size = c.map[k].size
  OBVIOUS
<1>8. CachedBytes(d) = less
  <2>1. CachedBytes(d) = SizeSum(d.map, E)
    BY DEF CachedBytes, SizeSum
  <2>. QED
    BY <1>7, <2>1, SizeSumSame
<1>9. Cardinality(D) \in Nat
  BY <1>0, FS_CardinalityType
<1>. HIDE DEF E, sum, less
<1>10. d.size = less
  <2>1. c.size - c.map[key].size = less /\ less < SizeMod
    BY <1>0, <1>4, <1>5, <1>6
  <2>. QED
    BY <1>5, <2>1, ModSmall
<1>11. d.count = Cardinality(E) /\ d.count < c.count
  <2>1. c.count - 1 = Cardinality(E) /\ Cardinality(E) < SizeMod
    BY <1>0, <1>2, <1>4, <1>5, <1>6
  <2>2. d.count = Cardinality(E)
    BY <1>2, <2>1, ModSmall
  <2>. QED
    BY <1>0, <1>2, <1>9, <2>2
<1>12. less <= Capacity
  BY <1>0, <1>4, <1>5, <1>6
<1>13. Sized(d)
  BY <1>3, <1>7 DEF Sized, E
<1>. QED
  BY <1>8, <1>10, <1>11, <1>12, <1>13 DEF Accounted, E

\* The caches that eviction goes through, one block less each.
Evictions(g, c) ==
    /\ g[0] = c
    /\ \A n \in 1..Len(c.lru) : g[n] = Erase(g[n - 1], Last(g[n - 1].lru))

\* They exist.
LEMMA EvictionsExist ==
    ASSUME NEW c, Len(c.lru) \in Nat, NEW bytes
    PROVE  \E g : /\ Evictions(g, c)
                  /\ EvictIfNeeded(c, bytes) =
                       g[Min({n \in 0..Len(c.lru) : n = Len(c.lru) \/ ~ TooFull(g[n], bytes)})]
<1>. DEFINE L == Len(c.lru)
            Back(d) == Erase(d, Last(d.lru))
            Step(g, n) == IF n = 0 THEN c ELSE Back(g[n - 1])
            Upto(g, n) == g = [i \in 0..n |-> Step(g, i)]
            Bad == {n \in Nat : ~ \E g : Upto(g, n)}
            evicted == CHOOSE g : Upto(g, L)
<1>1. EvictIfNeeded(c, bytes) =
        evicted[Min({n \in 0..L : n = L \/ ~ TooFull(evicted[n], bytes)})]
  BY DEF EvictIfNeeded
<1>. HIDE DEF Back
<1>2. Bad = {}
  <2>. SUFFICES ASSUME Bad # {} PROVE FALSE
    OBVIOUS
  <2>1. PICK n \in Bad : \A m \in Bad : n <= m
    <3>1. Bad \subseteq Nat
      OBVIOUS
    <3>. HIDE DEF Bad
    <3>. QED
      BY <3>1, LeastNatural
  <2>2. n \in Nat /\ ~ \E g : Upto(g, n)
    OBVIOUS
  <2>3. n # 0
    <3>. SUFFICES ASSUME n = 0 PROVE FALSE
      OBVIOUS
    <3>. DEFINE g == [i \in 0..0 |-> c]
    <3>1. Upto(g, 0)
      OBVIOUS
    <3>. HIDE DEF Upto, g
    <3>. QED
      BY <2>2, <3>1
  <2>4. n - 1 \in Nat /\ n - 1 \notin Bad
    <3>. HIDE DEF Bad
    <3>. QED
      BY <2>1, <2>2, <2>3
  <2>5. PICK g : Upto(g, n - 1)
    <3>. HIDE DEF Upto
    <3>. QED
      BY <2>4
  <2>. DEFINE h == [i \in 0..n |-> IF i = n THEN Back(g[n - 1]) ELSE g[i]]
  <2>6. \A i \in 0..n - 1 : g[i] = Step(g, i)
    <3>. HIDE DEF Step
    <3>. QED
      BY <2>5
  <2>7. ASSUME NEW i \in 0..n PROVE h[i] = Step(h, i)
    <3>1. CASE i = n
      <4>1. n - 1 \in 0..n /\ n - 1 # n /\ n \in 0..n
        BY <2>2, <2>4
      <4>2. h[n] = Back(g[n - 1]) /\ h[n - 1] = g[n - 1]
        BY <4>1
      <4>. HIDE DEF h
      <4>. QED
        BY <2>3, <3>1, <4>2
    <3>2. CASE i # n
      <4>1. i \in 0..n - 1 /\ (i # 0 => i - 1 \in 0..n /\ i - 1 # n)
        BY <2>2, <3>2
      <4>2. h[i] = g[i] /\ (i # 0 => h[i - 1] = g[i - 1])
        BY <3>2, <4>1
      <4>. HIDE DEF h
      <4>. QED
        BY <2>6, <4>1, <4>2
    <3>. QED
      BY <3>1, <3>2
  <2>8. Upto(h, n)
    <3>1. h = [i \in 0..n |-> h[i]]
      OBVIOUS
    <3>. HIDE DEF h, Step
    <3>. QED
      BY <2>7, <3>1
  <2>. HIDE DEF Upto, h
  <2>. QED
    BY <2>2, <2>8
<1>3. \E g : Upto(g, L)
  <2>. HIDE DEF Upto
  <2>. QED
    BY <1>2
<1>4. Upto(evicted, L)
  <2>. HIDE DEF Upto
  <2>. QED
    BY <1>3
<1>. HIDE DEF evicted
<1>5. \A i \in 0..L : evicted[i] = Step(evicted, i)
  <2>. HIDE DEF Step
  <2>. QED
    BY <1>4
<1>6. evicted[0] = c
  BY <1>5
<1>7. \A n \in 1..L : evicted[n] = Back(evicted[n - 1])
  BY <1>5
<1>8. Evictions(evicted, c)
  BY <1>6, <1>7 DEF Evictions, Back
<1>. QED
  BY <1>1, <1>8

\* What is left of the cache c after n blocks went.
Remaining(c, d, n) ==
    /\ Listed(d) /\ Len(d.lru) = Len(c.lru) - n
    /\ \A j \in 1..Len(d.lru) : d.lru[j] = c.lru[j]
    /\ DOMAIN d.map \subseteq DOMAIN c.map /\ \A k \in DOMAIN d.map : d.map[k] = c.map[k]
    /\ Sized(c) /\ Accounted(c) => Sized(d) /\ Accounted(d)

\* One more block goes from the back.
LEMMA RemainingLess ==
    ASSUME NEW c, NEW d, NEW n \in Nat, Len(c.lru) \in Nat, n < Len(c.lru), Remaining(c, d, n)
    PROVE  Remaining(c, Erase(d, Last(d.lru)), n + 1)
<1>. DEFINE l == Len(d.lru)
            key == d.lru[l]
            e == Erase(d, key)
<1>1. Listed(d) /\ l \in Nat /\ l = Len(c.lru) - n /\ l \in 1..l
  BY DEF Remaining
<1>2. Last(d.lru) = key
  BY DEF Last
<1>3. key \in DOMAIN d.map
  <2>1. d.lru \in Seq(DOMAIN d.map)
    BY <1>1 DEF Listed
  <2>. QED
    BY <1>1, <2>1
<1>4. Listed(e) /\ DOMAIN e.map = DOMAIN d.map \ {key} /\ Len(e.lru) = l - 1
  BY <1>1, Erased
<1>5. \A j \in 1..l - 1 : e.lru[j] = d.lru[IF j < l THEN j ELSE j + 1]
  BY <1>1, Erased
<1>6. \A k \in DOMAIN d.map \ {key} : e.map[k] = d.map[k]
  BY <1>1, Erased
<1>7. e.size = SizeT(d.size - d.map[key].size) /\ e.count = SizeT(d.count - 1)
  BY <1>1, Erased
<1>. HIDE DEF e, key
<1>8. Sized(d) /\ Accounted(d) => Sized(e) /\ Accounted(e)
  BY <1>1, <1>3, <1>4, <1>6, <1>7, ErasedAccounts
<1>9. \A j \in 1..Len(e.lru) : e.lru[j] = c.lru[j]
  <2>. SUFFICES ASSUME NEW j \in 1..Len(e.lru) PROVE e.lru[j] = c.lru[j]
    OBVIOUS
  <2>1. j \in 1..l - 1 /\ j < l /\ j \in 1..l
    BY <1>1, <1>4
  <2>. QED
    BY <1>5, <2>1 DEF Remaining
<1>10. Len(e.lru) = Len(c.lru) - (n + 1)
  BY <1>1, <1>4
<1>11. DOMAIN e.map \subseteq DOMAIN c.map /\ \A k \in DOMAIN e.map : e.map[k] = c.map[k]
  BY <1>4, <1>6 DEF Remaining
<1>12. Remaining(c, e, n + 1)
  BY <1>4, <1>8, <1>9, <1>10, <1>11 DEF Remaining
<1>. QED
  BY <1>2, <1>12 DEF e

\* EvictIfNeeded takes blocks from the back, until the new one fits or none is left.
LEMMA Evicted ==
    ASSUME NEW c, Listed(c), NEW bytes
    PROVE  LET e == EvictIfNeeded(c, bytes) IN
           /\ \E n \in 0..Len(c.lru) : Remaining(c, e, n)
           /\ Len(e.lru) = 0 \/ ~ TooFull(e, bytes)
<1>. DEFINE L == Len(c.lru)
            e == EvictIfNeeded(c, bytes)
<1>1. L \in Nat
  <2>1. c.lru \in Seq(DOMAIN c.map)
    BY DEF Listed
  <2>. QED
    BY <2>1
<1>2. PICK g : /\ Evictions(g, c)
               /\ e = g[Min({n \in 0..L : n = L \/ ~ TooFull(g[n], bytes)})]
  BY <1>1, EvictionsExist
<1>. HIDE DEF e
<1>3. Remaining(c, c, 0)
  BY <1>1 DEF Remaining
<1>. DEFINE Bad == {n \in 0..L : ~ Remaining(c, g[n], n)}
<1>4. Bad = {}
  <2>. SUFFICES ASSUME Bad # {} PROVE FALSE
    OBVIOUS
  <2>1. PICK n \in Bad : \A m \in Bad : n <= m
    <3>1. Bad \subseteq Nat
      BY <1>1
    <3>. HIDE DEF Bad
    <3>. QED
      BY <3>1, LeastNatural
  <2>2. n \in 0..L /\ n \in Nat /\ ~ Remaining(c, g[n], n)
    BY <1>1
  <2>3. n # 0
    BY <1>2, <1>3, <2>2 DEF Evictions
  <2>4. n - 1 \in 0..L /\ n - 1 \in Nat /\ n - 1 < L /\ n \in 1..L /\ (n - 1) + 1 = n
    BY <1>1, <2>2, <2>3
  <2>5. Remaining(c, g[n - 1], n - 1)
    <3>1. n - 1 \notin Bad
      <4>. HIDE DEF Bad
      <4>. QED
        BY <2>1, <2>2, <2>4
    <3>. QED
      BY <2>4, <3>1
  <2>6. g[n] = Erase(g[n - 1], Last(g[n - 1].lru))
    BY <1>2, <2>4 DEF Evictions
  <2>7. Remaining(c, Erase(g[n - 1], Last(g[n - 1].lru)), (n - 1) + 1)
    BY <1>1, <2>4, <2>5, RemainingLess
  <2>. QED
    BY <2>2, <2>4, <2>6, <2>7
<1>. DEFINE S == {n \in 0..L : n = L \/ ~ TooFull(g[n], bytes)}
<1>5. S \subseteq Nat /\ L \in S
  BY <1>1
<1>6. Min(S) \in S
  <2>. HIDE DEF S
  <2>. QED
    BY <1>5, MinOfNaturals
<1>. DEFINE n == Min(S)
<1>7. n \in 0..L /\ (n = L \/ ~ TooFull(g[n], bytes)) /\ e = g[n]
  BY <1>2, <1>6
<1>. HIDE DEF n
<1>8. Remaining(c, e, n)
  BY <1>4, <1>7
<1>9. Len(e.lru) = 0 \/ ~ TooFull(e, bytes)
  <2>1. Len(e.lru) = L - n
    BY <1>8 DEF Remaining
  <2>. QED
    BY <1>1, <1>7, <2>1
<1>. QED
  BY <1>7, <1>8, <1>9 DEF e

\* A key that is put in front is named with the others.
LEMMA FrontNames ==
    ASSUME NEW D, NEW key \in D, NEW rest, Names(rest, D \ {key})
    PROVE  /\ Names(<<key>> \o rest, D) /\ Len(<<key>> \o rest) = Len(rest) + 1
           /\ (<<key>> \o rest)[1] = key
           /\ \A j \in 1..Len(rest) : (<<key>> \o rest)[j + 1] = rest[j]
<1>. DEFINE list == <<key>> \o rest
<1>a. rest \in Seq(D \ {key}) /\ Len(rest) \in Nat
  BY DEF Names
<1>b. \A j, k \in 1..Len(rest) : rest[j] = rest[k] => j = k
  BY DEF Names
<1>c. \A k \in D \ {key} : \E j \in 1..Len(rest) : rest[j] = k
  BY DEF Names
<1>1. rest \in Seq(D)
  <2>1. \A j \in 1..Len(rest) : rest[j] \in D \ {key}
    BY <1>a
  <2>. QED
    BY <1>a, <2>1, SeqDef
<1>2. list \in Seq(D) /\ Len(list) = Len(rest) + 1
  BY <1>1, InFront
<1>3. list[1] = key
  BY <1>1, InFront
<1>4. \A j \in 1..Len(rest) : list[j + 1] = rest[j]
  BY <1>1, InFront
<1>. HIDE DEF list
<1>5. \A j \in 1..Len(list) : j = 1 \/ (j - 1 \in 1..Len(rest) /\ list[j] = rest[j - 1] /\ list[j] # key)
  <2>. SUFFICES ASSUME NEW j \in 1..Len(list), j # 1
                PROVE  j - 1 \in 1..Len(rest) /\ list[j] = rest[j - 1] /\ list[j] # key
    OBVIOUS
  <2>1. j - 1 \in 1..Len(rest) /\ (j - 1) + 1 = j
    BY <1>a, <1>2
  <2>2. list[j] = rest[j - 1]
    BY <1>4, <2>1
  <2>3. rest[j - 1] \in D \ {key}
    BY <1>a, <2>1
  <2>. QED
    BY <2>1, <2>2, <2>3
<1>6. ASSUME NEW j \in 1..Len(list), NEW k \in 1..Len(list), list[j] = list[k] PROVE j = k
  <2>1. CASE j = 1 \/ k = 1
    BY <1>3, <1>5, <1>6, <2>1
  <2>2. CASE j # 1 /\ k # 1
    <3>1. j - 1 \in 1..Len(rest) /\ k - 1 \in 1..Len(rest) /\ rest[j - 1] = rest[k - 1]
      BY <1>5, <1>6, <2>2
    <3>2. j - 1 = k - 1
      BY <1>b, <3>1
    <3>. QED
      BY <1>2, <1>a, <3>2
  <2>. QED
    BY <2>1, <2>2
<1>7. ASSUME NEW k \in D PROVE \E j \in 1..Len(list) : list[j] = k
  <2>1. CASE k = key
    <3>1. 1 \in 1..Len(list)
      BY <1>a, <1>2
    <3>. QED
      BY <1>3, <2>1, <3>1
  <2>2. CASE k # key
    <3>1. PICK j \in 1..Len(rest) : rest[j] = k
      BY <1>c, <2>2
    <3>2. j + 1 \in 1..Len(list) /\ list[j + 1] = k
      BY <1>a, <1>2, <1>4, <3>1
    <3>. QED
      BY <3>2
  <2>. QED
    BY <2>1, <2>2
<1>8. Names(list, D)
  BY <1>2, <1>6, <1>7 DEF Names
<1>. QED
  BY <1>2, <1>3, <1>4, <1>8 DEF list

\* The parts of a cache that was built from its parts.
LEMMA ListedParts ==
    ASSUME NEW D, IsFiniteSet(D), NEW list, Names(list, D), Len(list) = Cardinality(D),
           NEW m, DOMAIN m = D, m = [k \in D |-> m[k]], NEW size, NEW count
    PROVE  LET c == [map |-> m, lru |-> list, size |-> size, count |-> count] IN
           Listed(c) /\ c.map = m /\ c.lru = list /\ c.size = size /\ c.count = count
<1>. DEFINE c == [map |-> m, lru |-> list, size |-> size, count |-> count]
<1>1. c.map = m /\ c.lru = list /\ c.size = size /\ c.count = count
  OBVIOUS
<1>2. c = [map |-> c.map, lru |-> c.lru, size |-> c.size, count |-> c.count]
  BY <1>1
<1>. HIDE DEF c
<1>3. Listed(c)
  BY <1>1, <1>2 DEF Listed, Names
<1>. QED
  BY <1>1, <1>3 DEF c

\* A block is put into the map and moved to the front.
Replaced(c, m, key) == MoveToFront([c EXCEPT !.map = m], key)
Blocks(m, D) == DOMAIN m = D /\ m = [k \in D |-> m[k]]

\* MoveToFront changes the order only; the map may have been given new blocks before.
LEMMA MovedToFront ==
    ASSUME NEW c, Listed(c), NEW key \in DOMAIN c.map, NEW m, Blocks(m, DOMAIN c.map)
    PROVE  LET d == Replaced(c, m, key) IN
           /\ Listed(d) /\ d.map = m /\ d.size = c.size /\ d.count = c.count
           /\ \A k : k \in Range(d.lru) <=> k \in Range(c.lru)
<1>. DEFINE list == c.lru
            D == DOMAIN c.map
            rest == Without(list, key)
            sz == c.size
            cn == c.count
            m0 == c.map
            d == Replaced(c, m, key)
<1>1. IsFiniteSet(D) /\ Names(list, D) /\ Len(list) = Cardinality(D)
  BY DEF Listed, Names
<1>2. c = [map |-> m0, lru |-> list, size |-> sz, count |-> cn]
  BY DEF Listed
<1>3. DOMAIN m = D /\ m = [k \in D |-> m[k]]
  BY DEF Blocks
<1>0. key \in D
  OBVIOUS
<1>. HIDE DEF m0, sz, cn, list, D
<1>4. d = [map |-> m, lru |-> <<key>> \o rest, size |-> sz, count |-> cn]
  <2>1. [c EXCEPT !.map = m] = [map |-> m, lru |-> list, size |-> sz, count |-> cn]
    BY ONLY <1>2
  <2>. HIDE DEF rest
  <2>2. MoveToFront([map |-> m, lru |-> list, size |-> sz, count |-> cn], key)
        = [map |-> m, lru |-> <<key>> \o rest, size |-> sz, count |-> cn]
    <3>. DEFINE x == [map |-> m, lru |-> list, size |-> sz, count |-> cn]
                q == <<key>> \o rest
    <3>0. x = [map |-> m, lru |-> list, size |-> sz, count |-> cn]
      OBVIOUS
    <3>1. x.lru = list
      OBVIOUS
    <3>. HIDE DEF x, q
    <3>2. MoveToFront(x, key) = [x EXCEPT !.lru = q]
      BY <3>1 DEF MoveToFront, rest, q
    <3>3. [x EXCEPT !.lru = q] = [map |-> m, lru |-> q, size |-> sz, count |-> cn]
      BY ONLY <3>0
    <3>. QED
      BY <3>2, <3>3 DEF x, q
  <2>. QED
    BY <2>1, <2>2 DEF Replaced
<1>5. PICK i \in 1..Len(list) : list[i] = key
  BY <1>0, <1>1 DEF Names
<1>6. Names(rest, D \ {key}) /\ Len(rest) = Len(list) - 1
  BY <1>1, <1>5, RemovedNames
<1>. HIDE DEF rest
<1>7. Len(list) \in Nat
  BY <1>1 DEF Names
<1>. DEFINE new == <<key>> \o rest
<1>8. Names(new, D) /\ Len(new) = Len(rest) + 1
  BY ONLY <1>0, <1>6, FrontNames
<1>9. Len(new) = Cardinality(D)
  BY <1>1, <1>6, <1>7, <1>8
<1>. HIDE DEF new
<1>10. d = [map |-> m, lru |-> new, size |-> sz, count |-> cn]
  BY <1>4 DEF new
<1>. HIDE DEF d
<1>11. Listed(d) /\ d.map = m /\ d.lru = new /\ d.size = sz /\ d.count = cn
  BY <1>1, <1>3, <1>8, <1>9, <1>10, ListedParts
<1>12. ASSUME NEW l, Names(l, D) PROVE \A k : k \in Range(l) <=> k \in D
  <2>1. l \in Seq(D) /\ DOMAIN l = 1..Len(l) /\ \A k \in D : \E j \in 1..Len(l) : l[j] = k
    BY <1>12 DEF Names
  <2>. QED
    BY <2>1 DEF Range
<1>13. \A k : k \in Range(new) <=> k \in Range(list)
  BY <1>1, <1>8, <1>12
<1>. QED
  BY <1>11, <1>13 DEF d, sz, cn, list

\* No block has no bytes.
LEMMA SizeSumEmpty ==
    ASSUME NEW m
    PROVE  SizeSum(m, {}) = 0
<1>. SUFFICES ASSUME NEW Z, Z = {} PROVE SizeSum(m, Z) = 0
  BY Zenon
<1>. DEFINE f == [k \in Z |-> m[k].size]
            A == Squares(f, Z, MaxBlock)
<1>1. f \in [Z -> 0..MaxBlock] /\ MaxBlock \in Nat /\ IsFiniteSet(Z)
  BY CacheAssumption, FS_EmptySet
<1>2. A = {}
  BY DEF Squares
<1>. HIDE DEF f
<1>3. SumFunction(f) = Cardinality(A)
  BY ONLY <1>1, SumAsSize
<1>. HIDE DEF A
<1>4. SumFunction(f) = 0
  BY <1>2, <1>3, FS_EmptySet
<1>. QED
  BY <1>4 DEF SizeSum, f

\* Blocks are dropped for a new one from the least recently used on.
OldestGo(c, d) ==
    Range(d.lru) \ Range(c.lru) # {} =>
        \A i, j \in DOMAIN c.lru :
            c.lru[i] \notin Range(d.lru) /\ c.lru[j] \in Range(d.lru) => j < i

\* What a listed cache and one with the same keys in the list have to do with each other.
LEMMA SameKeysGo ==
    ASSUME NEW c, NEW d, \A k : k \in Range(d.lru) => k \in Range(c.lru)
    PROVE  OldestGo(c, d)
BY DEF OldestGo

\* Put of a block that is there already.
LEMMA PutAgain ==
    ASSUME NEW c, Listed(c), NEW key \in DOMAIN c.map, NEW data, Accepts(data), data.size \in Nat
    PROVE  LET d == CachePut(c, key, data) IN
           /\ Listed(d) /\ OldestGo(c, d) /\ DOMAIN d.map = DOMAIN c.map
           /\ d.map = [c.map EXCEPT ![key] = data]
           /\ d.size = c.size /\ d.count = c.count
<1>. DEFINE m == [c.map EXCEPT ![key] = data]
            d == CachePut(c, key, data)
<1>1. c.map = [k \in DOMAIN c.map |-> c.map[k]]
  BY DEF Listed
<1>2. Blocks(m, DOMAIN c.map)
  <2>. DEFINE n == c.map
  <2>. HIDE DEF n
  <2>1. n = [k \in DOMAIN n |-> n[k]]
    BY <1>1 DEF n
  <2>2. [n EXCEPT ![key] = data] = [k \in DOMAIN n |-> IF k = key THEN data ELSE n[k]]
    BY ONLY <2>1
  <2>. DEFINE l == [k \in DOMAIN n |-> IF k = key THEN data ELSE n[k]]
  <2>3. DOMAIN l = DOMAIN n /\ l = [k \in DOMAIN n |-> l[k]]
    OBVIOUS
  <2>. HIDE DEF l
  <2>4. m = l
    BY <2>2 DEF l, n
  <2>. QED
    BY <2>3, <2>4 DEF n, Blocks
<1>3. d = Replaced(c, m, key)
  BY DEF CachePut, Replaced
<1>. HIDE DEF m, d
<1>4. /\ Listed(d) /\ d.map = m /\ d.size = c.size /\ d.count = c.count
      /\ \A k : k \in Range(d.lru) <=> k \in Range(c.lru)
  BY <1>2, <1>3, MovedToFront
<1>5. OldestGo(c, d)
  BY <1>4, SameKeysGo
<1>. QED
  BY <1>2, <1>4, <1>5 DEF m, d, Blocks

\* Put of a new block: what eviction leaves, and the block.
LEMMA PutNew ==
    ASSUME NEW c, Listed(c), NEW key, key \notin DOMAIN c.map, NEW data, Accepts(data)
    PROVE  LET d == CachePut(c, key, data)
               e == EvictIfNeeded(c, data.size)
           IN  /\ Listed(d) /\ OldestGo(c, d) /\ DOMAIN d.map = DOMAIN e.map \cup {key}
               /\ d.map[key] = data /\ \A k \in DOMAIN e.map : d.map[k] = e.map[k]
               /\ d.size = SizeT(e.size + data.size) /\ d.count = SizeT(e.count + 1)
               /\ key \notin DOMAIN e.map
<1>. DEFINE d == CachePut(c, key, data)
            e == EvictIfNeeded(c, data.size)
            E == DOMAIN e.map
            D == E \cup {key}
            m == [x \in D |-> IF x = key THEN data ELSE e.map[x]]
            old == e.lru
            new == <<key>> \o old
            sz == SizeT(e.size + data.size)
            cn == SizeT(e.count + 1)
<1>1. d = [map |-> m, lru |-> new, size |-> sz, count |-> cn]
  BY DEF CachePut
<1>2. PICK n \in 0..Len(c.lru) : Remaining(c, e, n)
  BY Evicted
<1>. HIDE DEF e, d
<1>3. Listed(e) /\ E \subseteq DOMAIN c.map
  BY <1>2 DEF Remaining
<1>4. IsFiniteSet(E) /\ Names(old, E) /\ Len(old) = Cardinality(E)
  BY <1>3 DEF Listed, Names
<1>5. key \notin E /\ key \in D /\ D \ {key} = E
  BY <1>3
<1>6. DOMAIN m = D /\ m = [k \in D |-> m[k]] /\ m[key] = data /\ \A k \in E : m[k] = e.map[k]
  BY <1>5
<1>. HIDE DEF m, E, D, old, sz, cn
<1>7. Names(new, D) /\ Len(new) = Len(old) + 1
  BY <1>4, <1>5, FrontNames
<1>8. IsFiniteSet(D) /\ Cardinality(D) = Cardinality(E) + 1
  <2>1. IsFiniteSet(E \cup {key}) /\ Cardinality(E \cup {key}) = Cardinality(E) + 1
    BY <1>4, <1>5, FS_AddElement
  <2>. QED
    BY <2>1 DEF D
<1>9. Len(new) = Cardinality(D)
  BY <1>4, <1>7, <1>8
<1>. HIDE DEF new
<1>10. Listed(d) /\ d.map = m /\ d.lru = new /\ d.size = sz /\ d.count = cn
  BY <1>1, <1>6, <1>7, <1>8, <1>9, ListedParts
<1>11. OldestGo(c, d)
  <2>. DEFINE L == Len(c.lru)
              k0 == Len(old)
  <2>1. c.lru \in Seq(DOMAIN c.map) /\ L \in Nat /\ \A i, j \in 1..L : c.lru[i] = c.lru[j] => i = j
    BY DEF Listed
  <2>2. k0 = L - n /\ \A j \in 1..k0 : old[j] = c.lru[j]
    BY <1>2 DEF Remaining, old
  <2>3. ASSUME NEW j \in 1..L
        PROVE  c.lru[j] \in Range(new) <=> j <= k0
    <3>1. DOMAIN new = 1..k0 + 1 /\ k0 \in Nat
      <4>1. new \in Seq(D) /\ k0 \in Nat
        BY <1>4, <1>7 DEF Names
      <4>. QED
        BY <1>7, <4>1
    <3>2. new[1] = key /\ \A x \in 1..k0 : new[x + 1] = old[x]
      BY <1>4, <1>5, FrontNames DEF new
    <3>3. c.lru[j] # key
      BY <2>1
    <3>4. ASSUME j <= k0 PROVE c.lru[j] \in Range(new)
      <4>1. j \in 1..k0 /\ j + 1 \in 1..k0 + 1
        BY <3>1, <3>4
      <4>2. new[j + 1] = c.lru[j] /\ j + 1 \in DOMAIN new
        BY <2>2, <3>1, <3>2, <4>1
      <4>. QED
        BY <4>2 DEF Range
    <3>5. ASSUME c.lru[j] \in Range(new) PROVE j <= k0
      <4>1. PICK x \in 1..k0 + 1 : new[x] = c.lru[j]
        BY <3>1, <3>5 DEF Range
      <4>2. x # 1
        BY <3>2, <3>3, <4>1
      <4>3. x - 1 \in 1..k0 /\ (x - 1) + 1 = x /\ x - 1 \in 1..L
        BY <2>1, <2>2, <3>1, <4>2
      <4>4. c.lru[x - 1] = c.lru[j]
        BY <2>2, <3>2, <4>1, <4>3
      <4>5. x - 1 = j
        BY <2>1, <4>3, <4>4
      <4>. QED
        BY <3>1, <4>3, <4>5
    <3>. QED
      BY <3>4, <3>5
  <2>4. DOMAIN c.lru = 1..L /\ k0 \in Int
    BY <2>1, <2>2
  <2>5. ASSUME NEW i \in 1..L, NEW j \in 1..L, ~ (i <= k0), j <= k0 PROVE j < i
    BY <2>4, <2>5
  <2>. QED
    BY <1>10, <2>3, <2>4, <2>5 DEF OldestGo
<1>. QED
  BY <1>5, <1>6, <1>10, <1>11 DEF d, e, E, D, sz, cn

\* The accounts after a block was put that is new, or as large as the one it replaces.
LEMMA PutAccounts ==
    ASSUME NEW c, Listed(c), Sized(c), Accounted(c), Limited(c),
           NEW key, NEW data, data.size \in Nat,
           key \in DOMAIN c.map => c.map[key].size = data.size
    PROVE  Accounted(CachePut(c, key, data)) /\ Limited(CachePut(c, key, data))
<1>. DEFINE d == CachePut(c, key, data)
<1>1. CASE ~ Accepts(data)
  BY <1>1 DEF CachePut
<1>2. CASE Accepts(data) /\ key \in DOMAIN c.map
  <2>1. DOMAIN d.map = DOMAIN c.map /\ d.map = [c.map EXCEPT ![key] = data] /\ d.size = c.size /\ d.count = c.count
    BY <1>2, PutAgain
  <2>. HIDE DEF d
  <2>2. \A k \in DOMAIN c.map : d.map[k].size = c.map[k].size
    BY <1>2, <2>1
  <2>3. CachedBytes(d) = SizeSum(d.map, DOMAIN c.map) /\ CachedBytes(c) = SizeSum(c.map, DOMAIN c.map)
    BY <2>1 DEF CachedBytes, SizeSum
  <2>4. CachedBytes(d) = CachedBytes(c)
    BY <2>2, <2>3, SizeSumSame
  <2>. QED
    BY <2>1, <2>4 DEF Accounted, Limited, d
<1>3. CASE Accepts(data) /\ key \notin DOMAIN c.map
  <2>. DEFINE e == EvictIfNeeded(c, data.size)
              E == DOMAIN e.map
              D == E \cup {key}
  <2>1. DOMAIN d.map = D /\ d.map[key] = data /\ key \notin E
    BY <1>3, PutNew
  <2>2. \A k \in E : d.map[k] = e.map[k]
    BY <1>3, PutNew
  <2>3. d.size = SizeT(e.size + data.size) /\ d.count = SizeT(e.count + 1)
    BY <1>3, PutNew
  <2>4. PICK n \in 0..Len(c.lru) : Remaining(c, e, n)
    BY Evicted
  <2>5. Len(e.lru) = 0 \/ ~ TooFull(e, data.size)
    BY Evicted
  <2>. HIDE DEF d, e, E
  <2>6. Listed(e) /\ Sized(e) /\ Accounted(e)
    BY <2>4 DEF Remaining
  <2>7. /\ Capacity \in Nat /\ SizeMod \in Nat /\ 2 * Capacity < SizeMod /\ MaxBlock \in Nat
        /\ MaxBlock <= Capacity /\ MaxCount \in Nat
    BY CacheAssumption
  <2>8. data.size \in 1..MaxBlock
    BY <1>3, <2>7 DEF Accepts
  <2>9. \A k \in D : d.map[k].size \in 1..MaxBlock
    <3>1. \A k \in E : e.map[k].size \in 1..MaxBlock
      BY <2>6 DEF Sized, E
    <3>. QED
      BY <2>1, <2>2, <2>8, <3>1
  <2>10. IsFiniteSet(E) /\ IsFiniteSet(D) /\ Cardinality(D) = Cardinality(E) + 1 /\ Cardinality(E) \in Nat
    <3>1. IsFiniteSet(E)
      BY <2>6 DEF Listed, E
    <3>. QED
      BY <2>1, <3>1, FS_AddElement, FS_CardinalityType
  <2>11. D \ {key} = E /\ key \in D
    BY <2>1
  <2>. DEFINE sum == SizeSum(d.map, D)
              less == SizeSum(d.map, E)
  <2>. HIDE DEF D
  <2>12. sum = SizeSum(d.map, D \ {key}) + d.map[key].size
    BY <2>9, <2>10, <2>11, SizeSumRemove
  <2>13. sum = less + data.size
    BY <2>1, <2>11, <2>12
  <2>14. sum \in Nat /\ Cardinality(D) <= sum
    BY <2>9, <2>10, SizeSumType
  <2>15. e.size = less /\ e.size <= Capacity /\ e.count = Cardinality(E)
    <3>1. less = SizeSum(e.map, E)
      BY <2>2, SizeSumSame
    <3>2. CachedBytes(e) = SizeSum(e.map, E)
      BY DEF CachedBytes, SizeSum, E
    <3>. HIDE DEF less
    <3>. QED
      BY <2>6, <3>1, <3>2 DEF Accounted, E
  <2>16. less \in Nat
    <3>1. \A k \in E : d.map[k].size \in 1..MaxBlock
      BY <2>9, <2>11
    <3>. QED
      BY <2>10, <3>1, SizeSumType
  <2>17. CachedBytes(d) = sum
    BY <2>1 DEF CachedBytes, SizeSum
  <2>. HIDE DEF sum, less
  <2>18. sum < SizeMod
    BY <2>7, <2>8, <2>13, <2>15, <2>16
  <2>19. d.size = sum /\ SizeT(e.size + data.size) = sum
    <3>1. e.size + data.size = sum
      BY <2>13, <2>15
    <3>. QED
      BY <2>3, <2>14, <2>18, <3>1, ModSmall
  <2>20. CASE Len(e.lru) = 0
    <3>1. Cardinality(E) = 0
      BY <2>6, <2>20 DEF Listed, E
    <3>2. E = {}
      BY <2>10, <3>1, FS_EmptySet
    <3>3. less = 0
      BY <3>2, SizeSumEmpty DEF less
    <3>4. sum <= Capacity
      BY <2>7, <2>8, <2>13, <3>3
    <3>5. d.count = 1
      <4>1. e.count + 1 = 1 /\ 1 < SizeMod
        BY <2>7, <2>8, <2>15, <3>1
      <4>. QED
        BY <2>3, <4>1, ModSmall
    <3>6. Accounted(d)
      BY <2>1, <2>10, <2>17, <2>19, <3>1, <3>4, <3>5 DEF Accounted
    <3>7. Limited(d)
      BY <2>7, <3>5 DEF Limited
    <3>. QED
      BY <3>6, <3>7 DEF d
  <2>21. CASE ~ TooFull(e, data.size)
    <3>1. sum <= Capacity /\ (MaxCount > 0 => ~ (e.count >= MaxCount))
      <4>1. ~ (SizeT(e.size + data.size) > Capacity) /\ ~ (MaxCount > 0 /\ e.count >= MaxCount)
        BY <2>21 DEF TooFull
      <4>. QED
        BY <2>7, <2>14, <2>19, <4>1
    <3>2. d.count = Cardinality(D)
      <4>1. e.count + 1 = Cardinality(D) /\ Cardinality(D) < SizeMod /\ Cardinality(D) \in Nat
        BY <2>10, <2>14, <2>15, <2>18, <2>7
      <4>. QED
        BY <2>3, <4>1, ModSmall
    <3>3. Accounted(d)
      BY <2>1, <2>17, <2>19, <3>1, <3>2 DEF Accounted
    <3>4. Limited(d)
      BY <2>7, <2>10, <2>15, <3>1, <3>2 DEF Limited
    <3>. QED
      BY <3>3, <3>4 DEF d
  <2>. QED
    BY <2>5, <2>20, <2>21
<1>. QED
  BY <1>1, <1>2, <1>3

\* Put: the cache stays well formed and holds what it held, or the new block.
LEMMA PutCache ==
    ASSUME NEW c, Listed(c), NEW key, NEW data, data.size \in Nat
    PROVE  LET d == CachePut(c, key, data) IN
           /\ Listed(d) /\ OldestGo(c, d) /\ (Sized(c) => Sized(d))
           /\ \A k \in DOMAIN d.map :
                 (k = key /\ d.map[k] = data) \/ (k \in DOMAIN c.map /\ d.map[k] = c.map[k])
<1>. DEFINE d == CachePut(c, key, data)
<1>0. Accepts(data) => data.size \in 1..MaxBlock
  BY CacheAssumption DEF Accepts
<1>1. CASE ~ Accepts(data)
  <2>1. d = c
    BY <1>1 DEF CachePut
  <2>2. OldestGo(c, c)
    BY SameKeysGo
  <2>. QED
    BY <2>1, <2>2
<1>2. CASE Accepts(data) /\ key \in DOMAIN c.map
  <2>1. Listed(d) /\ OldestGo(c, d) /\ DOMAIN d.map = DOMAIN c.map /\ d.map = [c.map EXCEPT ![key] = data]
    BY <1>2, PutAgain
  <2>. HIDE DEF d
  <2>2. \A k \in DOMAIN d.map : (k = key /\ d.map[k] = data) \/ (k \in DOMAIN c.map /\ d.map[k] = c.map[k])
    BY <1>2, <2>1
  <2>3. Sized(c) => Sized(d)
    BY <1>0, <1>2, <2>2 DEF Sized
  <2>. QED
    BY <2>1, <2>2, <2>3 DEF d
<1>3. CASE Accepts(data) /\ key \notin DOMAIN c.map
  <2>. DEFINE e == EvictIfNeeded(c, data.size)
  <2>1. Listed(d) /\ OldestGo(c, d) /\ DOMAIN d.map = DOMAIN e.map \cup {key}
    BY <1>3, PutNew
  <2>2. d.map[key] = data /\ \A k \in DOMAIN e.map : d.map[k] = e.map[k]
    BY <1>3, PutNew
  <2>3. PICK n \in 0..Len(c.lru) : Remaining(c, e, n)
    BY Evicted
  <2>. HIDE DEF d, e
  <2>4. DOMAIN e.map \subseteq DOMAIN c.map /\ \A k \in DOMAIN e.map : e.map[k] = c.map[k]
    BY <2>3 DEF Remaining
  <2>5. \A k \in DOMAIN d.map : (k = key /\ d.map[k] = data) \/ (k \in DOMAIN c.map /\ d.map[k] = c.map[k])
    BY <2>1, <2>2, <2>4
  <2>6. Sized(c) => Sized(d)
    BY <1>0, <1>3, <2>5 DEF Sized
  <2>. QED
    BY <2>1, <2>5, <2>6 DEF d
<1>. QED
  BY <1>1, <1>2, <1>3

\* What a step of the cache that puts no block may do: order, or drop blocks.
Shrinks(c, d) ==
    /\ Listed(d) /\ OldestGo(c, d)
    /\ DOMAIN d.map \subseteq DOMAIN c.map /\ \A k \in DOMAIN d.map : d.map[k] = c.map[k]
    /\ Sized(c) /\ Accounted(c) /\ Limited(c) => Accounted(d) /\ Limited(d)

\* Get.
LEMMA GetCache ==
    ASSUME NEW c, Listed(c), NEW key
    PROVE  Shrinks(c, CacheGet(c, key))
<1>. DEFINE d == CacheGet(c, key)
<1>1. CASE key \notin DOMAIN c.map
  <2>1. d = c
    BY <1>1 DEF CacheGet
  <2>. QED
    BY <2>1, SameKeysGo DEF Shrinks
<1>2. CASE key \in DOMAIN c.map
  <2>1. d = Replaced(c, c.map, key)
    <3>. DEFINE m0 == c.map
                l0 == c.lru
                s0 == c.size
                n0 == c.count
    <3>1. c = [map |-> m0, lru |-> l0, size |-> s0, count |-> n0]
      BY DEF Listed
    <3>. HIDE DEF m0, l0, s0, n0
    <3>2. [c EXCEPT !.map = m0] = c
      BY ONLY <3>1
    <3>. QED
      BY <1>2, <3>2 DEF CacheGet, Replaced, m0
  <2>2. Blocks(c.map, DOMAIN c.map)
    BY DEF Listed, Blocks
  <2>3. Listed(d) /\ d.map = c.map /\ d.size = c.size /\ d.count = c.count
    BY <1>2, <2>1, <2>2, MovedToFront
  <2>4. \A k : k \in Range(d.lru) <=> k \in Range(c.lru)
    BY <1>2, <2>1, <2>2, MovedToFront
  <2>. HIDE DEF d
  <2>5. CachedBytes(d) = CachedBytes(c)
    BY <2>3 DEF CachedBytes
  <2>6. OldestGo(c, d)
    BY <2>4, SameKeysGo
  <2>. QED
    BY <2>3, <2>5, <2>6 DEF Shrinks, Accounted, Limited, d
<1>. QED
  BY <1>1, <1>2

\* Remove.
LEMMA RemoveCache ==
    ASSUME NEW c, Listed(c), NEW key
    PROVE  Shrinks(c, CacheRemove(c, key))
<1>. DEFINE d == CacheRemove(c, key)
<1>1. CASE key \notin DOMAIN c.map
  <2>1. d = c
    BY <1>1 DEF CacheRemove
  <2>. QED
    BY <2>1, SameKeysGo DEF Shrinks
<1>2. CASE key \in DOMAIN c.map
  <2>1. PICK i \in 1..Len(c.lru) : c.lru[i] = key
    BY <1>2 DEF Listed
  <2>2. d = Erase(c, key)
    BY <1>2 DEF CacheRemove
  <2>3. Listed(d) /\ DOMAIN d.map = DOMAIN c.map \ {key}
    BY <2>1, <2>2, Erased
  <2>4. \A k \in DOMAIN c.map \ {key} : d.map[k] = c.map[k]
    BY <2>1, <2>2, Erased
  <2>5. d.size = SizeT(c.size - c.map[key].size) /\ d.count = SizeT(c.count - 1)
    BY <2>1, <2>2, Erased
  <2>. HIDE DEF d
  <2>6. Sized(c) /\ Accounted(c) => Accounted(d) /\ d.count < c.count
    BY <1>2, <2>3, <2>4, <2>5, ErasedAccounts
  <2>7. Sized(c) /\ Accounted(c) /\ Limited(c) => Limited(d)
    <3>. SUFFICES ASSUME Sized(c), Accounted(c), Limited(c) PROVE Limited(d)
      OBVIOUS
    <3>1. d.count < c.count /\ d.count = Cardinality(DOMAIN d.map) /\ c.count = Cardinality(DOMAIN c.map)
      BY <2>6 DEF Accounted
    <3>2. IsFiniteSet(DOMAIN d.map) /\ IsFiniteSet(DOMAIN c.map)
      BY <2>3 DEF Listed
    <3>3. d.count \in Nat /\ c.count \in Nat
      BY <3>1, <3>2, FS_CardinalityType
    <3>. QED
      BY <3>1, <3>3, CacheAssumption DEF Limited
  <2>8. OldestGo(c, d)
    <3>1. d.lru \in Seq(DOMAIN d.map) /\ c.lru \in Seq(DOMAIN c.map)
      BY <2>3 DEF Listed
    <3>2. \A k : k \in Range(d.lru) => k \in DOMAIN d.map
      BY <3>1 DEF Range
    <3>3. \A k \in DOMAIN c.map : k \in Range(c.lru)
      <4>1. \A k \in DOMAIN c.map : \E j \in 1..Len(c.lru) : c.lru[j] = k
        BY DEF Listed
      <4>2. DOMAIN c.lru = 1..Len(c.lru)
        BY <3>1
      <4>. QED
        BY <4>1, <4>2 DEF Range
    <3>4. \A k : k \in Range(d.lru) => k \in Range(c.lru)
      BY <2>3, <3>2, <3>3
    <3>. QED
      BY <3>4, SameKeysGo
  <2>. QED
    BY <2>3, <2>4, <2>6, <2>7, <2>8 DEF Shrinks, d
<1>. QED
  BY <1>1, <1>2

\* The empty cache.
LEMMA EmptyListed == Listed(EmptyCache) /\ Sized(EmptyCache) /\ Accounted(EmptyCache) /\ Limited(EmptyCache)
<1>. DEFINE c == EmptyCache
<1>1. c = [map |-> <<>>, lru |-> <<>>, size |-> 0, count |-> 0]
  BY DEF EmptyCache
<1>. HIDE DEF c
<1>2. c.map = <<>> /\ c.lru = <<>> /\ c.size = 0 /\ c.count = 0
  BY <1>1
<1>3. DOMAIN c.map = {} /\ Len(c.lru) = 0 /\ c.lru \in Seq({})
  BY <1>2
<1>4. IsFiniteSet({}) /\ Cardinality({}) = 0
  BY FS_EmptySet
<1>5. c.map = [k \in DOMAIN c.map |-> c.map[k]]
  BY <1>2
<1>6. Listed(c)
  BY <1>1, <1>2, <1>3, <1>4, <1>5 DEF Listed
<1>7. Sized(c)
  BY <1>3 DEF Sized
<1>8. CachedBytes(c) = 0
  <2>1. CachedBytes(c) = SizeSum(c.map, {})
    BY <1>3 DEF CachedBytes, SizeSum
  <2>. QED
    BY <2>1, SizeSumEmpty
<1>9. Accounted(c) /\ Limited(c)
  BY <1>2, <1>3, <1>4, <1>8, CacheAssumption DEF Accounted, Limited
<1>. QED
  BY <1>6, <1>7, <1>9 DEF c

-----------------------------------------------------------------------------
(***************************************************************************)
(* What is in a file.                                                      *)
(***************************************************************************)
\* A finite set of numbers has an element of every rank.
Below(S, k) == {j \in S : j < k}

\* By induction on the rank.
LEMMA RankExists ==
    ASSUME NEW S, S \subseteq Nat, IsFiniteSet(S), NEW i \in Nat, i < Cardinality(S)
    PROVE  \E k \in S : Cardinality(Below(S, k)) = i
<1>. DEFINE Has(r) == \E k \in S : Cardinality(Below(S, k)) = r
            Bad == {r \in Nat : r < Cardinality(S) /\ ~ Has(r)}
<1>0. Cardinality(S) \in Nat
  BY FS_CardinalityType
<1>1. ASSUME NEW T, T \subseteq S PROVE IsFiniteSet(T) /\ Cardinality(T) \in Nat
  BY <1>1, FS_Subset, FS_CardinalityType
<1>. SUFFICES ASSUME Bad # {} PROVE FALSE
  OBVIOUS
<1>2. PICK r \in Bad : \A q \in Bad : r <= q
  <2>1. Bad \subseteq Nat
    OBVIOUS
  <2>. HIDE DEF Bad
  <2>. QED
    BY <2>1, LeastNatural
<1>3. r \in Nat /\ r < Cardinality(S) /\ ~ Has(r)
  OBVIOUS
<1>4. r # 0
  <2>. SUFFICES ASSUME r = 0 PROVE FALSE
    OBVIOUS
  <2>1. S # {}
    BY <1>3, FS_EmptySet
  <2>2. PICK k \in S : \A j \in S : k <= j
    BY <2>1, LeastNatural
  <2>3. Below(S, k) = {}
    <3>1. ASSUME NEW j \in S PROVE ~ (j < k)
      BY <2>2
    <3>. HIDE DEF Bad
    <3>. QED
      BY <3>1 DEF Below
  <2>4. Cardinality(Below(S, k)) = 0
    BY <2>3, FS_EmptySet
  <2>. QED
    BY <1>3, <2>4
<1>5. r - 1 \in Nat /\ r - 1 \notin Bad
  <2>. HIDE DEF Bad
  <2>. QED
    BY <1>2, <1>3, <1>4
<1>6. PICK k \in S : Cardinality(Below(S, k)) = r - 1
  BY <1>0, <1>3, <1>5
<1>. DEFINE B == Below(S, k)
            C == B \cup {k}
            T == S \ C
<1>7. k \notin B /\ B \subseteq S /\ k \in Nat
  BY DEF Below
<1>8. IsFiniteSet(B) /\ IsFiniteSet(C)
  BY <1>1, <1>7
<1>. HIDE DEF B
<1>9. Cardinality(C) = r
  <2>1. Cardinality(B \cup {k}) = Cardinality(B) + 1
    BY <1>7, <1>8, FS_AddElement
  <2>2. Cardinality(B) = r - 1
    BY <1>6 DEF B
  <2>. QED
    BY <1>3, <2>1, <2>2
<1>10. T # {} /\ T \subseteq Nat
  <2>. SUFFICES ASSUME T = {} PROVE FALSE
    OBVIOUS
  <2>1. S \subseteq C /\ C \subseteq S
    BY <1>7
  <2>2. S = C
    BY <2>1
  <2>. QED
    BY <1>3, <1>9, <2>2
<1>11. PICK n \in T : \A j \in T : n <= j
  BY <1>10, LeastNatural
<1>12. n \in S /\ n \notin C /\ n \in Nat /\ k < n
  BY <1>7 DEF B, Below
<1>13. Below(S, n) = C
  <2>1. ASSUME NEW j \in S, j < n PROVE j \in C
    <3>1. j \in Nat
      OBVIOUS
    <3>. QED
      BY <1>11, <1>12, <2>1, <3>1
  <2>2. ASSUME NEW j \in C PROVE j \in S /\ j < n
    BY <1>7, <1>12 DEF B, Below
  <2>. HIDE DEF C
  <2>. QED
    BY <2>1, <2>2, <1>7 DEF Below
<1>. QED
  BY <1>3, <1>9, <1>12, <1>13

\* What tables are written from: at least one entry, in the order of their keys.
Item == [key : Key, value : Value]

Written(es) ==
    /\ es \in Seq(Item) /\ Len(es) \in Nat /\ Len(es) > 0
    /\ \A i, j \in 1..Len(es) : i < j => es[i].key < es[j].key

\* The entries of every table are.
LEMMA EntriesWritten ==
    ASSUME NEW m \in Contents
    PROVE  Written(Entries(m))
<1>. DEFINE S == DOMAIN m
            n == Cardinality(S)
            at(i) == CHOOSE k \in S : Cardinality(Below(S, k)) = i - 1
            keys == [i \in 1..n |-> at(i)]
            es == [i \in 1..n |-> [key |-> at(i), value |-> m[at(i)]]]
<1>1. S \subseteq Key /\ S \subseteq Nat /\ IsFiniteSet(S) /\ S # {} /\ m \in [S -> Value]
  BY TableAssumption
<1>2. n \in Nat /\ n > 0
  <2>1. n \in Nat
    BY <1>1, FS_CardinalityType
  <2>2. n # 0
    BY <1>1, FS_EmptySet
  <2>. QED
    BY <2>1, <2>2
<1>3. Entries(m) = es
  <2>1. Entries(m) = [i \in DOMAIN keys |-> [key |-> keys[i], value |-> m[keys[i]]]]
    BY DEF Entries, Below
  <2>2. DOMAIN keys = 1..n /\ \A i \in 1..n : keys[i] = at(i)
    OBVIOUS
  <2>. HIDE DEF keys, at, n
  <2>. QED
    BY <2>1, <2>2
<1>4. ASSUME NEW i \in 1..n PROVE at(i) \in S /\ Cardinality(Below(S, at(i))) = i - 1
  <2>1. i - 1 \in Nat /\ i - 1 < n
    BY <1>2
  <2>2. \E k \in S : Cardinality(Below(S, k)) = i - 1
    BY <1>1, <2>1, RankExists
  <2>. QED
    BY <2>2
<1>. HIDE DEF at, n, S
<1>5. es \in Seq(Item) /\ Len(es) = n
  <2>1. ASSUME NEW i \in 1..n PROVE [key |-> at(i), value |-> m[at(i)]] \in Item
    <3>1. at(i) \in S
      BY <1>4
    <3>. QED
      BY <1>1, <3>1 DEF Item
  <2>2. es \in [1..n -> Item]
    BY <2>1
  <2>. QED
    BY <1>2, <2>2
<1>6. ASSUME NEW i \in 1..n, NEW j \in 1..n, i < j PROVE es[i].key < es[j].key
  <2>. DEFINE a == at(i)
              b == at(j)
              A == Below(S, a)
              B == Below(S, b)
  <2>1. es[i].key = a /\ es[j].key = b
    OBVIOUS
  <2>2. a \in S /\ b \in S /\ Cardinality(A) = i - 1 /\ Cardinality(B) = j - 1
    BY <1>4
  <2>. HIDE DEF a, b
  <2>3. a \in Nat /\ b \in Nat
    BY <1>1, <2>2
  <2>4. a < b
    <3>. SUFFICES ASSUME b <= a PROVE FALSE
      BY <2>3
    <3>1. B \subseteq A
      <4>1. ASSUME NEW k \in S, k < b PROVE k < a
        BY <1>1, <2>3, <4>1
      <4>. QED
        BY <4>1 DEF Below
    <3>2. IsFiniteSet(A)
      BY <1>1, FS_Subset DEF Below
    <3>. HIDE DEF A, B
    <3>3. Cardinality(B) <= Cardinality(A)
      BY <3>1, <3>2, FS_Subset
    <3>. QED
      BY <1>2, <1>6, <2>2, <3>3
  <2>. QED
    BY <2>1, <2>4
<1>. HIDE DEF es
<1>7. Written(es)
  BY <1>2, <1>5, <1>6 DEF Written
<1>. QED
  BY <1>3, <1>7

\* An entry of such a table.
LEMMA EntryType ==
    ASSUME NEW es, Written(es), NEW i \in 1..Len(es)
    PROVE  /\ es[i].key \in Key /\ es[i].value \in Value
           /\ KeySize[es[i].key] \in Nat /\ ValueSize[es[i].value] \in Nat
           /\ EntrySize(es[i]) \in Nat /\ EntrySize(es[i]) >= 2 * W
<1>1. es[i] \in Item
  BY DEF Written
<1>2. es[i].key \in Key /\ es[i].value \in Value
  BY <1>1 DEF Item
<1>3. KeySize[es[i].key] \in Nat /\ ValueSize[es[i].value] \in Nat
  BY <1>2, TableAssumption
<1>. DEFINE a == KeySize[es[i].key]
            b == ValueSize[es[i].value]
<1>4. EntrySize(es[i]) = a + b + 2 * W
  BY DEF EntrySize
<1>5. a \in Nat /\ b \in Nat
  BY <1>3
<1>. HIDE DEF a, b
<1>6. a + b + 2 * W \in Nat /\ a + b + 2 * W >= 2 * W
  BY <1>5 DEF W
<1>. QED
  BY <1>2, <1>3, <1>4, <1>6

\* The larger of two numbers.
LEMMA MaxOfTwo ==
    ASSUME NEW a \in Nat, NEW b \in Nat
    PROVE  Max({a, b}) \in Nat /\ a <= Max({a, b}) /\ b <= Max({a, b})
<1>. DEFINE S == {a, b}
<1>1. S \subseteq Nat /\ S # {} /\ a \in S /\ b \in S /\ a + b \in Nat
  OBVIOUS
<1>2. \A m \in S : m <= a + b
  OBVIOUS
<1>. HIDE DEF S
<1>3. Max(S) \in S /\ \A m \in S : m <= Max(S)
  BY <1>1, <1>2, MaxOfBounded
<1>. QED
  BY <1>1, <1>3 DEF S

\* Division of naturals.
LEMMA DivType ==
    ASSUME NEW a \in Nat, NEW b \in Nat, b > 0
    PROVE  a \div b \in Nat
OBVIOUS

\* The sizes of the filter and of the index.
LEMMA IndexSizeType ==
    ASSUME NEW es, Written(es)
    PROVE  /\ BloomSize(Len(es)) \in Nat /\ BloomSize(Len(es)) >= 2 * W
           /\ IndexSize(es) \in Nat /\ IndexSize(es) >= 4 * W
           /\ IndexSize(es) >= 4 * W + KeySize[es[1].key]
<1>. DEFINE n == Len(es)
            l == (22525 * n) \div 1000
            q == (69 * CalcLength(n)) \div (100 * n)
            h == HashNum(n)
            d == CalcLength(n) \div 64
<1>1. n \in Nat /\ n > 0 /\ 1 \in 1..n
  BY DEF Written
<1>. HIDE DEF n
<1>2. l \in Nat
  BY <1>1
<1>3. CalcLength(n) \in Nat
  BY <1>2 DEF CalcLength
<1>4. 100 * n \in Nat /\ 100 * n > 0 /\ 69 * CalcLength(n) \in Nat
  BY <1>1, <1>3
<1>5. q \in Nat
  BY <1>4, DivType
<1>6. h \in Nat
  <2>1. Max({1, q}) \in Nat
    BY <1>5, MaxOfTwo
  <2>. QED
    BY <2>1 DEF HashNum
<1>7. d \in Nat
  BY <1>3
<1>8. BloomSize(n) = h * W + 2 * W + W + (d + 1) * W
  BY DEF BloomSize
<1>. HIDE DEF h, d
<1>9. BloomSize(n) \in Nat /\ BloomSize(n) >= 2 * W
  BY <1>6, <1>7, <1>8 DEF W
<1>10. KeySize[es[1].key] \in Nat
  BY <1>1, EntryType DEF n
<1>. DEFINE size == KeySize[es[1].key]
            index == IndexSize(es)
<1>11. index = 2 * W * (n + 1) + size /\ size \in Nat
  BY <1>10 DEF IndexSize, n
<1>. HIDE DEF size, index
<1>12. index \in Nat /\ index >= 4 * W /\ index >= 4 * W + size
  BY <1>1, <1>11 DEF W
<1>. QED
  BY <1>9, <1>12 DEF n, size, index

\* Its values are in the set the step stays in.
Walk(g, n, S, c, F) ==
    g \in [0..n -> S] /\ g[0] = c /\ \A i \in 1..n : g[i] = F[<<i, g[i - 1]>>]

\* By induction.
LEMMA StepwiseType ==
    ASSUME NEW n \in Nat, NEW S, NEW c \in S, NEW F \in [(1..n) \X S -> S]
    PROVE  \E g : Walk(g, n, S, c, F)
<1>1. PICK g : Stepwise(g, n, c, F)
  BY StepwiseExists
<1>. DEFINE Step(k) == IF k = 0 THEN c ELSE F[<<k, g[k - 1]>>]
            Bad == {k \in Nat : k <= n /\ g[k] \notin S}
<1>2. g = [i \in 0..n |-> Step(i)]
  BY <1>1 DEF Stepwise
<1>3. \A i \in 0..n : g[i] = Step(i)
  <2>. HIDE DEF Step
  <2>. QED
    BY <1>2
<1>4. DOMAIN g = 0..n
  BY <1>2
<1>5. g[0] = c
  <2>1. 0 \in 0..n
    OBVIOUS
  <2>2. g[0] = Step(0)
    <3>. HIDE DEF Step
    <3>. QED
      BY <1>3, <2>1
  <2>. QED
    BY <2>2
<1>6. \A i \in 1..n : g[i] = F[<<i, g[i - 1]>>]
  BY <1>3
<1>7. Bad = {}
  <2>. SUFFICES ASSUME Bad # {} PROVE FALSE
    OBVIOUS
  <2>1. PICK m \in Bad : \A k \in Bad : m <= k
    <3>1. Bad \subseteq Nat
      OBVIOUS
    <3>. HIDE DEF Bad
    <3>. QED
      BY <3>1, LeastNatural
  <2>2. m \in Nat /\ m <= n /\ g[m] \notin S
    OBVIOUS
  <2>3. m # 0
    BY <1>5, <2>2
  <2>4. m - 1 \in Nat /\ m - 1 \notin Bad /\ m - 1 <= n /\ m \in 1..n
    <3>. HIDE DEF Bad
    <3>. QED
      BY <2>1, <2>2, <2>3
  <2>5. g[m - 1] \in S
    BY <2>4
  <2>6. F[<<m, g[m - 1]>>] \in S
    BY <2>4, <2>5
  <2>. QED
    BY <1>6, <2>2, <2>4, <2>6
<1>8. g \in [0..n -> S]
  <2>1. ASSUME NEW i \in 0..n PROVE g[i] \in S
    BY <1>7
  <2>2. g = [i \in 0..n |-> g[i]]
    <3>. HIDE DEF Step
    <3>. QED
      BY <1>2
  <2>. HIDE DEF Step, Bad
  <2>. QED
    BY <2>1, <2>2
<1>. QED
  BY <1>5, <1>6, <1>8 DEF Walk

\* The offsets of the entries: each lies behind the one before.
Offsets(at, es, start) ==
    /\ at \in [1..Len(es) + 1 -> Nat] /\ at[1] = start
    /\ \A i \in 1..Len(es) : at[i + 1] = at[i] + EntrySize(es[i])

\* EntryOffsets computes them.
LEMMA OffsetsType ==
    ASSUME NEW es, Written(es), NEW start \in Nat
    PROVE  Offsets(EntryOffsets(es, start), es, start)
<1>. DEFINE n == Len(es)
            F == [p \in (1..n) \X Nat |-> p[2] + EntrySize(es[p[1]])]
            Step(at, i) == IF i = 1 THEN start ELSE at[i - 1] + EntrySize(es[i - 1])
            Is(at) == at = [i \in 1..n + 1 |-> Step(at, i)]
            at == CHOOSE a : Is(a)
<1>1. n \in Nat
  BY DEF Written
<1>2. \A i \in 1..n : EntrySize(es[i]) \in Nat
  BY EntryType
<1>3. EntryOffsets(es, start) = at
  BY DEF EntryOffsets
<1>. HIDE DEF n
<1>4. F \in [(1..n) \X Nat -> Nat]
  BY <1>2
<1>5. \A i \in 1..n, v \in Nat : F[<<i, v>>] = v + EntrySize(es[i])
  OBVIOUS
<1>. HIDE DEF F
<1>6a. PICK g : Walk(g, n, Nat, start, F)
  BY <1>1, <1>4, StepwiseType
<1>6. g \in [0..n -> Nat] /\ g[0] = start /\ \A i \in 1..n : g[i] = F[<<i, g[i - 1]>>]
  BY <1>6a DEF Walk
<1>. DEFINE h == [i \in 1..n + 1 |-> g[i - 1]]
<1>7. Is(h)
  <2>1. ASSUME NEW i \in 1..n + 1 PROVE h[i] = Step(h, i)
    <3>1. CASE i = 1
      BY <1>6, <3>1
    <3>2. CASE i # 1
      <4>1. i - 1 \in 1..n /\ i - 1 \in 1..n + 1 /\ i - 1 - 1 \in 0..n
        BY <1>1, <3>2
      <4>2. h[i] = g[i - 1] /\ h[i - 1] = g[i - 1 - 1]
        BY <4>1
      <4>3. g[i - 1] = F[<<i - 1, g[i - 1 - 1]>>]
        BY <1>6, <4>1
      <4>4. F[<<i - 1, g[i - 1 - 1]>>] = g[i - 1 - 1] + EntrySize(es[i - 1])
        BY <1>5, <1>6, <4>1
      <4>. HIDE DEF h
      <4>. QED
        BY <3>2, <4>2, <4>3, <4>4
    <3>. QED
      BY <3>1, <3>2
  <2>2. h = [i \in 1..n + 1 |-> h[i]]
    OBVIOUS
  <2>. HIDE DEF h, Step
  <2>. QED
    BY <2>1, <2>2
<1>8. Is(at)
  <2>. HIDE DEF Is, h
  <2>. QED
    BY <1>7
<1>. HIDE DEF at
<1>9. \A i \in 1..n + 1 : at[i] = Step(at, i)
  <2>. HIDE DEF Step
  <2>. QED
    BY <1>8
<1>10. at = [i \in 1..n + 1 |-> at[i]]
  <2>. HIDE DEF Step
  <2>. QED
    BY <1>8
<1>. HIDE DEF Is
<1>11. at[1] = start
  BY <1>1, <1>9
<1>12. ASSUME NEW i \in 1..n PROVE at[i + 1] = at[i] + EntrySize(es[i])
  <2>1. i + 1 \in 1..n + 1 /\ i + 1 # 1 /\ i + 1 - 1 = i
    BY <1>1
  <2>. QED
    BY <1>9, <2>1
<1>. DEFINE Bad == {i \in Nat : i \in 1..n + 1 /\ at[i] \notin Nat}
<1>13. Bad = {}
  <2>. SUFFICES ASSUME Bad # {} PROVE FALSE
    OBVIOUS
  <2>1. PICK m \in Bad : \A k \in Bad : m <= k
    <3>1. Bad \subseteq Nat
      OBVIOUS
    <3>. HIDE DEF Bad
    <3>. QED
      BY <3>1, LeastNatural
  <2>2. m \in 1..n + 1 /\ at[m] \notin Nat
    OBVIOUS
  <2>3. m # 1
    BY <1>11, <2>2
  <2>4. m - 1 \in 1..n /\ m - 1 \notin Bad /\ m - 1 + 1 = m
    <3>. HIDE DEF Bad
    <3>. QED
      BY <1>1, <2>1, <2>2, <2>3
  <2>5. at[m - 1] \in Nat
    BY <1>1, <2>4
  <2>6. at[m] = at[m - 1] + EntrySize(es[m - 1])
    BY <1>12, <2>4
  <2>. QED
    BY <1>2, <2>2, <2>4, <2>5, <2>6
<1>14. at \in [1..n + 1 -> Nat]
  <2>1. ASSUME NEW i \in 1..n + 1 PROVE at[i] \in Nat
    BY <1>1, <1>13
  <2>. HIDE DEF Bad
  <2>. QED
    BY <1>10, <2>1
<1>15. Offsets(at, es, start)
  BY <1>11, <1>12, <1>14 DEF Offsets, n
<1>. QED
  BY <1>3, <1>15

\* Offsets grow by the sizes of the entries.
LEMMA OffsetsGrow ==
    ASSUME NEW es, Written(es), NEW start \in Nat, NEW at, Offsets(at, es, start)
    PROVE  /\ \A i \in 1..Len(es) : \A j \in 1..Len(es) + 1 : i < j => at[i] + EntrySize(es[i]) <= at[j]
           /\ \A j \in 1..Len(es) + 1 : at[j] \in Nat /\ start <= at[j]
<1>. DEFINE n == Len(es)
<1>1. n \in Nat /\ n > 0
  BY DEF Written
<1>2. \A i \in 1..n : EntrySize(es[i]) \in Nat /\ at[i + 1] = at[i] + EntrySize(es[i])
  BY EntryType DEF Offsets
<1>3. at[1] = start /\ \A j \in 1..n + 1 : at[j] \in Nat
  BY DEF Offsets
<1>. HIDE DEF n
<1>4. ASSUME NEW i \in 1..n
      PROVE  \A j \in 1..n + 1 : i < j => at[i] + EntrySize(es[i]) <= at[j]
  <2>. DEFINE e == at[i] + EntrySize(es[i])
              Bad == {j \in Nat : j \in 1..n + 1 /\ i < j /\ ~ (e <= at[j])}
  <2>0. e \in Nat /\ i \in 1..n + 1
    BY <1>1, <1>2, <1>3
  <2>1. Bad = {}
    <3>. SUFFICES ASSUME Bad # {} PROVE FALSE
      OBVIOUS
    <3>1. PICK m \in Bad : \A k \in Bad : m <= k
      <4>1. Bad \subseteq Nat
        OBVIOUS
      <4>. HIDE DEF Bad
      <4>. QED
        BY <4>1, LeastNatural
    <3>2. m \in 1..n + 1 /\ i < m /\ ~ (e <= at[m])
      OBVIOUS
    <3>. HIDE DEF e
    <3>3. m # i + 1
      <4>1. at[i + 1] = e
        BY <1>2 DEF e
      <4>. QED
        BY <2>0, <3>2, <4>1
    <3>4. m - 1 \in 1..n /\ m - 1 \in 1..n + 1 /\ i < m - 1 /\ m - 1 \notin Bad /\ m - 1 + 1 = m
      <4>. HIDE DEF Bad
      <4>. QED
        BY <1>1, <3>1, <3>2, <3>3
    <3>5. e <= at[m - 1]
      BY <3>4
    <3>6. at[m] = at[m - 1] + EntrySize(es[m - 1]) /\ EntrySize(es[m - 1]) \in Nat
      BY <1>2, <3>4
    <3>7. at[m - 1] \in Nat /\ at[m] \in Nat
      BY <1>3, <3>2, <3>4
    <3>. QED
      BY <2>0, <3>2, <3>5, <3>6, <3>7
  <2>. QED
    BY <1>1, <2>1
<1>5. \A j \in 1..n + 1 : start <= at[j]
  <2>1. 1 \in 1..n /\ 1 \in 1..n + 1
    BY <1>1
  <2>2. EntrySize(es[1]) \in Nat
    BY <1>2, <2>1
  <2>3. \A j \in 1..n + 1 : 1 < j => at[1] + EntrySize(es[1]) <= at[j]
    BY <1>4, <2>1
  <2>4. ASSUME NEW j \in 1..n + 1, j # 1 PROVE start <= at[j]
    <3>1. 1 < j
      BY <1>1, <2>4
    <3>2. at[1] + EntrySize(es[1]) <= at[j]
      BY <2>3, <3>1
    <3>. QED
      BY <1>3, <2>2, <3>2
  <2>. QED
    BY <1>3, <2>4
<1>. QED
  BY <1>3, <1>4, <1>5 DEF n

\* How far a plain file reaches.
LEMMA PlainSizeType ==
    ASSUME NEW es, Written(es)
    PROVE  PlainSize(es) \in Nat /\ PlainSize(es) >= IndexSize(es) + 2 * W
<1>. DEFINE n == Len(es)
            start == IndexSize(es) + 2 * W + BloomSize(n)
            at == EntryOffsets(es, start)
<1>1. n \in Nat
  BY DEF Written
<1>2. IndexSize(es) \in Nat /\ BloomSize(n) \in Nat
  BY IndexSizeType
<1>3. start \in Nat /\ start >= IndexSize(es) + 2 * W
  BY <1>2 DEF W
<1>4. PlainSize(es) = at[n + 1]
  BY DEF PlainSize
<1>. HIDE DEF start
<1>5. Offsets(at, es, start)
  BY <1>3, OffsetsType
<1>. HIDE DEF at
<1>6. n + 1 \in 1..n + 1
  BY <1>1
<1>7. at[n + 1] \in Nat /\ start <= at[n + 1]
  BY <1>3, <1>5, <1>6, OffsetsGrow DEF n
<1>. QED
  BY <1>2, <1>3, <1>4, <1>7 DEF W

\* The fields of a file whose index names one block at off.
Low(fields, off) ==
    /\ \A x \in fields : x[1] \in Nat /\ (x[1] <= off => x[3] \in Nat)
    /\ \A x \in fields : x[1] = W => x[3] = 1
    /\ \A x \in fields : x[1] = 2 * W => x[3] = off

Indexed(fields, off) ==
    /\ Low(fields, off)
    /\ (\E x \in fields : x[1] = W) /\ (\E x \in fields : x[1] = 2 * W) /\ \E x \in fields : x[1] = off

\* Fields that begin behind the index do not matter.
LEMMA LowFar ==
    ASSUME NEW off \in Nat, off >= 4 * W, NEW fields, \A x \in fields : x[1] \in Nat /\ x[1] > off
    PROVE  Low(fields, off)
BY DEF Low, W

\* Fields from two parts.
LEMMA LowBoth ==
    ASSUME NEW off, NEW A, NEW B, Low(A, off), Low(B, off)
    PROVE  Low(A \cup B, off)
BY DEF Low

\* The index.
LEMMA IndexLow ==
    ASSUME NEW es, Written(es)
    PROVE  /\ Low(IndexFields(es), IndexSize(es))
           /\ (\E x \in IndexFields(es) : x[1] = W) /\ \E x \in IndexFields(es) : x[1] = 2 * W
<1>. DEFINE off == IndexSize(es)
            key == es[1].key
            size == KeySize[key]
<1>1. 1 \in 1..Len(es)
  BY DEF Written
<1>2. off \in Nat /\ off >= 4 * W
  BY IndexSizeType
<1>3. key \in Nat /\ size \in Nat
  BY <1>1, EntryType, TableAssumption
<1>4. IndexFields(es) = {<<0, W, off>>, <<W, W, 1>>, <<2 * W, W, off>>, <<3 * W, W, size>>, <<4 * W, size, key>>}
  BY DEF IndexFields
<1>. HIDE DEF off, key, size
<1>5. Low(IndexFields(es), off)
  <2>. SUFFICES ASSUME NEW x \in IndexFields(es)
                PROVE  /\ x[1] \in Nat /\ (x[1] <= off => x[3] \in Nat)
                       /\ x[1] = W => x[3] = 1
                       /\ x[1] = 2 * W => x[3] = off
    BY DEF Low
  <2>1. \/ x[1] = 0 /\ x[3] = off
        \/ x[1] = W /\ x[3] = 1
        \/ x[1] = 2 * W /\ x[3] = off
        \/ x[1] = 3 * W /\ x[3] = size
        \/ x[1] = 4 * W /\ x[3] = key
    BY <1>4
  <2>. QED
    BY <1>2, <1>3, <2>1 DEF W
<1>6. <<W, W, 1>> \in IndexFields(es) /\ <<2 * W, W, off>> \in IndexFields(es)
  BY <1>4
<1>. QED
  BY <1>5, <1>6 DEF off

\* A plain file.
LEMMA PlainIndexed ==
    ASSUME NEW es, Written(es), NEW h
    PROVE  Indexed(PlainFile(es, h).fields, IndexSize(es)) /\ PlainFile(es, h).size = PlainSize(es)
<1>. DEFINE n == Len(es)
            block == IndexSize(es)
            count == block + W + BloomSize(n)
            at == EntryOffsets(es, count + W)
            A == IndexFields(es)
            B == {<<block, W, PlainSize(es) - block>>,
                  <<block + W, BloomSize(n), BuiltBloom(es, h)>>, <<count, W, n>>}
            C == UNION {EntryFields(es[i], at[i]) : i \in DOMAIN es}
<1>1. PlainFile(es, h) = [size |-> PlainSize(es), fields |-> A \cup B \cup C]
  BY DEF PlainFile
<1>2. PlainFile(es, h).size = PlainSize(es) /\ PlainFile(es, h).fields = A \cup B \cup C
  <2>. HIDE DEF A, B, C
  <2>. QED
    BY <1>1
<1>3. /\ block \in Nat /\ block >= 4 * W /\ BloomSize(n) \in Nat
      /\ PlainSize(es) \in Nat /\ PlainSize(es) >= block + 2 * W
  BY IndexSizeType, PlainSizeType
<1>4. DOMAIN es = 1..n /\ n \in Nat
  BY DEF Written
<1>5. Low(A, block) /\ (\E x \in A : x[1] = W) /\ \E x \in A : x[1] = 2 * W
  BY IndexLow
<1>. HIDE DEF A, block, n
<1>6. Low(B, block) /\ \E x \in B : x[1] = block
  <2>1. <<block, W, PlainSize(es) - block>> \in B
    OBVIOUS
  <2>2. count \in Nat /\ count > block /\ block + W \in Nat /\ block + W > block
    BY <1>3 DEF W
  <2>3. PlainSize(es) - block \in Nat
    BY <1>3 DEF W
  <2>4. ASSUME NEW x \in B
        PROVE  (x[1] = block /\ x[3] \in Nat) \/ (x[1] \in Nat /\ x[1] > block)
    <3>. HIDE DEF count
    <3>. QED
      BY <2>2, <2>3
  <2>. HIDE DEF B
  <2>5. Low(B, block)
    BY <1>3, <2>4 DEF Low, W
  <2>. QED
    BY <2>1, <2>5
<1>7. Low(C, block)
  <2>1. count + W \in Nat /\ count + W > block
    BY <1>3 DEF W
  <2>2. Offsets(at, es, count + W)
    BY <2>1, OffsetsType
  <2>. DEFINE start == count + W
  <2>3. start \in Nat /\ start > block /\ Offsets(at, es, start)
    BY <2>1, <2>2
  <2>. HIDE DEF start, at
  <2>4. \A i \in 1..n + 1 : at[i] \in Nat /\ start <= at[i]
    BY <2>3, OffsetsGrow DEF n
  <2>5. ASSUME NEW i \in 1..n PROVE at[i] \in Nat /\ at[i] > block
    <3>1. i \in 1..n + 1
      BY <1>4
    <3>2. at[i] \in Nat /\ start <= at[i]
      BY <2>4, <3>1
    <3>. QED
      BY <1>3, <2>3, <3>2
  <2>6. ASSUME NEW i \in 1..n, NEW x \in EntryFields(es[i], at[i]) PROVE x[1] \in Nat /\ x[1] > block
    <3>. DEFINE a == KeySize[es[i].key]
                s == at[i]
    <3>1. a \in Nat
      BY EntryType DEF n
    <3>2. s \in Nat /\ s > block
      BY <2>5
    <3>3. x[1] = s \/ x[1] = s + W \/ x[1] = s + 2 * W \/ x[1] = s + 2 * W + a
      BY DEF EntryFields
    <3>. HIDE DEF a, s
    <3>. QED
      BY <1>3, <3>1, <3>2, <3>3 DEF W
  <2>7. \A x \in C : x[1] \in Nat /\ x[1] > block
    BY <1>4, <2>6
  <2>. HIDE DEF C
  <2>. QED
    BY <1>3, <2>7, LowFar
<1>. HIDE DEF B, C
<1>8. Low(A \cup B, block)
  BY <1>5, <1>6, LowBoth
<1>9. Low(A \cup B \cup C, block)
  BY <1>7, <1>8, LowBoth
<1>10. Indexed(A \cup B \cup C, block)
  BY <1>5, <1>6, <1>9 DEF Indexed
<1>. QED
  BY <1>2, <1>10 DEF block

\* A packed file.
LEMMA PackedIndexed ==
    ASSUME NEW es, Written(es), NEW bytes \in Nat
    PROVE  /\ Indexed(PackedFile(es, bytes).fields, IndexSize(es))
           /\ PackedFile(es, bytes).size = IndexSize(es) + bytes
<1>. DEFINE block == IndexSize(es)
            A == IndexFields(es)
            B == {<<block, W, bytes>>}
<1>1. PackedFile(es, bytes) = [size |-> block + bytes, fields |-> A \cup B]
  BY DEF PackedFile
<1>2. PackedFile(es, bytes).size = block + bytes /\ PackedFile(es, bytes).fields = A \cup B
  <2>. HIDE DEF A, B
  <2>. QED
    BY <1>1
<1>3. block \in Nat /\ block >= 4 * W
  BY IndexSizeType
<1>4. Low(A, block) /\ (\E x \in A : x[1] = W) /\ \E x \in A : x[1] = 2 * W
  BY IndexLow
<1>. HIDE DEF A, block
<1>5. \A x \in B : x[1] = block /\ x[3] \in Nat
  OBVIOUS
<1>6. \E x \in B : x[1] = block
  OBVIOUS
<1>. HIDE DEF B
<1>7. Low(B, block)
  BY <1>3, <1>5 DEF Low, W
<1>8. Low(A \cup B, block)
  BY <1>4, <1>7, LowBoth
<1>. QED
  BY <1>2, <1>4, <1>6, <1>8 DEF Indexed, block

\* The places the blocks of tables begin at.
BlockPlaces == {IndexSize(Entries(m)) : m \in Contents}

\* What every file has to offer to Load and to the cache.
IndexOK(f) == \E off \in BlockPlaces : Indexed(f.fields, off)

\* The end of an older file does not change the index.
LEMMA OverwriteIndexed ==
    ASSUME NEW old, \A x \in old.fields : x[1] \in Nat,
           NEW new, new.size \in Nat, NEW off \in Nat, off >= 4 * W, off < new.size, Indexed(new.fields, off)
    PROVE  Indexed(Overwrite(old, new).fields, off)
<1>. DEFINE A == new.fields
            B == {x \in old.fields : x[1] >= new.size}
<1>1. Overwrite(old, new).fields = A \cup B
  BY DEF Overwrite
<1>2. \A x \in B : x[1] \in Nat /\ x[1] > off
  OBVIOUS
<1>. HIDE DEF A, B
<1>3. Low(B, off)
  BY <1>2, LowFar
<1>4. Indexed(A, off)
  BY DEF A
<1>5. Low(A \cup B, off)
  BY <1>3, <1>4, LowBoth DEF Indexed
<1>6. Indexed(A \cup B, off)
  BY <1>4, <1>5 DEF Indexed
<1>. QED
  BY <1>1, <1>6

\* What Load and the cache read of such a file.
LEMMA IndexRead ==
    ASSUME NEW f, NEW off \in Nat, Indexed(f.fields, off)
    PROVE  Field(f, W) = 1 /\ Field(f, 2 * W) = off /\ Field(f, off) \in Nat
<1>. DEFINE At(a) == CHOOSE x \in f.fields : x[1] = a
<1>1. \A a : Field(f, a) = At(a)[3]
  BY DEF Field
<1>2. At(W) \in f.fields /\ At(W)[1] = W
  BY DEF Indexed
<1>3. At(2 * W) \in f.fields /\ At(2 * W)[1] = 2 * W
  BY DEF Indexed
<1>4. At(off) \in f.fields /\ At(off)[1] = off
  BY DEF Indexed
<1>. HIDE DEF At
<1>. QED
  BY <1>1, <1>2, <1>3, <1>4 DEF Indexed, Low

\* Load of such a file: one block, or none where no filter is.
OpenTable(f, off) ==
    [state |-> "open", size |-> f.size,
     blocks |-> [i \in 1..1 |-> LoadBlock(f, Field(f, 4 * W), off)]]

\* By the definition of Loaded: there is one place to look at.
LEMMA LoadedTable ==
    ASSUME NEW f, NEW off \in Nat, Indexed(f.fields, off)
    PROVE  Loaded(f) = IF HasField(f, off + W) THEN OpenTable(f, off) ELSE Unreadable
<1>. DEFINE Step(g, i) == IF i = 1 THEN 2 * W ELSE g[i - 1] + 2 * W + Field(f, g[i - 1] + W)
            Is(g) == g = [i \in 1..Field(f, W) |-> Step(g, i)]
            at == CHOOSE g : Is(g)
            blocks == [i \in 1..Field(f, W) |-> LoadBlock(f, Field(f, at[i] + 2 * W), Field(f, at[i]))]
            g1 == [i \in 1..1 |-> 2 * W]
<1>1. Loaded(f) = IF \E i \in 1..Field(f, W) : ~ HasField(f, Field(f, at[i]) + W) THEN Unreadable
                  ELSE [state |-> "open", size |-> f.size, blocks |-> blocks]
  BY DEF Loaded
<1>2. Field(f, W) = 1 /\ Field(f, 2 * W) = off
  BY IndexRead
<1>3. 1..1 = {1}
  OBVIOUS
<1>4. Is(g1)
  <2>1. \A i \in 1..1 : Step(g1, i) = 2 * W
    OBVIOUS
  <2>2. g1 = [i \in 1..1 |-> Step(g1, i)]
    <3>. HIDE DEF Step
    <3>. QED
      BY <2>1
  <2>. QED
    BY <1>2, <2>2
<1>5. Is(at)
  <2>. HIDE DEF Is, g1
  <2>. QED
    BY <1>4
<1>. HIDE DEF at
<1>6. at[1] = 2 * W
  <2>1. at = [i \in 1..1 |-> Step(at, i)]
    BY <1>2, <1>5
  <2>2. at[1] = Step(at, 1)
    <3>. HIDE DEF Step
    <3>. QED
      BY <2>1
  <2>. QED
    BY <2>2
<1>7. Field(f, at[1]) = off /\ at[1] + 2 * W = 4 * W
  BY <1>2, <1>6 DEF W
<1>8. blocks = [i \in 1..1 |-> LoadBlock(f, Field(f, 4 * W), off)]
  <2>1. blocks = [i \in 1..1 |-> LoadBlock(f, Field(f, at[i] + 2 * W), Field(f, at[i]))]
    BY <1>2
  <2>2. \A i \in 1..1 : LoadBlock(f, Field(f, at[i] + 2 * W), Field(f, at[i])) = LoadBlock(f, Field(f, 4 * W), off)
    BY <1>3, <1>7
  <2>. HIDE DEF blocks
  <2>. QED
    BY <2>1, <2>2
<1>9. (\E i \in 1..Field(f, W) : ~ HasField(f, Field(f, at[i]) + W)) <=> ~ HasField(f, off + W)
  BY <1>2, <1>3, <1>7
<1>. HIDE DEF blocks
<1>10. Loaded(f) = IF ~ HasField(f, off + W) THEN Unreadable
                   ELSE [state |-> "open", size |-> f.size, blocks |-> blocks]
  BY <1>1, <1>9
<1>. QED
  BY <1>8, <1>10 DEF OpenTable

\* The parts of it.
LEMMA OpenParts ==
    ASSUME NEW f, NEW off
    PROVE  LET t == OpenTable(f, off) IN
           /\ t.state = "open" /\ t.size = f.size /\ Len(t.blocks) = 1
           /\ t.blocks[1] = LoadBlock(f, Field(f, 4 * W), off) /\ t.blocks[1].offset = off
<1>. DEFINE b == LoadBlock(f, Field(f, 4 * W), off)
            blocks == [i \in 1..1 |-> b]
            t == OpenTable(f, off)
<1>1. b.offset = off
  BY DEF LoadBlock
<1>. HIDE DEF b
<1>2. Len(blocks) = 1 /\ blocks[1] = b
  OBVIOUS
<1>3. t = [state |-> "open", size |-> f.size, blocks |-> blocks]
  BY DEF OpenTable, b
<1>. HIDE DEF blocks, t
<1>4. t.state = "open" /\ t.size = f.size /\ t.blocks = blocks
  BY <1>3
<1>. QED
  BY <1>1, <1>2, <1>4 DEF b, t

-----------------------------------------------------------------------------
(***************************************************************************)
(* The invariant.                                                          *)
(***************************************************************************)
\* Where the block of a table begins, and what the cache knows it by.
Place(id) == Field(file[id], 2 * W)
BlockKey(id) == MakeKey(id, Place(id))

\* A block is the one of a table that this process has used.
Held(key, data) ==
    \E id \in used :
        /\ key = BlockKey(id) /\ data.sst = id
        /\ data.fields \subseteq file[id].fields /\ data.size = Field(file[id], Place(id))

FilesOK ==
    /\ file = [id \in Id |-> file[id]] /\ table = [id \in Id |-> table[id]] /\ used \subseteq Id
    /\ \A id \in Id : file[id] = NoFile \/ IndexOK(file[id])
    /\ \A id \in used : IndexOK(file[id])

TablesOK ==
    \A id \in Id : table[id] = Closed \/ (id \in used /\ table[id] = Loaded(file[id]))

GuardOK(g) ==
    \/ g = NoGuard
    \/ g.stage = "hit"
    \/ g.stage = "missed" /\ g.id \in used /\ g.key = BlockKey(g.id)
    \/ g.stage = "filled" /\ Held(g.key, g.data)

GuardsOK == guard = [t \in Thread |-> guard[t]] /\ \A t \in Thread : GuardOK(guard[t])

BlocksOK ==
    Listed(cache) /\ Sized(cache) /\ \A key \in DOMAIN cache.map : Held(key, cache.map[key])

SstInv == FilesOK /\ TablesOK /\ GuardsOK /\ BlocksOK

\* Blocks begin below what MakeKey multiplies ids by.
SmallIndex == \A m \in Contents : IndexSize(Entries(m)) < KeyShift

\* The accounts, until they are reset.
AccountsInv == resets \in Nat /\ (resets = 0 => Accounted(cache) /\ Limited(cache))

\* Blocks begin behind the first four words.
LEMMA PlacesType ==
    ASSUME NEW off \in BlockPlaces
    PROVE  off \in Nat /\ off >= 4 * W
<1>1. PICK m \in Contents : off = IndexSize(Entries(m))
  BY DEF BlockPlaces
<1>2. Written(Entries(m))
  BY EntriesWritten
<1>. QED
  BY <1>1, <1>2, IndexSizeType

\* A file with an index, read by its own numbers.
LEMMA IndexFound ==
    ASSUME NEW f, IndexOK(f)
    PROVE  LET off == Field(f, 2 * W) IN
           off \in BlockPlaces /\ off \in Nat /\ Indexed(f.fields, off) /\ Field(f, off) \in Nat
<1>1. PICK off \in BlockPlaces : Indexed(f.fields, off)
  BY DEF IndexOK
<1>2. off \in Nat
  BY PlacesType
<1>3. Field(f, 2 * W) = off /\ Field(f, off) \in Nat
  BY <1>1, <1>2, IndexRead
<1>. QED
  BY <1>1, <1>2, <1>3

\* A table that was read.
LEMMA LoadedOpen ==
    ASSUME NEW f, IndexOK(f)
    PROVE  \/ Loaded(f) = Unreadable
           \/ /\ Loaded(f).state = "open" /\ Len(Loaded(f).blocks) = 1
              /\ Loaded(f).blocks[1].offset = Field(f, 2 * W)
<1>. DEFINE off == Field(f, 2 * W)
<1>1. off \in Nat /\ Indexed(f.fields, off)
  BY IndexFound
<1>. HIDE DEF off
<1>2. Loaded(f) = Unreadable \/ Loaded(f) = OpenTable(f, off)
  BY <1>1, LoadedTable
<1>3. /\ OpenTable(f, off).state = "open" /\ Len(OpenTable(f, off).blocks) = 1
      /\ OpenTable(f, off).blocks[1].offset = off
  BY OpenParts
<1>. QED
  BY <1>2, <1>3 DEF off

\* States of tables differ.
LEMMA StatesDiffer == Closed.state = "closed" /\ Unreadable.state = "unreadable"
BY DEF Closed, Unreadable

\* An open table is one of this process, and its block is where the file says.
LEMMA OpenFacts ==
    ASSUME SstInv, NEW id \in Id, Open(id)
    PROVE  /\ id \in used /\ IndexOK(file[id])
           /\ Len(table[id].blocks) = 1 /\ table[id].blocks[1].offset = Place(id)
<1>1. table[id].state = "open"
  BY DEF Open
<1>2. table[id] # Closed
  BY <1>1, StatesDiffer
<1>3. id \in used /\ table[id] = Loaded(file[id])
  BY <1>2 DEF SstInv, TablesOK
<1>4. IndexOK(file[id])
  BY <1>3 DEF SstInv, FilesOK
<1>5. Loaded(file[id]) # Unreadable
  BY <1>1, <1>3, StatesDiffer
<1>. QED
  BY <1>3, <1>4, <1>5, LoadedOpen DEF Place

\* The bytes read from a table are a block of it.
LEMMA BytesHeld ==
    ASSUME NEW id \in used, NEW from
    PROVE  Held(BlockKey(id), Bytes(id, from, Field(file[id], Place(id))))
<1>. DEFINE n == Field(file[id], Place(id))
            F == {x \in file[id].fields : x[1] >= from /\ x[1] + x[2] <= from + n}
            b == Bytes(id, from, n)
<1>1. b = [size |-> n, sst |-> id, fields |-> F]
  BY DEF Bytes
<1>2. F \subseteq file[id].fields
  OBVIOUS
<1>. HIDE DEF F, n, b
<1>3. b.size = n /\ b.sst = id /\ b.fields = F
  BY <1>1
<1>4. Held(BlockKey(id), b)
  BY <1>2, <1>3 DEF Held, n
<1>. QED
  BY <1>4 DEF b, n

\* The size of a block is a number.
LEMMA HeldSize ==
    ASSUME SstInv, NEW key, NEW data, Held(key, data)
    PROVE  data.size \in Nat
<1>1. PICK id \in used : data.size = Field(file[id], Place(id))
  BY DEF Held
<1>2. IndexOK(file[id])
  BY DEF SstInv, FilesOK
<1>. QED
  BY <1>1, <1>2, IndexFound DEF Place

\* What a step does to the cache.
Puts == \E key, data : Held(key, data) /\ cache' = CachePut(cache, key, data)
Drops == Shrinks(cache, cache')
Empties == cache' = EmptyCache
CountsAgain == cache' = CacheResetStats(cache) /\ resets' = resets + 1

\* Nothing to drop.
LEMMA ShrinksNot ==
    ASSUME NEW c, Listed(c)
    PROVE  Shrinks(c, c)
BY SameKeysGo DEF Shrinks

\* PrefetchAllBlocks of a table with one block.
LEMMA PrefetchCache ==
    ASSUME SstInv, NEW id \in Id, Prefetch(id)
    PROVE  Puts \/ Drops
<1>. DEFINE n == Len(table[id].blocks)
            Step(g, i) == IF i = 0 THEN cache ELSE Prefetched(g[i - 1], id, i)
            Is(g) == g = [i \in 0..n |-> Step(g, i)]
            after == CHOOSE g : Is(g)
            h == [i \in 0..1 |-> IF i = 0 THEN cache ELSE Prefetched(cache, id, 1)]
            off == Place(id)
            size == Field(file[id], off)
<1>1. cache' = after[n]
  BY DEF Prefetch
<1>2. Open(id)
  BY DEF Prefetch
<1>3. id \in used /\ IndexOK(file[id]) /\ n = 1 /\ table[id].blocks[1].offset = off
  BY <1>2, OpenFacts
<1>4. Listed(cache)
  BY DEF SstInv, BlocksOK
<1>. HIDE DEF n
<1>5. Is(h)
  <2>1. 0..1 = {0, 1}
    OBVIOUS
  <2>2. h[0] = cache /\ h[1] = Prefetched(cache, id, 1)
    OBVIOUS
  <2>3. h = [i \in 0..1 |-> h[i]]
    OBVIOUS
  <2>. HIDE DEF h
  <2>4. Step(h, 0) = h[0]
    BY <2>2
  <2>5. Step(h, 1) = h[1]
    BY <2>2
  <2>6. \A i \in 0..1 : h[i] = Step(h, i)
    <3>. HIDE DEF Step
    <3>. QED
      BY <2>1, <2>4, <2>5
  <2>. HIDE DEF Step
  <2>. QED
    BY <1>3, <2>3, <2>6
<1>6. Is(after)
  <2>. HIDE DEF Is, h
  <2>. QED
    BY <1>5
<1>. HIDE DEF after, h
<1>7. after[0] = Step(after, 0) /\ after[1] = Step(after, 1)
  <2>1. after = [i \in 0..1 |-> Step(after, i)]
    BY <1>3, <1>6
  <2>. HIDE DEF Step
  <2>. QED
    BY <2>1
<1>. HIDE DEF Is
<1>8. cache' = Prefetched(cache, id, 1)
  <2>1. after[0] = cache
    BY <1>7
  <2>2. after[1] = Prefetched(after[0], id, 1)
    BY <1>7
  <2>. QED
    BY <1>1, <1>3, <2>1, <2>2
<1>9. Prefetched(cache, id, 1) =
        IF MakeKey(id, 0) \in DOMAIN cache.map THEN CacheGet(cache, MakeKey(id, 0))
        ELSE IF size = 0 \/ off + W + size > table[id].size THEN cache
        ELSE CachePut(cache, MakeKey(id, off), Bytes(id, off + W, size))
  BY <1>3 DEF Prefetched
<1>10. \/ cache' = CacheGet(cache, MakeKey(id, 0)) \/ cache' = cache
       \/ cache' = CachePut(cache, MakeKey(id, off), Bytes(id, off + W, size))
  BY <1>8, <1>9
<1>11. Held(MakeKey(id, off), Bytes(id, off + W, size))
  BY <1>3, BytesHeld DEF BlockKey
<1>12. CASE cache' = CachePut(cache, MakeKey(id, off), Bytes(id, off + W, size))
  BY <1>11, <1>12 DEF Puts
<1>13. CASE cache' = CacheGet(cache, MakeKey(id, 0))
  BY <1>4, <1>13, GetCache DEF Drops
<1>14. CASE cache' = cache
  BY <1>4, <1>14, ShrinksNot DEF Drops
<1>. QED
  BY <1>10, <1>12, <1>13, <1>14

\* Files of this process do not change, and the steps that write none leave the rest alone.
Keeps == used \subseteq used' /\ \A id \in used : file'[id] = file[id]

\* A block stays what it is.
LEMMA HeldKept ==
    ASSUME NEW key, NEW data, Held(key, data), Keeps
    PROVE  Held(key, data)'
<1>1. PICK id \in used : /\ key = BlockKey(id) /\ data.sst = id
                         /\ data.fields \subseteq file[id].fields /\ data.size = Field(file[id], Place(id))
  BY DEF Held
<1>2. id \in used' /\ file'[id] = file[id]
  BY DEF Keeps
<1>. QED
  BY <1>1, <1>2 DEF Held, BlockKey, Place

\* The same for a guard.
LEMMA GuardKept ==
    ASSUME NEW g, GuardOK(g), Keeps
    PROVE  GuardOK(g)'
<1>1. CASE g = NoGuard \/ g.stage = "hit"
  BY <1>1 DEF GuardOK
<1>2. CASE g.stage = "missed" /\ g.id \in used /\ g.key = BlockKey(g.id)
  BY <1>2 DEF GuardOK, Keeps, BlockKey, Place
<1>3. CASE g.stage = "filled" /\ Held(g.key, g.data)
  BY <1>3, HeldKept DEF GuardOK
<1>. QED
  BY <1>1, <1>2, <1>3 DEF GuardOK

\* All the guards of a step that leaves them alone.
LEMMA GuardsKept ==
    ASSUME GuardsOK, UNCHANGED guard, Keeps
    PROVE  GuardsOK'
<1>1. ASSUME NEW t \in Thread PROVE GuardOK(guard[t])'
  <2>1. GuardOK(guard[t])
    BY DEF GuardsOK
  <2>2. guard'[t] = guard[t]
    OBVIOUS
  <2>. DEFINE g == guard[t]
  <2>3. GuardOK(g) /\ guard'[t] = g
    BY <2>1, <2>2
  <2>. HIDE DEF g
  <2>. QED
    BY <2>3, GuardKept DEF GuardOK, Held, BlockKey, Place
<1>. QED
  BY <1>1 DEF GuardsOK

\* A constructor writes one file, which no table of this process used before.
LEMMA ConstructFiles ==
    ASSUME SstInv, NEW id \in Id, NEW m \in Contents, NEW new, new.size \in Nat,
           Indexed(new.fields, IndexSize(Entries(m))), IndexSize(Entries(m)) < new.size,
           Construct(id, Entries(m), new)
    PROVE  FilesOK' /\ TablesOK' /\ Keeps
<1>. DEFINE off == IndexSize(Entries(m))
            f == Overwrite(file[id], new)
<1>1. off \in BlockPlaces
  BY DEF BlockPlaces
<1>2. off \in Nat /\ off >= 4 * W
  BY <1>1, PlacesType
<1>3. \A x \in file[id].fields : x[1] \in Nat
  <2>1. CASE file[id] = NoFile
    <3>1. file[id].fields = {}
      BY <2>1 DEF NoFile
    <3>. QED
      BY <3>1
  <2>2. CASE IndexOK(file[id])
    BY <2>2 DEF IndexOK, Indexed, Low
  <2>. QED
    BY <2>1, <2>2 DEF SstInv, FilesOK
<1>. HIDE DEF off
<1>4. Indexed(f.fields, off)
  <2>1. Indexed(new.fields, off) /\ off < new.size
    BY DEF off
  <2>. QED
    BY <1>2, <1>3, <2>1, OverwriteIndexed
<1>5. IndexOK(f)
  BY <1>1, <1>4 DEF IndexOK
<1>6. /\ id \notin used /\ used' = used \cup {id}
      /\ file' = [file EXCEPT ![id] = f] /\ table' = [table EXCEPT ![id] = Loaded(file'[id])]
  BY DEF Construct
<1>. HIDE DEF f
<1>7. file = [i \in Id |-> file[i]] /\ table = [i \in Id |-> table[i]] /\ used \subseteq Id
  BY DEF SstInv, FilesOK
<1>8. file'[id] = f /\ \A i \in Id : i # id => file'[i] = file[i]
  BY <1>6, <1>7
<1>9. table'[id] = Loaded(f) /\ \A i \in Id : i # id => table'[i] = table[i]
  BY <1>6, <1>7, <1>8
<1>10. file' = [i \in Id |-> file'[i]] /\ table' = [i \in Id |-> table'[i]]
  <2>1. file' = [i \in Id |-> IF i = id THEN f ELSE file[i]]
    BY <1>6, <1>7
  <2>2. table' = [i \in Id |-> IF i = id THEN Loaded(file'[id]) ELSE table[i]]
    BY <1>6, <1>7
  <2>3. file' = [i \in Id |-> file'[i]]
    BY <2>1
  <2>4. table' = [i \in Id |-> table'[i]]
    BY <2>2
  <2>. QED
    BY <2>3, <2>4
<1>11. ASSUME NEW i \in Id
       PROVE  /\ file'[i] = NoFile \/ IndexOK(file'[i])
              /\ i \in used' => IndexOK(file'[i])
              /\ table'[i] = Closed \/ (i \in used' /\ table'[i] = Loaded(file'[i]))
  <2>1. CASE i = id
    BY <1>5, <1>6, <1>8, <1>9, <2>1
  <2>2. CASE i # id
    <3>1. file'[i] = file[i] /\ table'[i] = table[i] /\ (i \in used' <=> i \in used)
      BY <1>6, <1>8, <1>9, <2>2
    <3>2. /\ file[i] = NoFile \/ IndexOK(file[i])
          /\ i \in used => IndexOK(file[i])
          /\ table[i] = Closed \/ (i \in used /\ table[i] = Loaded(file[i]))
      BY DEF SstInv, FilesOK, TablesOK
    <3>. QED
      BY <3>1, <3>2
  <2>. QED
    BY <2>1, <2>2
<1>12. FilesOK' /\ TablesOK'
  <2>1. used' \subseteq Id
    BY <1>6, <1>7
  <2>2. (IndexOK(file[id]))' <=> IndexOK(file'[id])
    BY DEF IndexOK, Indexed, Low
  <2>. QED
    BY <1>10, <1>11, <2>1 DEF FilesOK, TablesOK, IndexOK, BlockPlaces
<1>13. Keeps
  BY <1>6, <1>7, <1>8 DEF Keeps
<1>. QED
  BY <1>12, <1>13

\* The four constructors.
LEMMA BuildFiles ==
    ASSUME SstInv, NEW id \in Id, NEW m \in Contents,
           \/ \E h \in Hashes : BuildFromEntries(id, m, h) \/ BuildFromMemtable(id, m, h)
           \/ BuildPackedFromEntries(id, m, PackedBytes) \/ BuildPackedFromMemtable(id, m, PackedBytes)
    PROVE  FilesOK' /\ TablesOK' /\ Keeps /\ UNCHANGED <<cache, guard, resets>>
<1>. DEFINE es == Entries(m)
<1>1. Written(es)
  BY EntriesWritten
<1>2. IndexSize(es) \in Nat
  BY <1>1, IndexSizeType
<1>3. CASE \E h \in Hashes : Construct(id, es, PlainFile(es, h))
  <2>1. PICK h \in Hashes : Construct(id, es, PlainFile(es, h))
    BY <1>3
  <2>. DEFINE new == PlainFile(es, h)
  <2>2. Indexed(new.fields, IndexSize(es)) /\ new.size = PlainSize(es)
    BY <1>1, PlainIndexed
  <2>3. PlainSize(es) \in Nat /\ PlainSize(es) >= IndexSize(es) + 2 * W
    BY <1>1, PlainSizeType
  <2>. HIDE DEF new
  <2>4. new.size \in Nat /\ IndexSize(es) < new.size
    BY <1>2, <2>2, <2>3 DEF W
  <2>5. Construct(id, es, new)
    BY <2>1 DEF new
  <2>. QED
    BY <2>2, <2>4, <2>5, ConstructFiles DEF Construct
<1>4. CASE Construct(id, es, PackedFile(es, PackedBytes))
  <2>. DEFINE new == PackedFile(es, PackedBytes)
  <2>1. PackedBytes \in Nat /\ PackedBytes > 8
    BY TableAssumption
  <2>2. Indexed(new.fields, IndexSize(es)) /\ new.size = IndexSize(es) + PackedBytes
    BY <1>1, <2>1, PackedIndexed
  <2>. HIDE DEF new
  <2>4. new.size \in Nat /\ IndexSize(es) < new.size
    BY <1>2, <2>1, <2>2
  <2>5. Construct(id, es, new)
    BY <1>4 DEF new
  <2>. QED
    BY <2>2, <2>4, <2>5, ConstructFiles DEF Construct
<1>. QED
  BY <1>3, <1>4 DEF BuildFromEntries, BuildFromMemtable, BuildPackedFromEntries, BuildPackedFromMemtable

\* SST::Load and the end of a table.
LEMMA LoadFiles ==
    ASSUME SstInv, NEW id \in Id, LoadTable(id) \/ CloseTable(id)
    PROVE  FilesOK' /\ TablesOK' /\ Keeps /\ UNCHANGED <<cache, guard, resets>>
<1>1. UNCHANGED <<file, cache, guard, resets>>
  BY DEF LoadTable, CloseTable
<1>2. file = [i \in Id |-> file[i]] /\ table = [i \in Id |-> table[i]] /\ used \subseteq Id
  BY DEF SstInv, FilesOK
<1>3. \/ table[id] = Closed /\ file[id] # NoFile /\ used' = used \cup {id}
         /\ table' = [table EXCEPT ![id] = Loaded(file[id])]
      \/ used' = used /\ table' = [table EXCEPT ![id] = Closed]
  BY DEF LoadTable, CloseTable
<1>4. \A i \in Id : i # id => table'[i] = table[i] /\ (i \in used' <=> i \in used)
  BY <1>2, <1>3
<1>5. table' = [i \in Id |-> table'[i]]
  <2>1. \/ table' = [i \in Id |-> IF i = id THEN Loaded(file[id]) ELSE table[i]]
        \/ table' = [i \in Id |-> IF i = id THEN Closed ELSE table[i]]
    BY <1>2, <1>3
  <2>. QED
    BY <2>1
<1>6. /\ table'[id] = Closed \/ (id \in used' /\ table'[id] = Loaded(file[id]))
      /\ id \in used' => IndexOK(file[id])
  BY <1>2, <1>3 DEF SstInv, FilesOK
<1>7. ASSUME NEW i \in Id
      PROVE  /\ i \in used' => IndexOK(file[i])
             /\ table'[i] = Closed \/ (i \in used' /\ table'[i] = Loaded(file[i]))
  BY <1>4, <1>6 DEF SstInv, FilesOK, TablesOK
<1>8. used' \subseteq Id /\ used \subseteq used'
  BY <1>2, <1>3
<1>9. \A i \in Id : file[i] = NoFile \/ IndexOK(file[i])
  BY DEF SstInv, FilesOK
<1>. QED
  BY <1>1, <1>2, <1>5, <1>7, <1>8, <1>9 DEF FilesOK, TablesOK, Keeps

\* Steps that leave the tables alone.
LEMMA FilesAlone ==
    ASSUME SstInv, UNCHANGED <<file, table, used>>
    PROVE  FilesOK' /\ TablesOK' /\ Keeps
BY DEF SstInv, FilesOK, TablesOK, Keeps

\* The next process.
LEMMA RestartInv ==
    ASSUME SstInv, Restart
    PROVE  SstInv' /\ Empties /\ UNCHANGED resets
<1>1. /\ table' = [i \in Id |-> Closed] /\ used' = {} /\ cache' = EmptyCache
      /\ guard' = [t \in Thread |-> NoGuard] /\ UNCHANGED <<file, resets>>
  BY DEF Restart
<1>2. FilesOK' /\ TablesOK'
  <2>1. table' = [i \in Id |-> table'[i]] /\ \A i \in Id : table'[i] = Closed
    BY <1>1
  <2>. QED
    BY <1>1, <2>1 DEF SstInv, FilesOK, TablesOK
<1>3. GuardsOK'
  <2>1. guard' = [t \in Thread |-> guard'[t]] /\ \A t \in Thread : guard'[t] = NoGuard
    BY <1>1
  <2>. QED
    BY <2>1 DEF GuardsOK, GuardOK
<1>4. BlocksOK'
  <2>1. Listed(cache') /\ Sized(cache')
    BY <1>1, EmptyListed
  <2>2. DOMAIN cache'.map = {}
    BY <1>1 DEF EmptyCache
  <2>. QED
    BY <2>1, <2>2 DEF BlocksOK, Listed, Sized
<1>. QED
  BY <1>1, <1>2, <1>3, <1>4 DEF SstInv, Empties

\* The guards after one of them moved on.
LEMMA GuardMoves ==
    ASSUME GuardsOK, NEW t \in Thread, NEW g, GuardOK(g), guard' = [guard EXCEPT ![t] = g],
           UNCHANGED <<file, used>>
    PROVE  GuardsOK'
<1>1. guard = [s \in Thread |-> guard[s]]
  BY DEF GuardsOK
<1>2. guard'[t] = g /\ \A s \in Thread : s # t => guard'[s] = guard[s]
  BY <1>1
<1>3. guard' = [s \in Thread |-> guard'[s]]
  <2>1. guard' = [s \in Thread |-> IF s = t THEN g ELSE guard[s]]
    BY <1>1
  <2>. QED
    BY <2>1
<1>4. ASSUME NEW s \in Thread PROVE GuardOK(guard'[s])
  BY <1>2 DEF GuardsOK
<1>5. ASSUME NEW s \in Thread PROVE GuardOK(guard[s])'
  BY <1>4 DEF GuardOK, Held, BlockKey, Place
<1>. QED
  BY <1>3, <1>5 DEF GuardsOK

\* What each step of a guard does.
LEMMA GuardSteps ==
    ASSUME SstInv, NEW t \in Thread,
           (\E id \in Id : GuardOpen(t, id)) \/ GuardSetData(t) \/ GuardClose(t)
    PROVE  GuardsOK' /\ (Puts \/ Drops) /\ UNCHANGED <<file, table, used, resets>>
<1>1. Listed(cache) /\ GuardsOK
  BY DEF SstInv, BlocksOK
<1>2. CASE \E id \in Id : GuardOpen(t, id)
  <2>1. PICK id \in Id : GuardOpen(t, id)
    BY <1>2
  <2>2. Open(id)
    BY <2>1 DEF GuardOpen
  <2>3. id \in used /\ table[id].blocks[1].offset = Place(id)
    BY <2>2, OpenFacts
  <2>. DEFINE key == BlockKey(id)
              hit == [stage |-> "hit", id |-> id, key |-> key]
              missed == [stage |-> "missed", id |-> id, key |-> key]
  <2>4. /\ cache' = CacheGet(cache, key) /\ UNCHANGED <<file, table, used, resets>>
        /\ guard' = [guard EXCEPT ![t] = hit] \/ guard' = [guard EXCEPT ![t] = missed]
    BY <2>1, <2>3 DEF GuardOpen, BlockKey
  <2>5. GuardOK(hit) /\ GuardOK(missed)
    BY <2>3 DEF GuardOK
  <2>. HIDE DEF key, hit, missed
  <2>6. GuardsOK'
    BY <1>1, <2>4, <2>5, GuardMoves
  <2>7. Drops
    BY <1>1, <2>4, GetCache DEF Drops
  <2>. QED
    BY <2>4, <2>6, <2>7
<1>3. CASE GuardSetData(t)
  <2>. DEFINE id == guard[t].id
              key == guard[t].key
              off == Place(id)
              data == Bytes(id, off, Field(file[id], off))
              filled == [stage |-> "filled", id |-> id, key |-> key, data |-> data]
  <2>1. guard[t].stage = "missed" /\ Open(id)
    BY <1>3 DEF GuardSetData
  <2>2. id \in used /\ key = BlockKey(id)
    <3>1. NoGuard.stage = "none"
      BY DEF NoGuard
    <3>2. GuardOK(guard[t])
      BY <1>1 DEF GuardsOK
    <3>. QED
      BY <2>1, <3>1, <3>2 DEF GuardOK
  <2>3. id \in Id
    BY <2>2 DEF SstInv, FilesOK
  <2>4. table[id].blocks[1].offset = off
    BY <2>1, <2>3, OpenFacts
  <2>5. /\ guard' = [guard EXCEPT ![t] = filled]
        /\ UNCHANGED <<file, table, used, cache, resets>>
    BY <1>3, <2>4 DEF GuardSetData
  <2>6. Held(key, data)
    BY <2>2, BytesHeld
  <2>. HIDE DEF key, data, id
  <2>7. filled.stage = "filled" /\ filled.key = key /\ filled.data = data
    OBVIOUS
  <2>. HIDE DEF filled
  <2>8. GuardOK(filled)
    BY <2>6, <2>7 DEF GuardOK
  <2>9. GuardsOK'
    BY <1>1, <2>5, <2>8, GuardMoves
  <2>10. Drops
    BY <1>1, <2>5, ShrinksNot DEF Drops
  <2>. QED
    BY <2>5, <2>9, <2>10
<1>4. CASE GuardClose(t)
  <2>1. /\ guard' = [guard EXCEPT ![t] = NoGuard] /\ UNCHANGED <<file, table, used, resets>>
        /\ cache' = IF guard[t].stage = "filled" THEN CachePut(cache, guard[t].key, guard[t].data) ELSE cache
    BY <1>4 DEF GuardClose
  <2>2. GuardOK(NoGuard)
    BY DEF GuardOK
  <2>3. GuardsOK'
    BY <1>1, <2>1, <2>2, GuardMoves
  <2>4. CASE guard[t].stage # "filled"
    BY <1>1, <2>1, <2>3, <2>4, ShrinksNot DEF Drops
  <2>5. CASE guard[t].stage = "filled"
    <3>1. NoGuard.stage = "none"
      BY DEF NoGuard
    <3>2. GuardOK(guard[t])
      BY <1>1 DEF GuardsOK
    <3>3. Held(guard[t].key, guard[t].data)
      BY <2>5, <3>1, <3>2 DEF GuardOK
    <3>4. cache' = CachePut(cache, guard[t].key, guard[t].data)
      BY <2>1, <2>5
    <3>. QED
      BY <2>1, <2>3, <3>3, <3>4 DEF Puts
  <2>. QED
    BY <2>1, <2>3, <2>4, <2>5
<1>. QED
  BY <1>2, <1>3, <1>4

\* The cache after a step of one of the kinds.
LEMMA BlocksKept ==
    ASSUME SstInv, Keeps, Puts \/ Drops \/ Empties \/ CountsAgain
    PROVE  BlocksOK' /\ OldestGo(cache, cache')
<1>1. Listed(cache) /\ Sized(cache) /\ \A key \in DOMAIN cache.map : Held(key, cache.map[key])
  BY DEF SstInv, BlocksOK
<1>2. SUFFICES /\ Listed(cache') /\ Sized(cache') /\ OldestGo(cache, cache')
               /\ \A key \in DOMAIN cache'.map : Held(key, cache'.map[key])
  <2>1. ASSUME NEW key \in DOMAIN cache'.map PROVE Held(key, cache.map[key])'
    <3>1. Held(key, cache'.map[key])
      BY <1>2
    <3>. QED
      BY <3>1 DEF Held, BlockKey, Place, Keeps
  <2>. QED
    BY <1>2, <2>1 DEF BlocksOK, Listed, Sized
<1>3. CASE Puts
  <2>1. PICK key, data : Held(key, data) /\ cache' = CachePut(cache, key, data)
    BY <1>3 DEF Puts
  <2>2. data.size \in Nat
    BY <2>1, HeldSize
  <2>3. Listed(cache') /\ OldestGo(cache, cache') /\ Sized(cache')
    BY <1>1, <2>1, <2>2, PutCache
  <2>4. \A k \in DOMAIN cache'.map :
           (k = key /\ cache'.map[k] = data) \/ (k \in DOMAIN cache.map /\ cache'.map[k] = cache.map[k])
    BY <1>1, <2>1, <2>2, PutCache
  <2>. QED
    BY <1>1, <2>1, <2>3, <2>4
<1>4. CASE Drops
  <2>1. Listed(cache') /\ OldestGo(cache, cache')
    BY <1>4 DEF Drops, Shrinks
  <2>2. DOMAIN cache'.map \subseteq DOMAIN cache.map /\ \A k \in DOMAIN cache'.map : cache'.map[k] = cache.map[k]
    BY <1>4 DEF Drops, Shrinks
  <2>3. Sized(cache')
    BY <1>1, <2>2 DEF Sized
  <2>. QED
    BY <1>1, <2>1, <2>2, <2>3
<1>5. CASE Empties
  <2>1. Listed(cache') /\ Sized(cache')
    BY <1>5, EmptyListed DEF Empties
  <2>2. DOMAIN cache'.map = {} /\ Range(cache'.lru) = {}
    BY <1>5 DEF Empties, EmptyCache, Range
  <2>3. OldestGo(cache, cache')
    BY <2>2, SameKeysGo
  <2>. QED
    BY <2>1, <2>2, <2>3
<1>6. CASE CountsAgain
  <2>. DEFINE m == cache.map
              l == cache.lru
  <2>1. cache' = [map |-> m, lru |-> l, size |-> 0, count |-> 0]
    <3>. DEFINE s == cache.size
                n == cache.count
    <3>1. cache = [map |-> m, lru |-> l, size |-> s, count |-> n]
      BY <1>1 DEF Listed
    <3>2. cache' = [cache EXCEPT !.size = 0, !.count = 0]
      BY <1>6 DEF CountsAgain, CacheResetStats
    <3>. HIDE DEF m, l, s, n
    <3>. QED
      BY <3>1, <3>2
  <2>2. Names(l, DOMAIN m) /\ IsFiniteSet(DOMAIN m) /\ Len(l) = Cardinality(DOMAIN m) /\ m = [k \in DOMAIN m |-> m[k]]
    BY <1>1 DEF Listed, Names
  <2>3. /\ \A k \in DOMAIN m : Held(k, m[k])
        /\ \A k \in DOMAIN m : m[k].size \in 1..MaxBlock
    BY <1>1 DEF Sized
  <2>. HIDE DEF m
  <2>4. Listed(cache') /\ cache'.map = m /\ cache'.lru = l
    BY <2>1, <2>2, ListedParts
  <2>5. OldestGo(cache, cache')
    BY <2>4, SameKeysGo
  <2>. QED
    BY <2>3, <2>4, <2>5 DEF Sized
<1>. QED
  BY <1>3, <1>4, <1>5, <1>6

\* Every step: what it does to tables, guards and the cache.
LEMMA StepKinds ==
    ASSUME SstInv, Next, ~ Restart
    PROVE  /\ FilesOK' /\ TablesOK' /\ GuardsOK' /\ Keeps
           /\ Puts \/ Drops \/ Empties \/ CountsAgain
           /\ resets' = resets \/ CountsAgain
<1>1. GuardsOK /\ Listed(cache)
  BY DEF SstInv, BlocksOK
<1>2. CASE \E id \in Id, m \in Contents : \E h \in Hashes : BuildFromEntries(id, m, h) \/ BuildFromMemtable(id, m, h)
  <2>1. FilesOK' /\ TablesOK' /\ Keeps /\ UNCHANGED <<cache, guard, resets>>
    BY <1>2, BuildFiles
  <2>. QED
    BY <1>1, <2>1, GuardsKept, ShrinksNot DEF Drops
<1>3. CASE \E id \in Id, m \in Contents :
             BuildPackedFromEntries(id, m, PackedBytes) \/ BuildPackedFromMemtable(id, m, PackedBytes)
  <2>1. FilesOK' /\ TablesOK' /\ Keeps /\ UNCHANGED <<cache, guard, resets>>
    BY <1>3, BuildFiles
  <2>. QED
    BY <1>1, <2>1, GuardsKept, ShrinksNot DEF Drops
<1>4. CASE \E id \in Id : LoadTable(id) \/ CloseTable(id)
  <2>1. FilesOK' /\ TablesOK' /\ Keeps /\ UNCHANGED <<cache, guard, resets>>
    BY <1>4, LoadFiles
  <2>. QED
    BY <1>1, <2>1, GuardsKept, ShrinksNot DEF Drops
<1>5. CASE \E id \in Id : Prefetch(id)
  <2>1. Puts \/ Drops
    BY <1>5, PrefetchCache
  <2>2. UNCHANGED <<file, table, used, guard, resets>>
    BY <1>5 DEF Prefetch
  <2>. QED
    BY <1>1, <2>1, <2>2, FilesAlone, GuardsKept
<1>6. CASE \E id \in Id : RemoveCached(id)
  <2>1. PICK key : cache' = CacheRemove(cache, key)
    BY <1>6 DEF RemoveCached
  <2>2. UNCHANGED <<file, table, used, guard, resets>>
    BY <1>6 DEF RemoveCached
  <2>3. Drops
    BY <1>1, <2>1, RemoveCache DEF Drops
  <2>. QED
    BY <1>1, <2>2, <2>3, FilesAlone, GuardsKept
<1>7. CASE \E t \in Thread : (\E id \in Id : GuardOpen(t, id)) \/ GuardSetData(t) \/ GuardClose(t)
  <2>1. GuardsOK' /\ (Puts \/ Drops) /\ UNCHANGED <<file, table, used, resets>>
    BY <1>7, GuardSteps
  <2>. QED
    BY <2>1, FilesAlone
<1>8. CASE ClearCache
  <2>1. Empties /\ UNCHANGED <<file, table, used, guard, resets>>
    BY <1>8 DEF ClearCache, Empties
  <2>. QED
    BY <1>1, <2>1, FilesAlone, GuardsKept
<1>9. CASE ResetStats
  <2>1. CountsAgain /\ UNCHANGED <<file, table, used, guard>>
    BY <1>9 DEF ResetStats, CountsAgain
  <2>. QED
    BY <1>1, <2>1, FilesAlone, GuardsKept
<1>. QED
  BY <1>2, <1>3, <1>4, <1>5, <1>6, <1>7, <1>8, <1>9 DEF Next

\* A step that changes nothing.
LEMMA StutterInv ==
    ASSUME SstInv, UNCHANGED vars
    PROVE  SstInv'
<1>1. UNCHANGED <<file, table, used, cache, guard>>
  BY DEF vars
<1>2. FilesOK' /\ TablesOK' /\ Keeps
  BY <1>1, FilesAlone
<1>3. GuardsOK'
  BY <1>1, <1>2, GuardsKept DEF SstInv
<1>4. Drops
  BY <1>1, ShrinksNot DEF SstInv, BlocksOK, Drops
<1>5. BlocksOK'
  BY <1>2, <1>4, BlocksKept
<1>. QED
  BY <1>2, <1>3, <1>5 DEF SstInv

\* The start.
LEMMA InitInv == Init => SstInv /\ AccountsInv
<1>. SUFFICES ASSUME Init PROVE SstInv /\ AccountsInv
  OBVIOUS
<1>1. /\ file = [i \in Id |-> NoFile] /\ table = [i \in Id |-> Closed] /\ used = {}
      /\ cache = EmptyCache /\ guard = [t \in Thread |-> NoGuard] /\ resets = 0
  BY DEF Init
<1>2. FilesOK /\ TablesOK
  <2>1. file = [i \in Id |-> file[i]] /\ \A i \in Id : file[i] = NoFile
    BY <1>1
  <2>2. table = [i \in Id |-> table[i]] /\ \A i \in Id : table[i] = Closed
    BY <1>1
  <2>. QED
    BY <1>1, <2>1, <2>2 DEF FilesOK, TablesOK
<1>3. GuardsOK
  <2>1. guard = [t \in Thread |-> guard[t]] /\ \A t \in Thread : guard[t] = NoGuard
    BY <1>1
  <2>. QED
    BY <2>1 DEF GuardsOK, GuardOK
<1>4. BlocksOK /\ Accounted(cache) /\ Limited(cache)
  <2>1. Listed(cache) /\ Sized(cache) /\ Accounted(cache) /\ Limited(cache)
    BY <1>1, EmptyListed
  <2>2. DOMAIN cache.map = {}
    BY <1>1 DEF EmptyCache
  <2>. QED
    BY <2>1, <2>2 DEF BlocksOK
<1>. QED
  BY <1>1, <1>2, <1>3, <1>4 DEF SstInv, AccountsInv

\* The invariant is inductive, and every step drops the oldest blocks first.
LEMMA InvStep ==
    ASSUME SstInv, [Next]_vars
    PROVE  SstInv' /\ OldestGo(cache, cache')
<1>1. CASE UNCHANGED vars
  <2>1. cache' = cache
    BY <1>1 DEF vars
  <2>2. OldestGo(cache, cache')
    BY <2>1, SameKeysGo
  <2>. QED
    BY <1>1, <2>2, StutterInv
<1>2. CASE Restart
  <2>1. SstInv' /\ Empties
    BY <1>2, RestartInv
  <2>2. Range(cache'.lru) = {}
    BY <2>1 DEF Empties, EmptyCache, Range
  <2>. QED
    BY <2>1, <2>2, SameKeysGo
<1>3. CASE Next /\ ~ Restart
  <2>1. FilesOK' /\ TablesOK' /\ GuardsOK' /\ Keeps /\ (Puts \/ Drops \/ Empties \/ CountsAgain)
    BY <1>3, StepKinds
  <2>2. BlocksOK' /\ OldestGo(cache, cache')
    BY <2>1, BlocksKept
  <2>. QED
    BY <2>1, <2>2 DEF SstInv
<1>. QED
  BY <1>1, <1>2, <1>3

\* Keys of different tables differ if blocks begin below KeyShift.
LEMMA KeysDiffer ==
    ASSUME NEW a \in Nat, NEW b \in Nat, NEW x \in Nat, NEW y \in Nat, x < KeyShift, y < KeyShift,
           MakeKey(a, x) = MakeKey(b, y)
    PROVE  a = b
<1>1. ASSUME NEW c \in Nat, NEW d \in Nat, c < d, NEW u \in Nat, NEW v \in Nat, u < KeyShift
      PROVE  c * KeyShift + u < d * KeyShift + v
  <2>. DEFINE e == d - c - 1
  <2>1. e \in Nat /\ d = c + e + 1 /\ KeyShift \in Nat
    BY <1>1, CacheAssumption
  <2>. HIDE DEF e
  <2>2. d * KeyShift = c * KeyShift + e * KeyShift + KeyShift
    BY <2>1
  <2>3. e * KeyShift \in Nat /\ c * KeyShift \in Nat
    BY <2>1
  <2>. DEFINE p == c * KeyShift
              q == e * KeyShift
  <2>4. p \in Nat /\ q \in Nat /\ d * KeyShift = p + q + KeyShift
    BY <2>2, <2>3
  <2>. HIDE DEF p, q
  <2>5. p + u < d * KeyShift + v
    BY <1>1, <2>1, <2>4
  <2>. QED
    BY <2>5 DEF p
<1>2. a * KeyShift + x = b * KeyShift + y
  BY DEF MakeKey
<1>3. a * KeyShift + x \in Nat
  BY CacheAssumption
<1>4. a < b => a * KeyShift + x < b * KeyShift + y
  BY <1>1
<1>5. b < a => b * KeyShift + y < a * KeyShift + x
  BY <1>1
<1>6. ~ (a < b) /\ ~ (b < a)
  BY <1>2, <1>3, <1>4, <1>5
<1>. QED
  BY <1>6

\* So a key stands for one table.
LEMMA BlockKeysDiffer ==
    ASSUME SstInv, SmallIndex, NEW i \in used, NEW j \in used, BlockKey(i) = BlockKey(j)
    PROVE  i = j
<1>1. ASSUME NEW k \in used PROVE k \in Nat /\ Place(k) \in Nat /\ Place(k) < KeyShift
  <2>1. k \in Nat /\ IndexOK(file[k])
    BY TableAssumption DEF SstInv, FilesOK
  <2>2. Place(k) \in BlockPlaces /\ Place(k) \in Nat
    BY <2>1, IndexFound DEF Place
  <2>. QED
    BY <2>1, <2>2 DEF BlockPlaces, SmallIndex
<1>. QED
  BY <1>1, KeysDiffer DEF BlockKey

\* The accounts after a step.
LEMMA AccountsStep ==
    ASSUME SmallIndex, SstInv, AccountsInv, [Next]_vars
    PROVE  AccountsInv'
<1>1. Listed(cache) /\ Sized(cache) /\ \A key \in DOMAIN cache.map : Held(key, cache.map[key])
  BY DEF SstInv, BlocksOK
<1>2. CASE UNCHANGED vars
  BY <1>2 DEF AccountsInv, Accounted, Limited, CachedBytes, vars
<1>3. CASE Empties /\ resets' = resets
  BY <1>3, EmptyListed DEF AccountsInv, Accounted, Limited, CachedBytes, Empties
<1>4. CASE CountsAgain
  BY <1>4 DEF AccountsInv, CountsAgain
<1>5. CASE Drops /\ resets' = resets
  <2>1. Accounted(cache) /\ Limited(cache) => Accounted(cache') /\ Limited(cache')
    BY <1>1, <1>5 DEF Drops, Shrinks
  <2>2. resets' \in Nat /\ (resets' = 0 => Accounted(cache') /\ Limited(cache'))
    BY <1>5, <2>1 DEF AccountsInv
  <2>. QED
    BY <2>2 DEF AccountsInv, Accounted, Limited, CachedBytes
<1>6. CASE Puts /\ resets' = resets
  <2>1. PICK key, data : Held(key, data) /\ cache' = CachePut(cache, key, data)
    BY <1>6 DEF Puts
  <2>2. data.size \in Nat
    BY <2>1, HeldSize
  <2>3. key \in DOMAIN cache.map => cache.map[key].size = data.size
    <3>. SUFFICES ASSUME key \in DOMAIN cache.map PROVE cache.map[key].size = data.size
      OBVIOUS
    <3>1. PICK i \in used : key = BlockKey(i) /\ data.size = Field(file[i], Place(i))
      BY <2>1 DEF Held
    <3>2. PICK j \in used : key = BlockKey(j) /\ cache.map[key].size = Field(file[j], Place(j))
      BY <1>1 DEF Held
    <3>3. i = j
      BY <3>1, <3>2, BlockKeysDiffer
    <3>. QED
      BY <3>1, <3>2, <3>3
  <2>4. Accounted(cache) /\ Limited(cache) => Accounted(cache') /\ Limited(cache')
    BY <1>1, <2>1, <2>2, <2>3, PutAccounts
  <2>5. resets' \in Nat /\ (resets' = 0 => Accounted(cache') /\ Limited(cache'))
    BY <1>6, <2>4 DEF AccountsInv
  <2>. QED
    BY <2>5 DEF AccountsInv, Accounted, Limited, CachedBytes
<1>7. CASE Restart
  BY <1>3, <1>7, RestartInv
<1>8. CASE Next /\ ~ Restart
  BY <1>3, <1>4, <1>5, <1>6, <1>8, StepKinds
<1>. QED
  BY <1>2, <1>7, <1>8

-----------------------------------------------------------------------------
(***************************************************************************)
(* The state is well typed, and lru_list_ and cache_map_ name the same     *)
(* blocks, each once: after every sequence of puts, hits, evictions and    *)
(* removals by any number of threads.                                      *)
(***************************************************************************)
THEOREM SstTypeCorrect == Spec => []SstTypeOK
<1>1. SstInv => SstTypeOK
  <2>. SUFFICES ASSUME SstInv PROVE SstTypeOK
    OBVIOUS
  <2>1. ASSUME NEW id \in Id PROVE table[id].state \in {"closed", "open", "unreadable"}
    <3>1. CASE table[id] = Closed
      BY <3>1, StatesDiffer
    <3>2. CASE id \in used /\ table[id] = Loaded(file[id])
      <4>1. IndexOK(file[id])
        BY <3>2 DEF SstInv, FilesOK
      <4>2. Loaded(file[id]) = Unreadable \/ Loaded(file[id]).state = "open"
        BY <4>1, LoadedOpen
      <4>. QED
        BY <3>2, <4>2, StatesDiffer
    <3>. QED
      BY <3>1, <3>2 DEF SstInv, TablesOK
  <2>2. used \subseteq Id
    BY DEF SstInv, FilesOK
  <2>3. Range(cache.lru) = DOMAIN cache.map /\ Len(cache.lru) = Cardinality(DOMAIN cache.map)
    <3>. DEFINE l == cache.lru
                D == DOMAIN cache.map
    <3>1. /\ l \in Seq(D) /\ Len(l) = Cardinality(D)
          /\ \A k \in D : \E i \in 1..Len(l) : l[i] = k
      BY DEF SstInv, BlocksOK, Listed
    <3>. HIDE DEF l, D
    <3>2. DOMAIN l = 1..Len(l) /\ \A i \in 1..Len(l) : l[i] \in D
      BY <3>1
    <3>3. Range(l) = D
      BY <3>1, <3>2 DEF Range
    <3>. QED
      BY <3>1, <3>3 DEF l, D
  <2>4. ASSUME NEW t \in Thread PROVE guard[t].stage \in {"none", "hit", "missed", "filled"}
    <3>1. GuardOK(guard[t])
      BY DEF SstInv, GuardsOK
    <3>2. NoGuard.stage = "none"
      BY DEF NoGuard
    <3>. QED
      BY <3>1, <3>2 DEF GuardOK
  <2>. QED
    BY <2>1, <2>2, <2>3, <2>4 DEF SstTypeOK
<1>2. Init => SstInv
  BY InitInv
<1>3. SstInv /\ [Next]_vars => SstInv'
  BY InvStep
<1>. QED
  BY <1>1, <1>2, <1>3, PTL DEF Spec

(***************************************************************************)
(* A put drops only blocks that were used less recently than all the       *)
(* blocks that stay: EvictIfNeeded removes from the back of lru_list_, and *)
(* Get and Put keep the list in the order of use.                          *)
(***************************************************************************)
THEOREM OldestEvicted == Spec => EvictsOldest
<1>1. Init => SstInv
  BY InitInv
<1>2. SstInv /\ [Next]_vars => SstInv'
  BY InvStep
<1>3. SstInv /\ [Next]_vars =>
        [Range(cache'.lru) \ Range(cache.lru) # {} =>
           \A i, j \in DOMAIN cache.lru :
              /\ cache.lru[i] \notin Range(cache'.lru)
              /\ cache.lru[j] \in Range(cache'.lru)
              => j < i]_vars
  BY InvStep DEF OldestGo
<1>. QED
  BY <1>1, <1>2, <1>3, PTL DEF Spec, EvictsOldest

(***************************************************************************)
(* Until the statistics are reset, the accounts of the cache are the sizes *)
(* of its blocks and stay within its capacity, whatever two guards put one *)
(* after the other: a block that is put again has the size it had, because *)
(* files do not change under the process that uses them.  For blocks that  *)
(* begin below what MakeKey shifts ids by.                                 *)
(***************************************************************************)
THEOREM AccountsExact ==
    ASSUME SmallIndex
    PROVE  Spec => []CacheAccounts
<1>1. Init => SstInv /\ AccountsInv
  BY InitInv
<1>2. SstInv /\ AccountsInv /\ [Next]_vars => SstInv' /\ AccountsInv'
  BY InvStep, AccountsStep
<1>3. AccountsInv => CacheAccounts
  BY DEF AccountsInv, Accounted, Limited, CacheAccounts
<1>. QED
  BY <1>1, <1>2, <1>3, PTL DEF Spec

(***************************************************************************)
(* A cached block that an open table would find under its key is a block   *)
(* of that table, and its bytes are those of the file: no other table has  *)
(* the key, and the cache does not outlive the files it was filled from.   *)
(***************************************************************************)
THEOREM BlocksFaithful ==
    ASSUME SmallIndex
    PROVE  Spec => []CacheFaithful
<1>1. Init => SstInv
  BY InitInv
<1>2. SstInv /\ [Next]_vars => SstInv'
  BY InvStep
<1>3. SstInv => CacheFaithful
  <2>. SUFFICES ASSUME SstInv, NEW id \in Id, Open(id),
                       MakeKey(id, table[id].blocks[1].offset) \in DOMAIN cache.map
                PROVE  LET key == MakeKey(id, table[id].blocks[1].offset) IN
                       cache.map[key].sst = id /\ cache.map[key].fields \subseteq file[id].fields
    BY DEF CacheFaithful
  <2>. DEFINE key == BlockKey(id)
  <2>1. id \in used /\ MakeKey(id, table[id].blocks[1].offset) = key
    BY OpenFacts DEF BlockKey
  <2>2. Held(key, cache.map[key])
    BY <2>1 DEF SstInv, BlocksOK
  <2>3. PICK i \in used : /\ key = BlockKey(i) /\ cache.map[key].sst = i
                          /\ cache.map[key].fields \subseteq file[i].fields
    BY <2>2 DEF Held
  <2>4. i = id
    BY <2>1, <2>3, BlockKeysDiffer
  <2>. QED
    BY <2>1, <2>3, <2>4
<1>. QED
  BY <1>1, <1>2, <1>3, PTL DEF Spec

-----------------------------------------------------------------------------
(***************************************************************************)
(* Lookups: the binary search.                                             *)
(***************************************************************************)
\* The middle of a range that is not empty.
LEMMA MidRange ==
    ASSUME NEW l \in Nat, NEW r \in Nat, l < r
    PROVE  (l + r) \div 2 \in l..r - 1
OBVIOUS

\* c, or the end of the range that is next to it.
Clamp(c, l, r) == IF l >= r THEN r ELSE IF c < l THEN l ELSE IF c > r THEN r ELSE c

\* Half of a range.
LEMMA ClampHalf ==
    ASSUME NEW n \in Nat, NEW c \in 0..n, NEW l \in 0..n, NEW r \in 0..n, l < r, NEW m \in l..r - 1
    PROVE  Clamp(c, l, r) = IF m + 1 <= c THEN Clamp(c, m + 1, r) ELSE Clamp(c, l, m)
BY DEF Clamp

\* The equation of the search for the last position at which before is true.
Halving(g, n, before) ==
    \A l \in 0..n : \A r \in 0..n :
        g[<<l, r>>] = IF l >= r THEN r
                      ELSE IF before[(l + r) \div 2 + 1] THEN g[<<(l + r) \div 2 + 1, r>>]
                      ELSE g[<<l, (l + r) \div 2>>]

\* Bisect satisfies it.
LEMMA BisectEquation ==
    ASSUME NEW n \in Nat, NEW c \in 0..n, NEW before, \A i \in 1..n : before[i] <=> i <= c
    PROVE  \E g : Bisect(n, before) = g[<<0, n>>] /\ Halving(g, n, before)
<1>. DEFINE P == (0..n) \X (0..n)
            mid(p) == (p[1] + p[2]) \div 2
            Step(g, p) == IF p[1] >= p[2] THEN p[2]
                          ELSE IF before[mid(p) + 1] THEN g[<<mid(p) + 1, p[2]>>] ELSE g[<<p[1], mid(p)>>]
            search == CHOOSE g : g = [p \in P |-> Step(g, p)]
            w == [p \in P |-> Clamp(c, p[1], p[2])]
<1>1. Bisect(n, before) = search[<<0, n>>]
  BY DEF Bisect
<1>2. ASSUME NEW l \in 0..n, NEW r \in 0..n PROVE w[<<l, r>>] = Clamp(c, l, r)
  <2>1. <<l, r>> \in P /\ <<l, r>>[1] = l /\ <<l, r>>[2] = r
    OBVIOUS
  <2>. QED
    BY <2>1
<1>3. w = [p \in P |-> w[p]]
  OBVIOUS
<1>. HIDE DEF w
<1>4. w = [p \in P |-> Step(w, p)]
  <2>. SUFFICES ASSUME NEW p \in P PROVE w[p] = Step(w, p)
    <3>. HIDE DEF Step
    <3>. QED
      BY <1>3
  <2>1. PICK l \in 0..n, r \in 0..n : p = <<l, r>>
    OBVIOUS
  <2>2. p[1] = l /\ p[2] = r
    BY <2>1
  <2>3. w[p] = Clamp(c, l, r)
    BY <1>2, <2>1
  <2>4. CASE l >= r
    <3>1. w[p] = r
      BY <2>3, <2>4 DEF Clamp
    <3>. QED
      BY <2>2, <2>4, <3>1
  <2>5. CASE l < r
    <3>. DEFINE m == (l + r) \div 2
    <3>1. m \in l..r - 1
      BY <2>5, MidRange
    <3>2. Step(w, p) = IF before[m + 1] THEN w[<<m + 1, r>>] ELSE w[<<l, m>>]
      BY <2>2, <2>5
    <3>. HIDE DEF m, Step
    <3>3. m \in 0..n /\ m + 1 \in 0..n /\ m + 1 \in 1..n
      BY <3>1
    <3>4. before[m + 1] <=> m + 1 <= c
      BY <3>3
    <3>5. w[<<m + 1, r>>] = Clamp(c, m + 1, r) /\ w[<<l, m>>] = Clamp(c, l, m)
      BY <1>2, <3>3
    <3>6. Clamp(c, l, r) = IF m + 1 <= c THEN Clamp(c, m + 1, r) ELSE Clamp(c, l, m)
      BY <2>5, <3>1, ClampHalf
    <3>. QED
      BY <2>3, <3>2, <3>4, <3>5, <3>6
  <2>6. l >= r \/ l < r
    OBVIOUS
  <2>. QED
    BY <2>4, <2>5, <2>6
<1>5. search = [p \in P |-> Step(search, p)]
  <2>. HIDE DEF Step, P
  <2>. QED
    BY <1>4
<1>. HIDE DEF search
<1>6. ASSUME NEW l \in 0..n, NEW r \in 0..n
      PROVE  search[<<l, r>>] = IF l >= r THEN r
                                ELSE IF before[(l + r) \div 2 + 1] THEN search[<<(l + r) \div 2 + 1, r>>]
                                ELSE search[<<l, (l + r) \div 2>>]
  <2>1. <<l, r>> \in P /\ <<l, r>>[1] = l /\ <<l, r>>[2] = r
    OBVIOUS
  <2>2. search[<<l, r>>] = Step(search, <<l, r>>)
    <3>. HIDE DEF Step, P
    <3>. QED
      BY <1>5, <2>1
  <2>. QED
    BY <2>1, <2>2
<1>7. Halving(search, n, before)
  BY <1>6, Zenon DEF Halving
<1>. QED
  BY <1>1, <1>7

\* The search finds the number of positions at which before is true.
LEMMA BisectFinds ==
    ASSUME NEW n \in Nat, NEW c \in 0..n, NEW before, \A i \in 1..n : before[i] <=> i <= c
    PROVE  Bisect(n, before) = c
<1>1. PICK g : Bisect(n, before) = g[<<0, n>>] /\ Halving(g, n, before)
  BY BisectEquation
<1>. DEFINE Good(l, r) == g[<<l, r>>] = Clamp(c, l, r)
            Bad == {d \in Nat : \E l \in 0..n : \E r \in l..n : r - l = d /\ ~ Good(l, r)}
<1>2. Bad = {}
  <2>. SUFFICES ASSUME Bad # {} PROVE FALSE
    OBVIOUS
  <2>1. PICK d \in Bad : \A e \in Bad : d <= e
    <3>1. Bad \subseteq Nat
      OBVIOUS
    <3>. HIDE DEF Bad
    <3>. QED
      BY <3>1, LeastNatural
  <2>2. d \in Nat
    OBVIOUS
  <2>3. PICK l \in 0..n : \E r \in l..n : r - l = d /\ ~ Good(l, r)
    OBVIOUS
  <2>4. PICK r \in l..n : r - l = d /\ ~ Good(l, r)
    BY <2>3
  <2>5. \A x \in 0..n : \A y \in x..n : y - x < d => Good(x, y)
    <3>. SUFFICES ASSUME NEW x \in 0..n, NEW y \in x..n, y - x < d, ~ Good(x, y)
                  PROVE  FALSE
      OBVIOUS
    <3>1. y - x \in Nat
      OBVIOUS
    <3>2. y - x \in Bad
      <4>. HIDE DEF Good
      <4>. QED
        BY <3>1
    <3>. HIDE DEF Bad
    <3>. QED
      BY <2>1, <2>2, <3>1, <3>2
  <2>. HIDE DEF Bad
  <2>6. CASE l = r
    <3>0. r \in 0..n /\ l >= r
      BY <2>6
    <3>1. g[<<l, r>>] = r
      BY <1>1, <3>0 DEF Halving
    <3>. QED
      BY <2>4, <2>6, <3>1 DEF Clamp
  <2>7. CASE l < r
    <3>. DEFINE m == (l + r) \div 2
    <3>1. m \in l..r - 1
      BY <2>7, MidRange
    <3>2. g[<<l, r>>] = IF l >= r THEN r ELSE IF before[m + 1] THEN g[<<m + 1, r>>] ELSE g[<<l, m>>]
      <4>1. r \in 0..n
        OBVIOUS
      <4>. QED
        BY <1>1, <4>1 DEF Halving
    <3>. HIDE DEF m
    <3>3. m \in l..n /\ m + 1 \in 0..n /\ m + 1 \in 1..n /\ r \in m + 1..n /\ r \in 0..n /\ ~ (l >= r)
      BY <2>7, <3>1
    <3>4. before[m + 1] <=> m + 1 <= c
      BY <3>3
    <3>5. Good(l, m) /\ Good(m + 1, r)
      <4>1. m - l < d /\ r - (m + 1) < d
        BY <2>4, <3>1
      <4>. HIDE DEF Good
      <4>. QED
        BY <2>5, <3>3, <4>1
    <3>6. Clamp(c, l, r) = IF m + 1 <= c THEN Clamp(c, m + 1, r) ELSE Clamp(c, l, m)
      BY <2>7, <3>1, <3>3, ClampHalf
    <3>. QED
      BY <2>4, <3>2, <3>3, <3>4, <3>5, <3>6
  <2>. QED
    BY <2>6, <2>7
<1>3. Good(0, n)
  <2>1. 0 \in 0..n /\ n \in 0..n /\ n - 0 = n
    OBVIOUS
  <2>2. n \notin Bad
    BY <1>2
  <2>. HIDE DEF Good
  <2>. QED
    BY <2>1, <2>2
<1>4. Clamp(c, 0, n) = c
  BY DEF Clamp
<1>. QED
  BY <1>1, <1>3, <1>4

\* Positions in order are split in two by a condition that holds up to one of them.
LEMMA SplitPoint ==
    ASSUME NEW n \in Nat, NEW B, B \subseteq 1..n,
           \A i \in 1..n : \A j \in 1..n : i < j /\ j \in B => i \in B
    PROVE  \E c \in 0..n : \A i \in 1..n : i \in B <=> i <= c
<1>. DEFINE S == {i \in 0..n : i = n \/ i + 1 \notin B}
<1>1. S \subseteq Nat /\ n \in S
  OBVIOUS
<1>2. PICK c \in S : \A i \in S : c <= i
  <2>. HIDE DEF S
  <2>. QED
    BY <1>1, LeastNatural
<1>3. c \in 0..n /\ (c = n \/ c + 1 \notin B)
  OBVIOUS
<1>4. ASSUME NEW i \in 1..n, i <= c PROVE i \in B
  <2>. SUFFICES ASSUME i \notin B PROVE FALSE
    OBVIOUS
  <2>1. i - 1 \in 0..n /\ i - 1 + 1 = i
    OBVIOUS
  <2>2. i - 1 \in S
    BY <2>1
  <2>. HIDE DEF S
  <2>. QED
    BY <1>2, <1>3, <1>4, <2>1, <2>2
<1>5. ASSUME NEW i \in 1..n, i \in B PROVE i <= c
  <2>. SUFFICES ASSUME ~ (i <= c) PROVE FALSE
    OBVIOUS
  <2>. HIDE DEF S
  <2>1. c < n /\ c + 1 \in 1..n /\ c + 1 \notin B /\ c + 1 <= i
    BY <1>3
  <2>2. c + 1 = i \/ c + 1 < i
    BY <1>3, <2>1
  <2>. QED
    BY <1>5, <2>1, <2>2
<1>. HIDE DEF S
<1>6. \A i \in 1..n : i \in B <=> i <= c
  BY <1>4, <1>5
<1>. QED
  BY <1>3, <1>6

\* What a lookup in a list of entries answers.
Answer(es, k) ==
    LET hits == {i \in DOMAIN es : es[i].key = k} IN IF hits = {} THEN NotFound ELSE es[Min(hits)].value

\* It is the one entry with the key.
LEMMA AnswerIs ==
    ASSUME NEW es, Written(es), NEW k
    PROVE  /\ \A r \in 1..Len(es) : es[r].key = k => Answer(es, k) = es[r].value
           /\ (\A i \in 1..Len(es) : es[i].key # k) => Answer(es, k) = NotFound
<1>. DEFINE n == Len(es)
            hits == {i \in 1..n : es[i].key = k}
<1>1. DOMAIN es = 1..n /\ n \in Nat
  BY DEF Written
<1>2. Answer(es, k) = IF hits = {} THEN NotFound ELSE es[Min(hits)].value
  BY <1>1 DEF Answer
<1>. HIDE DEF n
<1>3. ASSUME NEW r \in 1..n, es[r].key = k PROVE Answer(es, k) = es[r].value
  <2>1. hits \subseteq Nat /\ r \in hits
    BY <1>3
  <2>2. Min(hits) \in hits
    <3>. HIDE DEF hits
    <3>. QED
      BY <2>1, MinOfNaturals
  <2>. DEFINE q == Min(hits)
  <2>3. q \in 1..n /\ es[q].key = k
    BY <2>2
  <2>4. Answer(es, k) = es[q].value
    BY <1>2, <2>1
  <2>. HIDE DEF hits, q
  <2>5. \A i \in 1..n : \A j \in 1..n : i < j => es[i].key < es[j].key
    BY DEF Written, n
  <2>6. es[r].key \in Nat
    <3>1. es[r].key \in Key
      BY EntryType DEF n
    <3>. QED
      BY <3>1, TableAssumption
  <2>7. ~ (q < r) /\ ~ (r < q)
    BY <1>3, <2>3, <2>5, <2>6
  <2>8. q = r
    BY <1>1, <2>3, <2>7
  <2>. QED
    BY <2>4, <2>8
<1>4. ASSUME \A i \in 1..n : es[i].key # k PROVE Answer(es, k) = NotFound
  BY <1>2, <1>4
<1>. QED
  BY <1>3, <1>4 DEF n

\* DataBlockIndex::Get, in a block with these entries whose filter knows their keys.
LEMMA BlockAnswers ==
    ASSUME NEW es, Written(es), NEW b, b.entries = es,
           \A i \in 1..Len(es) : BloomCheck(b.bloom, es[i].key), NEW k \in Key
    PROVE  BlockGet(b, k) = Answer(es, k)
<1>. DEFINE n == Len(es)
            before == [i \in 1..n |-> es[i].key < k]
            B == {i \in 1..n : es[i].key < k}
            r == Bisect(n, before)
<1>1. n \in Nat /\ \A i \in 1..n : \A j \in 1..n : i < j => es[i].key < es[j].key
  BY DEF Written
<1>2. k \in Nat /\ \A i \in 1..n : es[i].key \in Nat
  BY EntryType, TableAssumption
<1>3. BlockGet(b, k) = IF ~ BloomCheck(b.bloom, k) \/ r = n \/ es[r + 1].key # k THEN NotFound
                       ELSE es[r + 1].value
  BY DEF BlockGet
<1>4. \A i \in 1..n : BloomCheck(b.bloom, es[i].key)
  OBVIOUS
<1>. HIDE DEF n
<1>5. PICK c \in 0..n : \A i \in 1..n : es[i].key < k <=> i <= c
  <2>1. B \subseteq 1..n /\ \A i \in 1..n : \A j \in 1..n : i < j /\ j \in B => i \in B
    BY <1>1, <1>2
  <2>2. \E c \in 0..n : \A i \in 1..n : i \in B <=> i <= c
    <3>. HIDE DEF B
    <3>. QED
      BY <1>1, <2>1, SplitPoint
  <2>. QED
    BY <2>2
<1>6. r = c
  <2>1. \A i \in 1..n : before[i] <=> i <= c
    BY <1>5
  <2>. HIDE DEF before
  <2>. QED
    BY <1>1, <2>1, BisectFinds
<1>. HIDE DEF r
<1>7. CASE ~ BloomCheck(b.bloom, k)
  <2>1. \A i \in 1..n : es[i].key # k
    BY <1>4, <1>7
  <2>. QED
    BY <1>3, <1>7, <2>1, AnswerIs DEF n
<1>8. CASE BloomCheck(b.bloom, k) /\ r = n
  <2>1. \A i \in 1..n : es[i].key # k
    BY <1>1, <1>2, <1>5, <1>6, <1>8
  <2>. QED
    BY <1>3, <1>8, <2>1, AnswerIs DEF n
<1>9. CASE BloomCheck(b.bloom, k) /\ r # n
  <2>1. r \in Nat /\ r + 1 \in 1..n /\ ~ (r + 1 <= c)
    BY <1>1, <1>6, <1>9
  <2>2. ~ (es[r + 1].key < k)
    BY <1>5, <2>1
  <2>3. CASE es[r + 1].key = k
    <3>1. Answer(es, k) = es[r + 1].value
      BY <2>1, <2>3, AnswerIs DEF n
    <3>. QED
      BY <1>3, <1>9, <2>3, <3>1
  <2>4. CASE es[r + 1].key # k
    <3>1. k < es[r + 1].key
      BY <1>2, <2>1, <2>2, <2>4
    <3>2. ASSUME NEW i \in 1..n PROVE es[i].key # k
      <4>1. CASE i <= r
        BY <1>2, <1>5, <1>6, <4>1
      <4>2. CASE i = r + 1
        BY <2>4, <4>2
      <4>3. CASE r + 1 < i
        <5>1. es[r + 1].key < es[i].key
          BY <1>1, <2>1, <4>3
        <5>. QED
          BY <1>2, <2>1, <3>1, <5>1
      <4>4. i <= r \/ i = r + 1 \/ r + 1 < i
        BY <2>1
      <4>. QED
        BY <4>1, <4>2, <4>3, <4>4
    <3>3. Answer(es, k) = NotFound
      BY <3>2, AnswerIs DEF n
    <3>. QED
      BY <1>3, <2>4, <3>3
  <2>. QED
    BY <2>3, <2>4
<1>. QED
  BY <1>7, <1>8, <1>9

\* IndexBlockIndex::Get, in a table with one block.
LEMMA TableAnswers ==
    ASSUME NEW es, Written(es), NEW t, Len(t.blocks) = 1, t.blocks[1].entries = es,
           t.blocks[1].key = es[1].key,
           \A i \in 1..Len(es) : BloomCheck(t.blocks[1].bloom, es[i].key), NEW k \in Key
    PROVE  Get(t, k) = Answer(es, k)
<1>. DEFINE n == Len(es)
            before == [i \in 1..1 |-> ~ (t.blocks[i].key > k)]
            r == Bisect(1, before)
<1>1. n \in Nat /\ 1 \in 1..n /\ \A i \in 1..n : \A j \in 1..n : i < j => es[i].key < es[j].key
  BY DEF Written
<1>2. k \in Nat /\ \A i \in 1..n : es[i].key \in Nat
  BY EntryType, TableAssumption
<1>3. Get(t, k) = IF r = 0 THEN NotFound ELSE BlockGet(t.blocks[r], k)
  BY DEF Get
<1>4. BlockGet(t.blocks[1], k) = Answer(es, k)
  BY BlockAnswers
<1>. HIDE DEF n
<1>5. before[1] <=> es[1].key <= k
  <2>. DEFINE x == es[1].key
  <2>1. x \in Nat /\ t.blocks[1].key = x
    BY <1>1, <1>2
  <2>. HIDE DEF x
  <2>2. before[1] <=> ~ (t.blocks[1].key > k)
    <3>1. 1 \in 1..1
      OBVIOUS
    <3>. QED
      BY <3>1, Zenon
  <2>3. before[1] <=> x <= k
    BY <1>2, <2>1, <2>2
  <2>. QED
    BY <2>3 DEF x
<1>. HIDE DEF before
<1>6. CASE es[1].key <= k
  <2>1. \A i \in 1..1 : before[i] <=> i <= 1
    BY <1>5, <1>6
  <2>2. r = 1
    <3>1. 1 \in 0..1
      OBVIOUS
    <3>. QED
      BY <2>1, <3>1, BisectFinds
  <2>. QED
    BY <1>3, <1>4, <2>2
<1>7. CASE ~ (es[1].key <= k)
  <2>1. \A i \in 1..1 : before[i] <=> i <= 0
    BY <1>5, <1>7
  <2>2. r = 0
    <3>1. 0 \in 0..1
      OBVIOUS
    <3>. QED
      BY <2>1, <3>1, BisectFinds
  <2>3. ASSUME NEW i \in 1..n PROVE es[i].key # k
    <3>1. CASE i = 1
      BY <1>2, <1>7, <3>1
    <3>2. CASE i # 1
      <4>1. 1 < i
        BY <3>2
      <4>2. es[1].key < es[i].key
        BY <1>1, <4>1
      <4>. QED
        BY <1>1, <1>2, <1>7, <4>2
    <3>. QED
      BY <3>1, <3>2
  <2>4. Answer(es, k) = NotFound
    BY <2>3, AnswerIs DEF n
  <2>. QED
    BY <1>3, <2>2, <2>4
<1>. QED
  BY <1>6, <1>7

\* Functions that agree at 0 and go on alike agree.
LEMMA Agree ==
    ASSUME NEW n \in Nat, NEW f, NEW g, f[0] = g[0],
           \A i \in 1..n : f[i - 1] = g[i - 1] => f[i] = g[i]
    PROVE  \A i \in 0..n : f[i] = g[i]
<1>. DEFINE Bad == {i \in Nat : i <= n /\ f[i] # g[i]}
<1>. SUFFICES Bad = {}
  OBVIOUS
<1>. SUFFICES ASSUME Bad # {} PROVE FALSE
  OBVIOUS
<1>1. PICK m \in Bad : \A k \in Bad : m <= k
  <2>1. Bad \subseteq Nat
    OBVIOUS
  <2>. HIDE DEF Bad
  <2>. QED
    BY <2>1, LeastNatural
<1>2. m \in Nat /\ m <= n /\ f[m] # g[m]
  OBVIOUS
<1>3. m # 0
  BY <1>2
<1>4. m - 1 \in Nat /\ m - 1 <= n /\ m \in 1..n /\ m - 1 \notin Bad
  <2>. HIDE DEF Bad
  <2>. QED
    BY <1>1, <1>2, <1>3
<1>5. f[m - 1] = g[m - 1]
  BY <1>4
<1>. QED
  BY <1>2, <1>4, <1>5

\* The filter of a table has no false negatives.
LEMMA BloomKnows ==
    ASSUME NEW es, Written(es), NEW h
    PROVE  LET b == BuiltBloom(es, h) IN
           b.n = Len(es) /\ \A i \in 1..Len(es) : BloomCheck(b, es[i].key)
<1>. DEFINE n == Len(es)
            Step(g, i) == IF i = 0 THEN BloomInit(n, h) ELSE BloomInsert(g[i - 1], es[i].key)
            Is(g) == g = [i \in 0..n |-> Step(g, i)]
            bloom == CHOOSE g : Is(g)
            bits(i) == UNION {h[es[j].key] : j \in 1..i}
            w == [i \in 0..n |-> [n |-> n, hash |-> h, bits |-> bits(i)]]
<1>1. n \in Nat
  BY DEF Written
<1>2. BuiltBloom(es, h) = bloom[n]
  BY DEF BuiltBloom
<1>. HIDE DEF n
<1>3. \A i \in 0..n : w[i] = [n |-> n, hash |-> h, bits |-> bits(i)]
  <2>. HIDE DEF bits
  <2>. QED
    OBVIOUS
<1>4. w = [i \in 0..n |-> w[i]]
  <2>. HIDE DEF bits
  <2>. QED
    OBVIOUS
<1>5. bits(0) = {}
  <2>1. 1..0 = {}
    OBVIOUS
  <2>. QED
    BY <2>1
<1>6. ASSUME NEW i \in 1..n PROVE bits(i) = bits(i - 1) \cup h[es[i].key]
  <2>1. 1..i = (1..i - 1) \cup {i}
    OBVIOUS
  <2>. QED
    BY <2>1
<1>. HIDE DEF w
<1>7. ASSUME NEW i \in 1..n PROVE BloomInsert(w[i - 1], es[i].key) = w[i]
  <2>1. i - 1 \in 0..n /\ i \in 0..n
    BY <1>1
  <2>. DEFINE u == bits(i - 1)
              v == bits(i)
  <2>2. w[i - 1] = [n |-> n, hash |-> h, bits |-> u] /\ w[i] = [n |-> n, hash |-> h, bits |-> v]
    <3>. HIDE DEF bits
    <3>. QED
      BY <1>3, <2>1
  <2>3. v = u \cup h[es[i].key]
    BY <1>6
  <2>. DEFINE b == w[i - 1]
              k == es[i].key
  <2>4. b.bits = u /\ b.hash = h
    BY <2>2
  <2>5. BloomInsert(b, k) = [b EXCEPT !.bits = b.bits \cup b.hash[k]]
    BY DEF BloomInsert
  <2>6. BloomInsert(b, k) = [b EXCEPT !.bits = v]
    BY <2>3, <2>4, <2>5
  <2>. HIDE DEF u, v
  <2>7. [b EXCEPT !.bits = v] = [n |-> n, hash |-> h, bits |-> v]
    BY <2>2
  <2>. QED
    BY <2>2, <2>6, <2>7
<1>8. w[0] = BloomInit(n, h)
  <2>1. 0 \in 0..n
    BY <1>1
  <2>2. w[0] = [n |-> n, hash |-> h, bits |-> bits(0)]
    <3>. HIDE DEF bits
    <3>. QED
      BY <1>3, <2>1
  <2>. QED
    BY <1>5, <2>2 DEF BloomInit
<1>9. Is(w)
  <2>1. ASSUME NEW i \in 0..n PROVE w[i] = Step(w, i)
    <3>1. CASE i = 0
      BY <1>8, <3>1
    <3>2. CASE i # 0
      <4>1. i \in 1..n
        BY <3>2
      <4>. QED
        BY <1>7, <3>2, <4>1
    <3>. QED
      BY <3>1, <3>2
  <2>. HIDE DEF Step
  <2>. QED
    BY <1>4, <2>1
<1>10. Is(bloom)
  <2>. HIDE DEF Is
  <2>. QED
    BY <1>9
<1>. HIDE DEF bloom
<1>11. \A i \in 0..n : bloom[i] = Step(bloom, i)
  <2>. HIDE DEF Step
  <2>. QED
    BY <1>10
<1>. HIDE DEF Is
<1>12. bloom[n] = w[n]
  <2>1. bloom[0] = w[0]
    <3>1. 0 \in 0..n
      BY <1>1
    <3>2. bloom[0] = Step(bloom, 0)
      BY <1>11, <3>1
    <3>. QED
      BY <1>8, <3>2
  <2>2. ASSUME NEW i \in 1..n, bloom[i - 1] = w[i - 1] PROVE bloom[i] = w[i]
    <3>1. i \in 0..n /\ i # 0
      BY <1>1
    <3>2. bloom[i] = BloomInsert(bloom[i - 1], es[i].key)
      BY <1>11, <3>1
    <3>. QED
      BY <1>7, <2>2, <3>2
  <2>3. \A i \in 0..n : bloom[i] = w[i]
    BY <1>1, <2>1, <2>2, Agree
  <2>. QED
    BY <1>1, <2>3
<1>13. bloom[n] = [n |-> n, hash |-> h, bits |-> bits(n)]
  <2>. HIDE DEF bits
  <2>. QED
    BY <1>1, <1>3, <1>12
<1>14. \A i \in 1..n : h[es[i].key] \subseteq bits(n)
  OBVIOUS
<1>. HIDE DEF bits
<1>. QED
  BY <1>2, <1>13, <1>14 DEF BloomCheck, n

\* Keys and values have at least one byte: a field of none begins where the next one does.
SizesPositive == (\A k \in Key : KeySize[k] > 0) /\ \A v \in Value : ValueSize[v] > 0

\* The fields of a plain file, with what an older and longer file has behind its end.
Holds(fields, es, h) ==
    /\ PlainFile(es, h).fields \subseteq fields
    /\ \A x \in fields \ PlainFile(es, h).fields : x[1] \in Nat /\ x[1] >= PlainSize(es)

\* The only field at a place is the one that is read there.
LEMMA FieldIs ==
    ASSUME NEW f, NEW a, NEW x \in f.fields, x[1] = a, \A y \in f.fields : y[1] = a => y[3] = x[3]
    PROVE  HasField(f, a) /\ Field(f, a) = x[3]
<1>. DEFINE z == CHOOSE y \in f.fields : y[1] = a
<1>1. z \in f.fields /\ z[1] = a
  OBVIOUS
<1>2. Field(f, a) = z[3]
  BY DEF Field
<1>. HIDE DEF z
<1>. QED
  BY <1>1, <1>2 DEF HasField

\* The places of a plain file.
CountPlace(es) == IndexSize(es) + W + BloomSize(Len(es))
EntryPlaces(es) == EntryOffsets(es, CountPlace(es) + W)
BlockField(es) == <<IndexSize(es), W, PlainSize(es) - IndexSize(es)>>
BloomField(es, h) == <<IndexSize(es) + W, BloomSize(Len(es)), BuiltBloom(es, h)>>
CountField(es) == <<CountPlace(es), W, Len(es)>>

\* Every field is one of these.
LEMMA FieldKinds ==
    ASSUME NEW es, Written(es), NEW h, NEW fields, Holds(fields, es, h)
    PROVE  /\ \A y \in fields :
                 \/ y \in IndexFields(es) \/ y = BlockField(es) \/ y = BloomField(es, h) \/ y = CountField(es)
                 \/ \E i \in 1..Len(es) : y \in EntryFields(es[i], EntryPlaces(es)[i])
                 \/ y[1] \in Nat /\ y[1] >= PlainSize(es)
           /\ IndexFields(es) \subseteq fields
           /\ BloomField(es, h) \in fields /\ CountField(es) \in fields
           /\ \A i \in 1..Len(es) : EntryFields(es[i], EntryPlaces(es)[i]) \subseteq fields
<1>. DEFINE A == IndexFields(es)
            B == {BlockField(es), BloomField(es, h), CountField(es)}
            E(i) == EntryFields(es[i], EntryPlaces(es)[i])
            C == UNION {E(i) : i \in 1..Len(es)}
            F == PlainFile(es, h).fields
<1>1. DOMAIN es = 1..Len(es)
  BY DEF Written
<1>2. F = A \cup B \cup C
  <2>1. PlainFile(es, h) = [size |-> PlainSize(es), fields |-> A \cup B \cup C]
    BY <1>1 DEF PlainFile, BlockField, BloomField, CountField, EntryPlaces, CountPlace
  <2>. HIDE DEF A, B, C
  <2>. QED
    BY <2>1
<1>3. F \subseteq fields /\ \A x \in fields \ F : x[1] \in Nat /\ x[1] >= PlainSize(es)
  BY DEF Holds
<1>4. \A y \in C : \E i \in 1..Len(es) : y \in E(i)
  <2>. HIDE DEF E
  <2>. QED
    OBVIOUS
<1>5. \A i \in 1..Len(es) : E(i) \subseteq C
  <2>. HIDE DEF E
  <2>. QED
    OBVIOUS
<1>. HIDE DEF A, C, E, F
<1>6. \A y \in fields : \/ y \in A \/ y = BlockField(es) \/ y = BloomField(es, h) \/ y = CountField(es)
                        \/ \E i \in 1..Len(es) : y \in E(i)
                        \/ y[1] \in Nat /\ y[1] >= PlainSize(es)
  BY <1>2, <1>3, <1>4
<1>7. A \subseteq fields /\ BloomField(es, h) \in fields /\ CountField(es) \in fields
  BY <1>2, <1>3
<1>8. \A i \in 1..Len(es) : E(i) \subseteq fields
  BY <1>2, <1>3, <1>5
<1>. QED
  BY <1>6, <1>7, <1>8 DEF A, E

\* Where they are, in the order of their places.
LEMMA PlacesOrdered ==
    ASSUME NEW es, Written(es), SizesPositive
    PROVE  LET off == IndexSize(es)
               count == CountPlace(es)
               at == EntryPlaces(es)
           IN  /\ off \in Nat /\ count \in Nat /\ off > 4 * W /\ count >= off + 2 * W
               /\ Offsets(at, es, count + W) /\ PlainSize(es) = at[Len(es) + 1]
               /\ \A i \in 1..Len(es) + 1 : at[i] \in Nat /\ count + W <= at[i]
               /\ \A i \in 1..Len(es) : \A j \in 1..Len(es) + 1 : i < j => at[i] + EntrySize(es[i]) <= at[j]
<1>. DEFINE off == IndexSize(es)
            count == CountPlace(es)
            at == EntryPlaces(es)
            bs == BloomSize(Len(es))
<1>1. 1 \in 1..Len(es)
  BY DEF Written
<1>2. off \in Nat /\ bs \in Nat /\ bs >= 2 * W /\ off >= 4 * W + KeySize[es[1].key]
  BY IndexSizeType
<1>3. KeySize[es[1].key] \in Nat /\ KeySize[es[1].key] > 0
  <2>1. es[1].key \in Key /\ KeySize[es[1].key] \in Nat
    BY <1>1, EntryType
  <2>. QED
    BY <2>1 DEF SizesPositive
<1>5. count = off + W + bs
  BY DEF CountPlace
<1>. HIDE DEF off, count, bs
<1>6. /\ off > 4 * W /\ count \in Nat /\ count >= off + 2 * W
      /\ count + W \in Nat /\ count + W = off + 2 * W + bs
  BY <1>2, <1>3, <1>5 DEF W
<1>7. at = EntryOffsets(es, count + W)
  BY DEF EntryPlaces, count
<1>8. PlainSize(es) = EntryOffsets(es, off + 2 * W + bs)[Len(es) + 1]
  BY DEF PlainSize, off, bs
<1>9. Offsets(at, es, count + W)
  BY <1>6, <1>7, OffsetsType
<1>10. PlainSize(es) = at[Len(es) + 1]
  BY <1>6, <1>7, <1>8
<1>. HIDE DEF at
<1>11. \A i \in 1..Len(es) + 1 : at[i] \in Nat /\ count + W <= at[i]
  BY <1>6, <1>9, OffsetsGrow
<1>12. \A i \in 1..Len(es) : \A j \in 1..Len(es) + 1 : i < j => at[i] + EntrySize(es[i]) <= at[j]
  BY <1>6, <1>9, OffsetsGrow
<1>. QED
  BY <1>2, <1>6, <1>9, <1>10, <1>11, <1>12 DEF off, count, at

\* A field of entry i lies between its place and the next.
LEMMA EntryFieldPlace ==
    ASSUME NEW es, Written(es), SizesPositive, NEW i \in 1..Len(es), NEW p \in Nat,
           NEW y \in EntryFields(es[i], p)
    PROVE  LET a == KeySize[es[i].key]
               v == ValueSize[es[i].value]
           IN  /\ y[1] \in Nat /\ p <= y[1] /\ y[1] < p + EntrySize(es[i])
               /\ y[1] = p => y[3] = a
               /\ y[1] = p + W => y[3] = v
               /\ y[1] = p + 2 * W => y[3] = es[i].key
               /\ y[1] = p + 2 * W + a => y[3] = es[i].value
<1>. DEFINE a == KeySize[es[i].key]
            v == ValueSize[es[i].value]
            k == es[i].key
            u == es[i].value
<1>1. a \in Nat /\ v \in Nat /\ k \in Key /\ u \in Value
  BY EntryType
<1>2. a > 0 /\ v > 0
  BY <1>1 DEF SizesPositive
<1>3. EntrySize(es[i]) = a + v + 2 * W
  BY DEF EntrySize
<1>4. \/ y[1] = p /\ y[3] = a
      \/ y[1] = p + W /\ y[3] = v
      \/ y[1] = p + 2 * W /\ y[3] = k
      \/ y[1] = p + 2 * W + a /\ y[3] = u
  BY DEF EntryFields
<1>. HIDE DEF a, v, k, u
<1>5. y[1] \in Nat /\ p <= y[1] /\ y[1] < p + (a + v + 2 * W)
  BY <1>1, <1>2, <1>4 DEF W
<1>6. /\ y[1] = p => y[3] = a
      /\ y[1] = p + W => y[3] = v
      /\ y[1] = p + 2 * W => y[3] = k
      /\ y[1] = p + 2 * W + a => y[3] = u
  BY <1>1, <1>2, <1>4 DEF W
<1>. QED
  BY <1>3, <1>5, <1>6 DEF a, v, k, u

\* What is read of the index and in front of the entries.
LEMMA HeadRead ==
    ASSUME NEW es, Written(es), SizesPositive, NEW h, NEW f, Holds(f.fields, es, h)
    PROVE  /\ Field(f, 4 * W) = es[1].key
           /\ HasField(f, IndexSize(es) + W) /\ Field(f, IndexSize(es) + W) = BuiltBloom(es, h)
           /\ Field(f, CountPlace(es)) = Len(es)
<1>. DEFINE off == IndexSize(es)
            count == CountPlace(es)
            at == EntryPlaces(es)
            n == Len(es)
<1>1. off \in Nat /\ count \in Nat /\ off > 4 * W /\ count >= off + 2 * W
  BY PlacesOrdered
<1>2. n \in Nat /\ n > 0
  BY DEF Written
<1>3. \A i \in 1..n + 1 : at[i] \in Nat /\ count + W <= at[i]
  BY PlacesOrdered
<1>4. PlainSize(es) \in Nat /\ PlainSize(es) >= count + W
  <2>1. PlainSize(es) = at[n + 1]
    BY PlacesOrdered
  <2>2. n + 1 \in 1..n + 1
    BY <1>2
  <2>3. at[n + 1] \in Nat /\ count + W <= at[n + 1]
    BY <1>3, <2>2
  <2>. QED
    BY <1>1, <2>1, <2>3 DEF W
<1>5. IndexFields(es) = {<<0, W, off>>, <<W, W, 1>>, <<2 * W, W, off>>,
                         <<3 * W, W, KeySize[es[1].key]>>, <<4 * W, KeySize[es[1].key], es[1].key>>}
  BY DEF IndexFields
<1>6. /\ BlockField(es)[1] = off
      /\ BloomField(es, h)[1] = off + W /\ BloomField(es, h)[3] = BuiltBloom(es, h)
      /\ CountField(es)[1] = count /\ CountField(es)[3] = n
  BY DEF BlockField, BloomField, CountField
<1>7. ASSUME NEW i \in 1..n, NEW y \in EntryFields(es[i], at[i]) PROVE y[1] \in Nat /\ y[1] >= count + W
  <2>1. at[i] \in Nat /\ count + W <= at[i]
    BY <1>2, <1>3
  <2>2. y[1] \in Nat /\ at[i] <= y[1]
    BY <2>1, EntryFieldPlace
  <2>. QED
    BY <1>1, <2>1, <2>2 DEF W
<1>8. \A y \in f.fields :
         \/ y \in IndexFields(es) \/ y = BlockField(es) \/ y = BloomField(es, h) \/ y = CountField(es)
         \/ \E i \in 1..n : y \in EntryFields(es[i], at[i])
         \/ y[1] \in Nat /\ y[1] >= PlainSize(es)
  BY FieldKinds
<1>9. <<4 * W, KeySize[es[1].key], es[1].key>> \in f.fields /\ BloomField(es, h) \in f.fields /\ CountField(es) \in f.fields
  BY <1>5, FieldKinds
<1>10. ASSUME NEW y \in IndexFields(es)
       PROVE  y[1] \in Nat /\ y[1] <= 4 * W /\ (y[1] = 4 * W => y[3] = es[1].key)
  <2>1. \/ y[1] = 0 \/ y[1] = W \/ y[1] = 2 * W \/ y[1] = 3 * W
        \/ y[1] = 4 * W /\ y[3] = es[1].key
    BY <1>5
  <2>. QED
    BY <2>1 DEF W
<1>. HIDE DEF off, count, at, n
<1>11. ASSUME NEW y \in f.fields
       PROVE  /\ y[1] = 4 * W => y[3] = es[1].key
              /\ y[1] = off + W => y[3] = BuiltBloom(es, h)
              /\ y[1] = count => y[3] = n
  <2>1. CASE y \in IndexFields(es)
    <3>1. y[1] \in Nat /\ y[1] <= 4 * W /\ (y[1] = 4 * W => y[3] = es[1].key)
      BY <1>10, <2>1
    <3>. QED
      BY <1>1, <3>1 DEF W
  <2>2. CASE y = BlockField(es)
    <3>1. y[1] = off
      BY <1>6, <2>2
    <3>. QED
      BY <1>1, <3>1 DEF W
  <2>3. CASE y = BloomField(es, h)
    <3>1. y[1] = off + W /\ y[3] = BuiltBloom(es, h)
      BY <1>6, <2>3
    <3>. QED
      BY <1>1, <3>1 DEF W
  <2>4. CASE y = CountField(es)
    <3>1. y[1] = count /\ y[3] = n
      BY <1>6, <2>4
    <3>. QED
      BY <1>1, <3>1 DEF W
  <2>5. CASE y[1] \in Nat /\ y[1] >= count + W
    BY <1>1, <2>5 DEF W
  <2>6. CASE \E i \in 1..n : y \in EntryFields(es[i], at[i])
    BY <1>7, <2>5, <2>6
  <2>7. CASE y[1] \in Nat /\ y[1] >= PlainSize(es)
    <3>1. y[1] >= count + W
      BY <1>1, <1>4, <2>7 DEF W
    <3>. QED
      BY <2>5, <2>7, <3>1
  <2>. QED
    BY <1>8, <2>1, <2>2, <2>3, <2>4, <2>6, <2>7
<1>12. Field(f, 4 * W) = es[1].key
  <2>. DEFINE x == <<4 * W, KeySize[es[1].key], es[1].key>>
  <2>1. x \in f.fields /\ x[1] = 4 * W /\ x[3] = es[1].key
    BY <1>9
  <2>. HIDE DEF x
  <2>2. \A y \in f.fields : y[1] = 4 * W => y[3] = x[3]
    BY <1>11, <2>1
  <2>. QED
    BY <2>1, <2>2, FieldIs
<1>13. HasField(f, off + W) /\ Field(f, off + W) = BuiltBloom(es, h)
  <2>. DEFINE x == BloomField(es, h)
  <2>1. x \in f.fields /\ x[1] = off + W /\ x[3] = BuiltBloom(es, h)
    BY <1>6, <1>9
  <2>. HIDE DEF x
  <2>2. \A y \in f.fields : y[1] = off + W => y[3] = x[3]
    BY <1>11, <2>1
  <2>. QED
    BY <2>1, <2>2, FieldIs
<1>14. Field(f, count) = n
  <2>. DEFINE x == CountField(es)
  <2>1. x \in f.fields /\ x[1] = count /\ x[3] = n
    BY <1>6, <1>9
  <2>. HIDE DEF x
  <2>2. \A y \in f.fields : y[1] = count => y[3] = x[3]
    BY <1>11, <2>1
  <2>. QED
    BY <2>1, <2>2, FieldIs
<1>. QED
  BY <1>12, <1>13, <1>14 DEF off, count, n

\* What is read of an entry.
EntryAt(f, e, p) ==
    /\ Field(f, p) = KeySize[e.key] /\ Field(f, p + W) = ValueSize[e.value]
    /\ Field(f, p + 2 * W) = e.key /\ Field(f, p + 2 * W + KeySize[e.key]) = e.value

\* It is what was written.
LEMMA EntryRead ==
    ASSUME NEW es, Written(es), SizesPositive, NEW h, NEW f, Holds(f.fields, es, h), NEW i \in 1..Len(es)
    PROVE  EntryAt(f, es[i], EntryPlaces(es)[i])
<1>. DEFINE off == IndexSize(es)
            count == CountPlace(es)
            at == EntryPlaces(es)
            n == Len(es)
            p == at[i]
            a == KeySize[es[i].key]
            v == ValueSize[es[i].value]
            size == EntrySize(es[i])
<1>1. off \in Nat /\ count \in Nat /\ off > 4 * W /\ count >= off + 2 * W
  BY PlacesOrdered
<1>2. n \in Nat /\ n > 0
  BY DEF Written
<1>3. \A j \in 1..n + 1 : at[j] \in Nat /\ count + W <= at[j]
  BY PlacesOrdered
<1>4. \A j \in 1..n : \A k \in 1..n + 1 : j < k => at[j] + EntrySize(es[j]) <= at[k]
  BY PlacesOrdered
<1>5. PlainSize(es) = at[n + 1]
  BY PlacesOrdered
<1>6. a \in Nat /\ v \in Nat /\ size \in Nat /\ size = a + v + 2 * W /\ a > 0 /\ v > 0
  <2>1. /\ a \in Nat /\ v \in Nat /\ size \in Nat
        /\ es[i].key \in Key /\ es[i].value \in Value
    BY EntryType
  <2>. QED
    BY <2>1 DEF EntrySize, SizesPositive
<1>7. \A y \in f.fields :
         \/ y \in IndexFields(es) \/ y = BlockField(es) \/ y = BloomField(es, h) \/ y = CountField(es)
         \/ \E j \in 1..n : y \in EntryFields(es[j], at[j])
         \/ y[1] \in Nat /\ y[1] >= PlainSize(es)
  BY FieldKinds
<1>8. EntryFields(es[i], p) \subseteq f.fields
  BY FieldKinds
<1>9. ASSUME NEW y \in IndexFields(es) PROVE y[1] \in Nat /\ y[1] <= 4 * W
  <2>1. y[1] = 0 \/ y[1] = W \/ y[1] = 2 * W \/ y[1] = 3 * W \/ y[1] = 4 * W
    BY DEF IndexFields
  <2>. QED
    BY <2>1 DEF W
<1>10. BlockField(es)[1] = off /\ BloomField(es, h)[1] = off + W /\ CountField(es)[1] = count
  BY DEF BlockField, BloomField, CountField
<1>11. ASSUME NEW j \in 1..n, NEW y \in EntryFields(es[j], at[j])
       PROVE  y[1] \in Nat /\ at[j] <= y[1] /\ y[1] < at[j] + EntrySize(es[j])
  <2>1. at[j] \in Nat
    BY <1>2, <1>3
  <2>. QED
    BY <2>1, EntryFieldPlace
<1>12. p \in Nat /\ count + W <= p /\ i \in 1..n + 1 /\ i \in 1..n
  <2>1. i \in 1..n + 1 /\ i \in 1..n
    BY <1>2
  <2>. QED
    BY <1>3, <2>1
<1>13. EntryFields(es[i], p) = {<<p, W, a>>, <<p + W, W, v>>, <<p + 2 * W, a, es[i].key>>,
                                <<p + 2 * W + a, v, es[i].value>>}
  BY DEF EntryFields
<1>14. p + size <= PlainSize(es)
  <2>1. i < n + 1 /\ n + 1 \in 1..n + 1
    BY <1>2, <1>12
  <2>. QED
    BY <1>4, <1>5, <1>12, <2>1
<1>15. ASSUME NEW y \in EntryFields(es[i], p)
       PROVE  /\ y[1] = p => y[3] = a
              /\ y[1] = p + W => y[3] = v
              /\ y[1] = p + 2 * W => y[3] = es[i].key
              /\ y[1] = p + 2 * W + a => y[3] = es[i].value
  BY <1>12, EntryFieldPlace
<1>16. PlainSize(es) \in Nat
  BY PlainSizeType
<1>. DEFINE Here(y) == y[1] \in Nat /\ p <= y[1] /\ y[1] < p + size
<1>. HIDE DEF off, count, n, a, v, size
<1>17. ASSUME NEW y \in f.fields, Here(y) PROVE y \in EntryFields(es[i], p)
  <2>1. ASSUME y \in IndexFields(es) \/ y = BlockField(es) \/ y = BloomField(es, h) \/ y = CountField(es)
        PROVE  FALSE
    <3>1. CASE y \in IndexFields(es)
      <4>1. y[1] <= 4 * W
        BY <1>9, <3>1
      <4>. QED
        BY <1>1, <1>12, <1>17, <4>1 DEF W
    <3>2. CASE y[1] = off \/ y[1] = off + W \/ y[1] = count
      BY <1>1, <1>12, <1>17, <3>2 DEF W
    <3>. QED
      BY <1>10, <2>1, <3>1, <3>2
  <2>2. ~ (y[1] >= PlainSize(es))
    BY <1>6, <1>12, <1>14, <1>16, <1>17
  <2>3. PICK j \in 1..n : y \in EntryFields(es[j], at[j])
    BY <1>7, <2>1, <2>2
  <2>4. y[1] \in Nat /\ at[j] <= y[1] /\ y[1] < at[j] + EntrySize(es[j])
    BY <1>11, <2>3
  <2>5. j \in 1..n + 1 /\ at[j] \in Nat /\ EntrySize(es[j]) \in Nat
    <3>1. j \in 1..n + 1
      BY <1>2
    <3>. QED
      BY <1>3, <3>1, EntryType DEF n
  <2>6. ~ (j < i)
    <3>. SUFFICES ASSUME j < i PROVE FALSE
      OBVIOUS
    <3>1. at[j] + EntrySize(es[j]) <= p
      BY <1>4, <1>12
    <3>. QED
      BY <1>12, <1>17, <2>4, <2>5, <3>1
  <2>7. ~ (i < j)
    <3>. SUFFICES ASSUME i < j PROVE FALSE
      OBVIOUS
    <3>. DEFINE q == at[j]
                z == y[1]
    <3>1. p + size <= q
      BY <1>4, <1>12, <2>5 DEF size
    <3>2. p \in Nat /\ size \in Nat /\ q \in Nat /\ z \in Nat /\ q <= z /\ z < p + size
      BY <1>6, <1>12, <1>17, <2>4, <2>5
    <3>. HIDE DEF q, z, p
    <3>. QED
      BY <3>1, <3>2
  <2>8. i = j
    BY <1>2, <1>12, <2>6, <2>7
  <2>. QED
    BY <2>3, <2>8
<1>. DEFINE x1 == <<p, W, a>>
            x2 == <<p + W, W, v>>
            x3 == <<p + 2 * W, a, es[i].key>>
            x4 == <<p + 2 * W + a, v, es[i].value>>
<1>18. x1 \in f.fields /\ x2 \in f.fields /\ x3 \in f.fields /\ x4 \in f.fields
  BY <1>8, <1>13
<1>19. /\ x1[1] = p /\ x1[3] = a /\ x2[1] = p + W /\ x2[3] = v
       /\ x3[1] = p + 2 * W /\ x3[3] = es[i].key /\ x4[1] = p + 2 * W + a /\ x4[3] = es[i].value
  OBVIOUS
<1>. HIDE DEF x1, x2, x3, x4, p
<1>20. ASSUME NEW y \in f.fields
       PROVE  /\ y[1] = p => y[3] = a
              /\ y[1] = p + W => y[3] = v
              /\ y[1] = p + 2 * W => y[3] = es[i].key
              /\ y[1] = p + 2 * W + a => y[3] = es[i].value
  <2>. DEFINE z == y[1]
              Places == {p, p + W, p + 2 * W, p + 2 * W + a}
  <2>1. ASSUME NEW q \in Places PROVE q \in Nat /\ p <= q /\ q < p + size
    BY <1>6, <1>12 DEF W
  <2>2. z \in Places => Here(y)
    <3>. HIDE DEF Places
    <3>. QED
      BY <2>1
  <2>. HIDE DEF Here
  <2>3. CASE Here(y)
    BY <1>15, <1>17, <2>3
  <2>4. CASE z \notin Places
    BY <2>4
  <2>. QED
    BY <2>2, <2>3, <2>4
<1>. HIDE DEF Here
<1>21. Field(f, p) = a
  BY <1>18, <1>19, <1>20, FieldIs
<1>22. Field(f, p + W) = v
  BY <1>18, <1>19, <1>20, FieldIs
<1>23. Field(f, p + 2 * W) = es[i].key
  BY <1>18, <1>19, <1>20, FieldIs
<1>24. Field(f, p + 2 * W + a) = es[i].value
  BY <1>18, <1>19, <1>20, FieldIs
<1>. QED
  BY <1>21, <1>22, <1>23, <1>24 DEF p, a, v, EntryAt

\* DataBlockIndex::Load finds the entries where the constructor put them.
LEMMA BlockRead ==
    ASSUME NEW es, Written(es), SizesPositive, NEW h, NEW f, Holds(f.fields, es, h), NEW key
    PROVE  LET b == LoadBlock(f, key, IndexSize(es)) IN
           b.key = key /\ b.bloom = BuiltBloom(es, h) /\ b.entries = es
<1>. DEFINE off == IndexSize(es)
            n == Len(es)
            count == CountPlace(es)
            at == EntryPlaces(es)
            bloom == BuiltBloom(es, h)
            Next1(p) == p + 2 * W + Field(f, p) + Field(f, p + W)
            Step(g, i) == IF i = 1 THEN count + W ELSE Next1(g[i - 1])
            Is(g) == g = [i \in 1..n |-> Step(g, i)]
            found == CHOOSE g : Is(g)
            Read(g) == [i \in 1..n |-> [key |-> Field(f, g[i] + 2 * W),
                                        value |-> Field(f, g[i] + 2 * W + Field(f, g[i]))]]
<1>1. n \in Nat /\ n > 0 /\ es \in [1..n -> Item]
  BY DEF Written
<1>2. /\ Field(f, off + W) = bloom
      /\ Field(f, count) = n
  BY HeadRead
<1>3. bloom.n = n
  BY BloomKnows
<1>4. off + W + BloomSize(bloom.n) = count
  BY <1>3 DEF CountPlace
<1>5. LoadBlock(f, key, off) = [key |-> key, offset |-> off, bloom |-> bloom, entries |-> Read(found)]
  <2>. DEFINE b1 == Field(f, off + W)
              c1 == off + W + BloomSize(b1.n)
              n1 == Field(f, c1)
              found1 == CHOOSE g : g = [i \in 1..n1 |-> IF i = 1 THEN c1 + W ELSE Next1(g[i - 1])]
  <2>1. LoadBlock(f, key, off) = [key |-> key, offset |-> off, bloom |-> b1,
          entries |-> [i \in 1..n1 |-> [key |-> Field(f, found1[i] + 2 * W),
                                        value |-> Field(f, found1[i] + 2 * W + Field(f, found1[i]))]]]
    BY DEF LoadBlock
  <2>2. b1 = bloom
    BY <1>2
  <2>3. c1 = count
    BY <1>4, <2>2
  <2>4. n1 = n
    BY <1>2, <2>3
  <2>. HIDE DEF b1, c1, n1, Next1, count, n, bloom, off
  <2>5. found1 = found
    BY <2>3, <2>4
  <2>. HIDE DEF found1, found
  <2>. QED
    BY <2>1, <2>2, <2>4, <2>5
<1>6. Offsets(at, es, count + W)
  BY PlacesOrdered
<1>7. at[1] = count + W /\ \A i \in 1..n : at[i + 1] = at[i] + EntrySize(es[i]) /\ at[i] \in Nat
  BY <1>1, <1>6 DEF Offsets
<1>8. ASSUME NEW i \in 1..n
      PROVE  /\ Field(f, at[i] + 2 * W) = es[i].key
             /\ Field(f, at[i] + 2 * W + Field(f, at[i])) = es[i].value
             /\ Next1(at[i]) = at[i + 1]
  <2>. DEFINE p == at[i]
              a == KeySize[es[i].key]
              v == ValueSize[es[i].value]
  <2>0. EntryAt(f, es[i], p)
    BY EntryRead
  <2>1. Field(f, p) = a /\ Field(f, p + W) = v
    BY <2>0 DEF EntryAt
  <2>2. Field(f, p + 2 * W) = es[i].key /\ Field(f, p + 2 * W + a) = es[i].value
    BY <2>0 DEF EntryAt
  <2>3. at[i + 1] = p + (a + v + 2 * W) /\ p \in Nat
    BY <1>7 DEF EntrySize
  <2>4. a \in Nat /\ v \in Nat
    BY EntryType
  <2>5. Next1(p) = p + 2 * W + a + v
    BY <2>1
  <2>. HIDE DEF p, a, v, Next1
  <2>6. Next1(p) = at[i + 1]
    BY <2>3, <2>4, <2>5 DEF W
  <2>7. Field(f, p + 2 * W + Field(f, p)) = es[i].value
    BY <2>1, <2>2
  <2>. QED
    BY <2>2, <2>6, <2>7 DEF p
<1>. HIDE DEF Next1, at, count, n
<1>. DEFINE w == [i \in 1..n |-> at[i]]
<1>9. Is(w)
  <2>1. ASSUME NEW i \in 1..n PROVE w[i] = Step(w, i)
    <3>1. CASE i = 1
      BY <1>7, <3>1
    <3>2. CASE i # 1
      <4>1. i - 1 \in 1..n /\ i - 1 + 1 = i
        BY <1>1, <3>2
      <4>2. w[i] = at[i] /\ w[i - 1] = at[i - 1]
        BY <4>1
      <4>3. Next1(at[i - 1]) = at[i]
        BY <1>8, <4>1
      <4>. QED
        BY <3>2, <4>2, <4>3
    <3>. QED
      BY <3>1, <3>2
  <2>2. w = [i \in 1..n |-> w[i]]
    OBVIOUS
  <2>. HIDE DEF Step, w
  <2>. QED
    BY <2>1, <2>2
<1>10. Is(found)
  <2>. HIDE DEF Is, w
  <2>. QED
    BY <1>9
<1>. HIDE DEF found
<1>11. \A i \in 1..n : found[i] = Step(found, i)
  <2>. HIDE DEF Step
  <2>. QED
    BY <1>10
<1>. HIDE DEF Is
<1>. DEFINE f1 == [i \in 0..n - 1 |-> found[i + 1]]
            g1 == [i \in 0..n - 1 |-> at[i + 1]]
<1>12. \A i \in 0..n - 1 : f1[i] = found[i + 1] /\ g1[i] = at[i + 1]
  OBVIOUS
<1>. HIDE DEF f1, g1
<1>13. f1[0] = g1[0]
  <2>1. 0 \in 0..n - 1 /\ 1 \in 1..n /\ 0 + 1 = 1
    BY <1>1
  <2>2. found[1] = count + W
    BY <1>11, <2>1
  <2>. QED
    BY <1>7, <1>12, <2>1, <2>2
<1>14. ASSUME NEW i \in 1..n - 1, f1[i - 1] = g1[i - 1] PROVE f1[i] = g1[i]
  <2>1. i - 1 \in 0..n - 1 /\ i \in 0..n - 1 /\ i - 1 + 1 = i /\ i + 1 \in 1..n /\ i \in 1..n /\ i + 1 # 1 /\ i + 1 - 1 = i
    BY <1>1
  <2>2. found[i] = at[i]
    BY <1>12, <1>14, <2>1
  <2>3. found[i + 1] = Next1(found[i])
    BY <1>11, <2>1
  <2>4. Next1(at[i]) = at[i + 1]
    BY <1>8, <2>1
  <2>. QED
    BY <1>12, <2>1, <2>2, <2>3, <2>4
<1>15. ASSUME NEW i \in 1..n PROVE found[i] = at[i]
  <2>1. n - 1 \in Nat /\ i - 1 \in 0..n - 1 /\ i - 1 + 1 = i
    BY <1>1
  <2>2. \A j \in 0..n - 1 : f1[j] = g1[j]
    BY <1>13, <1>14, <2>1, Agree
  <2>. QED
    BY <1>12, <2>1, <2>2
<1>16. Read(found) = es
  <2>1. ASSUME NEW i \in 1..n
        PROVE  [key |-> Field(f, found[i] + 2 * W), value |-> Field(f, found[i] + 2 * W + Field(f, found[i]))] = es[i]
    <3>1. es[i] \in Item
      BY <1>1
    <3>2. es[i] = [key |-> es[i].key, value |-> es[i].value]
      BY <3>1 DEF Item
    <3>3. Field(f, found[i] + 2 * W) = es[i].key /\ Field(f, found[i] + 2 * W + Field(f, found[i])) = es[i].value
      BY <1>8, <1>15
    <3>. QED
      BY <3>2, <3>3
  <2>2. es = [i \in 1..n |-> es[i]]
    BY <1>1
  <2>. QED
    BY <2>1, <2>2
<1>. DEFINE b == LoadBlock(f, key, off)
            r == Read(found)
<1>17. b = [key |-> key, offset |-> off, bloom |-> bloom, entries |-> r]
  BY <1>5
<1>. HIDE DEF b, r, bloom, off
<1>18. b.key = key /\ b.bloom = bloom /\ b.entries = r
  BY <1>17
<1>. QED
  BY <1>16, <1>18 DEF b, r, bloom, off

\* The iterator over a table with one block.
LEMMA ScanRead ==
    ASSUME NEW es, Written(es), NEW t, Len(t.blocks) = 1, t.blocks[1].entries = es
    PROVE  Scan(t) = es
<1>. DEFINE cat(a, b) == a \o b
            Step(g, i) == IF i = 0 THEN <<>> ELSE cat(g[i - 1], t.blocks[i].entries)
            Is(g) == g = [i \in 0..1 |-> Step(g, i)]
            before == CHOOSE g : Is(g)
            w == [i \in 0..1 |-> IF i = 0 THEN <<>> ELSE es]
<1>1. Scan(t) = before[1]
  BY DEF Scan
<1>2. cat(<<>>, es) = es
  BY ConcatEmptySeq DEF Written
<1>. HIDE DEF cat
<1>3. Is(w)
  <2>1. 0..1 = {0, 1}
    OBVIOUS
  <2>2. w[0] = <<>> /\ w[1] = es
    OBVIOUS
  <2>3. w = [i \in 0..1 |-> w[i]]
    OBVIOUS
  <2>. HIDE DEF w
  <2>4. Step(w, 0) = w[0]
    BY <2>2
  <2>5. Step(w, 1) = w[1]
    BY <1>2, <2>2
  <2>6. \A i \in 0..1 : w[i] = Step(w, i)
    <3>. HIDE DEF Step
    <3>. QED
      BY <2>1, <2>4, <2>5
  <2>. HIDE DEF Step
  <2>. QED
    BY <2>3, <2>6
<1>4. Is(before)
  <2>. HIDE DEF Is, w
  <2>. QED
    BY <1>3
<1>. HIDE DEF before
<1>5. before[0] = Step(before, 0) /\ before[1] = Step(before, 1)
  <2>. HIDE DEF Step
  <2>. QED
    BY <1>4
<1>. HIDE DEF Is
<1>6. before[0] = <<>>
  BY <1>5
<1>7. before[1] = cat(before[0], t.blocks[1].entries)
  BY <1>5
<1>. QED
  BY <1>1, <1>2, <1>6, <1>7

\* Load of a plain file, and what is read of the table.
LEMMA PlainReads ==
    ASSUME NEW es, Written(es), SizesPositive, NEW h, NEW f, Holds(f.fields, es, h)
    PROVE  /\ Loaded(f).state = "open" /\ Scan(Loaded(f)) = es
           /\ \A k \in Key : Get(Loaded(f), k) = Answer(es, k)
<1>. DEFINE off == IndexSize(es)
            A == PlainFile(es, h).fields
            B == f.fields \ A
            t == OpenTable(f, off)
            b == t.blocks[1]
<1>1. off \in Nat /\ off >= 4 * W /\ PlainSize(es) \in Nat /\ PlainSize(es) >= off + 2 * W
  BY IndexSizeType, PlainSizeType
<1>2. Indexed(A, off)
  BY PlainIndexed
<1>3. A \subseteq f.fields /\ \A x \in B : x[1] \in Nat /\ x[1] >= PlainSize(es)
  BY DEF Holds
<1>. HIDE DEF off, A
<1>4. \A x \in B : x[1] \in Nat /\ x[1] > off
  BY <1>1, <1>3 DEF W
<1>5. f.fields = A \cup B
  BY <1>3
<1>. HIDE DEF B
<1>6. Low(B, off)
  BY <1>1, <1>4, LowFar
<1>7. Low(A \cup B, off)
  BY <1>2, <1>6, LowBoth DEF Indexed
<1>8. Indexed(f.fields, off)
  BY <1>2, <1>5, <1>7 DEF Indexed
<1>9. HasField(f, off + W) /\ Field(f, 4 * W) = es[1].key
  BY HeadRead DEF off
<1>10. Loaded(f) = t
  BY <1>1, <1>8, <1>9, LoadedTable
<1>11. t.state = "open" /\ Len(t.blocks) = 1 /\ b = LoadBlock(f, es[1].key, off)
  BY <1>9, OpenParts
<1>. HIDE DEF t
<1>12. b.key = es[1].key /\ b.bloom = BuiltBloom(es, h) /\ b.entries = es
  BY <1>11, BlockRead DEF off
<1>13. \A i \in 1..Len(es) : BloomCheck(b.bloom, es[i].key)
  BY <1>12, BloomKnows
<1>14. Scan(t) = es
  BY <1>11, <1>12, ScanRead
<1>15. \A k \in Key : Get(t, k) = Answer(es, k)
  BY <1>11, <1>12, <1>13, TableAnswers
<1>. QED
  BY <1>10, <1>11, <1>14, <1>15

\* Every file that was not packed holds what it was written from.
FileHolds(id) ==
    file[id] # NoFile /\ id \notin packed =>
        Written(built[id]) /\ \E h \in Hashes : Holds(file[id].fields, built[id], h)

ReadInv == built = [id \in Id |-> built[id]] /\ \A id \in Id : FileHolds(id)

\* A plain file written over another one.
LEMMA OverwriteHolds ==
    ASSUME NEW es, Written(es), NEW h, NEW old, \A x \in old.fields : x[1] \in Nat
    PROVE  Holds(Overwrite(old, PlainFile(es, h)).fields, es, h)
<1>. DEFINE new == PlainFile(es, h)
            A == new.fields
            B == {x \in old.fields : x[1] >= new.size}
<1>1. new.size = PlainSize(es)
  BY PlainIndexed
<1>2. Overwrite(old, new).fields = A \cup B
  BY DEF Overwrite
<1>3. \A x \in B : x[1] \in Nat /\ x[1] >= PlainSize(es)
  BY <1>1
<1>. HIDE DEF B, new
<1>. QED
  BY <1>2, <1>3 DEF Holds, new

\* A constructor that does not compress.
LEMMA PlainConstruct ==
    ASSUME SstInv, ReadInv, NEW id \in Id, NEW m \in Contents, NEW h \in Hashes,
           Construct(id, Entries(m), PlainFile(Entries(m), h)), packed' = packed \ {id}
    PROVE  ReadInv'
<1>. DEFINE es == Entries(m)
            f == Overwrite(file[id], PlainFile(es, h))
<1>1. Written(es)
  BY EntriesWritten
<1>2. \A x \in file[id].fields : x[1] \in Nat
  <2>1. CASE file[id] = NoFile
    <3>1. file[id].fields = {}
      BY <2>1 DEF NoFile
    <3>. QED
      BY <3>1
  <2>2. CASE IndexOK(file[id])
    BY <2>2 DEF IndexOK, Indexed, Low
  <2>. QED
    BY <2>1, <2>2 DEF SstInv, FilesOK
<1>. HIDE DEF es
<1>3. Holds(f.fields, es, h)
  BY <1>1, <1>2, OverwriteHolds
<1>4. file' = [file EXCEPT ![id] = f] /\ built' = [built EXCEPT ![id] = es]
  BY DEF Construct, es
<1>. HIDE DEF f
<1>5. file = [i \in Id |-> file[i]] /\ built = [i \in Id |-> built[i]]
  BY DEF SstInv, FilesOK, ReadInv
<1>6. file'[id] = f /\ built'[id] = es
  BY <1>4, <1>5
<1>7. \A i \in Id : i # id => file'[i] = file[i] /\ built'[i] = built[i] /\ (i \in packed' <=> i \in packed)
  BY <1>4, <1>5
<1>8. built' = [i \in Id |-> built'[i]]
  <2>1. built' = [i \in Id |-> IF i = id THEN es ELSE built[i]]
    BY <1>4, <1>5
  <2>. QED
    BY <2>1
<1>9. ASSUME NEW i \in Id PROVE FileHolds(i)'
  <2>1. CASE i = id
    BY <1>1, <1>3, <1>6, <2>1 DEF FileHolds
  <2>2. CASE i # id
    <3>1. FileHolds(i)
      BY DEF ReadInv
    <3>. QED
      BY <1>7, <2>2, <3>1 DEF FileHolds
  <2>. QED
    BY <2>1, <2>2
<1>. QED
  BY <1>8, <1>9 DEF ReadInv

\* One that does.
LEMMA PackedConstruct ==
    ASSUME SstInv, ReadInv, NEW id \in Id, NEW es, NEW new,
           Construct(id, es, new), packed' = packed \cup {id}
    PROVE  ReadInv'
<1>1. file = [i \in Id |-> file[i]] /\ built = [i \in Id |-> built[i]]
  BY DEF SstInv, FilesOK, ReadInv
<1>. DEFINE f == Overwrite(file[id], new)
<1>2. file' = [file EXCEPT ![id] = f] /\ built' = [built EXCEPT ![id] = es]
  BY DEF Construct
<1>. HIDE DEF f
<1>3. \A i \in Id : i # id => file'[i] = file[i] /\ built'[i] = built[i] /\ (i \in packed' <=> i \in packed)
  BY <1>1, <1>2
<1>4. built' = [i \in Id |-> built'[i]]
  <2>1. built' = [i \in Id |-> IF i = id THEN es ELSE built[i]]
    BY <1>1, <1>2
  <2>. QED
    BY <2>1
<1>5. ASSUME NEW i \in Id PROVE FileHolds(i)'
  <2>1. CASE i = id
    BY <2>1 DEF FileHolds
  <2>2. CASE i # id
    <3>1. FileHolds(i)
      BY DEF ReadInv
    <3>. QED
      BY <1>3, <2>2, <3>1 DEF FileHolds
  <2>. QED
    BY <2>1, <2>2
<1>. QED
  BY <1>4, <1>5 DEF ReadInv

\* A step keeps what files hold.
LEMMA ReadStep ==
    ASSUME SstInv, ReadInv, [Next]_vars
    PROVE  ReadInv'
<1>1. CASE UNCHANGED <<file, built, packed>>
  BY <1>1 DEF ReadInv, FileHolds
<1>2. CASE \E id \in Id, m \in Contents : \E h \in Hashes : BuildFromEntries(id, m, h) \/ BuildFromMemtable(id, m, h)
  BY <1>2, PlainConstruct DEF BuildFromEntries, BuildFromMemtable
<1>3. CASE \E id \in Id, m \in Contents :
             BuildPackedFromEntries(id, m, PackedBytes) \/ BuildPackedFromMemtable(id, m, PackedBytes)
  BY <1>3, PackedConstruct DEF BuildPackedFromEntries, BuildPackedFromMemtable
<1>4. CASE \E id \in Id : LoadTable(id) \/ CloseTable(id) \/ Prefetch(id) \/ RemoveCached(id)
  BY <1>1, <1>4 DEF LoadTable, CloseTable, Prefetch, RemoveCached
<1>5. CASE \E t \in Thread : (\E id \in Id : GuardOpen(t, id)) \/ GuardSetData(t) \/ GuardClose(t)
  BY <1>1, <1>5 DEF GuardOpen, GuardSetData, GuardClose
<1>6. CASE Restart \/ ClearCache \/ ResetStats
  BY <1>1, <1>6 DEF Restart, ClearCache, ResetStats
<1>7. CASE UNCHANGED vars
  BY <1>1, <1>7 DEF vars
<1>. QED
  BY <1>2, <1>3, <1>4, <1>5, <1>6, <1>7 DEF Next

(***************************************************************************)
(* A lookup in an open table answers what the table was written from, and  *)
(* iteration yields its entries in order, for tables of every size, every  *)
(* hash function of the filter and whatever older file lies under the new  *)
(* one: the offsets the constructors compute are the ones Load walks to,   *)
(* both binary searches stop at the right place and the filter knows every *)
(* key.  For constructors that do not compress, and keys and values of at  *)
(* least one byte.                                                         *)
(***************************************************************************)
THEOREM TablesReadBack ==
    ASSUME SizesPositive
    PROVE  Spec => []TableReads
<1>1. Init => SstInv /\ ReadInv
  <2>. SUFFICES ASSUME Init PROVE SstInv /\ ReadInv
    OBVIOUS
  <2>1. SstInv
    BY InitInv
  <2>2. file = [id \in Id |-> NoFile] /\ built = [id \in Id |-> <<>>]
    BY DEF Init
  <2>3. built = [id \in Id |-> built[id]] /\ \A id \in Id : file[id] = NoFile
    BY <2>2
  <2>. QED
    BY <2>1, <2>3 DEF ReadInv, FileHolds
<1>2. SstInv /\ ReadInv /\ [Next]_vars => SstInv' /\ ReadInv'
  BY InvStep, ReadStep
<1>3. SstInv /\ ReadInv => TableReads
  <2>. SUFFICES ASSUME SstInv, ReadInv, NEW id \in Id, table[id] # Closed, id \notin packed
                PROVE  ReadsBack(id)
    BY DEF TableReads
  <2>1. id \in used /\ table[id] = Loaded(file[id])
    BY DEF SstInv, TablesOK
  <2>2. IndexOK(file[id])
    BY <2>1 DEF SstInv, FilesOK
  <2>3. file[id] # NoFile
    <3>1. NoFile.fields = {}
      BY DEF NoFile
    <3>. QED
      BY <2>2, <3>1 DEF IndexOK, Indexed
  <2>4. Written(built[id]) /\ \E h \in Hashes : Holds(file[id].fields, built[id], h)
    BY <2>3 DEF ReadInv, FileHolds
  <2>. DEFINE es == built[id]
              t == table[id]
  <2>5. PICK h \in Hashes : Holds(file[id].fields, es, h)
    BY <2>4
  <2>6. t.state = "open" /\ Scan(t) = es
    BY <2>1, <2>4, <2>5, PlainReads
  <2>7. \A k \in Key : Get(t, k) = Answer(es, k)
    BY <2>1, <2>4, <2>5, PlainReads
  <2>. QED
    BY <2>6, <2>7 DEF ReadsBack, Open, Answer
<1>. QED
  BY <1>1, <1>2, <1>3, PTL DEF Spec
=============================================================================
