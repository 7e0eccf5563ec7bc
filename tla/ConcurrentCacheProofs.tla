------------------------ MODULE ConcurrentCacheProofs ------------------------
(***************************************************************************)
(* Proofs about the two-part cache, for any capacities, keys, threads and  *)
(* sketch: map and list agree whatever calls overlap, and the sketch never *)
(* underestimates.                                                         *)
(***************************************************************************)
EXTENDS ConcurrentCache, Extrema, FiniteSetTheorems, FunctionTheorems, SequenceTheorems

(***************************************************************************)
(* One part of the cache; doubled are the keys that were inserted twice.   *)
(***************************************************************************)
PartType(p) ==
    [list : Seq(Nodes(p)), key : [Nodes(p) -> Key \cup {0}], hits : [Nodes(p) -> Nat],
     map : [Key -> Nat]]

Members(c) == {c.list[i] : i \in 1..Len(c.list)}

\* No node is in the list twice, and every node in it has a key.
ListOK(p, c) ==
    /\ Len(c.list) <= Capacity[p]
    /\ \A i, j \in 1..Len(c.list) : c.list[i] = c.list[j] => i = j
    /\ \A n \in Members(c) : c.key[n] \in Key

\* The map leads to nodes in the list, and to all but those of doubled keys.
MapOK(c, doubled) ==
    /\ \A k \in Key : c.map[k] # 0 => c.map[k] \in Members(c) /\ c.key[c.map[k]] = k
    /\ \A n \in Members(c) : c.key[n] \notin doubled => c.map[c.key[n]] = n

PartOK(p, c, doubled) == c \in PartType(p) /\ ListOK(p, c) /\ MapOK(c, doubled)

\* A node moved to the front: the nodes before it move back by one.
LEMMA ToFront ==
    ASSUME NEW S, NEW list \in Seq(S), NEW n \in S, NEW i \in 1..Len(list), list[i] = n,
           \A j, k \in 1..Len(list) : list[j] = list[k] => j = k
    PROVE  /\ <<n>> \o Extract(list, n) \in Seq(S)
           /\ Len(<<n>> \o Extract(list, n)) = Len(list)
           /\ \A j \in 1..Len(list) :
                 (<<n>> \o Extract(list, n))[j] = list[IF j = 1 THEN i ELSE IF j <= i THEN j - 1 ELSE j]
<1>. DEFINE a == SubSeq(list, 1, i - 1)
            b == SubSeq(list, i + 1, Len(list))
<1>0. Len(list) \in Nat /\ i \in Nat /\ \A j \in 1..Len(list) : list[j] \in S
  OBVIOUS
<1>1. Extract(list, n) = a \o b
  <2>1. (CHOOSE j \in DOMAIN list : list[j] = n) = i
    <3>1. DOMAIN list = 1..Len(list)
      OBVIOUS
    <3>. QED
      BY <3>1
  <2>. QED
    BY <2>1 DEF Extract, RemoveAt
<1>2. a \in Seq(S) /\ Len(a) = i - 1 /\ \A j \in 1..i - 1 : a[j] = list[j]
  <2>1. \A j \in 1..i - 1 : list[j] \in S
    BY <1>0
  <2>. QED
    BY <1>0, <2>1, SubSeqProperties
<1>3. b \in Seq(S) /\ Len(b) = Len(list) - i /\ \A j \in 1..Len(list) - i : b[j] = list[i + j]
  <2>1. \A j \in i + 1..Len(list) : list[j] \in S
    BY <1>0
  <2>2. /\ b \in Seq(S) /\ Len(b) = IF i + 1 <= Len(list) THEN Len(list) - (i + 1) + 1 ELSE 0
        /\ \A j \in 1..Len(list) - (i + 1) + 1 : b[j] = list[(i + 1) + j - 1]
    BY <1>0, <2>1, SubSeqProperties
  <2>. QED
    BY <1>0, <2>2
<1>. HIDE DEF a, b
<1>4. /\ a \o b \in Seq(S) /\ Len(a \o b) = Len(list) - 1
      /\ \A j \in 1..Len(list) - 1 : (a \o b)[j] = list[IF j < i THEN j ELSE j + 1]
  <2>1. /\ a \o b \in Seq(S) /\ Len(a \o b) = Len(a) + Len(b)
        /\ \A j \in 1..Len(a) + Len(b) : (a \o b)[j] = IF j <= Len(a) THEN a[j] ELSE b[j - Len(a)]
    <3>1. a \in Seq(S) /\ b \in Seq(S)
      BY <1>2, <1>3
    <3>. QED
      BY ONLY <3>1, ConcatProperties
  <2>2. Len(a) + Len(b) = Len(list) - 1
    BY <1>0, <1>2, <1>3
  <2>3. ASSUME NEW j \in 1..Len(list) - 1 PROVE (a \o b)[j] = list[IF j < i THEN j ELSE j + 1]
    <3>1. CASE j < i
      <4>1. j <= Len(a) /\ j \in 1..i - 1 /\ j \in 1..Len(a) + Len(b)
        BY <1>0, <1>2, <2>2, <3>1
      <4>. QED
        BY <1>2, <2>1, <3>1, <4>1
    <3>2. CASE ~ (j < i)
      <4>1. ~ (j <= Len(a)) /\ j - Len(a) \in 1..Len(list) - i /\ i + (j - Len(a)) = j + 1 /\ j \in 1..Len(a) + Len(b)
        BY <1>0, <1>2, <2>2, <3>2
      <4>. QED
        BY <1>3, <2>1, <3>2, <4>1
    <3>. QED
      BY <3>1, <3>2
  <2>. QED
    BY <2>1, <2>2, <2>3
<1>. DEFINE r == a \o b
<1>. HIDE DEF r
<1>5. r \in Seq(S) /\ Len(r) = Len(list) - 1 /\ \A j \in 1..Len(list) - 1 : r[j] = list[IF j < i THEN j ELSE j + 1]
  BY <1>4 DEF r
<1>6. /\ <<n>> \o r \in Seq(S) /\ Len(<<n>> \o r) = 1 + Len(r)
      /\ \A j \in 1..1 + Len(r) : (<<n>> \o r)[j] = IF j <= 1 THEN n ELSE r[j - 1]
  <2>1. <<n>> \in Seq(S) /\ Len(<<n>>) = 1 /\ <<n>>[1] = n
    OBVIOUS
  <2>2. /\ <<n>> \o r \in Seq(S) /\ Len(<<n>> \o r) = Len(<<n>>) + Len(r)
        /\ \A j \in 1..Len(<<n>>) + Len(r) : (<<n>> \o r)[j] = IF j <= Len(<<n>>) THEN <<n>>[j] ELSE r[j - Len(<<n>>)]
    BY <1>5, <2>1, ConcatProperties
  <2>. QED
    BY <1>5, <2>1, <2>2
<1>7. ASSUME NEW j \in 1..Len(list)
      PROVE  (<<n>> \o r)[j] = list[IF j = 1 THEN i ELSE IF j <= i THEN j - 1 ELSE j]
  <2>1. CASE j = 1
    BY <1>0, <1>5, <1>6, <2>1
  <2>2. CASE j # 1
    <3>1. j - 1 \in 1..Len(list) - 1 /\ ~ (j <= 1) /\ j \in 1..1 + Len(r) /\ (j - 1 < i <=> j <= i) /\ (j - 1) + 1 = j
      BY <1>0, <1>5, <2>2
    <3>. QED
      BY <1>5, <1>6, <2>2, <3>1
  <2>. QED
    BY <2>1, <2>2
<1>8. Len(<<n>> \o r) = Len(list)
  BY <1>0, <1>5, <1>6
<1>9. <<n>> \o Extract(list, n) = <<n>> \o r
  BY <1>1 DEF r
<1>. QED
  BY <1>6, <1>7, <1>8, <1>9

\* A new node at the front.
LEMMA OnFront ==
    ASSUME NEW S, NEW list \in Seq(S), NEW n \in S
    PROVE  /\ <<n>> \o list \in Seq(S) /\ Len(<<n>> \o list) = Len(list) + 1
           /\ (<<n>> \o list)[1] = n
           /\ \A j \in 1..Len(list) : (<<n>> \o list)[j + 1] = list[j]
<1>1. <<n>> \in Seq(S) /\ Len(<<n>>) = 1 /\ <<n>>[1] = n /\ Len(list) \in Nat
  OBVIOUS
<1>2. /\ <<n>> \o list \in Seq(S) /\ Len(<<n>> \o list) = Len(<<n>>) + Len(list)
      /\ \A j \in 1..Len(<<n>>) + Len(list) : (<<n>> \o list)[j] = IF j <= Len(<<n>>) THEN <<n>>[j] ELSE list[j - Len(<<n>>)]
  BY <1>1, ConcatProperties
<1>3. ASSUME NEW j \in 1..Len(list) PROVE (<<n>> \o list)[j + 1] = list[j]
  <2>1. j + 1 \in 1..Len(<<n>>) + Len(list) /\ ~ (j + 1 <= Len(<<n>>)) /\ (j + 1) - Len(<<n>>) = j
    BY <1>1
  <2>. QED
    BY <1>2, <2>1
<1>. QED
  BY <1>1, <1>2, <1>3

\* The list without its last node.
LEMMA WithoutLast ==
    ASSUME NEW S, NEW list \in Seq(S), Len(list) > 0
    PROVE  /\ Front(list) \in Seq(S) /\ Len(Front(list)) = Len(list) - 1
           /\ \A j \in 1..Len(list) - 1 : Front(list)[j] = list[j]
           /\ Last(list) = list[Len(list)] /\ Last(list) \in S
<1>1. Len(list) \in Nat /\ \A j \in 1..Len(list) : list[j] \in S
  OBVIOUS
<1>2. \A j \in 1..Len(list) - 1 : list[j] \in S
  BY <1>1
<1>3. /\ Front(list) \in Seq(S) /\ Len(Front(list)) = IF 1 <= Len(list) - 1 THEN (Len(list) - 1) - 1 + 1 ELSE 0
      /\ \A j \in 1..(Len(list) - 1) - 1 + 1 : Front(list)[j] = list[1 + j - 1]
  BY <1>1, <1>2, SubSeqProperties DEF Front
<1>4. \A j \in 1..Len(list) - 1 : Front(list)[j] = list[j]
  BY <1>1, <1>3
<1>5. Last(list) = list[Len(list)] /\ Last(list) \in S
  BY <1>1 DEF Last
<1>6. Len(Front(list)) = Len(list) - 1
  <2>1. \A l \in Nat : l > 0 => (IF 1 <= l - 1 THEN (l - 1) - 1 + 1 ELSE 0) = l - 1
    OBVIOUS
  <2>2. Len(Front(list)) = IF 1 <= Len(list) - 1 THEN (Len(list) - 1) - 1 + 1 ELSE 0
    BY <1>3
  <2>. QED
    BY <1>1, <2>1, <2>2
<1>. QED
  BY <1>3, <1>4, <1>5, <1>6

\* Promote changes the order only.
LEMMA PromoteOK ==
    ASSUME NEW p \in Part, NEW c, NEW doubled, PartOK(p, c, doubled), NEW n \in Members(c)
    PROVE  PartOK(p, Promote(c, n), doubled)
<1>0. /\ c \in PartType(p) /\ n \in Nodes(p) /\ c.hits[n] \in Nat /\ Promotions \in Nat
      /\ c.list \in Seq(Nodes(p)) /\ Len(c.list) \in Nat
  BY CacheAssumption DEF PartOK, PartType, Members
<1>1. CASE c.hits[n] >= Promotions
  <2>. DEFINE d == Promote(c, n)
              list == <<n>> \o Extract(c.list, n)
  <2>1. d = [c EXCEPT !.list = list, !.hits[n] = 0]
    BY <1>1 DEF Promote
  <2>2. PICK i \in 1..Len(c.list) : c.list[i] = n
    BY DEF Members
  <2>3. /\ list \in Seq(Nodes(p)) /\ Len(list) = Len(c.list)
        /\ \A j \in 1..Len(c.list) : list[j] = c.list[IF j = 1 THEN i ELSE IF j <= i THEN j - 1 ELSE j]
    <3>1. \A j, k \in 1..Len(c.list) : c.list[j] = c.list[k] => j = k
      BY DEF PartOK, ListOK
    <3>. QED
      BY <1>0, <2>2, <3>1, ToFront, SMTT(30)
  <2>. HIDE DEF list
  <2>4. d \in PartType(p) /\ d.list = list /\ d.key = c.key /\ d.map = c.map
    <3>1. [c.hits EXCEPT ![n] = 0] \in [Nodes(p) -> Nat] /\ [c EXCEPT !.list = list].hits = c.hits
      BY <1>0 DEF PartType
    <3>2. d = [c EXCEPT !.list = list, !.hits = [c.hits EXCEPT ![n] = 0]]
      BY <2>1, <3>1
    <3>. HIDE DEF d
    <3>. QED
      BY <1>0, <2>3, <3>1, <3>2 DEF PartType
  <2>. HIDE DEF d
  <2>. DEFINE At(j) == IF j = 1 THEN i ELSE IF j <= i THEN j - 1 ELSE j
  <2>5. /\ \A j \in 1..Len(c.list) : At(j) \in 1..Len(c.list) /\ list[j] = c.list[At(j)]
        /\ \A j, k \in 1..Len(c.list) : At(j) = At(k) => j = k
        /\ \A m \in 1..Len(c.list) : \E j \in 1..Len(c.list) : At(j) = m
    <3>1. \A j \in 1..Len(c.list) : At(j) \in 1..Len(c.list) /\ list[j] = c.list[At(j)]
      BY <1>0, <2>3
    <3>2. \A j, k \in 1..Len(c.list) : At(j) = At(k) => j = k
      BY <1>0
    <3>3. ASSUME NEW m \in 1..Len(c.list) PROVE \E j \in 1..Len(c.list) : At(j) = m
      <4>1. CASE m = i
        BY <1>0, <4>1
      <4>2. CASE m < i
        <5>1. m + 1 \in 1..Len(c.list) /\ At(m + 1) = m
          BY <1>0, <4>2
        <5>. QED
          BY <5>1
      <4>3. CASE m > i
        BY <1>0, <4>3
      <4>. QED
        BY <1>0, <4>1, <4>2, <4>3
    <3>. QED
      BY <3>1, <3>2, <3>3
  <2>. HIDE DEF At
  <2>6. Members(d) = Members(c)
    <3>1. Members(d) = {list[j] : j \in 1..Len(c.list)}
      BY <2>3, <2>4 DEF Members
    <3>2. ASSUME NEW m \in 1..Len(c.list) PROVE c.list[m] \in Members(d)
      <4>1. PICK j \in 1..Len(c.list) : At(j) = m
        BY <2>5
      <4>2. list[j] = c.list[m]
        BY <2>5, <4>1
      <4>. QED
        BY <3>1, <4>2
    <3>3. ASSUME NEW j \in 1..Len(c.list) PROVE list[j] \in Members(c)
      <4>1. At(j) \in 1..Len(c.list) /\ list[j] = c.list[At(j)]
        BY <2>5
      <4>. QED
        BY <4>1 DEF Members
    <3>. QED
      BY <3>1, <3>2, <3>3 DEF Members
  <2>7. ListOK(p, d)
    <3>1. ASSUME NEW j \in 1..Len(c.list), NEW k \in 1..Len(c.list), list[j] = list[k] PROVE j = k
      <4>1. At(j) \in 1..Len(c.list) /\ At(k) \in 1..Len(c.list) /\ c.list[At(j)] = c.list[At(k)]
        BY <2>5, <3>1
      <4>2. At(j) = At(k)
        BY <4>1 DEF PartOK, ListOK
      <4>. QED
        BY <2>5, <4>2
    <3>. QED
      BY <2>3, <2>4, <2>6, <3>1 DEF PartOK, ListOK
  <2>8. MapOK(d, doubled)
    BY <2>4, <2>6 DEF PartOK, MapOK
  <2>. QED
    BY <2>4, <2>7, <2>8 DEF PartOK, d
<1>2. CASE ~ (c.hits[n] >= Promotions)
  <2>1. Promote(c, n) = [c EXCEPT !.hits[n] = @ + 1]
    BY <1>2 DEF Promote
  <2>2. /\ Promote(c, n) \in PartType(p) /\ Promote(c, n).list = c.list
        /\ Promote(c, n).key = c.key /\ Promote(c, n).map = c.map
    <3>1. [c.hits EXCEPT ![n] = @ + 1] \in [Nodes(p) -> Nat]
      BY <1>0 DEF PartType
    <3>2. Promote(c, n) = [c EXCEPT !.hits = [c.hits EXCEPT ![n] = @ + 1]]
      BY <2>1
    <3>. QED
      BY <1>0, <3>1, <3>2 DEF PartType
  <2>. QED
    BY <2>2 DEF PartOK, ListOK, MapOK, Members
<1>. QED
  BY <1>1, <1>2

\* PopBack: the key of the node that goes is erased from the map.
LEMMA PopBackOK ==
    ASSUME NEW p \in Part, NEW c, NEW doubled, PartOK(p, c, doubled), Full(p, c)
    PROVE  /\ c.key[Last(c.list)] \in Key
           /\ PartOK(p, PopBack(c), doubled) /\ ~ Full(p, PopBack(c))
           /\ \A k \in Key : c.map[k] = 0 => PopBack(c).map[k] = 0
<1>. DEFINE d == PopBack(c)
            n == Last(c.list)
<1>0. /\ c \in PartType(p) /\ c.list \in Seq(Nodes(p)) /\ Len(c.list) \in Nat /\ Len(c.list) > 0
      /\ c.map \in [Key -> Nat]
  BY CacheAssumption DEF PartOK, PartType, Full
<1>1. /\ Front(c.list) \in Seq(Nodes(p)) /\ Len(Front(c.list)) = Len(c.list) - 1
      /\ \A j \in 1..Len(c.list) - 1 : Front(c.list)[j] = c.list[j]
      /\ n = c.list[Len(c.list)] /\ n \in Nodes(p)
  BY <1>0, WithoutLast
<1>2. n \in Members(c) /\ c.key[n] \in Key
  BY <1>0, <1>1 DEF Members, PartOK, ListOK
<1>3. /\ d \in PartType(p) /\ d.list = Front(c.list) /\ d.key = c.key
      /\ d.map = [c.map EXCEPT ![c.key[n]] = 0]
  BY <1>0, <1>1, <1>2 DEF PopBack, PartType
<1>. HIDE DEF d, n
<1>4. Members(d) = Members(c) \ {n}
  <2>1. ASSUME NEW i \in 1..Len(d.list) PROVE d.list[i] \in Members(c) /\ d.list[i] # n
    <3>1. i \in 1..Len(c.list) /\ i # Len(c.list) /\ d.list[i] = c.list[i] /\ Len(c.list) \in 1..Len(c.list)
      BY <1>0, <1>1, <1>3
    <3>. QED
      BY <1>1, <3>1 DEF Members, PartOK, ListOK
  <2>2. ASSUME NEW i \in 1..Len(c.list), c.list[i] # n PROVE c.list[i] \in Members(d)
    <3>1. i \in 1..Len(d.list) /\ d.list[i] = c.list[i]
      BY <1>0, <1>1, <1>3, <2>2
    <3>. QED
      BY <3>1 DEF Members
  <2>. QED
    BY <2>1, <2>2 DEF Members
<1>5. ListOK(p, d) /\ ~ Full(p, d)
  <2>1. Len(d.list) < Capacity[p]
    BY <1>0, <1>1, <1>3, CacheAssumption DEF Full
  <2>2. ASSUME NEW i \in 1..Len(d.list), NEW j \in 1..Len(d.list), d.list[i] = d.list[j] PROVE i = j
    <3>1. i \in 1..Len(c.list) /\ j \in 1..Len(c.list) /\ c.list[i] = c.list[j]
      BY <1>0, <1>1, <1>3, <2>2
    <3>. QED
      BY <3>1 DEF PartOK, ListOK
  <2>3. Len(d.list) \in Nat /\ Capacity[p] \in Nat
    BY <1>0, <1>1, <1>3, CacheAssumption
  <2>. QED
    BY <1>3, <1>4, <2>1, <2>2, <2>3 DEF PartOK, ListOK, Full
<1>6. MapOK(d, doubled)
  <2>1. ASSUME NEW k \in Key, d.map[k] # 0 PROVE d.map[k] \in Members(d) /\ d.key[d.map[k]] = k
    <3>1. k # c.key[n] /\ d.map[k] = c.map[k]
      BY <1>0, <1>2, <1>3, <2>1
    <3>2. c.map[k] \in Members(c) /\ c.key[c.map[k]] = k
      BY <2>1, <3>1 DEF PartOK, MapOK
    <3>. QED
      BY <1>3, <1>4, <3>1, <3>2
  <2>2. ASSUME NEW m \in Members(d), d.key[m] \notin doubled PROVE d.map[d.key[m]] = m
    <3>1. m \in Members(c) /\ m # n /\ c.key[m] \in Key /\ c.map[c.key[m]] = m
      BY <1>3, <1>4, <2>2 DEF PartOK, ListOK, MapOK
    <3>2. c.key[m] # c.key[n]
      BY <1>2, <1>3, <2>2, <3>1 DEF PartOK, MapOK
    <3>. QED
      BY <1>0, <1>3, <3>1, <3>2
  <2>. QED
    BY <2>1, <2>2 DEF MapOK
<1>7. \A k \in Key : c.map[k] = 0 => d.map[k] = 0
  BY <1>0, <1>3
<1>. QED
  BY <1>2, <1>3, <1>5, <1>6, <1>7 DEF PartOK, d, n

\* A part that is not full has a free node.
LEMMA FreeNode ==
    ASSUME NEW p \in Part, NEW c, c \in PartType(p), ListOK(p, c), ~ Full(p, c)
    PROVE  /\ Min(Nodes(p) \ ToSet(c.list)) \in Nodes(p)
           /\ Min(Nodes(p) \ ToSet(c.list)) \notin Members(c)
<1>0. /\ c.list \in Seq(Nodes(p)) /\ Len(c.list) \in Nat /\ Capacity[p] \in Nat
      /\ DOMAIN c.list = 1..Len(c.list) /\ Len(c.list) < Capacity[p]
  BY CacheAssumption DEF PartType, ListOK, Full
<1>1. ToSet(c.list) = Members(c)
  BY <1>0 DEF ToSet, Members
<1>2. Nodes(p) \ ToSet(c.list) # {}
  <2>. SUFFICES ASSUME Nodes(p) \subseteq Members(c) PROVE FALSE
    BY <1>1
  <2>1. c.list \in [1..Len(c.list) -> Nodes(p)]
    BY <1>0
  <2>2. \A n \in Nodes(p) : \E i \in 1..Len(c.list) : c.list[i] = n
    BY DEF Members
  <2>3. c.list \in Surjection(1..Len(c.list), Nodes(p))
    BY <2>1, <2>2, Fun_IsSurj
  <2>4. /\ IsFiniteSet(1..Len(c.list)) /\ Cardinality(1..Len(c.list)) = Len(c.list)
        /\ Cardinality(Nodes(p)) = Capacity[p]
    <3>1. \A n \in Nat : IsFiniteSet(1..n) /\ Cardinality(1..n) = n
      <4>. TAKE n \in Nat
      <4>1. IsFiniteSet(1..n) /\ Cardinality(1..n) = IF 1 > n THEN 0 ELSE n - 1 + 1
        BY FS_Interval
      <4>. QED
        BY <4>1
    <3>. QED
      BY <1>0, <3>1 DEF Nodes
  <2>5. Cardinality(Nodes(p)) <= Cardinality(1..Len(c.list))
    BY <2>3, <2>4, FS_Surjection
  <2>. QED
    BY <1>0, <2>4, <2>5
<1>3. Nodes(p) \ ToSet(c.list) \subseteq Nat
  BY <1>0 DEF Nodes
<1>. QED
  BY <1>1, <1>2, <1>3, MinOfNaturals

\* PushFront: a key that was there already becomes a doubled one.
LEMMA PushFrontOK ==
    ASSUME NEW p \in Part, NEW c, NEW doubled, PartOK(p, c, doubled), ~ Full(p, c), NEW k \in Key,
           NEW twice, doubled \subseteq twice, c.map[k] # 0 => k \in twice
    PROVE  PartOK(p, PushFront(p, c, k), twice)
<1>. DEFINE n == Min(Nodes(p) \ ToSet(c.list))
            d == PushFront(p, c, k)
<1>0. /\ c \in PartType(p) /\ c.list \in Seq(Nodes(p)) /\ Len(c.list) \in Nat /\ Capacity[p] \in Nat
      /\ Len(c.list) < Capacity[p] /\ c.map \in [Key -> Nat] /\ c.key \in [Nodes(p) -> Key \cup {0}]
  BY CacheAssumption DEF PartOK, PartType, ListOK, Full
<1>1. n \in Nodes(p) /\ n \notin Members(c) /\ n \in Nat /\ n # 0
  <2>1. n \in Nodes(p) /\ n \notin Members(c)
    BY FreeNode DEF PartOK
  <2>. QED
    BY <1>0, <2>1 DEF Nodes
<1>2. d = [c EXCEPT !.list = <<n>> \o @, !.key[n] = k, !.hits[n] = 0, !.map[k] = IF @ = 0 THEN n ELSE @]
  BY DEF PushFront
<1>. HIDE DEF n, d
<1>3. /\ <<n>> \o c.list \in Seq(Nodes(p)) /\ Len(<<n>> \o c.list) = Len(c.list) + 1
      /\ (<<n>> \o c.list)[1] = n
      /\ \A j \in 1..Len(c.list) : (<<n>> \o c.list)[j + 1] = c.list[j]
  BY <1>0, <1>1, OnFront
<1>4. /\ d \in PartType(p) /\ d.list = <<n>> \o c.list /\ d.key = [c.key EXCEPT ![n] = k]
      /\ d.map = [c.map EXCEPT ![k] = IF @ = 0 THEN n ELSE @]
  <2>. DEFINE key == [c.key EXCEPT ![n] = k]
              hits == [c.hits EXCEPT ![n] = 0]
              map == [c.map EXCEPT ![k] = IF @ = 0 THEN n ELSE @]
  <2>1. key \in [Nodes(p) -> Key \cup {0}] /\ hits \in [Nodes(p) -> Nat] /\ map \in [Key -> Nat]
    BY <1>0, <1>1 DEF PartType
  <2>2. d = [list |-> <<n>> \o c.list, key |-> key, hits |-> hits, map |-> map]
    BY <1>0, <1>2 DEF PartType
  <2>. HIDE DEF key, hits, map
  <2>3. d \in PartType(p) /\ d.list = <<n>> \o c.list /\ d.key = key /\ d.map = map
    BY <1>3, <2>1, <2>2 DEF PartType
  <2>. QED
    BY <2>3 DEF key, map
<1>5. /\ d.key[n] = k /\ \A m \in Members(c) : d.key[m] = c.key[m]
      /\ d.map[k] = (IF c.map[k] = 0 THEN n ELSE c.map[k])
      /\ \A h \in Key : h # k => d.map[h] = c.map[h]
  <2>1. Members(c) \subseteq Nodes(p)
    BY <1>0 DEF Members
  <2>. QED
    BY <1>0, <1>1, <1>4, <2>1
<1>6. Len(d.list) = Len(c.list) + 1 /\ d.list[1] = n /\ \A j \in 2..Len(d.list) : j - 1 \in 1..Len(c.list) /\ d.list[j] = c.list[j - 1]
  <2>1. ASSUME NEW j \in 2..Len(c.list) + 1 PROVE j - 1 \in 1..Len(c.list) /\ (<<n>> \o c.list)[j] = c.list[j - 1]
    <3>1. j - 1 \in 1..Len(c.list) /\ (j - 1) + 1 = j
      BY <1>0
    <3>. QED
      BY <1>3, <3>1
  <2>. QED
    BY <1>3, <1>4, <2>1
<1>7. Members(d) = Members(c) \cup {n}
  <2>1. \A j \in 1..Len(d.list) : j = 1 \/ j \in 2..Len(d.list)
    BY <1>0, <1>6
  <2>2. ASSUME NEW j \in 1..Len(d.list) PROVE d.list[j] \in Members(c) \cup {n}
    BY <1>6, <2>1 DEF Members
  <2>3. n \in Members(d)
    <3>1. 1 \in 1..Len(d.list)
      BY <1>0, <1>6
    <3>. QED
      BY <1>6, <3>1 DEF Members
  <2>4. ASSUME NEW j \in 1..Len(c.list) PROVE c.list[j] \in Members(d)
    <3>1. j + 1 \in 1..Len(d.list) /\ d.list[j + 1] = c.list[j]
      BY <1>0, <1>3, <1>4, <1>6
    <3>. QED
      BY <3>1 DEF Members
  <2>. QED
    BY <2>2, <2>3, <2>4 DEF Members
<1>8. ListOK(p, d)
  <2>1. ASSUME NEW i \in 1..Len(d.list), NEW j \in 1..Len(d.list), d.list[i] = d.list[j] PROVE i = j
    <3>0. /\ i = 1 \/ i \in 2..Len(d.list)
          /\ j = 1 \/ j \in 2..Len(d.list)
      BY <1>0, <1>6
    <3>1. CASE i = 1 /\ j = 1
      BY <3>1
    <3>2. CASE i = 1 /\ j \in 2..Len(d.list)
      BY <1>1, <1>6, <2>1, <3>2 DEF Members
    <3>3. CASE j = 1 /\ i \in 2..Len(d.list)
      BY <1>1, <1>6, <2>1, <3>3 DEF Members
    <3>4. CASE i \in 2..Len(d.list) /\ j \in 2..Len(d.list)
      <4>1. i - 1 \in 1..Len(c.list) /\ j - 1 \in 1..Len(c.list) /\ c.list[i - 1] = c.list[j - 1]
        BY <1>6, <2>1, <3>4
      <4>2. i - 1 = j - 1
        BY <4>1 DEF PartOK, ListOK
      <4>. QED
        BY <3>4, <4>2
    <3>. QED
      BY <3>0, <3>1, <3>2, <3>3, <3>4
  <2>2. \A m \in Members(d) : d.key[m] \in Key
    BY <1>5, <1>7 DEF PartOK, ListOK
  <2>3. Len(d.list) <= Capacity[p]
    BY <1>0, <1>6
  <2>. QED
    BY <2>1, <2>2, <2>3 DEF ListOK
<1>9. MapOK(d, twice)
  <2>1. ASSUME NEW h \in Key, d.map[h] # 0 PROVE d.map[h] \in Members(d) /\ d.key[d.map[h]] = h
    <3>1. CASE h = k /\ c.map[k] = 0
      BY <1>5, <1>7, <3>1
    <3>2. CASE ~ (h = k /\ c.map[k] = 0)
      <4>1. d.map[h] = c.map[h]
        BY <1>5, <3>2
      <4>. QED
        BY <1>5, <1>7, <2>1, <4>1 DEF PartOK, MapOK
    <3>. QED
      BY <3>1, <3>2
  <2>2. ASSUME NEW m \in Members(d), d.key[m] \notin twice PROVE d.map[d.key[m]] = m
    <3>1. CASE m = n
      BY <1>5, <2>2, <3>1
    <3>2. CASE m \in Members(c)
      <4>1. c.key[m] = d.key[m] /\ c.key[m] \in Key /\ c.map[c.key[m]] = m
        BY <1>5, <2>2, <3>2 DEF PartOK, ListOK, MapOK
      <4>2. m # 0
        BY <1>0, <3>2 DEF Members, Nodes
      <4>. QED
        BY <1>5, <2>2, <4>1, <4>2
    <3>. QED
      BY <1>7, <3>1, <3>2
  <2>. QED
    BY <2>1, <2>2 DEF MapOK
<1>. QED
  BY <1>4, <1>8, <1>9 DEF PartOK, d

-----------------------------------------------------------------------------
(***************************************************************************)
(* The invariant of the parts.                                             *)
(***************************************************************************)

CallState ==
    [pc : {"idle", "window", "insertWindow", "main", "insertMain"},
     op : {"none", "put", "get"}, value : Key \cup {0}]

\* A thread inside a call has a key in hand.
ThreadInv ==
    /\ thread \in [Thread -> CallState]
    /\ \A t \in Thread : thread[t].pc # "idle" => thread[t].value \in Key
    /\ raced \in [Part -> SUBSET Key]

PartsInv == DOMAIN part = Part /\ \A p \in Part : PartOK(p, part[p], raced[p])

\* A thread moves on, with a key in hand or to its end.
LEMMA ThreadMoves ==
    ASSUME ThreadInv, NEW t \in Thread, NEW x \in CallState, x.pc # "idle" => x.value \in Key,
           thread' = [thread EXCEPT ![t] = x], raced' \in [Part -> SUBSET Key]
    PROVE  ThreadInv'
BY DEF ThreadInv

\* A thread that is not in a call.
LEMMA NoCallIsState == NoCall \in CallState /\ NoCall.pc = "idle"
BY DEF NoCall, CallState

\* A new part is empty.
LEMMA EmptyPartOK ==
    ASSUME NEW p \in Part, NEW doubled
    PROVE  PartOK(p, EmptyPart(p), doubled)
<1>1. Capacity[p] \in Nat
  BY CacheAssumption
<1>2. EmptyPart(p) \in PartType(p)
  BY DEF EmptyPart, PartType
<1>. QED
  BY <1>1, <1>2 DEF EmptyPart, PartOK, ListOK, MapOK, Members

\* An insertion, with or without room.
LEMMA InsertOK ==
    ASSUME ThreadInv, PartsInv, NEW p \in Part, NEW k \in Key
    PROVE  LET c == part[p] IN
           /\ Full(p, c) => c.key[Last(c.list)] \in Key
           /\ PartOK(p, PushFront(p, IF Full(p, c) THEN PopBack(c) ELSE c, k), Raced(p, k)[p])
           /\ Raced(p, k) \in [Part -> SUBSET Key]
           /\ \A q \in Part : q # p => Raced(p, k)[q] = raced[q]
<1>. DEFINE c == part[p]
            room == IF Full(p, c) THEN PopBack(c) ELSE c
<1>1. PartOK(p, c, raced[p])
  BY DEF PartsInv
<1>2. /\ Raced(p, k) \in [Part -> SUBSET Key] /\ raced[p] \subseteq Raced(p, k)[p]
      /\ c.map[k] # 0 => k \in Raced(p, k)[p]
      /\ \A q \in Part : q # p => Raced(p, k)[q] = raced[q]
  BY DEF Raced, Found, ThreadInv
<1>3. /\ Full(p, c) => c.key[Last(c.list)] \in Key
      /\ PartOK(p, room, raced[p]) /\ ~ Full(p, room) /\ (c.map[k] = 0 => room.map[k] = 0)
  BY <1>1, PopBackOK
<1>. HIDE DEF c, room
<1>4. PartOK(p, PushFront(p, room, k), Raced(p, k)[p])
  BY <1>2, <1>3, PushFrontOK
<1>. QED
  BY <1>2, <1>3, <1>4 DEF c, room

\* Calls of Put and Get keep map and list together.
LEMMA PartsStep ==
    ASSUME ThreadInv, PartsInv, [Next]_vars
    PROVE  ThreadInv' /\ PartsInv'
<1>1. CASE UNCHANGED <<part, thread, raced>>
  BY <1>1 DEF ThreadInv, PartsInv
<1>2. ASSUME NEW t \in Thread, NEW op \in {"put", "get"}, NEW k \in Key, Call(t, op, k)
      PROVE  ThreadInv' /\ PartsInv'
  <2>. DEFINE x == [pc |-> "window", op |-> op, value |-> k]
  <2>1. x \in CallState /\ x.value \in Key
    BY DEF CallState
  <2>2. thread' = [thread EXCEPT ![t] = x] /\ UNCHANGED <<part, raced>>
    BY <1>2 DEF Call
  <2>. HIDE DEF x
  <2>3. raced' \in [Part -> SUBSET Key]
    BY <2>2 DEF ThreadInv
  <2>. QED
    BY <2>1, <2>2, <2>3, ThreadMoves DEF PartsInv
<1>3. ASSUME NEW t \in Thread, NEW p \in Part, Look(t, p) PROVE ThreadInv' /\ PartsInv'
  <2>1. UNCHANGED raced /\ thread[t].pc = p /\ thread[t].value \in Key
    BY <1>3 DEF Look, ThreadInv, Part
  <2>2. ThreadInv'
    <3>0. raced' \in [Part -> SUBSET Key] /\ thread[t] \in CallState
      BY <2>1 DEF ThreadInv
    <3>1. PICK pc \in {"idle", "insertWindow", "insertMain", "main"} : Goes(t, pc)
      BY <1>3 DEF Look, Missed
    <3>2. CASE pc = "idle"
      BY <3>0, <3>1, <3>2, NoCallIsState, ThreadMoves DEF Goes
    <3>3. CASE pc # "idle"
      <4>. DEFINE x == [thread[t] EXCEPT !.pc = pc]
      <4>1. x \in CallState /\ x.value \in Key
        BY <2>1, <3>0, <3>1 DEF CallState
      <4>2. thread' = [thread EXCEPT ![t] = x]
        BY <3>1, <3>3 DEF Goes
      <4>. HIDE DEF x
      <4>. QED
        BY <3>0, <4>1, <4>2, ThreadMoves
    <3>. QED
      BY <3>2, <3>3
  <2>3. CASE UNCHANGED part
    BY <2>1, <2>2, <2>3 DEF PartsInv
  <2>4. ASSUME Found(part[p], thread[t].value),
               part' = [part EXCEPT ![p] = Promote(@, @.map[thread[t].value])]
        PROVE  PartsInv'
    <3>. DEFINE n == part[p].map[thread[t].value]
    <3>1. PartOK(p, part[p], raced[p]) /\ n \in Members(part[p])
      BY <2>1, <2>4 DEF PartsInv, PartOK, MapOK, Found
    <3>2. PartOK(p, Promote(part[p], n), raced[p])
      BY <3>1, PromoteOK
    <3>. QED
      BY <2>1, <2>4, <3>2 DEF PartsInv
  <2>. QED
    BY <1>3, <2>2, <2>3, <2>4 DEF Look
<1>4. ASSUME NEW t \in Thread, InsertWindow(t) PROVE ThreadInv' /\ PartsInv'
  <2>. DEFINE c == part["window"]
              k == thread[t].value
  <2>0. "window" \in Part /\ k \in Key
    <3>1. thread[t].pc = "insertWindow"
      BY <1>4 DEF InsertWindow
    <3>. QED
      BY <3>1 DEF Part, ThreadInv
  <2>1. /\ part' = [part EXCEPT !["window"] = PushFront("window", IF Full("window", c) THEN PopBack(c) ELSE c, k)]
        /\ thread' = [thread EXCEPT ![t] = IF Full("window", c)
                         THEN [@ EXCEPT !.pc = "main", !.value = c.key[Last(c.list)]] ELSE NoCall]
        /\ raced' = Raced("window", k)
    BY <1>4 DEF InsertWindow
  <2>2. /\ Full("window", c) => c.key[Last(c.list)] \in Key
        /\ PartOK("window", PushFront("window", IF Full("window", c) THEN PopBack(c) ELSE c, k), raced'["window"])
        /\ raced' \in [Part -> SUBSET Key] /\ \A q \in Part : q # "window" => raced'[q] = raced[q]
    BY <2>0, <2>1, InsertOK
  <2>3. ThreadInv'
    <3>1. CASE Full("window", c)
      <4>. DEFINE x == [thread[t] EXCEPT !.pc = "main", !.value = c.key[Last(c.list)]]
      <4>1. x \in CallState /\ x.value \in Key
        BY <2>2, <3>1, ZenonT(60) DEF ThreadInv, CallState
      <4>2. thread' = [thread EXCEPT ![t] = x]
        BY <2>1, <3>1
      <4>. HIDE DEF x
      <4>. QED
        BY <2>2, <4>1, <4>2, ThreadMoves
    <3>2. CASE ~ Full("window", c)
      BY <2>1, <2>2, <3>2, NoCallIsState, ThreadMoves
    <3>. QED
      BY <3>1, <3>2
  <2>4. PartsInv'
    BY <2>0, <2>1, <2>2 DEF PartsInv
  <2>. QED
    BY <2>3, <2>4
<1>5. ASSUME NEW t \in Thread, InsertMain(t) PROVE ThreadInv' /\ PartsInv'
  <2>. DEFINE c == part["main"]
              k == thread[t].value
  <2>0. "main" \in Part /\ k \in Key /\ thread' = [thread EXCEPT ![t] = NoCall]
    <3>1. thread[t].pc = "insertMain" /\ Goes(t, "idle")
      BY <1>5 DEF InsertMain
    <3>. QED
      BY <3>1 DEF Part, ThreadInv, Goes
  <2>1. CASE UNCHANGED <<part, raced>>
    <3>1. raced' \in [Part -> SUBSET Key]
      BY <2>1 DEF ThreadInv
    <3>. QED
      BY <2>0, <2>1, <3>1, NoCallIsState, ThreadMoves DEF PartsInv
  <2>2. ASSUME part' = [part EXCEPT !["main"] = PushFront("main", IF Full("main", c) THEN PopBack(c) ELSE c, k)],
               raced' = Raced("main", k)
        PROVE  ThreadInv' /\ PartsInv'
    <3>1. /\ PartOK("main", PushFront("main", IF Full("main", c) THEN PopBack(c) ELSE c, k), raced'["main"])
          /\ raced' \in [Part -> SUBSET Key] /\ \A q \in Part : q # "main" => raced'[q] = raced[q]
      BY <2>0, <2>2, InsertOK
    <3>2. ThreadInv'
      BY <2>0, <3>1, NoCallIsState, ThreadMoves
    <3>3. PartsInv'
      BY <2>0, <2>2, <3>1 DEF PartsInv
    <3>. QED
      BY <3>2, <3>3
  <2>. QED
    <3>1. UNCHANGED <<part, raced>> \/
          (part' = [part EXCEPT !["main"] = PushFront("main", IF Full("main", c) THEN PopBack(c) ELSE c, k)]
             /\ raced' = Raced("main", k))
      BY <1>5, Zenon DEF InsertMain
    <3>. HIDE DEF c, k
    <3>. QED
      BY <2>1, <2>2, <3>1
<1>6. CASE RefreshLook \/ RefreshBlocks \/ RefreshTimeout
  BY <1>1, <1>6 DEF RefreshLook, RefreshBlocks, RefreshTimeout
<1>7. CASE StopBegin \/ StopNotify \/ StopJoin \/ Destroy
  BY <1>1, <1>7 DEF StopBegin, StopNotify, StopJoin, Destroy
<1>8. CASE MoveAssign
  BY <1>8, EmptyPartOK DEF MoveAssign, ThreadInv, PartsInv
<1>9. CASE UNCHANGED vars
  BY <1>1, <1>9 DEF vars
<1>. QED
  BY <1>2, <1>3, <1>4, <1>5, <1>6, <1>7, <1>8, <1>9 DEF Next, ThreadStep

(***************************************************************************)
(* Map and list of both parts agree, for any number of threads whose Puts  *)
(* and Gets overlap between the two holds of a part's mutex, and through a *)
(* move assignment.                                                        *)
(***************************************************************************)
THEOREM MapsMatchLists == Spec => []MapMatchesList
<1>1. Init => ThreadInv /\ PartsInv
  <2>. SUFFICES ASSUME Init PROVE ThreadInv /\ PartsInv
    OBVIOUS
  <2>1. ThreadInv
    BY NoCallIsState DEF Init, ThreadInv
  <2>2. PartsInv
    BY EmptyPartOK DEF Init, PartsInv
  <2>. QED
    BY <2>1, <2>2
<1>2. ThreadInv /\ PartsInv /\ [Next]_vars => (ThreadInv /\ PartsInv)'
  BY PartsStep
<1>3. ThreadInv /\ PartsInv => MapMatchesList
  <2>. SUFFICES ASSUME PartsInv, NEW p \in Part
                PROVE  LET c == part[p] IN
                       /\ Len(c.list) <= Capacity[p] /\ IsInjective(c.list)
                       /\ \A k \in Key : c.map[k] # 0 => c.map[k] \in ToSet(c.list) /\ c.key[c.map[k]] = k
                       /\ \A n \in ToSet(c.list) : c.key[n] \notin raced[p] => c.map[c.key[n]] = n
    BY DEF MapMatchesList
  <2>1. PartOK(p, part[p], raced[p])
    BY DEF PartsInv
  <2>2. DOMAIN part[p].list = 1..Len(part[p].list)
    BY <2>1 DEF PartOK, PartType
  <2>3. ToSet(part[p].list) = Members(part[p])
    BY <2>2 DEF ToSet, Members
  <2>4. IsInjective(part[p].list)
    BY <2>1, <2>2 DEF IsInjective, PartOK, ListOK
  <2>. QED
    BY <2>1, <2>3, <2>4 DEF PartOK, ListOK, MapOK
<1>. QED
  BY <1>1, <1>2, <1>3, PTL DEF Spec

-----------------------------------------------------------------------------
(***************************************************************************)
(* The sketch.                                                             *)
(***************************************************************************)

\* Every counter of a key has counted its uses, up to the limit.  A new sketch is
\* put in place only when nothing has been counted.
SketchInv ==
    /\ sketch \in [Row -> [0..Slots - 1 -> 0..CounterMax]]
    /\ uses \in [Key -> Nat] /\ ops \in Nat
    /\ ops = 0 => \A k \in Key : uses[k] = 0
    /\ \A r \in Row, k \in Key : sketch[r][Index[r][k]] >= Smaller(uses[k], CounterMax)

\* Halving and counting keep a counter above the uses.
LEMMA CounterMoves ==
    ASSUME NEW c \in 0..CounterMax, NEW u \in Nat, c >= Smaller(u, CounterMax)
    PROVE  /\ (IF c < CounterMax THEN c + 1 ELSE c) \in 0..CounterMax
           /\ (IF c < CounterMax THEN c + 1 ELSE c) >= Smaller(u + 1, CounterMax)
           /\ (IF c < CounterMax THEN c + 1 ELSE c) >= Smaller(u, CounterMax)
           /\ c \div 2 \in 0..CounterMax
           /\ Smaller(u, CounterMax) \div 2 \in Nat
           /\ c \div 2 >= Smaller(Smaller(u, CounterMax) \div 2, CounterMax)
<1>1. CounterMax \in Nat
  BY CacheAssumption
<1>. QED
  BY <1>1 DEF Smaller

\* The uses of a key are counted in its counters, those of others in none it loses.
LEMMA SketchStep ==
    ASSUME SketchInv, [Next]_vars
    PROVE  SketchInv'
<1>0. /\ CounterMax \in Nat
      /\ \A r \in Row, k \in Key : Index[r][k] \in 0..Slots - 1
  BY CacheAssumption
<1>1. CASE UNCHANGED <<sketch, uses, ops>>
  BY <1>1 DEF SketchInv
<1>2. ASSUME NEW t \in Thread, NEW op \in {"put", "get"}, NEW k \in Key, Call(t, op, k) PROVE SketchInv'
  <2>1. ops' = ops + 1 /\ sketch' = Increment(sketch, k) /\ uses' = [uses EXCEPT ![k] = @ + 1]
    BY <1>2 DEF Call
  <2>2. uses' \in [Key -> Nat] /\ ops' \in Nat /\ ops' # 0
    BY <2>1 DEF SketchInv
  <2>3. ASSUME NEW r \in Row
        PROVE  /\ sketch'[r] \in [0..Slots - 1 -> 0..CounterMax]
               /\ \A h \in Key : sketch'[r][Index[r][h]] >= Smaller(uses'[h], CounterMax)
    <3>. DEFINE i == Index[r][k]
                c == sketch[r][i]
                d == IF c < CounterMax THEN c + 1 ELSE c
    <3>1. i \in 0..Slots - 1 /\ sketch[r] \in [0..Slots - 1 -> 0..CounterMax] /\ c \in 0..CounterMax
      BY <1>0 DEF SketchInv
    <3>2. sketch'[r] = [sketch[r] EXCEPT ![i] = d]
      BY <2>1 DEF Increment
    <3>3. d \in 0..CounterMax
      BY <1>0, <3>1
    <3>4. ASSUME NEW h \in Key PROVE sketch'[r][Index[r][h]] >= Smaller(uses'[h], CounterMax)
      <4>1. uses[h] \in Nat /\ sketch[r][Index[r][h]] >= Smaller(uses[h], CounterMax) /\ Index[r][h] \in 0..Slots - 1
        BY <1>0 DEF SketchInv
      <4>2. uses'[h] = IF h = k THEN uses[h] + 1 ELSE uses[h]
        BY <2>1 DEF SketchInv
      <4>3. CASE Index[r][h] = i
        <5>1. c >= Smaller(uses[h], CounterMax)
          BY <4>1, <4>3
        <5>2. d >= Smaller(uses[h] + 1, CounterMax) /\ d >= Smaller(uses[h], CounterMax)
          BY <3>1, <4>1, <5>1, CounterMoves
        <5>3. sketch'[r][Index[r][h]] = d
          BY <3>1, <3>2, <4>3
        <5>. QED
          BY <4>2, <5>2, <5>3
      <4>4. CASE Index[r][h] # i
        <5>1. sketch'[r][Index[r][h]] = sketch[r][Index[r][h]] /\ h # k
          BY <3>1, <3>2, <4>1, <4>4
        <5>. QED
          BY <4>1, <4>2, <5>1
      <4>. QED
        BY <4>3, <4>4
    <3>. QED
      BY <3>1, <3>2, <3>3, <3>4
  <2>4. sketch' \in [Row -> [0..Slots - 1 -> 0..CounterMax]]
    <3>1. DOMAIN sketch' = Row /\ sketch' = [r \in Row |-> sketch'[r]]
      BY <2>1 DEF Increment
    <3>. QED
      BY <2>3, <3>1
  <2>. QED
    BY <2>2, <2>3, <2>4 DEF SketchInv
<1>3. CASE RefreshTimeout /\ ~ stop
  <2>1. /\ sketch' = [r \in Row |-> [i \in 0..Slots - 1 |-> sketch[r][i] \div 2]] /\ ops' = ops
        /\ uses' = [k \in Key |-> Smaller(uses[k], CounterMax) \div 2]
    BY <1>3 DEF RefreshTimeout, Reset
  <2>2. ASSUME NEW r \in Row, NEW i \in 0..Slots - 1 PROVE sketch[r][i] \div 2 \in 0..CounterMax
    <3>1. sketch[r][i] \in 0..CounterMax
      BY DEF SketchInv
    <3>. QED
      BY <1>0, <3>1
  <2>3. sketch' \in [Row -> [0..Slots - 1 -> 0..CounterMax]]
    BY <2>1, <2>2
  <2>4. ASSUME NEW k \in Key PROVE Smaller(uses[k], CounterMax) \div 2 \in Nat
    <3>1. uses[k] \in Nat
      BY DEF SketchInv
    <3>. QED
      BY <1>0, <3>1 DEF Smaller
  <2>5. uses' \in [Key -> Nat]
    BY <2>1, <2>4
  <2>6. ASSUME ops = 0, NEW k \in Key PROVE uses'[k] = 0
    <3>1. uses[k] = 0
      BY <2>6 DEF SketchInv
    <3>2. Smaller(0, CounterMax) = 0
      BY <1>0 DEF Smaller
    <3>3. 0 \div 2 = 0
      OBVIOUS
    <3>. QED
      BY <2>1, <3>1, <3>2, <3>3
  <2>7. ASSUME NEW r \in Row, NEW k \in Key PROVE sketch'[r][Index[r][k]] >= Smaller(uses'[k], CounterMax)
    <3>1. /\ uses[k] \in Nat /\ Index[r][k] \in 0..Slots - 1 /\ sketch[r][Index[r][k]] \in 0..CounterMax
          /\ sketch[r][Index[r][k]] >= Smaller(uses[k], CounterMax)
      BY <1>0 DEF SketchInv
    <3>2. sketch[r][Index[r][k]] \div 2 >= Smaller(Smaller(uses[k], CounterMax) \div 2, CounterMax)
      BY <3>1, CounterMoves
    <3>. QED
      BY <2>1, <3>1, <3>2
  <2>. QED
    BY <2>1, <2>3, <2>5, <2>6, <2>7 DEF SketchInv
<1>4. CASE RefreshLook \/ RefreshBlocks \/ (RefreshTimeout /\ stop)
  BY <1>1, <1>4 DEF RefreshLook, RefreshBlocks, RefreshTimeout
<1>5. CASE StopBegin \/ StopNotify \/ StopJoin \/ Destroy
  BY <1>1, <1>5 DEF StopBegin, StopNotify, StopJoin, Destroy
<1>6. CASE MoveAssign
  <2>1. ops = 0 /\ ops' = ops /\ uses' = uses /\ sketch' = [r \in Row |-> [i \in 0..Slots - 1 |-> 0]]
    BY <1>6 DEF MoveAssign, EmptySketch
  <2>2. sketch' \in [Row -> [0..Slots - 1 -> 0..CounterMax]]
    BY <1>0, <2>1
  <2>3. ASSUME NEW r \in Row, NEW k \in Key PROVE sketch'[r][Index[r][k]] >= Smaller(uses'[k], CounterMax)
    <3>1. uses'[k] = 0 /\ sketch'[r][Index[r][k]] = 0
      BY <1>0, <2>1 DEF SketchInv
    <3>. QED
      BY <1>0, <3>1 DEF Smaller
  <2>. QED
    BY <2>1, <2>2, <2>3 DEF SketchInv
<1>7. ASSUME NEW t \in Thread, (\E p \in Part : Look(t, p)) \/ InsertWindow(t) \/ InsertMain(t) PROVE SketchInv'
  BY <1>1, <1>7 DEF Look, InsertWindow, InsertMain
<1>8. CASE UNCHANGED vars
  BY <1>1, <1>8 DEF vars
<1>. QED
  BY <1>2, <1>3, <1>4, <1>5, <1>6, <1>7, <1>8 DEF Next, ThreadStep

(***************************************************************************)
(* The sketch never underestimates, for any number of rows and any seeds,  *)
(* although Estimate reads two counters at once and Reset runs beside the  *)
(* calls: reading too much only raises the estimate.                       *)
(***************************************************************************)
THEOREM EstimatesCoverUses == Spec => []NeverUnderestimates
<1>0. CounterMax \in Nat /\ Slots \in Nat /\ Slots % 2 = 0 /\ \A r \in Row, k \in Key : Index[r][k] \in 0..Slots - 1
  BY CacheAssumption
<1>1. Init => SketchInv
  <2>. SUFFICES ASSUME Init PROVE SketchInv
    OBVIOUS
  <2>1. /\ sketch = [r \in Row |-> [i \in 0..Slots - 1 |-> 0]] /\ uses = [k \in Key |-> 0] /\ ops = 0
    BY DEF Init, EmptySketch
  <2>2. Smaller(0, CounterMax) = 0
    BY <1>0 DEF Smaller
  <2>. QED
    BY <1>0, <2>1, <2>2 DEF SketchInv
<1>2. SketchInv /\ [Next]_vars => SketchInv'
  BY SketchStep
<1>3. SketchInv => NeverUnderestimates
  <2>. SUFFICES ASSUME SketchInv, NEW k \in Key PROVE Estimate(sketch, k) >= Smaller(uses[k], CounterMax)
    BY DEF NeverUnderestimates
  <2>. DEFINE Bytes == {CounterMax} \cup {Byte(sketch, r, Index[r][k]) : r \in Row}
  <2>1. Smaller(uses[k], CounterMax) \in Nat /\ Smaller(uses[k], CounterMax) <= CounterMax
    <3>1. uses[k] \in Nat
      BY DEF SketchInv
    <3>. QED
      BY <1>0, <3>1 DEF Smaller
  <2>2. ASSUME NEW r \in Row
        PROVE  Byte(sketch, r, Index[r][k]) \in Nat /\ Byte(sketch, r, Index[r][k]) >= Smaller(uses[k], CounterMax)
    <3>. DEFINE i == Index[r][k]
    <3>1. /\ i \in 0..Slots - 1 /\ sketch[r][i] \in 0..CounterMax /\ sketch[r][i] >= Smaller(uses[k], CounterMax)
          /\ sketch[r] \in [0..Slots - 1 -> 0..CounterMax]
      BY <1>0 DEF SketchInv
    <3>2. CASE i % 2 = 0
      <4>1. i + 1 \in 0..Slots - 1
        BY <1>0, <3>1, <3>2
      <4>2. sketch[r][i + 1] \in 0..CounterMax
        BY <3>1, <4>1
      <4>3. \A m, n \in Nat : (m + 1) * n \in Nat
        OBVIOUS
      <4>4. (CounterMax + 1) * sketch[r][i + 1] \in Nat
        BY <1>0, <4>2, <4>3
      <4>5. Byte(sketch, r, i) = sketch[r][i] + (CounterMax + 1) * sketch[r][i + 1]
        BY <3>2 DEF Byte
      <4>6. \A a, b, s \in Nat : a >= s => a + b \in Nat /\ a + b >= s
        OBVIOUS
      <4>7. sketch[r][i] \in Nat
        BY <1>0, <3>1
      <4>8. \A b \in Nat : sketch[r][i] + b \in Nat /\ sketch[r][i] + b >= Smaller(uses[k], CounterMax)
        BY <2>1, <3>1, <4>6, <4>7
      <4>. QED
        BY <4>4, <4>5, <4>8, Zenon
    <3>3. CASE i % 2 # 0
      BY <1>0, <3>1, <3>3 DEF Byte
    <3>. QED
      BY <3>2, <3>3
  <2>3. Bytes \subseteq Nat /\ Bytes # {} /\ \A b \in Bytes : b >= Smaller(uses[k], CounterMax)
    BY <1>0, <2>1, <2>2
  <2>4. Min(Bytes) \in Bytes
    BY <2>3, MinOfNaturals
  <2>. QED
    BY <2>3, <2>4 DEF Estimate
<1>. QED
  BY <1>1, <1>2, <1>3, PTL DEF Spec
=============================================================================
