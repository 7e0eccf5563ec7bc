------------------------------ MODULE Extrema -------------------------------
(***************************************************************************)
(* Facts about the Min and Max of sets of numbers, which the models use    *)
(* for the newest table, the highest commit index and the next free node,  *)
(* and about sums, which they use for the sizes of levels and caches, and  *)
(* about functions that are computed step by step.                         *)
(***************************************************************************)
EXTENDS Integers, FiniteSets, FiniteSetsExt, FiniteSetTheorems, WellFoundedInduction, TLAPS

\* A nonempty set of naturals has a least element.
LEMMA LeastNatural ==
    ASSUME NEW S, S \subseteq Nat, S # {}
    PROVE  \E n \in S : \A m \in S : n <= m
<1>1. PICK n \in S : \A m \in S : ~ (<<m, n>> \in OpToRel(<, Nat))
  BY NatLessThanWellFounded, WFMin, Zenon
<1>2. \A m \in S : ~ (m < n)
  BY <1>1 DEF OpToRel
<1>. QED
  BY <1>2

\* Min of a nonempty set of naturals is its least element.
LEMMA MinOfNaturals ==
    ASSUME NEW S, S \subseteq Nat, S # {}
    PROVE  Min(S) \in S /\ \A m \in S : Min(S) <= m
BY LeastNatural DEF Min

\* Max of a nonempty bounded set of naturals is its greatest element.
LEMMA MaxOfBounded ==
    ASSUME NEW S, S \subseteq Nat, S # {}, NEW b \in Nat, \A m \in S : m <= b
    PROVE  Max(S) \in S /\ \A m \in S : m <= Max(S)
<1>. DEFINE Bounds == {u \in Nat : \A m \in S : m <= u}
<1>1. PICK u \in Bounds : \A v \in Bounds : u <= v
  BY LeastNatural
<1>2. PICK m \in S : TRUE
  OBVIOUS
<1>3. u \in S
  <2>. SUFFICES ASSUME u \notin S PROVE FALSE
    OBVIOUS
  <2>1. u \in Nat /\ \A k \in S : k < u
    BY <1>1
  <2>2. u - 1 \in Bounds
    BY <1>2, <2>1
  <2>. QED
    BY <1>1, <2>1, <2>2
<1>4. \E n \in S : \A k \in S : n >= k
  BY <1>1, <1>3
<1>. QED
  BY <1>4 DEF Max

\* A finite nonempty set of numbers has a greatest element.
LEMMA GreatestOfFinite ==
    ASSUME NEW S, S \subseteq Int, IsFiniteSet(S), S # {}
    PROVE  \E m \in S : \A k \in S : k <= m
<1>. DEFINE HasMax(T) == \E m \in T : \A k \in T : k <= m
            Bad == {T \in SUBSET S : T # {} /\ ~ HasMax(T)}
            Sizes == {n \in Nat : \E T \in Bad : Cardinality(T) = n}
<1>. SUFFICES ASSUME ~ HasMax(S) PROVE FALSE
  OBVIOUS
<1>1. \A T \in SUBSET S : IsFiniteSet(T) /\ Cardinality(T) \in Nat
  BY FS_Subset, FS_CardinalityType
<1>2. Sizes # {} /\ Sizes \subseteq Nat
  BY <1>1
<1>3. PICK n \in Sizes : \A m \in Sizes : n <= m
  BY <1>2, LeastNatural
<1>4. PICK T \in Bad : Cardinality(T) = n
  BY <1>3
<1>5. PICK x \in T : TRUE
  BY <1>4
<1>6. T \ {x} \in SUBSET S /\ Cardinality(T \ {x}) = n - 1 /\ n \in Nat
  BY <1>1, <1>3, <1>4, <1>5, FS_RemoveElement
<1>7. T \ {x} # {}
  BY <1>4, <1>5
<1>8. HasMax(T \ {x})
  <2>. SUFFICES ASSUME ~ HasMax(T \ {x}) PROVE FALSE
    OBVIOUS
  <2>1. n - 1 \in Sizes
    BY <1>1, <1>6, <1>7
  <2>. QED
    BY <1>3, <1>6, <2>1
<1>9. PICK m \in T \ {x} : \A k \in T \ {x} : k <= m
  BY <1>8
<1>10. m \in Int /\ x \in Int /\ T \subseteq Int
  BY <1>4, <1>5
<1>11. HasMax(T)
  <2>1. CASE x <= m
    BY <1>9, <1>10, <2>1
  <2>2. CASE m < x
    <3>1. \A k \in T : k <= x
      BY <1>9, <1>10, <2>2
    <3>. QED
      BY <1>5, <3>1
  <2>. QED
    BY <1>10, <2>1, <2>2
<1>. QED
  BY <1>4, <1>11

\* Max of a finite nonempty set of numbers is its greatest element.
LEMMA MaxOfFinite ==
    ASSUME NEW S, S \subseteq Int, IsFiniteSet(S), S # {}
    PROVE  Max(S) \in S /\ \A k \in S : k <= Max(S)
<1>1. PICK m \in S : \A k \in S : k <= m
  BY GreatestOfFinite
<1>2. \E n \in S : \A k \in S : n >= k
  BY <1>1
<1>. QED
  BY <1>2 DEF Max

\* The sizes of disjoint parts of a set add up to the size of their union.
LEMMA SumOfParts ==
    ASSUME NEW D, IsFiniteSet(D), NEW K, IsFiniteSet(K), NEW T \in [D -> SUBSET K],
           \A i \in D : \A j \in D : i # j => T[i] \cap T[j] = {}
    PROVE  SumFunction([i \in D |-> Cardinality(T[i])]) = Cardinality({e \in K : \E i \in D : e \in T[i]})
<1>. DEFINE c == [i \in D |-> Cardinality(T[i])]
            pick(s) == CHOOSE x \in s : TRUE
            Step(g, s) == IF s = {} THEN 0 ELSE c[pick(s)] + g[s \ {pick(s)}]
            iter == CHOOSE g : g = [s \in SUBSET D |-> Step(g, s)]
            all(s) == {e \in K : \E i \in s : e \in T[i]}
            w == [s \in SUBSET D |-> Cardinality(all(s))]
<1>1. SumFunction(c) = iter[D]
  <2>1. DOMAIN c = D
    OBVIOUS
  <2>. HIDE DEF c
  <2>. QED
    BY <2>1 DEF SumFunction, SumFunctionOnSet, FoldFunctionOnSet, MapThenFoldSet
<1>2. \A s \in SUBSET D : s # {} => pick(s) \in s
  OBVIOUS
<1>. HIDE DEF pick
<1>3. ASSUME NEW s \in SUBSET D, s # {}
      PROVE  Cardinality(all(s)) = c[pick(s)] + Cardinality(all(s \ {pick(s)}))
  <2>. DEFINE x == pick(s)
              rest == all(s \ {x})
  <2>1. x \in s /\ x \in D
    BY <1>2, <1>3
  <2>. HIDE DEF x
  <2>2. all(s) = T[x] \cup rest /\ T[x] \cap rest = {}
    BY <2>1
  <2>3. c[x] = Cardinality(T[x]) /\ T[x] \in SUBSET K /\ rest \in SUBSET K
    BY <2>1
  <2>. HIDE DEF rest, all, c
  <2>4. IsFiniteSet(T[x]) /\ IsFiniteSet(rest)
    BY <2>3, FS_Subset
  <2>5. Cardinality(T[x]) \in Nat /\ Cardinality(rest) \in Nat
    BY <2>4, FS_CardinalityType
  <2>6. Cardinality(T[x] \cup rest) = Cardinality(T[x]) + Cardinality(rest) - Cardinality(T[x] \cap rest)
    BY <2>4, FS_Union
  <2>7. Cardinality(T[x] \cap rest) = 0
    BY <2>2, FS_EmptySet
  <2>8. Cardinality(all(s)) = c[x] + Cardinality(rest)
    BY <2>2, <2>3, <2>5, <2>6, <2>7
  <2>. QED
    BY <2>8 DEF x, rest
<1>4. w = [s \in SUBSET D |-> Step(w, s)]
  <2>. SUFFICES ASSUME NEW s \in SUBSET D PROVE w[s] = Step(w, s)
    <3>1. w = [s \in SUBSET D |-> w[s]]
      OBVIOUS
    <3>. HIDE DEF w, Step
    <3>. QED
      BY <3>1
  <2>1. w[s] = Cardinality(all(s)) /\ w[s \ {pick(s)}] = Cardinality(all(s \ {pick(s)}))
    <3>1. s \ {pick(s)} \in SUBSET D
      OBVIOUS
    <3>. HIDE DEF all
    <3>. QED
      BY <3>1
  <2>2. CASE s = {}
    <3>1. all(s) = {}
      BY <2>2
    <3>. HIDE DEF w, all
    <3>. QED
      BY <2>1, <2>2, <3>1, FS_EmptySet
  <2>3. CASE s # {}
    <3>1. Cardinality(all(s)) = c[pick(s)] + Cardinality(all(s \ {pick(s)}))
      BY <1>3, <2>3
    <3>. HIDE DEF w, all, c
    <3>. QED
      BY <2>1, <2>3, <3>1
  <2>. QED
    BY <2>2, <2>3
<1>. HIDE DEF w
<1>5. iter = [s \in SUBSET D |-> Step(iter, s)]
  <2>. HIDE DEF Step
  <2>. QED
    BY <1>4
<1>. HIDE DEF iter
<1>. DEFINE Bad == {n \in Nat : \E s \in SUBSET D : Cardinality(s) = n /\ iter[s] # w[s]}
<1>6. Bad = {}
  <2>. SUFFICES ASSUME Bad # {} PROVE FALSE
    OBVIOUS
  <2>1. PICK n \in Bad : \A m \in Bad : n <= m
    <3>1. Bad \subseteq Nat
      OBVIOUS
    <3>. HIDE DEF Bad
    <3>. QED
      BY <3>1, LeastNatural
  <2>2. n \in Nat
    OBVIOUS
  <2>3. PICK s \in SUBSET D : Cardinality(s) = n /\ iter[s] # w[s]
    OBVIOUS
  <2>4. iter[s] = Step(iter, s) /\ w[s] = Step(w, s)
    <3>. HIDE DEF Step
    <3>. QED
      BY <1>4, <1>5
  <2>5. s # {} /\ iter[s \ {pick(s)}] # w[s \ {pick(s)}]
    <3>. HIDE DEF c, Bad
    <3>. QED
      BY <2>3, <2>4
  <2>6. IsFiniteSet(s)
    BY FS_Subset
  <2>7. Cardinality(s \ {pick(s)}) = n - 1
    <3>1. pick(s) \in s
      BY <1>2, <2>5
    <3>. HIDE DEF Bad
    <3>. QED
      BY <2>3, <2>6, <3>1, FS_RemoveElement
  <2>8. n - 1 \in Nat
    <3>1. IsFiniteSet(s \ {pick(s)})
      BY <2>6, FS_RemoveElement
    <3>. HIDE DEF Bad
    <3>. QED
      BY <2>7, <3>1, FS_CardinalityType
  <2>9. s \ {pick(s)} \in SUBSET D
    OBVIOUS
  <2>10. n - 1 \in Bad
    BY <2>5, <2>7, <2>8, <2>9
  <2>. HIDE DEF Bad
  <2>. QED
    BY <2>1, <2>2, <2>10
<1>7. iter[D] = w[D]
  <2>1. Cardinality(D) \in Nat /\ D \in SUBSET D
    BY FS_CardinalityType
  <2>. QED
    BY <1>6, <2>1
<1>8. w[D] = Cardinality(all(D)) /\ all(D) \in SUBSET K
  <2>1. D \in SUBSET D
    OBVIOUS
  <2>2. w[D] = Cardinality(all(D))
    <3>. HIDE DEF all
    <3>. QED
      BY <2>1 DEF w
  <2>. QED
    BY <2>2
<1>9. all(D) = {e \in K : \E i \in D : e \in T[i]}
  OBVIOUS
<1>. HIDE DEF all
<1>. QED
  BY <1>1, <1>7, <1>8, <1>9

\* Disjoint parts of a set have together no more elements than the set.
LEMMA SumOfDisjoint ==
    ASSUME NEW D, IsFiniteSet(D), NEW K, IsFiniteSet(K), NEW T \in [D -> SUBSET K],
           \A i \in D : \A j \in D : i # j => T[i] \cap T[j] = {}
    PROVE  /\ SumFunction([i \in D |-> Cardinality(T[i])]) \in Nat
           /\ SumFunction([i \in D |-> Cardinality(T[i])]) <= Cardinality(K)
<1>. DEFINE all == {e \in K : \E i \in D : e \in T[i]}
            s == SumFunction([i \in D |-> Cardinality(T[i])])
<1>1. s = Cardinality(all)
  BY SumOfParts
<1>2. all \in SUBSET K
  OBVIOUS
<1>. HIDE DEF all, s
<1>3. s \in Nat /\ s <= Cardinality(K)
  BY <1>1, <1>2, FS_Subset, FS_CardinalityType
<1>. QED
  BY <1>3 DEF s

\* The unit squares below a function with values up to b.
Squares(f, D, b) == {e \in D \X (1..b) : e[2] <= f[e[1]]}

\* The sum of a function is the number of unit squares below it.
LEMMA SumAsSize ==
    ASSUME NEW D, IsFiniteSet(D), NEW b \in Nat, NEW f \in [D -> 0..b]
    PROVE  /\ SumFunction(f) \in Nat
           /\ SumFunction(f) = Cardinality(Squares(f, D, b)) /\ IsFiniteSet(Squares(f, D, b))
<1>. DEFINE K == D \X (1..b)
            T == [i \in D |-> {i} \X (1..f[i])]
<1>1. IsFiniteSet(K)
  <2>1. IsFiniteSet(1..b)
    BY FS_Interval
  <2>. QED
    BY <2>1, FS_Product
<1>2. T \in [D -> SUBSET K]
  <2>. SUFFICES ASSUME NEW i \in D PROVE {i} \X (1..f[i]) \in SUBSET K
    OBVIOUS
  <2>1. f[i] \in Nat /\ f[i] <= b
    OBVIOUS
  <2>2. 1..f[i] \subseteq 1..b
    BY <2>1
  <2>. QED
    BY <2>2
<1>3. \A i \in D : \A j \in D : i # j => T[i] \cap T[j] = {}
  OBVIOUS
<1>4. \A i \in D : Cardinality(T[i]) = f[i]
  <2>. SUFFICES ASSUME NEW i \in D PROVE Cardinality({i} \X (1..f[i])) = f[i]
    OBVIOUS
  <2>1. f[i] \in Nat
    OBVIOUS
  <2>2. IsFiniteSet(1..f[i]) /\ Cardinality(1..f[i]) = f[i]
    BY <2>1, FS_Interval
  <2>3. IsFiniteSet({i}) /\ Cardinality({i}) = 1
    BY FS_Singleton
  <2>4. Cardinality({i} \X (1..f[i])) = Cardinality({i}) * Cardinality(1..f[i])
    BY <2>2, <2>3, FS_Product
  <2>. QED
    BY <2>1, <2>2, <2>3, <2>4
<1>5. {e \in K : \E i \in D : e \in T[i]} = {e \in K : e[2] <= f[e[1]]}
  <2>. SUFFICES ASSUME NEW e \in K PROVE (\E i \in D : e \in T[i]) <=> e[2] <= f[e[1]]
    OBVIOUS
  <2>1. PICK x \in D, y \in 1..b : e = <<x, y>>
    OBVIOUS
  <2>2. e[1] = x /\ e[2] = y
    BY <2>1
  <2>3. \A i \in D : e \in T[i] <=> i = x /\ y \in 1..f[i]
    BY <2>1
  <2>4. f[x] \in Nat
    OBVIOUS
  <2>. HIDE DEF T
  <2>5. y \in 1..f[x] <=> y <= f[x]
    BY <2>4
  <2>. QED
    BY <2>2, <2>3, <2>5
<1>6. [i \in D |-> Cardinality(T[i])] = f
  <2>. HIDE DEF T
  <2>. QED
    BY <1>4
<1>. HIDE DEF K, T
<1>7. SumFunction(f) = Cardinality({e \in K : \E i \in D : e \in T[i]})
  BY <1>1, <1>2, <1>3, <1>6, SumOfParts
<1>8. {e \in K : e[2] <= f[e[1]]} \in SUBSET K
  OBVIOUS
<1>9. IsFiniteSet({e \in K : e[2] <= f[e[1]]})
  BY <1>1, <1>8, FS_Subset
<1>10. Cardinality({e \in K : e[2] <= f[e[1]]}) \in Nat
  BY <1>9, FS_CardinalityType
<1>. QED
  BY <1>5, <1>7, <1>9, <1>10 DEF K, Squares

\* One more argument adds its value to the sum.
LEMMA SumAdd ==
    ASSUME NEW D, IsFiniteSet(D), NEW b \in Nat, NEW g \in [D -> 0..b], NEW d \in D
    PROVE  SumFunction(g) = SumFunction([i \in D \ {d} |-> g[i]]) + g[d]
<1>. DEFINE E == D \ {d}
            f == [i \in E |-> g[i]]
            A == Squares(g, D, b)
            B == Squares(f, E, b)
            C == {d} \X (1..g[d])
<1>1. IsFiniteSet(E) /\ f \in [E -> 0..b]
  BY FS_RemoveElement
<1>2. g[d] \in Nat /\ g[d] <= b
  OBVIOUS
<1>3. A = B \cup C /\ B \cap C = {}
  <2>1. ASSUME NEW x \in D, NEW y \in 1..b
        PROVE  /\ <<x, y>> \in A <=> y <= g[x]
               /\ x # d => (<<x, y>> \in B <=> y <= g[x])
               /\ x = d => <<x, y>> \notin B
               /\ <<x, y>> \in C <=> x = d /\ y <= g[d]
    <3>1. <<x, y>> \in A <=> y <= g[x]
      BY DEF Squares
    <3>2. x # d => x \in E /\ f[x] = g[x]
      OBVIOUS
    <3>3. x # d => (<<x, y>> \in B <=> y <= g[x])
      <4>. HIDE DEF f, E
      <4>. QED
        BY <3>2 DEF Squares
    <3>4. x = d => <<x, y>> \notin B
      <4>1. d \notin E
        OBVIOUS
      <4>. HIDE DEF f, E
      <4>. QED
        BY <4>1 DEF Squares
    <3>5. y \in 1..g[d] <=> y <= g[d]
      BY <1>2
    <3>6. <<x, y>> \in C <=> x = d /\ y <= g[d]
      BY <3>5
    <3>. HIDE DEF A, B, C
    <3>. QED
      BY <3>1, <3>3, <3>4, <3>6
  <2>2. A \subseteq D \X (1..b)
    BY DEF Squares
  <2>3. B \subseteq D \X (1..b)
    BY DEF Squares
  <2>4. C \subseteq D \X (1..b)
    <3>1. 1..g[d] \subseteq 1..b
      BY <1>2
    <3>. QED
      BY <3>1
  <2>5. \A e \in D \X (1..b) : \E x \in D, y \in 1..b : e = <<x, y>>
    OBVIOUS
  <2>. HIDE DEF A, B, C
  <2>6. \A e \in D \X (1..b) : (e \in A <=> e \in B \/ e \in C) /\ ~ (e \in B /\ e \in C)
    <3>. SUFFICES ASSUME NEW e \in D \X (1..b) PROVE (e \in A <=> e \in B \/ e \in C) /\ ~ (e \in B /\ e \in C)
      OBVIOUS
    <3>1. PICK x \in D, y \in 1..b : e = <<x, y>>
      BY <2>5
    <3>. QED
      BY <2>1, <3>1
  <2>. QED
    BY <2>2, <2>3, <2>4, <2>6
<1>4. IsFiniteSet(C) /\ Cardinality(C) = g[d]
  <2>1. IsFiniteSet(1..g[d]) /\ Cardinality(1..g[d]) = g[d]
    BY <1>2, FS_Interval
  <2>2. IsFiniteSet({d}) /\ Cardinality({d}) = 1
    BY FS_Singleton
  <2>3. Cardinality(C) = Cardinality({d}) * Cardinality(1..g[d]) /\ IsFiniteSet(C)
    BY <2>1, <2>2, FS_Product
  <2>. QED
    BY <1>2, <2>1, <2>2, <2>3
<1>. HIDE DEF E, f, C
<1>5. SumFunction(g) = Cardinality(A)
  BY SumAsSize
<1>6. SumFunction(f) = Cardinality(B) /\ IsFiniteSet(B) /\ SumFunction(f) \in Nat
  BY <1>1, SumAsSize
<1>. HIDE DEF A, B
<1>7. Cardinality(A) = Cardinality(B) + Cardinality(C) - Cardinality(B \cap C)
  BY <1>3, <1>4, <1>6, FS_Union
<1>8. Cardinality(B \cap C) = 0
  BY <1>3, FS_EmptySet
<1>9. SumFunction(g) = SumFunction(f) + g[d]
  BY <1>2, <1>4, <1>5, <1>6, <1>7, <1>8
<1>. QED
  BY <1>9 DEF f, E

\* The sum of positive values is at least their number.
LEMMA SumOfPositive ==
    ASSUME NEW D, IsFiniteSet(D), NEW b \in Nat, NEW f \in [D -> 1..b]
    PROVE  Cardinality(D) <= SumFunction(f)
<1>. DEFINE A == Squares(f, D, b)
            inj == [i \in D |-> <<i, 1>>]
<1>1. f \in [D -> 0..b]
  OBVIOUS
<1>2. SumFunction(f) = Cardinality(A) /\ IsFiniteSet(A)
  BY <1>1, SumAsSize
<1>3. inj \in Injection(D, A)
  <2>1. ASSUME NEW i \in D PROVE <<i, 1>> \in A
    <3>1. f[i] \in 1..b
      OBVIOUS
    <3>2. 1 \in 1..b /\ 1 <= f[i]
      BY <3>1
    <3>. QED
      BY <3>2 DEF Squares
  <2>. HIDE DEF A
  <2>. QED
    BY <2>1 DEF Injection, IsInjective
<1>. HIDE DEF A, inj
<1>. QED
  BY <1>2, <1>3, FS_Injection

(***************************************************************************)
(* Functions computed step by step.                                        *)
(***************************************************************************)
\* Induction, for a property given as the set of numbers that have it.
LEMMA CountingUp ==
    ASSUME NEW S, 0 \in S, \A n \in Nat : n \in S => n + 1 \in S
    PROVE  Nat \subseteq S
<1>. DEFINE Bad == Nat \ S
<1>. SUFFICES ASSUME Bad # {} PROVE FALSE
  OBVIOUS
<1>1. PICK m \in Bad : \A k \in Bad : m <= k
  BY LeastNatural
<1>2. m # 0 /\ m - 1 \in Nat /\ m - 1 \notin Bad
  BY <1>1
<1>. QED
  BY <1>1, <1>2

\* A function that computes each value from the one before exists: the step is F,
\* the value at 0 is c.
Stepwise(g, n, c, F) == g = [i \in 0..n |-> IF i = 0 THEN c ELSE F[<<i, g[i - 1]>>]]

\* There is one.
LEMMA StepwiseExists ==
    ASSUME NEW n \in Nat, NEW c, NEW F
    PROVE  \E g : Stepwise(g, n, c, F)
<1>. DEFINE Step(g, k) == IF k = 0 THEN c ELSE F[<<k, g[k - 1]>>]
            Bad == {k \in Nat : ~ \E g : Stepwise(g, k, c, F)}
<1>1. ASSUME NEW g, NEW k, g = [i \in 0..k |-> Step(g, i)] PROVE Stepwise(g, k, c, F)
  BY <1>1 DEF Stepwise
<1>2. ASSUME NEW g, NEW k \in Nat, Stepwise(g, k, c, F) PROVE \A i \in 0..k : g[i] = Step(g, i)
  <2>1. g = [i \in 0..k |-> Step(g, i)]
    BY <1>2 DEF Stepwise
  <2>. HIDE DEF Step
  <2>. QED
    BY <2>1
<1>3. Bad = {}
  <2>. SUFFICES ASSUME Bad # {} PROVE FALSE
    OBVIOUS
  <2>1. PICK m \in Bad : \A k \in Bad : m <= k
    <3>1. Bad \subseteq Nat
      OBVIOUS
    <3>. HIDE DEF Bad
    <3>. QED
      BY <3>1, LeastNatural
  <2>2. m \in Nat /\ ~ \E g : Stepwise(g, m, c, F)
    OBVIOUS
  <2>3. m # 0
    <3>. SUFFICES ASSUME m = 0 PROVE FALSE
      OBVIOUS
    <3>. DEFINE g == [i \in 0..0 |-> c]
    <3>1. g = [i \in 0..0 |-> Step(g, i)]
      OBVIOUS
    <3>. HIDE DEF g, Step
    <3>. QED
      BY <1>1, <2>2, <3>1
  <2>4. m - 1 \in Nat /\ m - 1 \notin Bad
    <3>. HIDE DEF Bad
    <3>. QED
      BY <2>1, <2>2, <2>3
  <2>5. PICK g : Stepwise(g, m - 1, c, F)
    BY <2>4
  <2>. DEFINE h == [i \in 0..m |-> IF i = m THEN F[<<m, g[m - 1]>>] ELSE g[i]]
  <2>6. \A i \in 0..m - 1 : g[i] = Step(g, i)
    <3>. HIDE DEF Step
    <3>. QED
      BY <1>2, <2>4, <2>5
  <2>7. ASSUME NEW i \in 0..m PROVE h[i] = Step(h, i)
    <3>1. CASE i = m
      <4>1. m - 1 \in 0..m /\ m - 1 # m /\ m \in 0..m
        BY <2>2, <2>4
      <4>2. h[m] = F[<<m, g[m - 1]>>] /\ h[m - 1] = g[m - 1]
        BY <4>1
      <4>. HIDE DEF h
      <4>. QED
        BY <2>3, <3>1, <4>2
    <3>2. CASE i # m
      <4>1. i \in 0..m - 1 /\ (i # 0 => i - 1 \in 0..m /\ i - 1 # m)
        BY <2>2, <3>2
      <4>2. h[i] = g[i] /\ (i # 0 => h[i - 1] = g[i - 1])
        BY <3>2, <4>1
      <4>. HIDE DEF h
      <4>. QED
        BY <2>6, <4>1, <4>2
    <3>. QED
      BY <3>1, <3>2
  <2>8. h = [i \in 0..m |-> Step(h, i)]
    <3>1. h = [i \in 0..m |-> h[i]]
      OBVIOUS
    <3>. HIDE DEF h, Step
    <3>. QED
      BY <2>7, <3>1
  <2>9. Stepwise(h, m, c, F)
    <3>. HIDE DEF h, Step
    <3>. QED
      BY <1>1, <2>8
  <2>. HIDE DEF h
  <2>. QED
    BY <2>2, <2>9
<1>. QED
  BY <1>3

=============================================================================
