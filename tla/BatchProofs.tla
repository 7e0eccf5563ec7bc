----------------------------- MODULE BatchProofs ----------------------------
(***************************************************************************)
(* Proofs about the memtable, for every set of keys and values, every      *)
(* level a node may have and every number of threads and operations: what  *)
(* the end of a commit says of its batch is true, also when an allocation  *)
(* fails half way, and the skip list is the map of the operations applied  *)
(* to it until an operation reads outside a node.                          *)
(***************************************************************************)
EXTENDS Batch, Extrema, FiniteSetTheorems, SequenceTheorems, TLAPS

(***************************************************************************)
(* Part 1. Batches.                                                        *)
(***************************************************************************)

\* A proper part of the entries was applied, and the list is locked for ever.
HalfApplied(x, done, s) == s /\ \E n \in 1..Len(x.entries) - 1 : done = SubSeq(x.entries, 1, n)

\* How far a batch is applied; s: whether the list is stuck.
AppliedOK(x, done, s) ==
    /\ x.status = "active" => done = <<>>
    /\ x.status = "committing" =>
          x.next \in 0..Len(x.entries) /\ done = SubSeq(x.entries, 1, x.next)
    /\ x.status = "idle" /\ x.id # 0 => done = x.entries
    /\ x.status = "rolledback" => done = <<>> \/ HalfApplied(x, done, s)
    /\ x.id = 0 => x.status = "idle"

TxnState ==
    [id : Nat, status : {"idle", "active", "committing", "rolledback"},
     entries : Seq(Op), next : Nat, committed : BOOLEAN, managed : BOOLEAN]

BatchInv ==
    /\ txn \in [Thread -> TxnState] /\ applied \in [Thread -> Seq(Op)]
    /\ made \in Nat
    /\ \A t \in Thread : AppliedOK(txn[t], applied[t], stuck)

\* A prefix and the next element are the next prefix.
LEMMA PrefixAppend ==
    ASSUME NEW S, NEW s \in Seq(S), NEW n \in Nat, n < Len(s)
    PROVE  Append(SubSeq(s, 1, n), s[n + 1]) = SubSeq(s, 1, n + 1)
<1>1. SubSeq(s, 1, n) = [i \in 1..n |-> s[i]] /\ SubSeq(s, 1, n + 1) = [i \in 1..n + 1 |-> s[i]]
  OBVIOUS
<1>. DEFINE p == [i \in 1..n |-> s[i]]
<1>2. p \in Seq(S) /\ Len(p) = n
  <2>1. \A i \in 1..n : s[i] \in S
    OBVIOUS
  <2>. QED
    BY <2>1
<1>3. Append(p, s[n + 1]) = [i \in 1..n + 1 |-> IF i <= n THEN p[i] ELSE s[n + 1]]
  BY <1>2
<1>4. \A i \in 1..n + 1 : (IF i <= n THEN p[i] ELSE s[n + 1]) = s[i]
  OBVIOUS
<1>. QED
  BY <1>1, <1>3, <1>4, Zenon

\* The whole sequence is its longest prefix.
LEMMA PrefixAll ==
    ASSUME NEW S, NEW s \in Seq(S)
    PROVE  SubSeq(s, 1, Len(s)) = s /\ SubSeq(s, 1, 0) = <<>>
OBVIOUS

\* Every step keeps it.
LEMMA BatchStep ==
    ASSUME BatchInv, Next
    PROVE  BatchInv'
<1>. USE DEF BatchInv
<1>0. NoTxn \in TxnState
  BY DEF NoTxn, TxnState
<1>1. ASSUME NEW k \in Key, NEW v \in Value, SinglePut(k, v) PROVE BatchInv'
  BY <1>1 DEF SinglePut
<1>2. ASSUME NEW t \in Thread, Begin(t) PROVE BatchInv'
  <2>1. made' = made + 1 /\ applied' = [applied EXCEPT ![t] = <<>>] /\ stuck' = stuck
    BY <1>2 DEF Begin
  <2>. DEFINE x == [NoTxn EXCEPT !.id = made', !.status = "active"]
  <2>2. txn' = [txn EXCEPT ![t] = x]
    BY <1>2 DEF Begin
  <2>3. x \in TxnState /\ x.id # 0 /\ x.status = "active"
    <3>. DEFINE id == made'
    <3>1. id \in Nat /\ id # 0 /\ <<>> \in Seq(Op)
      BY <2>1
    <3>. DEFINE y == [NoTxn EXCEPT !.id = id]
    <3>2. x = [y EXCEPT !.status = "active"]
      OBVIOUS
    <3>. HIDE DEF id, x, BatchInv
    <3>3. y \in TxnState /\ y.id = id
      BY <1>0, <3>1 DEF TxnState
    <3>. HIDE DEF y
    <3>. QED
      BY <3>1, <3>2, <3>3 DEF TxnState
  <2>. HIDE DEF x
  <2>. QED
    BY <2>1, <2>2, <2>3 DEF AppliedOK
<1>3. ASSUME NEW t \in Thread, Rollback(t) PROVE BatchInv'
  <2>. DEFINE x == RolledBack(txn[t])
  <2>1. txn' = [txn EXCEPT ![t] = x] /\ UNCHANGED <<applied, stuck, made>> /\ txn[t].status # "committing"
    BY <1>3 DEF Rollback
  <2>2. x \in TxnState /\ (x = txn[t] \/ (x.status = "rolledback" /\ txn[t].status = "active" /\ x.id = txn[t].id))
    <3>1. <<>> \in Seq(Op) /\ txn[t] \in TxnState
      OBVIOUS
    <3>. QED
      BY <3>1 DEF RolledBack, TxnState
  <2>3. x = txn[t] \/ x.id # 0
    BY <2>2 DEF AppliedOK
  <2>4. AppliedOK(x, applied[t], stuck)
    BY <2>1, <2>2, <2>3 DEF AppliedOK
  <2>. HIDE DEF x
  <2>. QED
    BY <2>1, <2>2, <2>4
<1>4. ASSUME NEW t \in Thread, End(t) PROVE BatchInv'
  <2>1. txn' = [txn EXCEPT ![t] = NoTxn] /\ applied' = [applied EXCEPT ![t] = <<>>]
        /\ UNCHANGED <<stuck, made>>
    BY <1>4 DEF End
  <2>2. AppliedOK(NoTxn, <<>>, stuck)
    BY DEF AppliedOK, NoTxn
  <2>. QED
    BY <1>0, <2>1, <2>2
<1>5. ASSUME NEW t \in Thread, NEW op \in Op, Collect(t, op) PROVE BatchInv'
  <2>. DEFINE x == [txn[t] EXCEPT !.entries = Append(@, op)]
  <2>1. txn' = [txn EXCEPT ![t] = x] /\ UNCHANGED <<applied, stuck, made>> /\ txn[t].status = "active"
    BY <1>5 DEF Collect
  <2>2. x \in TxnState /\ x.status = "active" /\ x.id = txn[t].id
    <3>1. Append(txn[t].entries, op) \in Seq(Op)
      BY DEF TxnState
    <3>. QED
      BY <2>1, <3>1 DEF TxnState
  <2>. HIDE DEF x
  <2>. QED
    BY <2>1, <2>2 DEF AppliedOK
<1>6. ASSUME NEW t \in Thread, NEW managed \in BOOLEAN, CommitBegin(t, managed) PROVE BatchInv'
  <2>. DEFINE x == [txn[t] EXCEPT !.status = "committing", !.next = 0, !.managed = managed]
  <2>1. txn' = [txn EXCEPT ![t] = x] /\ UNCHANGED <<applied, stuck, made>>
        /\ txn[t].status = "active" /\ txn[t].id # 0
    BY <1>6 DEF CommitBegin, CanCommit, Open
  <2>2. x \in TxnState /\ x.status = "committing" /\ x.id # 0 /\ x.next = 0 /\ x.entries \in Seq(Op)
    BY <2>1 DEF TxnState
  <2>3. x.next \in 0..Len(x.entries) /\ SubSeq(x.entries, 1, x.next) = <<>>
    BY <2>2, PrefixAll
  <2>. HIDE DEF x
  <2>. QED
    BY <2>1, <2>2, <2>3 DEF AppliedOK
<1>7. ASSUME NEW t \in Thread, CommitStep(t) PROVE BatchInv'
  <2>. DEFINE x == [txn[t] EXCEPT !.next = @ + 1]
              done == Append(applied[t], txn[t].entries[txn[t].next + 1])
  <2>1. txn' = [txn EXCEPT ![t] = x] /\ applied' = [applied EXCEPT ![t] = done]
        /\ UNCHANGED <<stuck, made>>
        /\ txn[t].status = "committing" /\ txn[t].next < Len(txn[t].entries)
    BY <1>7 DEF CommitStep
  <2>2. /\ x \in TxnState /\ x.status = "committing" /\ x.id = txn[t].id
        /\ x.entries = txn[t].entries /\ x.next = txn[t].next + 1
        /\ txn[t].entries \in Seq(Op) /\ txn[t].next \in Nat
    <3>1. txn[t] \in TxnState
      OBVIOUS
    <3>. DEFINE n == txn[t].next + 1
    <3>2. n \in Nat
      BY <3>1 DEF TxnState
    <3>. HIDE DEF n
    <3>3. x = [txn[t] EXCEPT !.next = n]
      BY DEF n
    <3>. HIDE DEF x, BatchInv
    <3>4. x \in TxnState /\ x.status = txn[t].status /\ x.id = txn[t].id /\ x.entries = txn[t].entries /\ x.next = n
      BY <3>1, <3>2, <3>3 DEF TxnState
    <3>. QED
      BY <2>1, <3>1, <3>4 DEF TxnState, n
  <2>3. applied[t] = SubSeq(txn[t].entries, 1, txn[t].next)
    BY <2>1 DEF AppliedOK
  <2>4. done = SubSeq(x.entries, 1, x.next)
    BY <2>1, <2>2, <2>3, PrefixAppend
  <2>5. done \in Seq(Op)
    BY <2>1, <2>2
  <2>6. x.next \in 0..Len(x.entries)
    BY <2>1, <2>2
  <2>7. AppliedOK(x, done, stuck)
    BY <2>1, <2>2, <2>4, <2>6 DEF AppliedOK
  <2>. HIDE DEF x, done
  <2>. QED
    BY <2>1, <2>2, <2>5, <2>7
<1>8. ASSUME NEW t \in Thread, CommitEnd(t) PROVE BatchInv'
  <2>. DEFINE x == Finished(txn[t])
  <2>1. txn' = [txn EXCEPT ![t] = x] /\ UNCHANGED <<applied, stuck, made>>
        /\ txn[t].status = "committing" /\ txn[t].next = Len(txn[t].entries)
    BY <1>8 DEF CommitEnd
  <2>2. x \in TxnState /\ x.status = "idle" /\ x.entries = txn[t].entries /\ x.entries \in Seq(Op)
    BY DEF Finished, TxnState
  <2>3. applied[t] = x.entries
    BY <2>1, <2>2, PrefixAll DEF AppliedOK
  <2>4. AppliedOK(x, applied[t], stuck)
    <3>1. x.id = 0 => x.status = "idle"
      BY <2>2
    <3>. QED
      BY <2>2, <2>3, <3>1 DEF AppliedOK
  <2>. HIDE DEF x
  <2>. QED
    BY <2>1, <2>2, <2>4
<1>9. ASSUME NEW t \in Thread, CommitThrow(t) PROVE BatchInv'
  <2>. DEFINE x == [txn[t] EXCEPT !.status = "rolledback"]
  <2>1. txn' = [txn EXCEPT ![t] = x] /\ UNCHANGED <<applied, made>> /\ stuck' = TRUE
        /\ txn[t].status = "committing" /\ txn[t].next < Len(txn[t].entries)
    BY <1>9 DEF CommitThrow
  <2>2. x \in TxnState /\ x.status = "rolledback" /\ x.id = txn[t].id /\ x.entries = txn[t].entries
        /\ x.entries \in Seq(Op)
    BY DEF TxnState
  <2>3. txn[t].next \in 0..Len(x.entries) - 1 /\ applied[t] = SubSeq(x.entries, 1, txn[t].next)
    BY <2>1, <2>2 DEF AppliedOK
  <2>4. applied[t] = <<>> \/ HalfApplied(x, applied[t], TRUE)
    <3>1. CASE txn[t].next = 0
      BY <2>2, <2>3, <3>1, PrefixAll
    <3>2. CASE txn[t].next # 0
      BY <2>3, <3>2 DEF HalfApplied
    <3>. QED
      BY <3>1, <3>2
  <2>5. AppliedOK(x, applied[t], stuck')
    BY <2>1, <2>2, <2>4 DEF AppliedOK
  <2>6. ASSUME NEW u \in Thread PROVE AppliedOK(txn[u], applied[u], stuck')
    BY <2>1 DEF AppliedOK, HalfApplied
  <2>. HIDE DEF x
  <2>. QED
    BY <2>1, <2>2, <2>5, <2>6
<1>. QED
  BY <1>1, <1>2, <1>3, <1>4, <1>5, <1>6, <1>7, <1>8, <1>9 DEF Next

\* The invariant behind it holds in every state.
LEMMA BatchInvariant == Spec => []BatchInv
<1>1. Init => BatchInv
  <2>. SUFFICES ASSUME Init PROVE BatchInv
    OBVIOUS
  <2>1. NoTxn \in TxnState /\ AppliedOK(NoTxn, <<>>, stuck)
    BY DEF NoTxn, TxnState, AppliedOK
  <2>. QED
    BY <2>1 DEF Init, BatchInv
<1>2. BatchInv /\ [Next]_vars => BatchInv'
  <2>1. CASE Next
    BY <2>1, BatchStep
  <2>2. CASE UNCHANGED vars
    BY <2>2 DEF vars, BatchInv
  <2>. QED
    BY <2>1, <2>2
<1>. QED
  BY <1>1, <1>2, PTL DEF Spec

(***************************************************************************)
(* What the end of a commit says of its batch is true, whatever other      *)
(* threads write in between, whichever allocations fail, and however often *)
(* it is begun, committed, rolled back and dropped: a Commit that returned *)
(* true applied every entry once and in order, one that was rolled back    *)
(* applied nothing, or a part that stays behind the lock of the skip list  *)
(* (BatchCommit::Commit, SkipList::Put).                                   *)
(***************************************************************************)
THEOREM CommitsTellTheTruth == Spec => []CommitTellsTruth
<1>1. ASSUME BatchInv, NEW t \in Thread, Open(t)
      PROVE  \/ txn[t].status = "active" /\ applied[t] = <<>>
             \/ txn[t].status = "committing" /\ applied[t] = FirstEntries(t, txn[t].next)
             \/ txn[t].status = "idle" /\ applied[t] = txn[t].entries
             \/ txn[t].status = "rolledback" /\ applied[t] = <<>>
             \/ /\ txn[t].status = "rolledback" /\ stuck
                /\ \E n \in 1..Len(txn[t].entries) - 1 : applied[t] = FirstEntries(t, n)
  <2>1. txn[t].status \in {"idle", "active", "committing", "rolledback"}
    BY <1>1 DEF BatchInv, TxnState
  <2>2. AppliedOK(txn[t], applied[t], stuck) /\ txn[t].id # 0
    BY <1>1 DEF BatchInv, Open
  <2>. QED
    BY <2>1, <2>2 DEF AppliedOK, HalfApplied, FirstEntries
<1>2. BatchInv => CommitTellsTruth
  BY <1>1 DEF CommitTellsTruth
<1>. QED
  BY <1>2, BatchInvariant, PTL

(***************************************************************************)
(* Part 2. The skip list.                                                  *)
(*                                                                         *)
(* A node keeps pointers that nothing maintains: a new node is linked      *)
(* behind the node before it on every level, also on levels where that     *)
(* node cannot be reached from head_, and Delete repairs only the pointers *)
(* that a search from head_ meets.  What searches rest on is therefore     *)
(* said of the towers: R[n] is what head_ reaches on level n.              *)
(***************************************************************************)
Nodes(l) == DOMAIN l.nexts
Pos(l, p) == IF p = HeadNode THEN -1 ELSE l.key[p]

\* What the fields of nodes hold: functions from nodes.
PerNode(S) == UNION {[D -> S] : D \in SUBSET Nat}

ListType ==
    [nexts : PerNode(Seq(Int)), key : PerNode(Key), value : PerNode(Value),
     allocated : Nat, size : Int, bytes : Int, broken : BOOLEAN]

\* Every pointer, maintained or not, leads to a node that was allocated, and to a larger
\* key if that node is still there.
PointersOK(l) ==
    \A p \in Nodes(l) : \A n \in 1..Len(l.nexts[p]) :
        /\ l.nexts[p][n] \in 0..l.allocated
        /\ l.nexts[p][n] \in Nodes(l) => Pos(l, p) < Pos(l, l.nexts[p][n])

NodesOK(l) ==
    /\ HeadNode \in Nodes(l) /\ Nodes(l) \subseteq 1..l.allocated
    /\ DOMAIN l.key = Nodes(l) \ {HeadNode} /\ DOMAIN l.value = Nodes(l) \ {HeadNode}
    /\ \A p, q \in Nodes(l) \ {HeadNode} : l.key[p] = l.key[q] => p = q

Shape(l) == l \in ListType /\ NodesOK(l) /\ PointersOK(l)

\* The facts about a list that the proofs below use.
LEMMA ShapeFacts ==
    ASSUME NEW l, Shape(l)
    PROVE  /\ l.allocated \in Nat /\ l.size \in Int /\ l.bytes \in Int
           /\ HeadNode \in Nodes(l) /\ Nodes(l) \subseteq Nat
           /\ Wild \notin Nodes(l) /\ Nil \notin Nodes(l) /\ l.allocated + 1 \notin Nodes(l)
           /\ \A p \in Nodes(l) : l.nexts[p] \in Seq(Int)
           /\ \A p \in Nodes(l) : Pos(l, p) \in Int /\ Pos(l, p) >= -1
           /\ \A p \in Nodes(l) : Pos(l, p) = -1 <=> p = HeadNode
           /\ \A p, q \in Nodes(l) : Pos(l, p) = Pos(l, q) => p = q
           /\ \A p \in Nodes(l) : p # HeadNode => Pos(l, p) = l.key[p] /\ l.key[p] \in Key /\ l.value[p] \in Value
           /\ IsFiniteSet(Nodes(l))
<1>1. l \in ListType /\ NodesOK(l)
  BY DEF Shape
<1>2. l.allocated \in Nat /\ l.size \in Int /\ l.bytes \in Int
  BY <1>1 DEF ListType
<1>3. HeadNode \in Nodes(l) /\ Nodes(l) \subseteq 1..l.allocated
  BY <1>1 DEF NodesOK
<1>4. Nodes(l) \subseteq Nat /\ Wild \notin Nodes(l) /\ Nil \notin Nodes(l) /\ l.allocated + 1 \notin Nodes(l)
  BY <1>2, <1>3 DEF Wild, Nil
<1>5. \A p \in Nodes(l) : l.nexts[p] \in Seq(Int)
  <2>1. PICK D \in SUBSET Nat : l.nexts \in [D -> Seq(Int)]
    BY <1>1 DEF ListType, PerNode
  <2>. QED
    BY <2>1 DEF Nodes
<1>6. ASSUME NEW p \in Nodes(l), p # HeadNode PROVE l.key[p] \in Key /\ l.value[p] \in Value
  <2>1. PICK D \in SUBSET Nat : l.key \in [D -> Key]
    BY <1>1 DEF ListType, PerNode
  <2>2. PICK C \in SUBSET Nat : l.value \in [C -> Value]
    BY <1>1 DEF ListType, PerNode
  <2>3. DOMAIN l.key = Nodes(l) \ {HeadNode} /\ DOMAIN l.value = Nodes(l) \ {HeadNode}
    BY <1>1 DEF NodesOK
  <2>. QED
    BY <1>6, <2>1, <2>2, <2>3
<1>7. Key \subseteq Nat
  BY ListAssumption
<1>8. \A p \in Nodes(l) : Pos(l, p) \in Int /\ Pos(l, p) >= -1 /\ (Pos(l, p) = -1 <=> p = HeadNode)
  <2>. SUFFICES ASSUME NEW p \in Nodes(l)
                PROVE  Pos(l, p) \in Int /\ Pos(l, p) >= -1 /\ (Pos(l, p) = -1 <=> p = HeadNode)
    OBVIOUS
  <2>1. CASE p = HeadNode
    BY <2>1 DEF Pos
  <2>2. CASE p # HeadNode
    <3>1. Pos(l, p) = l.key[p] /\ l.key[p] \in Nat
      BY <1>6, <1>7, <2>2 DEF Pos
    <3>. QED
      BY <2>2, <3>1
  <2>. QED
    BY <2>1, <2>2
<1>9. \A p, q \in Nodes(l) : Pos(l, p) = Pos(l, q) => p = q
  BY <1>1, <1>6, <1>7 DEF Pos, NodesOK
<1>10. IsFiniteSet(Nodes(l))
  <2>1. IsFiniteSet(1..l.allocated)
    BY <1>2, FS_Interval
  <2>. QED
    BY <1>3, <2>1, FS_Subset
<1>11. \A p \in Nodes(l) : p # HeadNode => Pos(l, p) = l.key[p]
  BY DEF Pos
<1>. QED
  BY <1>2, <1>3, <1>4, <1>5, <1>6, <1>8, <1>9, <1>10, <1>11

\* One round of the loop over a level: the walk stops at p or goes on.
Stops(l, p, n) == LET q == NextOf(l, p, n) IN p = Wild \/ q = Wild \/ q \notin Nodes(l) \cup {Nil}
GoesOn(l, p, n, k) == LET q == NextOf(l, p, n) IN ~ Stops(l, p, n) /\ q # Nil /\ l.key[q] < k

\* A walk goes on to nodes with larger keys, still below k.
LEMMA WalkGrows ==
    ASSUME NEW l, Shape(l), NEW n \in Nat \ {0}, NEW k \in Nat, NEW p, GoesOn(l, p, n, k),
           p \in Nodes(l) \cup {Wild}
    PROVE  /\ p \in Nodes(l) /\ NextOf(l, p, n) \in Nodes(l)
           /\ Pos(l, p) < Pos(l, NextOf(l, p, n)) /\ Pos(l, NextOf(l, p, n)) < k
<1>. DEFINE q == NextOf(l, p, n)
<1>1. p \in Nodes(l) /\ q \in Nodes(l) /\ q # Wild /\ l.key[q] < k
  BY DEF GoesOn, Stops
<1>2. n <= Len(l.nexts[p]) /\ q = l.nexts[p][n]
  BY <1>1 DEF NextOf, Nodes
<1>3. l.nexts[p] \in Seq(Int) /\ Pos(l, p) \in Int /\ Pos(l, p) >= -1 /\ Pos(l, q) \in Int
  BY <1>1, ShapeFacts
<1>4. n \in 1..Len(l.nexts[p])
  BY <1>2, <1>3
<1>5. Pos(l, p) < Pos(l, q)
  BY <1>1, <1>2, <1>4 DEF Shape, PointersOK
<1>6. Pos(l, q) = l.key[q]
  BY <1>3, <1>5 DEF Pos
<1>. QED
  BY <1>1, <1>5, <1>6

\* What the walk returns, given where it would arrive from the next node.
Arrives(l, p, n, k, rest) ==
    IF Stops(l, p, n) THEN Wild ELSE IF GoesOn(l, p, n, k) THEN rest ELSE p

\* The loop ends: keys grow along the pointers of a level, also those that nothing
\* maintains, so the recursive definition of Walk has the value its equation says.
LEMMA WalkStep ==
    ASSUME NEW l, Shape(l), NEW n \in Nat \ {0}, NEW k \in Nat, NEW p \in Nodes(l) \cup {Wild}
    PROVE  Walk(l, p, n, k) = Arrives(l, p, n, k, Walk(l, NextOf(l, p, n), n, k))
<1>. DEFINE Dom == Nodes(l) \cup {Wild}
            E(f, x) == Arrives(l, x, n, k, f[NextOf(l, x, n)])
            Near(m, x) == x = Wild \/ Pos(l, x) + m >= k
            Solves(f, m) == \A x \in Dom : Near(m, x) => f[x] = E(f, x)
            Good == {m \in Nat : \E f : Solves(f, m)}
<1>1. \A x \in Nodes(l) : Pos(l, x) \in Int /\ Pos(l, x) >= -1
  BY ShapeFacts
<1>2. \A x \in Dom : GoesOn(l, x, n, k) =>
          /\ x \in Nodes(l) /\ NextOf(l, x, n) \in Nodes(l)
          /\ Pos(l, x) < Pos(l, NextOf(l, x, n)) /\ Pos(l, NextOf(l, x, n)) < k
  BY WalkGrows
<1>3. 0 \in Good
  <2>. DEFINE f == [x \in Dom |-> IF Stops(l, x, n) THEN Wild ELSE x]
  <2>1. ASSUME NEW x \in Dom, Near(0, x) PROVE ~ GoesOn(l, x, n, k)
    <3>1. CASE x = Wild
      BY <3>1 DEF GoesOn, Stops
    <3>2. CASE x # Wild
      <4>1. x \in Nodes(l) /\ Pos(l, x) >= k
        BY <1>1, <2>1, <3>2
      <4>. QED
        BY <1>1, <1>2, <4>1
    <3>. QED
      BY <3>1, <3>2
  <2>2. Solves(f, 0)
    <3>. HIDE DEF Near
    <3>. QED
      BY <2>1 DEF Arrives
  <2>. HIDE DEF Solves, f
  <2>. QED
    BY <2>2
<1>4. ASSUME NEW m \in Nat, m \in Good PROVE m + 1 \in Good
  <2>1. PICK f : Solves(f, m)
    BY <1>4
  <2>. DEFINE g == [x \in Dom |-> IF Near(m, x) THEN f[x] ELSE E(f, x)]
  <2>2. ASSUME NEW x \in Dom, Near(m + 1, x) PROVE g[x] = E(g, x)
    <3>1. ASSUME GoesOn(l, x, n, k) PROVE f[NextOf(l, x, n)] = g[NextOf(l, x, n)]
      <4>. DEFINE q == NextOf(l, x, n)
      <4>1. q \in Dom /\ x \in Nodes(l) /\ q \in Nodes(l) /\ Pos(l, x) < Pos(l, q)
        BY <1>2, <3>1
      <4>2. x # Wild
        BY <4>1, ShapeFacts
      <4>3. Near(m, q)
        BY <1>1, <2>2, <4>1, <4>2
      <4>. HIDE DEF q, Near, E
      <4>4. f[q] = g[q]
        BY <4>1, <4>3
      <4>. QED
        BY <4>4 DEF q
    <3>2. E(f, x) = E(g, x)
      <4>. HIDE DEF g
      <4>. QED
        BY <3>1 DEF Arrives
    <3>3. g[x] = E(f, x)
      <4>1. Near(m, x) => f[x] = E(f, x)
        BY <2>1
      <4>. HIDE DEF Near, E
      <4>. QED
        BY <4>1
    <3>. HIDE DEF g, E
    <3>. QED
      BY <3>2, <3>3
  <2>3. Solves(g, m + 1)
    <3>. HIDE DEF g, Near, E
    <3>. QED
      BY <2>2
  <2>. HIDE DEF Solves, g
  <2>. QED
    BY <2>3
<1>5. k + 1 \in Good
  <2>. HIDE DEF Good
  <2>1. \A m \in Nat : m \in Good => m + 1 \in Good
    BY <1>4
  <2>2. Nat \subseteq Good
    BY <1>3, <2>1, CountingUp
  <2>. QED
    BY <2>2
<1>6. PICK f : \A x \in Dom : f[x] = E(f, x)
  <2>1. PICK f : Solves(f, k + 1)
    BY <1>5
  <2>2. \A x \in Dom : Near(k + 1, x)
    BY <1>1
  <2>3. \A x \in Dom : f[x] = E(f, x)
    <3>. HIDE DEF Near, E, Dom
    <3>. QED
      BY <2>1, <2>2
  <2>. QED
    BY <2>3
<1>. DEFINE h == [x \in Dom |-> f[x]]
            Is(w) == w = [x \in Dom |-> LET q == NextOf(l, x, n) IN
                        IF x = Wild \/ q = Wild \/ q \notin DOMAIN l.nexts \cup {Nil} THEN Wild
                        ELSE IF q # Nil /\ l.key[q] < k THEN w[q] ELSE x]
            walk == CHOOSE w : Is(w)
<1>7. ASSUME NEW w PROVE Is(w) <=> w = [x \in Dom |-> E(w, x)]
  <2>1. \A x \in Dom : (LET q == NextOf(l, x, n) IN
                        IF x = Wild \/ q = Wild \/ q \notin DOMAIN l.nexts \cup {Nil} THEN Wild
                        ELSE IF q # Nil /\ l.key[q] < k THEN w[q] ELSE x) = E(w, x)
    BY DEF Arrives, GoesOn, Stops, Nodes
  <2>. QED
    BY <2>1, ZenonT(60)
<1>8. Is(h)
  <2>1. ASSUME NEW x \in Dom PROVE h[x] = E(h, x)
    <3>1. GoesOn(l, x, n, k) => f[NextOf(l, x, n)] = h[NextOf(l, x, n)]
      BY <1>2
    <3>2. E(h, x) = E(f, x)
      <4>. HIDE DEF h
      <4>. QED
        BY <3>1 DEF Arrives
    <3>3. h[x] = f[x] /\ f[x] = E(f, x)
      <4>. HIDE DEF E
      <4>. QED
        BY <1>6
    <3>. QED
      BY <3>2, <3>3, Zenon
  <2>2. h = [x \in Dom |-> h[x]]
    OBVIOUS
  <2>. HIDE DEF h, E
  <2>3. h = [x \in Dom |-> E(h, x)]
    BY <2>1, <2>2
  <2>. HIDE DEF Is
  <2>. QED
    BY <1>7, <2>3
<1>9. Is(walk)
  <2>. HIDE DEF Is, h
  <2>. QED
    BY <1>8
<1>10. \A x : Walk(l, x, n, k) = walk[x]
  BY DEF Walk, Nodes
<1>. HIDE DEF walk
<1>11. walk = [x \in Dom |-> E(walk, x)]
  <2>. HIDE DEF Is, E
  <2>. QED
    BY <1>7, <1>9
<1>12. walk[p] = E(walk, p)
  <2>. HIDE DEF E
  <2>. QED
    BY <1>11
<1>. QED
  BY <1>10, <1>12

\* q is the next node behind p among those of S.
IsNext(l, S, p, q) ==
    IF q = Nil THEN \A s \in S : Pos(l, s) <= Pos(l, p)
    ELSE /\ q \in S /\ Pos(l, p) < Pos(l, q)
         /\ \A s \in S : Pos(l, p) < Pos(l, s) => Pos(l, q) <= Pos(l, s)

\* R[n] is what head_ reaches on level n: every node on the lowest one, fewer the higher,
\* and along them the pointers of the level are in the order of the keys and skip none.
Towers(l, R) ==
    /\ Top(l) \in Nat \ {0} /\ DOMAIN R = 1..Top(l)
    /\ R[1] = Nodes(l)
    /\ \A n \in 1..Top(l) : HeadNode \in R[n] /\ R[n] \subseteq Nodes(l)
    /\ \A n \in 1..Top(l) - 1 : R[n + 1] \subseteq R[n]
    /\ \A n \in 1..Top(l) : \A p \in R[n] :
          n <= Len(l.nexts[p]) /\ IsNext(l, R[n], p, l.nexts[p][n])

ListInv(l) == Shape(l) /\ \E R : Towers(l, R)

\* The last node of S before key k.
IsPred(l, S, k, r) ==
    /\ r \in S /\ Pos(l, r) < k
    /\ \A s \in S : Pos(l, s) < k => Pos(l, s) <= Pos(l, r)

\* There is only one such node.
LEMMA PredUnique ==
    ASSUME NEW l, Shape(l), NEW S, S \subseteq Nodes(l), NEW k \in Nat, NEW r, IsPred(l, S, k, r),
           NEW t, IsPred(l, S, k, t)
    PROVE  r = t
<1>1. r \in Nodes(l) /\ t \in Nodes(l) /\ Pos(l, r) <= Pos(l, t) /\ Pos(l, t) <= Pos(l, r)
  BY DEF IsPred
<1>2. Pos(l, r) \in Int /\ Pos(l, t) \in Int
  BY <1>1, ShapeFacts
<1>3. Pos(l, r) = Pos(l, t)
  BY <1>1, <1>2
<1>. QED
  BY <1>1, <1>3, ShapeFacts

\* A pointer of a tower, read by NextOf.
LEMMA TowerNext ==
    ASSUME NEW l, Shape(l), NEW R, Towers(l, R), NEW n \in 1..Top(l), NEW p \in R[n]
    PROVE  /\ p \in Nodes(l) /\ NextOf(l, p, n) = l.nexts[p][n] /\ n <= Len(l.nexts[p])
           /\ IsNext(l, R[n], p, NextOf(l, p, n))
           /\ NextOf(l, p, n) # Nil => NextOf(l, p, n) \in R[n] /\ NextOf(l, p, n) \in Nodes(l)
<1>1. p \in Nodes(l) /\ n <= Len(l.nexts[p]) /\ IsNext(l, R[n], p, l.nexts[p][n])
  BY DEF Towers
<1>2. NextOf(l, p, n) = l.nexts[p][n]
  BY <1>1 DEF NextOf, Nodes
<1>. QED
  BY <1>1, <1>2 DEF IsNext, Towers

\* A walk along a tower arrives at the last node before k.
LEMMA WalkToPred ==
    ASSUME NEW l, Shape(l), NEW R, Towers(l, R), NEW n \in 1..Top(l), NEW k \in Nat,
           NEW p \in R[n], Pos(l, p) < k
    PROVE  IsPred(l, R[n], k, Walk(l, p, n, k))
<1>. DEFINE Fine(x) == IsPred(l, R[n], k, Walk(l, x, n, k))
            Good == {m \in Nat : \A x \in R[n] : Pos(l, x) < k /\ Pos(l, x) + m >= k => Fine(x)}
<1>1. \A x \in R[n] : x \in Nodes(l) /\ Pos(l, x) \in Int /\ Pos(l, x) >= -1
  BY ShapeFacts DEF Towers
<1>2. n \in Nat \ {0}
  BY DEF Towers
<1>3. 0 \in Good
  BY <1>1
<1>4. ASSUME NEW m \in Nat, m \in Good PROVE m + 1 \in Good
  <2>. SUFFICES ASSUME NEW x \in R[n], Pos(l, x) < k, Pos(l, x) + (m + 1) >= k PROVE Fine(x)
    OBVIOUS
  <2>. DEFINE q == NextOf(l, x, n)
  <2>1. x \in Nodes(l) /\ IsNext(l, R[n], x, q) /\ (q # Nil => q \in R[n] /\ q \in Nodes(l))
    BY TowerNext
  <2>2. x # Wild /\ q # Wild
    <3>1. Wild \notin Nodes(l) /\ Wild # Nil
      BY ShapeFacts DEF Wild, Nil
    <3>. QED
      BY <2>1, <3>1
  <2>3. ~ Stops(l, x, n)
    BY <2>1, <2>2 DEF Stops
  <2>4. Walk(l, x, n, k) = IF GoesOn(l, x, n, k) THEN Walk(l, q, n, k) ELSE x
    BY <1>2, <2>1, <2>3, WalkStep DEF Arrives
  <2>5. CASE GoesOn(l, x, n, k)
    <3>1. q \in Nodes(l) /\ Pos(l, x) < Pos(l, q) /\ Pos(l, q) < k
      BY <1>2, <2>1, <2>5, WalkGrows
    <3>2. q \in R[n]
      <4>1. Nil \notin Nodes(l)
        BY ShapeFacts
      <4>. QED
        BY <2>1, <3>1, <4>1
    <3>3. Pos(l, q) + m >= k
      BY <1>1, <3>1, <3>2
    <3>4. Fine(q)
      <4>. HIDE DEF Fine, q
      <4>. QED
        BY <1>4, <3>1, <3>2, <3>3
    <3>. QED
      BY <2>4, <2>5, <3>4
  <2>6. CASE ~ GoesOn(l, x, n, k)
    <3>1. ASSUME NEW s \in R[n], Pos(l, s) < k PROVE Pos(l, s) <= Pos(l, x)
      <4>1. CASE q = Nil
        BY <2>1, <4>1 DEF IsNext
      <4>2. CASE q # Nil
        <5>1. q \in R[n] /\ Pos(l, x) < Pos(l, q) /\ (Pos(l, x) < Pos(l, s) => Pos(l, q) <= Pos(l, s))
          BY <2>1, <4>2 DEF IsNext
        <5>2. q # HeadNode
          BY <1>1, <5>1, ShapeFacts
        <5>3. Pos(l, q) = l.key[q]
          BY <5>2 DEF Pos
        <5>4. ~ (Pos(l, q) < k)
          BY <2>3, <2>6, <4>2, <5>3 DEF GoesOn
        <5>5. Pos(l, q) \in Int /\ Pos(l, x) \in Int /\ Pos(l, s) \in Int
          BY <1>1, <5>1
        <5>. HIDE DEF q
        <5>. QED
          BY <3>1, <5>1, <5>4, <5>5
      <4>. QED
        BY <4>1, <4>2
    <3>. QED
      BY <2>4, <2>6, <3>1 DEF IsPred
  <2>. QED
    BY <2>5, <2>6
<1>5. k + 1 \in Good
  <2>. HIDE DEF Good
  <2>1. \A m \in Nat : m \in Good => m + 1 \in Good
    BY <1>4
  <2>2. Nat \subseteq Good
    BY <1>3, <2>1, CountingUp
  <2>. QED
    BY <2>2
<1>6. Pos(l, p) + (k + 1) >= k
  BY <1>1
<1>. HIDE DEF Fine
<1>7. Fine(p)
  BY <1>5, <1>6
<1>. QED
  BY <1>7 DEF Fine

\* The level from which the walk on level n starts.
From(l, c, n, from) == IF n = Top(l) THEN from ELSE c[n + 1]

\* c satisfies the equation of the loop over the levels.
Follows(l, c, from, k) == \A n \in 1..Top(l) : c[n] = Walk(l, From(l, c, n, from), n, k)

\* The places where the loop over the levels stops are those that satisfy its equation.
LEMMA DescendIs ==
    ASSUME NEW l, Top(l) \in Nat, NEW from, NEW k, NEW S, NEW c \in [1..Top(l) -> S],
           Follows(l, c, from, k)
    PROVE  Descend(l, from, k) = c
<1>. DEFINE T == Top(l)
            Step(a, n) == Walk(l, IF n = T THEN from ELSE a[n + 1], n, k)
            Is(a) == a = [n \in 1..T |-> Step(a, n)]
            at == CHOOSE a : Is(a)
<1>1. Descend(l, from, k) = at
  BY DEF Descend
<1>2. \A n \in 1..T : c[n] = Step(c, n)
  BY DEF From, Follows
<1>2a. c = [n \in 1..T |-> c[n]]
  OBVIOUS
<1>3. Is(c)
  <2>. HIDE DEF Step
  <2>. QED
    BY <1>2, <1>2a, Zenon
<1>4. Is(at)
  <2>. HIDE DEF Is
  <2>. QED
    BY <1>3
<1>. HIDE DEF at, T
<1>5. at = [n \in 1..T |-> at[n]] /\ \A n \in 1..T : at[n] = Step(at, n)
  <2>. HIDE DEF Step
  <2>. QED
    BY <1>4
<1>. DEFINE Good == {m \in Nat : \A n \in 1..T : n + m >= T => at[n] = c[n]}
<1>6. T \in Nat
  BY DEF T
<1>7. 0 \in Good
  <2>1. \A n \in 1..T : n + 0 >= T => n = T
    BY <1>6
  <2>2. \A n \in 1..T : n = T => Step(at, n) = Step(c, n)
    <3>. SUFFICES ASSUME NEW n, n = T PROVE Step(at, n) = Step(c, n)
      OBVIOUS
    <3>1. (IF n = T THEN from ELSE at[n + 1]) = (IF n = T THEN from ELSE c[n + 1])
      OBVIOUS
    <3>. QED
      BY <3>1, Zenon
  <2>. HIDE DEF Step
  <2>. QED
    BY <1>2, <1>5, <2>1, <2>2
<1>8. ASSUME NEW m \in Nat, m \in Good PROVE m + 1 \in Good
  <2>. SUFFICES ASSUME NEW n \in 1..T, n + (m + 1) >= T PROVE at[n] = c[n]
    OBVIOUS
  <2>1. n # T => n + 1 \in 1..T /\ n + 1 + m >= T
    BY <1>6
  <2>2. n # T => at[n + 1] = c[n + 1]
    BY <1>8, <2>1
  <2>3. Step(at, n) = Step(c, n)
    <3>1. (IF n = T THEN from ELSE at[n + 1]) = (IF n = T THEN from ELSE c[n + 1])
      BY <2>2
    <3>. QED
      BY <3>1, Zenon
  <2>. HIDE DEF Step
  <2>. QED
    BY <1>2, <1>5, <2>3
<1>9. T \in Good
  <2>. HIDE DEF Good
  <2>1. \A m \in Nat : m \in Good => m + 1 \in Good
    BY <1>8
  <2>. QED
    BY <1>6, <1>7, <2>1, CountingUp
<1>10. \A n \in 1..T : at[n] = c[n]
  BY <1>6, <1>9
<1>11. at = c
  BY <1>2a, <1>5, <1>10, Zenon
<1>. QED
  BY <1>1, <1>11

\* A search from head_ stops on every level at the last node before the key that head_
\* reaches there; it never reads outside a node.
LEMMA HeadDescent ==
    ASSUME NEW l, Shape(l), NEW R, Towers(l, R), NEW k \in Nat
    PROVE  /\ DOMAIN Descend(l, HeadNode, k) = 1..Top(l)
           /\ \A n \in 1..Top(l) : IsPred(l, R[n], k, Descend(l, HeadNode, k)[n])
           /\ Wild \notin Range(Descend(l, HeadNode, k))
<1>. DEFINE T == Top(l)
            c == [n \in 1..T |-> CHOOSE r : IsPred(l, R[n], k, r)]
<1>1. T \in Nat \ {0} /\ \A n \in 1..T : HeadNode \in R[n] /\ R[n] \subseteq Nodes(l)
  BY DEF Towers
<1>2. Pos(l, HeadNode) < k
  BY DEF Pos
<1>3. ASSUME NEW n \in 1..T PROVE IsPred(l, R[n], k, c[n])
  <2>1. IsPred(l, R[n], k, Walk(l, HeadNode, n, k))
    BY <1>1, <1>2, WalkToPred
  <2>2. IsPred(l, R[n], k, CHOOSE r : IsPred(l, R[n], k, r))
    <3>. DEFINE Pr(r) == IsPred(l, R[n], k, r)
    <3>1. Pr(Walk(l, HeadNode, n, k))
      BY <2>1
    <3>. HIDE DEF Pr
    <3>2. Pr(CHOOSE r : Pr(r))
      BY <3>1
    <3>. QED
      BY <3>2 DEF Pr
  <2>3. c[n] = CHOOSE r : IsPred(l, R[n], k, r)
    OBVIOUS
  <2>. HIDE DEF c
  <2>. QED
    BY <2>2, <2>3
<1>4. c \in [1..T -> Nodes(l)]
  <2>1. \A n \in 1..T : c[n] \in Nodes(l)
    <3>. HIDE DEF c
    <3>. QED
      BY <1>1, <1>3 DEF IsPred
  <2>. QED
    BY <2>1
<1>. HIDE DEF c
<1>5. ASSUME NEW n \in 1..T PROVE c[n] = Walk(l, From(l, c, n, HeadNode), n, k)
  <2>. DEFINE f == From(l, c, n, HeadNode)
  <2>1. f \in R[n] /\ Pos(l, f) < k
    <3>1. CASE n = T
      BY <1>1, <1>2, <3>1 DEF From
    <3>2. CASE n # T
      <4>1. n + 1 \in 1..T /\ n \in 1..T - 1
        BY <1>1, <3>2
      <4>2. f = c[n + 1]
        BY <3>2 DEF From
      <4>3. IsPred(l, R[n + 1], k, c[n + 1]) /\ R[n + 1] \subseteq R[n]
        BY <1>3, <4>1 DEF Towers
      <4>. QED
        BY <4>2, <4>3 DEF IsPred
    <3>. QED
      BY <3>1, <3>2
  <2>. HIDE DEF f
  <2>2. IsPred(l, R[n], k, Walk(l, f, n, k))
    BY <2>1, WalkToPred
  <2>3. c[n] = Walk(l, f, n, k)
    BY <1>1, <1>3, <2>2, PredUnique
  <2>. QED
    BY <2>3 DEF f
<1>6. Descend(l, HeadNode, k) = c
  <2>1. Follows(l, c, HeadNode, k)
    BY <1>5 DEF Follows
  <2>. QED
    BY <1>1, <1>4, <2>1, DescendIs
<1>7. DOMAIN c = 1..T
  BY <1>4
<1>8. Wild \notin Range(c)
  <2>1. Wild \notin Nodes(l)
    BY ShapeFacts
  <2>2. \A n \in 1..T : c[n] \in Nodes(l)
    BY <1>1, <1>3 DEF IsPred
  <2>. QED
    BY <1>7, <2>1, <2>2 DEF Range
<1>. QED
  BY <1>3, <1>6, <1>7, <1>8

\* On the lowest level the place found is the last node before the key, and the node
\* behind it has the key if any node has.
LEMMA HeadHit ==
    ASSUME NEW l, Shape(l), NEW R, Towers(l, R), NEW k \in Nat, NEW p, IsPred(l, Nodes(l), k, p)
    PROVE  /\ Hit(l, p, k) # Nil => Hit(l, p, k) \in Nodes(l) \ {HeadNode} /\ l.key[Hit(l, p, k)] = k
           /\ Hit(l, p, k) = Nil => \A x \in Nodes(l) : Pos(l, x) # k
           /\ \A x \in Nodes(l) \ {HeadNode} : l.key[x] = k => Hit(l, p, k) = x
<1>. DEFINE q == NextOf(l, p, 1)
<1>1. 1 \in 1..Top(l) /\ R[1] = Nodes(l) /\ p \in R[1] /\ Pos(l, p) < k
  BY DEF Towers, IsPred
<1>2. p \in Nodes(l) /\ IsNext(l, Nodes(l), p, q) /\ (q # Nil => q \in Nodes(l))
  BY <1>1, TowerNext
<1>3. DOMAIN l.key = Nodes(l) \ {HeadNode}
  BY DEF Shape, NodesOK
<1>4. Hit(l, p, k) = IF q \in Nodes(l) \ {HeadNode} /\ l.key[q] = k THEN q ELSE Nil
  BY <1>3 DEF Hit
<1>5. \A x \in Nodes(l) : Pos(l, x) \in Int /\ (x # HeadNode => Pos(l, x) = l.key[x])
  BY ShapeFacts
<1>6. Nil \notin Nodes(l) /\ Pos(l, HeadNode) = -1
  BY ShapeFacts
<1>7. ASSUME NEW x \in Nodes(l), Pos(l, x) = k PROVE q \in Nodes(l) \ {HeadNode} /\ l.key[q] = k /\ q = x
  <2>1. q # Nil
    BY <1>1, <1>2, <1>5, <1>7 DEF IsNext
  <2>2. q \in Nodes(l) /\ Pos(l, p) < Pos(l, q) /\ Pos(l, q) <= Pos(l, x)
    BY <1>1, <1>2, <1>7, <2>1 DEF IsNext
  <2>3. Pos(l, q) >= k
    <3>1. Pos(l, q) < k => Pos(l, q) <= Pos(l, p)
      BY <2>2 DEF IsPred
    <3>2. Pos(l, q) \in Int /\ Pos(l, p) \in Int
      BY <1>2, <1>5, <2>2
    <3>. HIDE DEF q
    <3>. QED
      BY <2>2, <3>1, <3>2
  <2>4. Pos(l, q) = k
    <3>1. Pos(l, q) \in Int
      BY <1>5, <2>2
    <3>. HIDE DEF q
    <3>. QED
      BY <1>7, <2>2, <2>3, <3>1
  <2>5. q = x
    BY <1>7, <2>2, <2>4, ShapeFacts
  <2>6. q # HeadNode
    BY <1>6, <2>4
  <2>. QED
    BY <1>5, <2>2, <2>4, <2>5, <2>6
<1>. HIDE DEF q
<1>8. Hit(l, p, k) # Nil => Hit(l, p, k) \in Nodes(l) \ {HeadNode} /\ l.key[Hit(l, p, k)] = k
  BY <1>4
<1>9. Hit(l, p, k) = Nil => \A x \in Nodes(l) : Pos(l, x) # k
  BY <1>4, <1>6, <1>7
<1>10. \A x \in Nodes(l) \ {HeadNode} : l.key[x] = k => Hit(l, p, k) = x
  BY <1>4, <1>5, <1>7
<1>. QED
  BY <1>8, <1>9, <1>10

-----------------------------------------------------------------------------
(***************************************************************************)
(* Lookups and iteration.                                                  *)
(***************************************************************************)
Present(m) == {k \in Key : m[k] # NotFound}

\* The list has the keys and values of m.
HoldsMap(l, m) ==
    /\ m \in [Key -> Value \cup {NotFound}]
    /\ \A p \in Nodes(l) \ {HeadNode} : m[l.key[p]] = l.value[p]
    /\ \A k \in Key : m[k] # NotFound => \E p \in Nodes(l) \ {HeadNode} : l.key[p] = k

\* Get finds every key with its value, and nothing else.
LEMMA GetIs ==
    ASSUME NEW l, ListInv(l), NEW m, HoldsMap(l, m), NEW k \in Key
    PROVE  Get(l, k) = m[k]
<1>1. PICK R : Towers(l, R)
  BY DEF ListInv
<1>2. Shape(l) /\ k \in Nat
  BY ListAssumption DEF ListInv
<1>. DEFINE p == Descend(l, HeadNode, k)[1]
            hit == Hit(l, p, k)
<1>3. 1 \in 1..Top(l) /\ R[1] = Nodes(l)
  BY <1>1 DEF Towers
<1>4. IsPred(l, Nodes(l), k, p)
  BY <1>1, <1>2, <1>3, HeadDescent
<1>5. Get(l, k) = IF hit = Nil THEN NotFound ELSE l.value[hit]
  BY DEF Get
<1>. HIDE DEF p
<1>6. /\ hit # Nil => hit \in Nodes(l) \ {HeadNode} /\ l.key[hit] = k
      /\ \A x \in Nodes(l) \ {HeadNode} : l.key[x] = k => hit = x
  BY <1>1, <1>2, <1>4, HeadHit
<1>7. Nil \notin Nodes(l)
  BY <1>2, ShapeFacts
<1>. HIDE DEF hit
<1>8. CASE hit = Nil
  <2>1. ~ \E x \in Nodes(l) \ {HeadNode} : l.key[x] = k
    BY <1>6, <1>7, <1>8
  <2>2. m[k] = NotFound
    BY <2>1 DEF HoldsMap
  <2>. QED
    BY <1>5, <1>8, <2>2
<1>9. CASE hit # Nil
  BY <1>5, <1>6, <1>9 DEF HoldsMap
<1>. QED
  BY <1>8, <1>9

\* A sequence of nodes along the lowest level, from head_ on.
Chain(l, s) ==
    /\ s \in Seq(Nodes(l)) /\ Len(s) >= 1 /\ s[1] = HeadNode
    /\ \A i \in 1..Len(s) - 1 : s[i + 1] = NextOf(l, s[i], 1)

\* The pointers of the lowest level.
LEMMA LowestNext ==
    ASSUME NEW l, ListInv(l), NEW p \in Nodes(l)
    PROVE  /\ IsNext(l, Nodes(l), p, NextOf(l, p, 1))
           /\ NextOf(l, p, 1) \in Nodes(l) \cup {Nil} /\ NextOf(l, p, 1) # Wild
<1>1. PICK R : Towers(l, R)
  BY DEF ListInv
<1>2. Shape(l)
  BY DEF ListInv
<1>3. 1 \in 1..Top(l) /\ R[1] = Nodes(l)
  BY <1>1 DEF Towers
<1>4. IsNext(l, Nodes(l), p, NextOf(l, p, 1)) /\ NextOf(l, p, 1) \in Nodes(l) \cup {Nil}
  BY <1>1, <1>2, <1>3, TowerNext
<1>5. Wild \notin Nodes(l) /\ Wild # Nil
  BY <1>2, ShapeFacts DEF Wild, Nil
<1>. QED
  BY <1>4, <1>5

\* Keys grow along it.
LEMMA ChainGrows ==
    ASSUME NEW l, ListInv(l), NEW s, Chain(l, s)
    PROVE  \A i, j \in 1..Len(s) : i < j => Pos(l, s[i]) < Pos(l, s[j])
<1>. DEFINE Good == {d \in Nat : \A i \in 1..Len(s) : i + d + 1 <= Len(s) => Pos(l, s[i]) < Pos(l, s[i + d + 1])}
<1>1. s \in Seq(Nodes(l)) /\ Len(s) \in Nat /\ \A i \in 1..Len(s) : s[i] \in Nodes(l)
  BY DEF Chain
<1>2. \A p \in Nodes(l) : Pos(l, p) \in Int
  BY ShapeFacts DEF ListInv
<1>3. ASSUME NEW i \in 1..Len(s), i + 1 <= Len(s) PROVE Pos(l, s[i]) < Pos(l, s[i + 1])
  <2>1. i \in 1..Len(s) - 1 /\ i + 1 \in 1..Len(s)
    BY <1>1, <1>3
  <2>2. s[i + 1] = NextOf(l, s[i], 1)
    BY <2>1 DEF Chain
  <2>3. s[i] \in Nodes(l) /\ s[i + 1] \in Nodes(l)
    BY <1>1, <2>1
  <2>4. s[i + 1] # Nil
    BY <2>3, ShapeFacts DEF ListInv
  <2>5. IsNext(l, Nodes(l), s[i], s[i + 1])
    BY <2>2, <2>3, LowestNext
  <2>. QED
    BY <2>4, <2>5 DEF IsNext
<1>4. 0 \in Good
  BY <1>3, <1>1
<1>5. ASSUME NEW d \in Nat, d \in Good PROVE d + 1 \in Good
  <2>. SUFFICES ASSUME NEW i \in 1..Len(s), i + (d + 1) + 1 <= Len(s)
                PROVE  Pos(l, s[i]) < Pos(l, s[i + (d + 1) + 1])
    OBVIOUS
  <2>. DEFINE j == i + d + 1
  <2>1. j \in 1..Len(s) /\ j + 1 <= Len(s) /\ j + 1 = i + (d + 1) + 1 /\ j + 1 \in 1..Len(s)
    BY <1>1
  <2>2. Pos(l, s[i]) < Pos(l, s[j])
    BY <1>5, <2>1
  <2>. HIDE DEF j
  <2>3. Pos(l, s[j]) < Pos(l, s[j + 1])
    BY <1>3, <2>1
  <2>4. Pos(l, s[i]) \in Int /\ Pos(l, s[j]) \in Int /\ Pos(l, s[j + 1]) \in Int
    BY <1>1, <1>2, <2>1
  <2>5. Pos(l, s[i]) < Pos(l, s[j + 1])
    BY <2>2, <2>3, <2>4
  <2>. QED
    BY <2>1, <2>5
<1>6. Nat \subseteq Good
  <2>. HIDE DEF Good
  <2>1. \A d \in Nat : d \in Good => d + 1 \in Good
    BY <1>5
  <2>. QED
    BY <1>4, <2>1, CountingUp
<1>7. ASSUME NEW i \in 1..Len(s), NEW j \in 1..Len(s), i < j PROVE Pos(l, s[i]) < Pos(l, s[j])
  <2>. DEFINE d == j - i - 1
  <2>1. d \in Nat /\ i + d + 1 = j
    BY <1>1, <1>7
  <2>2. d \in Good
    <3>. HIDE DEF Good, d
    <3>. QED
      BY <1>6, <2>1
  <2>. HIDE DEF d
  <2>3. i + d + 1 <= Len(s)
    BY <1>1, <2>1
  <2>4. Pos(l, s[i]) < Pos(l, s[i + d + 1])
    BY <2>2, <2>3
  <2>. QED
    BY <2>1, <2>4
<1>. QED
  BY <1>7

\* A chain to the end of the level has every node.
LEMMA ChainCovers ==
    ASSUME NEW l, ListInv(l), NEW s, Chain(l, s), NextOf(l, s[Len(s)], 1) = Nil, NEW x \in Nodes(l)
    PROVE  \E i \in 1..Len(s) : s[i] = x
<1>. SUFFICES ASSUME \A i \in 1..Len(s) : s[i] # x PROVE FALSE
  OBVIOUS
<1>1. Len(s) \in Nat /\ Len(s) >= 1 /\ s[1] = HeadNode /\ \A i \in 1..Len(s) : s[i] \in Nodes(l)
  BY DEF Chain
<1>2. /\ \A p \in Nodes(l) : Pos(l, p) \in Int /\ Pos(l, p) >= -1 /\ (Pos(l, p) = -1 <=> p = HeadNode)
      /\ \A p, q \in Nodes(l) : Pos(l, p) = Pos(l, q) => p = q
      /\ Nil \notin Nodes(l)
  BY ShapeFacts DEF ListInv
<1>. DEFINE Good == {d \in Nat : \A i \in 1..Len(s) : i = d + 1 => Pos(l, s[i]) < Pos(l, x)}
<1>3. 0 \in Good
  <2>1. 1 \in 1..Len(s)
    BY <1>1
  <2>2. x # HeadNode /\ s[1] = HeadNode
    BY <1>1, <2>1
  <2>3. Pos(l, s[1]) = -1 /\ Pos(l, x) \in Int /\ Pos(l, x) >= -1 /\ Pos(l, x) # -1
    BY <1>1, <1>2, <2>1, <2>2
  <2>4. Pos(l, s[1]) < Pos(l, x)
    BY <2>3
  <2>. QED
    BY <2>4
<1>4. ASSUME NEW d \in Nat, d \in Good PROVE d + 1 \in Good
  <2>. SUFFICES ASSUME d + 1 + 1 \in 1..Len(s) PROVE Pos(l, s[d + 1 + 1]) < Pos(l, x)
    OBVIOUS
  <2>. DEFINE i == d + 1
  <2>1. i \in 1..Len(s) /\ i \in 1..Len(s) - 1 /\ i + 1 \in 1..Len(s)
    BY <1>1
  <2>2. Pos(l, s[i]) < Pos(l, x)
    BY <1>4, <2>1
  <2>. HIDE DEF i
  <2>3. s[i + 1] = NextOf(l, s[i], 1) /\ s[i] \in Nodes(l) /\ s[i + 1] \in Nodes(l) /\ s[i + 1] # x
    BY <1>1, <2>1 DEF Chain
  <2>4. IsNext(l, Nodes(l), s[i], s[i + 1]) /\ s[i + 1] # Nil
    BY <1>2, <2>3, LowestNext
  <2>5. Pos(l, s[i + 1]) <= Pos(l, x)
    BY <2>2, <2>4 DEF IsNext
  <2>6. Pos(l, s[i + 1]) # Pos(l, x) /\ Pos(l, s[i + 1]) \in Int /\ Pos(l, x) \in Int
    BY <1>2, <2>3
  <2>7. Pos(l, s[i + 1]) < Pos(l, x)
    BY <2>5, <2>6
  <2>. QED
    BY <2>7 DEF i
<1>5. Nat \subseteq Good
  <2>. HIDE DEF Good
  <2>1. \A d \in Nat : d \in Good => d + 1 \in Good
    BY <1>4
  <2>. QED
    BY <1>3, <2>1, CountingUp
<1>6. Pos(l, s[Len(s)]) < Pos(l, x)
  <2>1. Len(s) - 1 \in Good
    <3>. HIDE DEF Good
    <3>. QED
      BY <1>1, <1>5
  <2>. QED
    BY <1>1, <2>1
<1>7. s[Len(s)] \in Nodes(l)
  BY <1>1
<1>8. IsNext(l, Nodes(l), s[Len(s)], Nil)
  BY <1>7, LowestNext
<1>9. Pos(l, x) <= Pos(l, s[Len(s)])
  BY <1>8 DEF IsNext
<1>. QED
  BY <1>2, <1>6, <1>7, <1>9

\* One step of the iterator.
Further(l, s) == LET q == NextOf(l, Last(s), 1) IN IF q \in {Nil, Wild} THEN s ELSE Append(s, q)

\* It continues a chain, by a node unless the level ends.
LEMMA FurtherChain ==
    ASSUME NEW l, ListInv(l), NEW s, Chain(l, s)
    PROVE  /\ Chain(l, Further(l, s))
           /\ \/ Len(Further(l, s)) = Len(s) + 1
              \/ Further(l, s) = s /\ NextOf(l, s[Len(s)], 1) = Nil
<1>. DEFINE q == NextOf(l, s[Len(s)], 1)
<1>1. s \in Seq(Nodes(l)) /\ Len(s) \in Nat /\ Len(s) >= 1 /\ s[Len(s)] \in Nodes(l)
  BY DEF Chain
<1>2. q \in Nodes(l) \cup {Nil} /\ q # Wild
  BY <1>1, LowestNext
<1>3. Further(l, s) = IF q = Nil THEN s ELSE Append(s, q)
  BY <1>2 DEF Further, Last
<1>4. CASE q = Nil
  BY <1>3, <1>4
<1>5. CASE q # Nil
  <2>. DEFINE t == Append(s, q)
  <2>1. Further(l, s) = t /\ q \in Nodes(l)
    BY <1>2, <1>3, <1>5
  <2>2. t \in Seq(Nodes(l)) /\ Len(t) = Len(s) + 1 /\ t[Len(s) + 1] = q /\ \A i \in 1..Len(s) : t[i] = s[i]
    <3>. HIDE DEF q
    <3>. QED
      BY <1>1, <2>1
  <2>. HIDE DEF t
  <2>3. ASSUME NEW i \in 1..Len(t) - 1 PROVE t[i + 1] = NextOf(l, t[i], 1)
    <3>1. CASE i = Len(s)
      BY <1>1, <2>2, <3>1
    <3>2. CASE i # Len(s)
      <4>1. i \in 1..Len(s) - 1 /\ i \in 1..Len(s) /\ i + 1 \in 1..Len(s)
        BY <1>1, <2>2, <3>2
      <4>2. s[i + 1] = NextOf(l, s[i], 1)
        BY <4>1 DEF Chain
      <4>. QED
        BY <2>2, <4>1, <4>2
    <3>. QED
      BY <3>1, <3>2
  <2>4. t[1] = HeadNode
    BY <1>1, <2>2 DEF Chain
  <2>5. Chain(l, t)
    BY <1>1, <2>2, <2>3, <2>4 DEF Chain
  <2>. QED
    BY <2>1, <2>2, <2>5
<1>. QED
  BY <1>4, <1>5

\* The iteration from begin() to end() walks one chain to the end of the lowest level:
\* begin() needs no more steps than there are nodes.
LEMMA ScanChain ==
    ASSUME NEW l, ListInv(l)
    PROVE  \E s : /\ Chain(l, s) /\ NextOf(l, s[Len(s)], 1) = Nil
                  /\ Scan(l) = [i \in 1..Len(s) - 1 |-> l.key[s[i + 1]]]
<1>. DEFINE N == Cardinality(Nodes(l))
            C == {s \in Seq(Nodes(l)) : Chain(l, s)}
            F == [x \in (1..N) \X C |-> Further(l, x[2])]
            Step(g, n) == IF n = 0 THEN <<HeadNode>> ELSE Further(l, g[n - 1])
            Is(g) == g = [n \in 0..N |-> Step(g, n)]
            order == CHOOSE g : Is(g)
<1>1. IsFiniteSet(Nodes(l)) /\ HeadNode \in Nodes(l)
  BY ShapeFacts DEF ListInv
<1>2. N \in Nat
  BY <1>1, FS_CardinalityType
<1>3. Scan(l) = [i \in 1..Len(order[N]) - 1 |-> l.key[order[N][i + 1]]]
  BY DEF Scan, Further, Nodes
<1>. HIDE DEF N
<1>4. <<HeadNode>> \in C
  <2>1. <<HeadNode>> \in Seq(Nodes(l)) /\ Len(<<HeadNode>>) = 1 /\ <<HeadNode>>[1] = HeadNode
    BY <1>1
  <2>. QED
    BY <2>1 DEF Chain
<1>5. \A s \in C : Further(l, s) \in C
  BY FurtherChain DEF Chain
<1>. HIDE DEF C
<1>6. \A n \in 1..N, s \in C : F[<<n, s>>] = Further(l, s)
  OBVIOUS
<1>. HIDE DEF F
<1>7. PICK g : Stepwise(g, N, <<HeadNode>>, F)
  BY <1>2, StepwiseExists
<1>8. g = [n \in 0..N |-> g[n]] /\ \A n \in 0..N : g[n] = IF n = 0 THEN <<HeadNode>> ELSE F[<<n, g[n - 1]>>]
  BY <1>7 DEF Stepwise
<1>9. Is(g)
  <2>. DEFINE Good == {n \in Nat : n <= N => g[n] \in C}
  <2>1. 0 \in Good
    <3>1. 0 \in 0..N
      BY <1>2
    <3>2. g[0] = <<HeadNode>>
      BY <1>8, <3>1, Zenon
    <3>. QED
      BY <1>4, <3>2
  <2>2. ASSUME NEW n \in Nat, n \in Good PROVE n + 1 \in Good
    <3>. SUFFICES ASSUME n + 1 <= N PROVE g[n + 1] \in C
      OBVIOUS
    <3>1. n + 1 \in 0..N /\ n + 1 \in 1..N /\ n + 1 # 0 /\ n + 1 - 1 = n /\ n <= N
      BY <1>2
    <3>2. g[n] \in C
      BY <2>2, <3>1
    <3>3. g[n + 1] = F[<<n + 1, g[n]>>]
      BY <1>8, <3>1
    <3>. QED
      BY <1>5, <1>6, <3>1, <3>2, <3>3
  <2>3. Nat \subseteq Good
    <3>. HIDE DEF Good
    <3>1. \A n \in Nat : n \in Good => n + 1 \in Good
      BY <2>2
    <3>. QED
      BY <2>1, <3>1, CountingUp
  <2>4. \A n \in 0..N : g[n] \in C
    <3>. SUFFICES ASSUME NEW n \in 0..N PROVE g[n] \in C
      OBVIOUS
    <3>1. n \in Good /\ n <= N
      <4>. HIDE DEF Good
      <4>. QED
        BY <1>2, <2>3
    <3>. QED
      BY <3>1
  <2>5. ASSUME NEW n \in 0..N PROVE g[n] = Step(g, n)
    <3>1. CASE n = 0
      BY <1>8, <3>1
    <3>2. CASE n # 0
      <4>1. n \in 1..N /\ n - 1 \in 0..N
        BY <1>2, <3>2
      <4>2. g[n - 1] \in C /\ g[n] = F[<<n, g[n - 1]>>]
        BY <1>8, <2>4, <3>2, <4>1
      <4>. QED
        BY <1>6, <3>2, <4>1, <4>2
    <3>. QED
      BY <3>1, <3>2
  <2>. HIDE DEF Step
  <2>. QED
    BY <1>8, <2>5, Zenon
<1>10. Is(order)
  <2>. HIDE DEF Is
  <2>. QED
    BY <1>9
<1>. HIDE DEF order
<1>11. \A n \in 0..N : order[n] = Step(order, n)
  <2>. HIDE DEF Step
  <2>. QED
    BY <1>10
<1>. HIDE DEF Is
<1>. DEFINE Ends(s) == NextOf(l, s[Len(s)], 1) = Nil
            Fine(n) == Chain(l, order[n]) /\ (Len(order[n]) = n + 1 \/ Ends(order[n]))
            Good == {n \in Nat : n <= N => Fine(n)}
<1>12. 0 \in Good
  <2>1. order[0] = <<HeadNode>>
    BY <1>2, <1>11
  <2>2. Chain(l, <<HeadNode>>)
    BY <1>4 DEF C
  <2>. QED
    BY <2>1, <2>2
<1>13. ASSUME NEW n \in Nat, n \in Good PROVE n + 1 \in Good
  <2>. SUFFICES ASSUME n + 1 <= N PROVE Fine(n + 1)
    OBVIOUS
  <2>1. n + 1 \in 0..N /\ n + 1 # 0 /\ n + 1 - 1 = n /\ n <= N
    BY <1>2
  <2>2. Fine(n)
    <3>. HIDE DEF Fine
    <3>. QED
      BY <1>13, <2>1
  <2>3. order[n + 1] = Further(l, order[n])
    BY <1>11, <2>1
  <2>4. /\ Chain(l, order[n + 1])
        /\ Len(order[n + 1]) = Len(order[n]) + 1 \/ (order[n + 1] = order[n] /\ Ends(order[n]))
    BY <2>2, <2>3, FurtherChain
  <2>5. Ends(order[n]) => order[n + 1] = order[n]
    BY <2>3 DEF Further, Last
  <2>. HIDE DEF Ends
  <2>. QED
    BY <2>2, <2>4, <2>5
<1>14. Fine(N)
  <2>1. Nat \subseteq Good
    <3>. HIDE DEF Good
    <3>1. \A n \in Nat : n \in Good => n + 1 \in Good
      BY <1>13
    <3>. QED
      BY <1>12, <3>1, CountingUp
  <2>2. N \in Good /\ N <= N
    <3>. HIDE DEF Good
    <3>. QED
      BY <1>2, <2>1
  <2>. HIDE DEF Fine
  <2>. QED
    BY <2>2
<1>. DEFINE s == order[N]
<1>15. Chain(l, s) /\ (Len(s) = N + 1 \/ Ends(s))
  BY <1>14
<1>. HIDE DEF s, Ends
<1>16. Len(s) # N + 1
  <2>. SUFFICES ASSUME Len(s) = N + 1 PROVE FALSE
    OBVIOUS
  <2>1. s \in [1..N + 1 -> Nodes(l)]
    BY <1>15 DEF Chain
  <2>2. IsFiniteSet(1..N + 1) /\ Cardinality(1..N + 1) = N + 1
    BY <1>2, FS_Interval
  <2>3. Cardinality(Nodes(l)) < Cardinality(1..N + 1)
    BY <1>2, <2>2 DEF N
  <2>4. PICK i, j \in 1..N + 1 : i # j /\ s[i] = s[j]
    BY <1>1, <2>1, <2>2, <2>3, FS_PigeonHole
  <2>5. \A a, b \in 1..Len(s) : a < b => Pos(l, s[a]) < Pos(l, s[b])
    BY <1>15, ChainGrows
  <2>6. i < j \/ j < i
    BY <1>2, <2>4
  <2>7. s[i] \in Nodes(l) /\ Pos(l, s[i]) \in Int
    BY <2>1, ShapeFacts DEF ListInv
  <2>8. Pos(l, s[i]) < Pos(l, s[j]) \/ Pos(l, s[j]) < Pos(l, s[i])
    BY <2>5, <2>6
  <2>. QED
    BY <2>4, <2>7, <2>8
<1>17. Chain(l, s) /\ NextOf(l, s[Len(s)], 1) = Nil
  BY <1>15, <1>16 DEF Ends
<1>18. Scan(l) = [i \in 1..Len(s) - 1 |-> l.key[s[i + 1]]]
  BY <1>3 DEF s
<1>. QED
  BY <1>17, <1>18

\* Iteration visits the keys of the map in increasing order.
LEMMA ScanIs ==
    ASSUME NEW l, ListInv(l), NEW m, HoldsMap(l, m)
    PROVE  /\ Range(Scan(l)) = Present(m)
           /\ \A i, j \in DOMAIN Scan(l) : i < j => Scan(l)[i] < Scan(l)[j]
<1>1. PICK s : /\ Chain(l, s) /\ NextOf(l, s[Len(s)], 1) = Nil
               /\ Scan(l) = [i \in 1..Len(s) - 1 |-> l.key[s[i + 1]]]
  BY ScanChain
<1>2. Len(s) \in Nat /\ Len(s) >= 1 /\ s[1] = HeadNode /\ \A i \in 1..Len(s) : s[i] \in Nodes(l)
  BY <1>1 DEF Chain
<1>3. \A i, j \in 1..Len(s) : i < j => Pos(l, s[i]) < Pos(l, s[j])
  BY <1>1, ChainGrows
<1>4. /\ \A p \in Nodes(l) : p # HeadNode => Pos(l, p) = l.key[p] /\ l.key[p] \in Key /\ l.value[p] \in Value
      /\ Pos(l, HeadNode) = -1
  BY ShapeFacts DEF ListInv
<1>5. ASSUME NEW i \in 1..Len(s) - 1 PROVE i + 1 \in 1..Len(s) /\ s[i + 1] \in Nodes(l) \ {HeadNode}
  <2>1. 1 \in 1..Len(s) /\ i + 1 \in 1..Len(s) /\ 1 < i + 1
    BY <1>2
  <2>2. Pos(l, s[1]) < Pos(l, s[i + 1]) /\ Pos(l, s[1]) = -1
    BY <1>2, <1>3, <1>4, <2>1
  <2>. QED
    <3>1. s[i + 1] \in Nodes(l)
      BY <1>2, <2>1
    <3>2. s[i + 1] # HeadNode
      BY <1>4, <2>2
    <3>. QED
      BY <2>1, <3>1, <3>2
<1>6. DOMAIN Scan(l) = 1..Len(s) - 1 /\ \A i \in 1..Len(s) - 1 : Scan(l)[i] = l.key[s[i + 1]]
  BY <1>1
<1>7. ASSUME NEW i \in DOMAIN Scan(l), NEW j \in DOMAIN Scan(l), i < j PROVE Scan(l)[i] < Scan(l)[j]
  <2>1. i + 1 \in 1..Len(s) /\ j + 1 \in 1..Len(s) /\ i + 1 < j + 1
    BY <1>2, <1>6, <1>7
  <2>2. Pos(l, s[i + 1]) < Pos(l, s[j + 1])
    BY <1>3, <2>1
  <2>3. Pos(l, s[i + 1]) = l.key[s[i + 1]] /\ Pos(l, s[j + 1]) = l.key[s[j + 1]]
    BY <1>4, <1>5, <1>6
  <2>. QED
    BY <1>6, <2>2, <2>3
<1>8. ASSUME NEW i \in 1..Len(s) - 1 PROVE l.key[s[i + 1]] \in Present(m)
  <2>1. s[i + 1] \in Nodes(l) \ {HeadNode}
    BY <1>5
  <2>2. m[l.key[s[i + 1]]] = l.value[s[i + 1]] /\ l.key[s[i + 1]] \in Key /\ l.value[s[i + 1]] \in Value
    BY <1>4, <2>1 DEF HoldsMap
  <2>. QED
    BY <2>2, ListAssumption DEF Present, NotFound
<1>9. ASSUME NEW k \in Present(m) PROVE \E i \in 1..Len(s) - 1 : l.key[s[i + 1]] = k
  <2>1. PICK p \in Nodes(l) \ {HeadNode} : l.key[p] = k
    BY DEF Present, HoldsMap
  <2>2. PICK i \in 1..Len(s) : s[i] = p
    BY <1>1, <2>1, ChainCovers
  <2>3. i # 1
    BY <1>2, <2>1, <2>2
  <2>4. i - 1 \in 1..Len(s) - 1 /\ i - 1 + 1 = i
    BY <1>2, <2>3
  <2>. QED
    BY <2>1, <2>2, <2>4
<1>10. Range(Scan(l)) = Present(m)
  <2>1. Range(Scan(l)) = {Scan(l)[i] : i \in 1..Len(s) - 1}
    BY <1>6 DEF Range
  <2>2. \A k \in Present(m) : \E i \in 1..Len(s) - 1 : Scan(l)[i] = k
    BY <1>6, <1>9
  <2>3. \A i \in 1..Len(s) - 1 : Scan(l)[i] \in Present(m)
    BY <1>6, <1>8
  <2>. QED
    BY <2>1, <2>2, <2>3, Zenon
<1>. QED
  BY <1>7, <1>10

-----------------------------------------------------------------------------
(***************************************************************************)
(* Insertion.                                                              *)
(***************************************************************************)
\* m is g with a new node for k and v, linked behind start on the given levels.
Inserted(g, m, k, v, start, level) ==
    LET node == g.allocated + 1 IN
    /\ m \in ListType /\ m.allocated = node
    /\ Nodes(m) = Nodes(g) \cup {node}
    /\ DOMAIN m.key = Nodes(m) \ {HeadNode} /\ DOMAIN m.value = Nodes(m) \ {HeadNode}
    /\ m.key[node] = k /\ m.value[node] = v
    /\ \A p \in Nodes(g) \ {HeadNode} : m.key[p] = g.key[p] /\ m.value[p] = g.value[p]
    /\ \A p \in Nodes(g) :
          /\ Len(m.nexts[p]) = Len(g.nexts[p])
          /\ \A n \in 1..Len(g.nexts[p]) :
                m.nexts[p][n] = IF n <= level /\ p = start THEN node ELSE g.nexts[p][n]
    /\ Len(m.nexts[node]) = Top(g)
    /\ \A n \in 1..Top(g) : m.nexts[node][n] = IF n <= level THEN g.nexts[start][n] ELSE Nil

\* start is where Put links a node for k: the last node before k, long enough for every
\* level of head_, with a live pointer or none on each.
Linkable(g, k, start) ==
    /\ IsPred(g, Nodes(g), k, start) /\ \A x \in Nodes(g) : Pos(g, x) # k
    /\ \A n \in 1..Top(g) : n <= Len(g.nexts[start]) /\ g.nexts[start][n] \in Nodes(g) \cup {Nil}

\* The order of the nodes with the new one between start and what follows it.
LEMMA InsertedOrder ==
    ASSUME NEW g, Shape(g), NEW k \in Key, NEW v \in Value, NEW start, Linkable(g, k, start),
           NEW level, NEW m, Inserted(g, m, k, v, start, level)
    PROVE  /\ \A p \in Nodes(g) : Pos(m, p) = Pos(g, p) /\ Pos(g, p) \in Int /\ Pos(g, p) # k
           /\ Pos(m, g.allocated + 1) = k /\ k \in Nat
           /\ \A p \in Nodes(g) : Pos(g, p) < k <=> Pos(g, p) <= Pos(g, start)
           /\ Pos(g, start) < k /\ start \in Nodes(g)
           /\ g.allocated + 1 \notin Nodes(g) /\ g.allocated + 1 # HeadNode /\ g.allocated \in Nat
<1>. DEFINE node == g.allocated + 1
<1>1. g.allocated \in Nat /\ node \notin Nodes(g) /\ HeadNode \in Nodes(g)
  BY ShapeFacts
<1>2. \A p \in Nodes(g) : Pos(m, p) = Pos(g, p)
  BY DEF Inserted, Pos
<1>3. Pos(m, node) = k
  <2>1. node # HeadNode
    BY <1>1
  <2>2. m.key[node] = k
    BY DEF Inserted
  <2>. QED
    BY <2>1, <2>2 DEF Pos
<1>4. k \in Nat
  BY ListAssumption
<1>5. \A p \in Nodes(g) : Pos(g, p) \in Int
  BY ShapeFacts
<1>6. start \in Nodes(g) /\ Pos(g, start) < k /\ (\A x \in Nodes(g) : Pos(g, x) # k)
      /\ \A s \in Nodes(g) : Pos(g, s) < k => Pos(g, s) <= Pos(g, start)
  BY DEF Linkable, IsPred
<1>7. \A p \in Nodes(g) : Pos(g, p) < k <=> Pos(g, p) <= Pos(g, start)
  BY <1>4, <1>5, <1>6
<1>. QED
  BY <1>1, <1>2, <1>3, <1>4, <1>5, <1>6, <1>7

\* Insertion keeps what is said of all pointers.
LEMMA InsertedShape ==
    ASSUME NEW g, Shape(g), NEW k \in Key, NEW v \in Value, NEW start, Linkable(g, k, start),
           NEW level \in 1..Top(g), NEW m, Inserted(g, m, k, v, start, level)
    PROVE  Shape(m)
<1>. DEFINE node == g.allocated + 1
<1>1. /\ \A p \in Nodes(g) : Pos(m, p) = Pos(g, p) /\ Pos(g, p) \in Int /\ Pos(g, p) # k
      /\ Pos(m, node) = k /\ k \in Nat
      /\ \A p \in Nodes(g) : Pos(g, p) < k <=> Pos(g, p) <= Pos(g, start)
      /\ Pos(g, start) < k /\ start \in Nodes(g)
      /\ node \notin Nodes(g) /\ node # HeadNode /\ g.allocated \in Nat
  BY InsertedOrder
<1>2. /\ Nodes(m) = Nodes(g) \cup {node} /\ m.allocated = node /\ m \in ListType
      /\ \A p \in Nodes(g) : \A n \in 1..Len(g.nexts[p]) :
            m.nexts[p][n] = IF n <= level /\ p = start THEN node ELSE g.nexts[p][n]
      /\ \A p \in Nodes(g) : Len(m.nexts[p]) = Len(g.nexts[p])
      /\ \A n \in 1..Top(g) : m.nexts[node][n] = IF n <= level THEN g.nexts[start][n] ELSE Nil
      /\ Len(m.nexts[node]) = Top(g)
  BY DEF Inserted
<1>3. /\ HeadNode \in Nodes(g) /\ Nodes(g) \subseteq 1..g.allocated
      /\ \A p, q \in Nodes(g) \ {HeadNode} : g.key[p] = g.key[q] => p = q
  BY DEF Shape, NodesOK
<1>4. NodesOK(m)
  <2>1. HeadNode \in Nodes(m) /\ Nodes(m) \subseteq 1..m.allocated
    BY <1>1, <1>2, <1>3
  <2>2. DOMAIN m.key = Nodes(m) \ {HeadNode} /\ DOMAIN m.value = Nodes(m) \ {HeadNode}
    BY DEF Inserted
  <2>3. \A p \in Nodes(g) \ {HeadNode} : m.key[p] = g.key[p] /\ g.key[p] # k
    BY <1>1 DEF Inserted, Pos
  <2>4. m.key[node] = k
    BY DEF Inserted
  <2>5. \A p, q \in Nodes(m) \ {HeadNode} : m.key[p] = m.key[q] => p = q
    <3>. HIDE DEF node
    <3>. QED
      BY <1>2, <1>3, <2>3, <2>4
  <2>. QED
    BY <2>1, <2>2, <2>5 DEF NodesOK
<1>5. \A p \in Nodes(g) : \A n \in 1..Len(g.nexts[p]) :
          /\ g.nexts[p][n] \in 0..g.allocated
          /\ g.nexts[p][n] \in Nodes(g) => Pos(g, p) < Pos(g, g.nexts[p][n])
  BY DEF Shape, PointersOK
<1>6. ASSUME NEW p \in Nodes(g), NEW n \in 1..Len(m.nexts[p])
      PROVE  /\ m.nexts[p][n] \in 0..m.allocated
             /\ m.nexts[p][n] \in Nodes(m) => Pos(m, p) < Pos(m, m.nexts[p][n])
  <2>1. n \in 1..Len(g.nexts[p])
    BY <1>2
  <2>2. CASE n <= level /\ p = start
    <3>1. m.nexts[p][n] = node
      BY <1>2, <2>1, <2>2
    <3>2. node \in 0..m.allocated
      BY <1>1, <1>2
    <3>. HIDE DEF node
    <3>. QED
      BY <1>1, <2>2, <3>1, <3>2
  <2>3. CASE ~ (n <= level /\ p = start)
    <3>. DEFINE q == g.nexts[p][n]
    <3>1. m.nexts[p][n] = q
      BY <1>2, <2>1, <2>3
    <3>2. q \in 0..g.allocated /\ (q \in Nodes(g) => Pos(g, p) < Pos(g, q))
      BY <1>5, <2>1
    <3>3. q # node /\ q \in 0..m.allocated
      BY <1>1, <1>2, <3>2
    <3>. HIDE DEF q, node
    <3>. QED
      BY <1>1, <1>2, <3>1, <3>2, <3>3
  <2>. QED
    BY <2>2, <2>3
<1>7. ASSUME NEW n \in 1..Len(m.nexts[node])
      PROVE  /\ m.nexts[node][n] \in 0..m.allocated
             /\ m.nexts[node][n] \in Nodes(m) => Pos(m, node) < Pos(m, m.nexts[node][n])
  <2>. DEFINE q == g.nexts[start][n]
  <2>1. n \in 1..Top(g) /\ n <= Len(g.nexts[start]) /\ q \in Nodes(g) \cup {Nil}
    BY <1>2 DEF Linkable
  <2>2. m.nexts[node][n] = q \/ m.nexts[node][n] = Nil
    BY <1>2, <2>1
  <2>3. Nil \notin Nodes(g) /\ Nil # node /\ Nil \in 0..m.allocated
    BY <1>1, <1>2, <1>3 DEF Nil
  <2>4. n \in 1..Len(g.nexts[start])
    <3>1. g.nexts[start] \in Seq(Int)
      BY <1>1, ShapeFacts
    <3>. QED
      BY <2>1, <3>1
  <2>5. q \in 0..g.allocated /\ (q \in Nodes(g) => Pos(g, start) < Pos(g, q))
    BY <1>1, <1>5, <2>4
  <2>6. q \in 0..m.allocated /\ q # node
    BY <1>1, <1>2, <2>5
  <2>7. q \in Nodes(g) => k < Pos(g, q)
    <3>. HIDE DEF q
    <3>. QED
      BY <1>1, <2>5
  <2>. HIDE DEF q, node
  <2>. QED
    BY <1>1, <1>2, <2>2, <2>3, <2>6, <2>7
<1>8. PointersOK(m)
  <2>. HIDE DEF node
  <2>. QED
    BY <1>2, <1>6, <1>7 DEF PointersOK
<1>. QED
  BY <1>2, <1>4, <1>8 DEF Shape

\* Insertion keeps the towers: the new node is in those that its predecessor is in.
LEMMA InsertedTowers ==
    ASSUME NEW g, Shape(g), NEW R, Towers(g, R), NEW k \in Key, NEW v \in Value, NEW start,
           Linkable(g, k, start), NEW level \in 1..Top(g), NEW m, Inserted(g, m, k, v, start, level)
    PROVE  \E Q : Towers(m, Q)
<1>. DEFINE node == g.allocated + 1
            In(n) == n <= level /\ start \in R[n]
            Q == [n \in 1..Top(g) |-> IF In(n) THEN R[n] \cup {node} ELSE R[n]]
<1>1. /\ \A p \in Nodes(g) : Pos(m, p) = Pos(g, p) /\ Pos(g, p) \in Int /\ Pos(g, p) # k
      /\ Pos(m, node) = k /\ k \in Nat
      /\ \A p \in Nodes(g) : Pos(g, p) < k <=> Pos(g, p) <= Pos(g, start)
      /\ Pos(g, start) < k /\ start \in Nodes(g)
      /\ node \notin Nodes(g) /\ node # HeadNode /\ g.allocated \in Nat
  BY InsertedOrder
<1>2. /\ Nodes(m) = Nodes(g) \cup {node}
      /\ \A p \in Nodes(g) : \A n \in 1..Len(g.nexts[p]) :
            m.nexts[p][n] = IF n <= level /\ p = start THEN node ELSE g.nexts[p][n]
      /\ \A p \in Nodes(g) : Len(m.nexts[p]) = Len(g.nexts[p])
      /\ \A n \in 1..Top(g) : m.nexts[node][n] = IF n <= level THEN g.nexts[start][n] ELSE Nil
      /\ Len(m.nexts[node]) = Top(g)
  BY DEF Inserted
<1>3. /\ Top(g) \in Nat \ {0} /\ R[1] = Nodes(g)
      /\ \A n \in 1..Top(g) : HeadNode \in R[n] /\ R[n] \subseteq Nodes(g)
      /\ \A n \in 1..Top(g) - 1 : R[n + 1] \subseteq R[n]
      /\ \A n \in 1..Top(g) : \A p \in R[n] : n <= Len(g.nexts[p]) /\ IsNext(g, R[n], p, g.nexts[p][n])
  BY DEF Towers
<1>4. HeadNode \in Nodes(g) /\ Nil \notin Nodes(g) /\ \A p \in Nodes(g) : g.nexts[p] \in Seq(Int)
  BY ShapeFacts
<1>5. Top(m) = Top(g)
  BY <1>2, <1>4 DEF Top
<1>6. \A n \in 1..Top(g) : Q[n] = IF In(n) THEN R[n] \cup {node} ELSE R[n]
  OBVIOUS
<1>7. DOMAIN Q = 1..Top(g)
  OBVIOUS
<1>. HIDE DEF Q, node
<1>8. Q[1] = Nodes(m)
  <2>1. 1 \in 1..Top(g) /\ 1 <= level
    BY <1>3
  <2>2. In(1)
    BY <1>1, <1>3, <2>1
  <2>. HIDE DEF In
  <2>3. Q[1] = R[1] \cup {node}
    BY <1>6, <2>1, <2>2
  <2>. QED
    BY <1>2, <1>3, <2>3
<1>9. \A n \in 1..Top(g) : HeadNode \in Q[n] /\ Q[n] \subseteq Nodes(m)
  <2>. SUFFICES ASSUME NEW n \in 1..Top(g) PROVE HeadNode \in Q[n] /\ Q[n] \subseteq Nodes(m)
    OBVIOUS
  <2>1. Q[n] = R[n] \/ Q[n] = R[n] \cup {node}
    BY <1>6
  <2>. QED
    BY <1>2, <1>3, <2>1
<1>10. \A n \in 1..Top(g) - 1 : Q[n + 1] \subseteq Q[n]
  <2>. SUFFICES ASSUME NEW n \in 1..Top(g) - 1 PROVE Q[n + 1] \subseteq Q[n]
    OBVIOUS
  <2>1. n \in 1..Top(g) /\ n + 1 \in 1..Top(g) /\ (n + 1 <= level => n <= level)
    BY <1>3
  <2>2. R[n + 1] \subseteq R[n] /\ (In(n + 1) => In(n))
    BY <1>3, <2>1
  <2>. HIDE DEF In
  <2>. QED
    BY <1>6, <2>1, <2>2
<1>11. ASSUME NEW n \in 1..Top(g), NEW p \in Q[n]
       PROVE  n <= Len(m.nexts[p]) /\ IsNext(m, Q[n], p, m.nexts[p][n])
  <2>. DEFINE S == R[n]
  <2>1. S \subseteq Nodes(g) /\ node \notin S
    BY <1>1, <1>3
  <2>2. \A s \in S : Pos(m, s) = Pos(g, s) /\ Pos(g, s) \in Int /\ Pos(g, s) # k
                     /\ (Pos(g, s) < k <=> Pos(g, s) <= Pos(g, start))
    BY <1>1, <2>1
  <2>3. \A x \in S : n <= Len(g.nexts[x]) /\ IsNext(g, S, x, g.nexts[x][n])
    BY <1>3
  <2>4. Pos(g, start) \in Int /\ Pos(g, start) < k /\ Pos(m, node) = k /\ k \in Nat /\ node # Nil /\ Nil \notin S
    BY <1>1, <1>4, <2>1 DEF node, Nil
  <2>5. CASE p = node
    <3>1. In(n) /\ start \in S /\ n <= level
      BY <1>6, <2>1, <2>5
    <3>. DEFINE q == g.nexts[start][n]
    <3>2. m.nexts[p][n] = q /\ n <= Len(m.nexts[p])
      BY <1>2, <2>5, <3>1
    <3>3. IsNext(g, S, start, q)
      BY <2>3, <3>1
    <3>4. Q[n] = S \cup {node}
      BY <1>6, <3>1
    <3>. HIDE DEF q, In, S
    <3>5. CASE q = Nil
      <4>1. \A s \in S : Pos(g, s) <= Pos(g, start)
        BY <3>3, <3>5 DEF IsNext
      <4>2. \A s \in Q[n] : Pos(m, s) <= Pos(m, node)
        BY <2>2, <2>4, <3>4, <4>1
      <4>. QED
        BY <2>5, <3>2, <3>5, <4>2 DEF IsNext
    <3>6. CASE q # Nil
      <4>1. q \in S /\ Pos(g, start) < Pos(g, q) /\ \A s \in S : Pos(g, start) < Pos(g, s) => Pos(g, q) <= Pos(g, s)
        BY <3>3, <3>6 DEF IsNext
      <4>2. q \in Q[n] /\ Pos(m, node) < Pos(m, q)
        BY <2>2, <2>4, <3>4, <4>1
      <4>3. ASSUME NEW s \in Q[n], Pos(m, node) < Pos(m, s) PROVE Pos(m, q) <= Pos(m, s)
        <5>1. s \in S
          BY <2>4, <3>4, <4>3
        <5>2. Pos(g, start) < Pos(g, s)
          BY <2>2, <2>4, <4>3, <5>1
        <5>. QED
          BY <2>2, <4>1, <5>1, <5>2
      <4>. QED
        BY <2>5, <3>2, <3>6, <4>2, <4>3 DEF IsNext
    <3>. QED
      BY <3>5, <3>6
  <2>6. CASE p # node /\ n <= level /\ p = start
    <3>1. start \in S /\ In(n)
      BY <1>6, <2>6
    <3>2. Q[n] = S \cup {node}
      BY <1>6, <3>1
    <3>3. n <= Len(g.nexts[p]) /\ p \in Nodes(g)
      BY <1>1, <2>3, <2>6, <3>1
    <3>4. n \in 1..Len(g.nexts[p])
      BY <1>4, <3>3
    <3>5. m.nexts[p][n] = node /\ n <= Len(m.nexts[p])
      BY <1>2, <2>6, <3>3, <3>4
    <3>. HIDE DEF S, In
    <3>6. Pos(m, p) = Pos(g, start)
      BY <2>2, <2>6, <3>1
    <3>7. node \in Q[n] /\ Pos(m, p) < Pos(m, node)
      BY <2>4, <3>2, <3>6
    <3>8. \A s \in Q[n] : Pos(m, p) < Pos(m, s) => Pos(m, node) <= Pos(m, s)
      BY <2>2, <2>4, <3>2, <3>6
    <3>. QED
      BY <2>4, <3>5, <3>7, <3>8 DEF IsNext
  <2>7. CASE p # node /\ ~ (n <= level /\ p = start)
    <3>. DEFINE q == g.nexts[p][n]
    <3>1. p \in S /\ p \in Nodes(g)
      BY <1>6, <2>1, <2>7
    <3>2. n <= Len(g.nexts[p]) /\ IsNext(g, S, p, q)
      BY <2>3, <3>1
    <3>3. n \in 1..Len(g.nexts[p])
      BY <1>4, <3>1, <3>2
    <3>4. m.nexts[p][n] = q /\ n <= Len(m.nexts[p])
      BY <1>2, <2>7, <3>1, <3>2, <3>3
    <3>5. Pos(m, p) = Pos(g, p) /\ Pos(g, p) \in Int
      BY <2>2, <3>1
    <3>6. In(n) => p # start /\ start \in S
      BY <2>7
    <3>7. Q[n] = S \/ (In(n) /\ Q[n] = S \cup {node})
      BY <1>6
    <3>8. p # start => Pos(g, p) # Pos(g, start)
      BY <1>1, <3>1, ShapeFacts
    <3>. HIDE DEF q, S, In
    <3>9. CASE q = Nil
      <4>1. \A s \in S : Pos(g, s) <= Pos(g, p)
        BY <3>2, <3>9 DEF IsNext
      <4>2. In(n) => Pos(g, start) < Pos(g, p)
        BY <2>4, <3>5, <3>6, <3>8, <4>1
      <4>3. In(n) => k < Pos(g, p)
        BY <2>2, <2>4, <3>1, <3>5, <4>2
      <4>4. \A s \in Q[n] : Pos(m, s) <= Pos(m, p)
        BY <2>2, <2>4, <3>5, <3>7, <4>1, <4>3
      <4>. QED
        BY <3>4, <3>9, <4>4 DEF IsNext
    <3>10. CASE q # Nil
      <4>1. q \in S /\ Pos(g, p) < Pos(g, q) /\ \A s \in S : Pos(g, p) < Pos(g, s) => Pos(g, q) <= Pos(g, s)
        BY <3>2, <3>10 DEF IsNext
      <4>2. q \in Q[n] /\ Pos(m, p) < Pos(m, q)
        BY <2>2, <3>5, <3>7, <4>1
      <4>3. ASSUME In(n), Pos(g, p) < k PROVE Pos(g, q) <= k
        <5>1. Pos(g, p) < Pos(g, start)
          BY <2>2, <2>4, <3>1, <3>5, <3>6, <3>8, <4>3
        <5>2. Pos(g, q) <= Pos(g, start)
          BY <3>6, <4>1, <4>3, <5>1
        <5>. QED
          BY <2>2, <2>4, <4>1, <5>2
      <4>4. \A s \in Q[n] : Pos(m, p) < Pos(m, s) => Pos(m, q) <= Pos(m, s)
        BY <2>2, <2>4, <3>5, <3>7, <4>1, <4>3
      <4>. QED
        BY <3>4, <3>10, <4>2, <4>4 DEF IsNext
    <3>. QED
      BY <3>9, <3>10
  <2>. QED
    BY <2>5, <2>6, <2>7
<1>12. Towers(m, Q)
  <2>1. Top(m) \in Nat \ {0} /\ DOMAIN Q = 1..Top(m)
    BY <1>3, <1>5, <1>7
  <2>. QED
    BY <1>5, <1>8, <1>9, <1>10, <1>11, <2>1 DEF Towers
<1>. QED
  BY <1>12

\* What resize() makes of a vector.
LEMMA ResizeFacts ==
    ASSUME NEW s \in Seq(Int), NEW n \in Nat
    PROVE  /\ Resize(s, n) \in Seq(Int) /\ Len(Resize(s, n)) = n
           /\ \A i \in 1..n : Resize(s, n)[i] = IF i <= Len(s) THEN s[i] ELSE Nil
<1>. DEFINE t == [i \in 1..n |-> IF i <= Len(s) THEN s[i] ELSE Nil]
<1>1. \A i \in 1..n : (IF i <= Len(s) THEN s[i] ELSE Nil) \in Int
  BY DEF Nil
<1>2. t \in Seq(Int) /\ Len(t) = n
  BY <1>1
<1>3. Resize(s, n) = t
  BY DEF Resize
<1>4. \A i \in 1..n : t[i] = IF i <= Len(s) THEN s[i] ELSE Nil
  OBVIOUS
<1>. QED
  BY <1>2, <1>3, <1>4

\* Two lists that differ in their pointers only.
SameNodes(l, g) ==
    /\ Nodes(g) = Nodes(l) /\ g.key = l.key /\ g.value = l.value /\ g.allocated = l.allocated
    /\ g.size = l.size /\ g.bytes = l.bytes /\ g.broken = l.broken

\* Making room for a higher level changes no pointer and adds empty levels.
LEMMA GrownKeeps ==
    ASSUME NEW l, ListInv(l), NEW at, NEW level \in Nat
    PROVE  ListInv(Grown(l, at, level)) /\ SameNodes(l, Grown(l, at, level))
           /\ level <= Top(Grown(l, at, level)) /\ (level <= Top(l) => Grown(l, at, level) = l)
<1>1. PICK R : Towers(l, R)
  BY DEF ListInv
<1>2. Shape(l) /\ Top(l) \in Nat \ {0}
  BY <1>1 DEF ListInv, Towers
<1>3. CASE level <= Top(l)
  BY <1>3 DEF Grown, SameNodes
<1>4. CASE ~ (level <= Top(l))
  <2>. DEFINE g == Grown(l, at, level)
              T == Top(l)
              passed == {at[n] : n \in 2..T}
              Wide(p) == p = HeadNode \/ p \in passed
              vectors == [p \in Nodes(l) |-> IF Wide(p) THEN Resize(l.nexts[p], level) ELSE l.nexts[p]]
              Q == [n \in 1..level |-> IF n <= T THEN R[n] ELSE {HeadNode}]
  <2>1. g = [l EXCEPT !.nexts = vectors]
    BY <1>4 DEF Grown, Nodes
  <2>2. /\ T \in Nat \ {0} /\ T < level /\ R[1] = Nodes(l) /\ DOMAIN R = 1..T
        /\ \A n \in 1..T : HeadNode \in R[n] /\ R[n] \subseteq Nodes(l)
        /\ \A n \in 1..T - 1 : R[n + 1] \subseteq R[n]
        /\ \A n \in 1..T : \A p \in R[n] : n <= Len(l.nexts[p]) /\ IsNext(l, R[n], p, l.nexts[p][n])
    BY <1>1, <1>2, <1>4 DEF Towers
  <2>3. /\ \A p \in Nodes(l) : l.nexts[p] \in Seq(Int)
        /\ HeadNode \in Nodes(l) /\ Nodes(l) \subseteq Nat /\ Nil \notin Nodes(l)
        /\ l.allocated \in Nat
        /\ \A p \in Nodes(l) : Pos(l, p) \in Int /\ Pos(l, p) >= -1
    BY <1>2, ShapeFacts
  <2>4. ASSUME NEW p \in Nodes(l)
        PROVE  /\ vectors[p] \in Seq(Int) /\ Len(vectors[p]) \in Nat
               /\ \A n \in 1..Len(vectors[p]) : vectors[p][n] = Nil \/ (n \in 1..Len(l.nexts[p]) /\ vectors[p][n] = l.nexts[p][n])
               /\ \A n \in 1..T : n <= Len(l.nexts[p]) => n <= Len(vectors[p]) /\ vectors[p][n] = l.nexts[p][n]
    <3>1. l.nexts[p] \in Seq(Int) /\ Len(l.nexts[p]) \in Nat
      BY <2>3
    <3>2. CASE Wide(p)
      <4>. DEFINE s == l.nexts[p]
                  t == Resize(s, level)
      <4>1. vectors[p] = t
        <5>. HIDE DEF Wide
        <5>. QED
          BY <3>2
      <4>2. t \in Seq(Int) /\ Len(t) = level /\ \A i \in 1..level : t[i] = IF i <= Len(s) THEN s[i] ELSE Nil
        BY <3>1, ResizeFacts
      <4>3. s \in Seq(Int) /\ Len(s) \in Nat
        BY <3>1
      <4>. HIDE DEF s, t, vectors, T
      <4>4. \A n \in 1..Len(t) : t[n] = Nil \/ (n \in 1..Len(s) /\ t[n] = s[n])
        BY <4>2, <4>3
      <4>5. \A n \in 1..T : n <= Len(s) => n <= Len(t) /\ t[n] = s[n]
        BY <2>2, <4>2, <4>3
      <4>. QED
        BY <4>1, <4>2, <4>4, <4>5 DEF s
    <3>3. CASE ~ Wide(p)
      <4>1. vectors[p] = l.nexts[p]
        <5>. HIDE DEF Wide
        <5>. QED
          BY <3>3
      <4>. HIDE DEF vectors
      <4>. QED
        BY <3>1, <4>1
    <3>. QED
      BY <3>2, <3>3
  <2>5. Len(vectors[HeadNode]) = level /\ \A n \in 1..level : n > T => vectors[HeadNode][n] = Nil
    <3>1. vectors[HeadNode] = Resize(l.nexts[HeadNode], level)
      BY <2>3
    <3>2. Len(l.nexts[HeadNode]) = T
      BY DEF Top
    <3>3. /\ Len(Resize(l.nexts[HeadNode], level)) = level
          /\ \A i \in 1..level : Resize(l.nexts[HeadNode], level)[i]
                                    = IF i <= T THEN l.nexts[HeadNode][i] ELSE Nil
      <4>. DEFINE s == l.nexts[HeadNode]
      <4>1. s \in Seq(Int) /\ Len(s) = T /\ level \in Nat
        BY <2>3, <3>2
      <4>. HIDE DEF s, T, vectors
      <4>2. /\ Len(Resize(s, level)) = level
            /\ \A i \in 1..level : Resize(s, level)[i] = IF i <= Len(s) THEN s[i] ELSE Nil
        BY <4>1, ResizeFacts
      <4>3. \A i \in 1..level : Resize(s, level)[i] = IF i <= T THEN s[i] ELSE Nil
        BY <4>1, <4>2
      <4>. QED
        BY <4>2, <4>3 DEF s
    <3>. HIDE DEF vectors, T
    <3>. QED
      BY <2>2, <3>1, <3>3
  <2>6. vectors \in PerNode(Seq(Int)) /\ DOMAIN vectors = Nodes(l)
    <3>1. \A p \in Nodes(l) : vectors[p] \in Seq(Int)
      BY <2>4
    <3>2. vectors \in [Nodes(l) -> Seq(Int)]
      <4>1. vectors = [p \in Nodes(l) |-> vectors[p]]
        OBVIOUS
      <4>. HIDE DEF vectors
      <4>. QED
        BY <3>1, <4>1
    <3>. HIDE DEF vectors
    <3>. QED
      BY <2>3, <3>2 DEF PerNode
  <2>. HIDE DEF vectors, g
  <2>7. g \in ListType /\ g.nexts = vectors /\ g.key = l.key /\ g.value = l.value
        /\ g.allocated = l.allocated /\ g.size = l.size /\ g.bytes = l.bytes /\ g.broken = l.broken
    <3>1. l \in ListType
      BY <1>2 DEF Shape
    <3>. QED
      BY <2>1, <2>6, <3>1 DEF ListType
  <2>8. Nodes(g) = Nodes(l) /\ Top(g) = level
    BY <2>5, <2>6, <2>7 DEF Nodes, Top
  <2>9. SameNodes(l, g)
    BY <2>7, <2>8 DEF SameNodes
  <2>10. \A p : Pos(g, p) = Pos(l, p)
    BY <2>7 DEF Pos
  <2>11. NodesOK(g)
    <3>1. NodesOK(l)
      BY <1>2 DEF Shape
    <3>. QED
      BY <2>7, <2>8, <3>1 DEF NodesOK
  <2>12. PointersOK(g)
    <3>. SUFFICES ASSUME NEW p \in Nodes(l), NEW n \in 1..Len(vectors[p])
                  PROVE  /\ vectors[p][n] \in 0..l.allocated
                         /\ vectors[p][n] \in Nodes(l) => Pos(l, p) < Pos(l, vectors[p][n])
      BY <2>7, <2>8, <2>10 DEF PointersOK
    <3>1. CASE vectors[p][n] = Nil
      BY <2>3, <3>1 DEF Nil
    <3>2. CASE vectors[p][n] # Nil
      <4>1. n \in 1..Len(l.nexts[p]) /\ vectors[p][n] = l.nexts[p][n]
        BY <2>4, <3>2
      <4>2. PointersOK(l)
        BY <1>2 DEF Shape
      <4>. QED
        BY <4>1, <4>2 DEF PointersOK
    <3>. QED
      BY <3>1, <3>2
  <2>13. \A n \in 1..level : Q[n] = IF n <= T THEN R[n] ELSE {HeadNode}
    OBVIOUS
  <2>14. DOMAIN Q = 1..level
    OBVIOUS
  <2>. HIDE DEF Q
  <2>15. ASSUME NEW n \in 1..level, NEW p \in Q[n]
         PROVE  n <= Len(vectors[p]) /\ IsNext(g, Q[n], p, vectors[p][n])
    <3>1. CASE n <= T
      <4>1. n \in 1..T /\ Q[n] = R[n]
        BY <2>2, <2>13, <3>1
      <4>2. p \in Nodes(l) /\ n <= Len(l.nexts[p]) /\ IsNext(l, R[n], p, l.nexts[p][n])
        BY <2>2, <4>1
      <4>3. n <= Len(vectors[p]) /\ vectors[p][n] = l.nexts[p][n]
        BY <2>4, <4>1, <4>2
      <4>. QED
        BY <2>10, <4>1, <4>2, <4>3 DEF IsNext
    <3>2. CASE ~ (n <= T)
      <4>1. Q[n] = {HeadNode} /\ p = HeadNode
        BY <2>13, <3>2
      <4>2. n <= Len(vectors[p]) /\ vectors[p][n] = Nil
        BY <2>2, <2>5, <3>2, <4>1
      <4>3. Pos(g, HeadNode) <= Pos(g, HeadNode)
        BY <2>3, <2>10
      <4>. QED
        BY <4>1, <4>2, <4>3 DEF IsNext
    <3>. QED
      BY <3>1, <3>2
  <2>16. Q[1] = Nodes(l)
    BY <2>2, <2>13
  <2>17. \A n \in 1..level : HeadNode \in Q[n] /\ Q[n] \subseteq Nodes(l)
    <3>. SUFFICES ASSUME NEW n \in 1..level PROVE HeadNode \in Q[n] /\ Q[n] \subseteq Nodes(l)
      OBVIOUS
    <3>1. CASE n <= T
      <4>1. n \in 1..T
        BY <2>2, <3>1
      <4>. QED
        BY <2>2, <2>13, <3>1, <4>1
    <3>2. CASE ~ (n <= T)
      BY <2>3, <2>13, <3>2
    <3>. QED
      BY <3>1, <3>2
  <2>18. \A n \in 1..level - 1 : Q[n + 1] \subseteq Q[n]
    <3>. SUFFICES ASSUME NEW n \in 1..level - 1 PROVE Q[n + 1] \subseteq Q[n]
      OBVIOUS
    <3>1. n \in 1..level /\ n + 1 \in 1..level
      BY <2>2
    <3>2. CASE n + 1 <= T
      <4>1. n \in 1..T - 1 /\ n <= T
        BY <2>2, <3>2
      <4>. QED
        BY <2>2, <2>13, <3>1, <3>2, <4>1
    <3>3. CASE ~ (n + 1 <= T)
      <4>1. Q[n + 1] = {HeadNode}
        BY <2>13, <3>1, <3>3
      <4>. QED
        BY <2>17, <3>1, <4>1
    <3>. QED
      BY <3>2, <3>3
  <2>19. Towers(g, Q)
    <3>1. Top(g) \in Nat \ {0} /\ DOMAIN Q = 1..Top(g)
      BY <2>2, <2>8, <2>14
    <3>. QED
      BY <2>7, <2>8, <2>15, <2>16, <2>17, <2>18, <3>1 DEF Towers
  <2>20. ListInv(g)
    BY <2>7, <2>11, <2>12, <2>19 DEF ListInv, Shape
  <2>. QED
    BY <1>4, <2>8, <2>9, <2>20 DEF g
<1>. QED
  BY <1>3, <1>4

\* The insertion loop, which starts on every level at the last node before k, stays there
\* or reads outside a node.
LEMMA StartWalk ==
    ASSUME NEW g, Shape(g), NEW k \in Nat, NEW start, IsPred(g, Nodes(g), k, start), NEW n \in Nat \ {0}
    PROVE  /\ Walk(g, start, n, k) \in {start, Wild} /\ Walk(g, Wild, n, k) = Wild
           /\ Walk(g, start, n, k) = start =>
                 n <= Len(g.nexts[start]) /\ g.nexts[start][n] \in Nodes(g) \cup {Nil}
<1>. DEFINE q == NextOf(g, start, n)
<1>1. start \in Nodes(g) /\ Wild \notin Nodes(g) /\ \A x \in Nodes(g) : Pos(g, x) < k => Pos(g, x) <= Pos(g, start)
  BY ShapeFacts DEF IsPred
<1>2. Walk(g, Wild, n, k) = Wild
  <2>1. Stops(g, Wild, n)
    BY DEF Stops
  <2>2. Walk(g, Wild, n, k) = Arrives(g, Wild, n, k, Walk(g, NextOf(g, Wild, n), n, k))
    BY WalkStep
  <2>. QED
    BY <2>1, <2>2 DEF Arrives
<1>3. ~ GoesOn(g, start, n, k)
  <2>. SUFFICES ASSUME GoesOn(g, start, n, k) PROVE FALSE
    OBVIOUS
  <2>1. q \in Nodes(g) /\ Pos(g, start) < Pos(g, q) /\ Pos(g, q) < k
    BY <1>1, WalkGrows
  <2>2. Pos(g, q) <= Pos(g, start) /\ Pos(g, q) \in Int /\ Pos(g, start) \in Int
    BY <1>1, <2>1, ShapeFacts
  <2>. HIDE DEF q
  <2>. QED
    BY <2>1, <2>2
<1>4. Walk(g, start, n, k) = IF Stops(g, start, n) THEN Wild ELSE start
  <2>1. Walk(g, start, n, k) = Arrives(g, start, n, k, Walk(g, q, n, k))
    BY <1>1, WalkStep
  <2>. QED
    BY <1>3, <2>1 DEF Arrives
<1>5. ASSUME Walk(g, start, n, k) = start
      PROVE  n <= Len(g.nexts[start]) /\ g.nexts[start][n] \in Nodes(g) \cup {Nil}
  <2>1. ~ Stops(g, start, n)
    BY <1>1, <1>4, <1>5
  <2>2. q # Wild /\ q \in Nodes(g) \cup {Nil}
    BY <2>1 DEF Stops
  <2>. QED
    BY <2>2 DEF NextOf
<1>. QED
  BY <1>2, <1>4, <1>5

\* So the places it links at are all the same node, with a usable vector.
LEMMA StartDescent ==
    ASSUME NEW g, Shape(g), Top(g) \in Nat, NEW k \in Nat, NEW start, IsPred(g, Nodes(g), k, start),
           Wild \notin Range(Descend(g, start, k))
    PROVE  \A n \in 1..Top(g) :
              /\ Descend(g, start, k)[n] = start
              /\ n <= Len(g.nexts[start]) /\ g.nexts[start][n] \in Nodes(g) \cup {Nil}
<1>. DEFINE T == Top(g)
            W(n) == Walk(g, start, n, k)
            c == [n \in 1..T |-> IF \E i \in n..T : W(i) = Wild THEN Wild ELSE start]
<1>1. \A n \in 1..T : n \in Nat \ {0} /\ W(n) \in {start, Wild} /\ Walk(g, Wild, n, k) = Wild
  BY StartWalk
<1>2. c \in [1..T -> {start, Wild}]
  <2>. HIDE DEF W
  <2>. QED
    OBVIOUS
<1>3. \A n \in 1..T : c[n] = IF \E i \in n..T : W(i) = Wild THEN Wild ELSE start
  <2>. HIDE DEF W
  <2>. QED
    OBVIOUS
<1>. HIDE DEF c
<1>4. ASSUME NEW n \in 1..T PROVE c[n] = Walk(g, From(g, c, n, start), n, k)
  <2>1. CASE n = T
    <3>1. From(g, c, n, start) = start
      BY <2>1 DEF From
    <3>2. n..T = {n}
      BY <2>1
    <3>3. c[n] = IF W(n) = Wild THEN Wild ELSE start
      <4>. HIDE DEF W
      <4>. QED
        BY <1>3, <3>2
    <3>4. c[n] = W(n)
      <4>. HIDE DEF W
      <4>. QED
        BY <1>1, <3>3
    <3>. QED
      BY <3>1, <3>4
  <2>2. CASE n # T
    <3>1. From(g, c, n, start) = c[n + 1] /\ n + 1 \in 1..T
      BY <2>2 DEF From
    <3>2. \A i : i \in n..T <=> i = n \/ i \in n + 1..T
      BY <2>2
    <3>3. CASE \E i \in n + 1..T : W(i) = Wild
      <4>1. c[n + 1] = Wild /\ c[n] = Wild
        <5>. HIDE DEF W
        <5>. QED
          BY <1>3, <3>1, <3>2, <3>3
      <4>. QED
        BY <1>1, <3>1, <4>1
    <3>4. CASE ~ \E i \in n + 1..T : W(i) = Wild
      <4>1. c[n + 1] = start
        <5>. HIDE DEF W
        <5>. QED
          BY <1>3, <3>1, <3>4
      <4>2. c[n] = IF W(n) = Wild THEN Wild ELSE start
        <5>. HIDE DEF W
        <5>. QED
          BY <1>3, <3>2, <3>4
      <4>3. c[n] = W(n)
        <5>. HIDE DEF W
        <5>. QED
          BY <1>1, <4>2
      <4>. QED
        BY <3>1, <4>1, <4>3
    <3>. QED
      BY <3>3, <3>4
  <2>. QED
    BY <2>1, <2>2
<1>5. Descend(g, start, k) = c
  <2>1. Follows(g, c, start, k)
    BY <1>4 DEF Follows
  <2>. QED
    BY <1>2, <2>1, DescendIs
<1>6. start # Wild
  BY ShapeFacts DEF IsPred
<1>7. ASSUME NEW n \in 1..T PROVE c[n] = start /\ W(n) = start
  <2>. HIDE DEF W
  <2>1. c[n] # Wild
    BY <1>2, <1>5 DEF Range
  <2>2. ~ \E i \in n..T : W(i) = Wild
    BY <1>3, <2>1
  <2>3. n \in n..T
    OBVIOUS
  <2>. QED
    BY <1>1, <1>3, <2>2, <2>3
<1>. QED
  BY <1>1, <1>5, <1>7, StartWalk

\* The list with the new node, not linked yet.
With(g, k, v) ==
    LET node == g.allocated + 1 IN
    [g EXCEPT !.nexts = [p \in DOMAIN @ \cup {node} |->
                            IF p = node THEN Resize(<<>>, Top(g)) ELSE @[p]],
              !.key = [p \in DOMAIN @ \cup {node} |-> IF p = node THEN k ELSE @[p]],
              !.value = [p \in DOMAIN @ \cup {node} |-> IF p = node THEN v ELSE @[p]],
              !.allocated = node,
              !.size = @ + 1,
              !.bytes = @ + KeySize[k] + ValueSize[v]]

\* Its fields.
LEMMA WithFacts ==
    ASSUME NEW g, Shape(g), Top(g) \in Nat, NEW k \in Key, NEW v \in Value
    PROVE  LET w == With(g, k, v)
               node == g.allocated + 1
           IN  /\ w \in ListType /\ w.allocated = node
               /\ Nodes(w) = Nodes(g) \cup {node} /\ w.nexts \in [Nodes(w) -> Seq(Int)]
               /\ DOMAIN w.key = Nodes(w) \ {HeadNode} /\ DOMAIN w.value = Nodes(w) \ {HeadNode}
               /\ w.key[node] = k /\ w.value[node] = v
               /\ \A p \in Nodes(g) \ {HeadNode} : w.key[p] = g.key[p] /\ w.value[p] = g.value[p]
               /\ \A p \in Nodes(g) : w.nexts[p] = g.nexts[p]
               /\ Len(w.nexts[node]) = Top(g) /\ \A n \in 1..Top(g) : w.nexts[node][n] = Nil
               /\ w.size = g.size + 1 /\ w.bytes = g.bytes + KeySize[k] + ValueSize[v]
               /\ w.broken = g.broken
<1>. DEFINE node == g.allocated + 1
            empty == Resize(<<>>, Top(g))
            D == Nodes(g) \cup {node}
            C == (Nodes(g) \ {HeadNode}) \cup {node}
            A == [p \in D |-> IF p = node THEN empty ELSE g.nexts[p]]
            B == [p \in C |-> IF p = node THEN k ELSE g.key[p]]
            V == [p \in C |-> IF p = node THEN v ELSE g.value[p]]
            size == g.size + 1
            bytes == g.bytes + KeySize[k] + ValueSize[v]
            w == With(g, k, v)
<1>1. g \in ListType /\ DOMAIN g.key = Nodes(g) \ {HeadNode} /\ DOMAIN g.value = Nodes(g) \ {HeadNode}
  BY DEF Shape, NodesOK
<1>2. /\ g.allocated \in Nat /\ node \notin Nodes(g) /\ Nodes(g) \subseteq Nat /\ HeadNode \in Nodes(g)
      /\ g.size \in Int /\ g.bytes \in Int
      /\ \A p \in Nodes(g) : g.nexts[p] \in Seq(Int)
      /\ \A p \in Nodes(g) : p # HeadNode => g.key[p] \in Key /\ g.value[p] \in Value
  BY ShapeFacts
<1>3. w = [g EXCEPT !.nexts = A, !.key = B, !.value = V, !.allocated = node, !.size = size, !.bytes = bytes]
  BY <1>1 DEF With, Nodes, ListType
<1>4. empty \in Seq(Int) /\ Len(empty) = Top(g) /\ \A n \in 1..Top(g) : empty[n] = Nil
  <2>. DEFINE none == <<>>
  <2>1. none \in Seq(Int) /\ Len(none) = 0 /\ empty = Resize(none, Top(g))
    OBVIOUS
  <2>. HIDE DEF none, empty
  <2>2. /\ empty \in Seq(Int) /\ Len(empty) = Top(g)
        /\ \A n \in 1..Top(g) : empty[n] = IF n <= Len(none) THEN none[n] ELSE Nil
    BY <2>1, ResizeFacts
  <2>3. \A n \in 1..Top(g) : ~ (n <= Len(none))
    BY <2>1
  <2>. QED
    BY <2>2, <2>3
<1>. HIDE DEF empty
<1>5. node \in Nat /\ node # HeadNode /\ size \in Int /\ bytes \in Int
  <2>1. KeySize[k] \in Nat /\ ValueSize[v] \in Nat
    BY ListAssumption
  <2>. QED
    BY <1>2, <2>1
<1>. HIDE DEF node, size, bytes
<1>6. A \in [D -> Seq(Int)] /\ A[node] = empty /\ \A p \in Nodes(g) : A[p] = g.nexts[p]
  BY <1>2, <1>4
<1>7. B \in [C -> Key] /\ B[node] = k /\ \A p \in Nodes(g) \ {HeadNode} : B[p] = g.key[p]
  BY <1>2
<1>8. V \in [C -> Value] /\ V[node] = v /\ \A p \in Nodes(g) \ {HeadNode} : V[p] = g.value[p]
  BY <1>2
<1>9. D \in SUBSET Nat /\ C \in SUBSET Nat /\ C = D \ {HeadNode}
  BY <1>2, <1>5
<1>. HIDE DEF A, B, V, w, C, D
<1>10. A \in PerNode(Seq(Int)) /\ B \in PerNode(Key) /\ V \in PerNode(Value)
  BY <1>6, <1>7, <1>8, <1>9 DEF PerNode
<1>11. /\ w \in ListType /\ w.nexts = A /\ w.key = B /\ w.value = V /\ w.allocated = node /\ w.size = size
       /\ w.bytes = bytes /\ w.broken = g.broken
  BY <1>1, <1>3, <1>5, <1>10 DEF ListType
<1>12. Nodes(w) = D /\ DOMAIN B = C /\ DOMAIN V = C
  BY <1>6, <1>7, <1>8, <1>11 DEF Nodes
<1>. QED
  BY <1>4, <1>6, <1>7, <1>8, <1>9, <1>11, <1>12 DEF w, node, size, bytes, D

\* Linking it at one place on all its levels is an insertion there.
LEMMA LinkedIs ==
    ASSUME NEW g, Shape(g), Top(g) \in Nat, NEW k \in Key, NEW v \in Value, NEW start \in Nodes(g),
           NEW level \in 1..Top(g), \A n \in 1..Top(g) : n <= Len(g.nexts[start]),
           NEW places, \A n \in 1..Top(g) : places[n] = start
    PROVE  LET m == Linked(With(g, k, v), places, g.allocated + 1, level)
           IN  /\ Inserted(g, m, k, v, start, level)
               /\ m.size = g.size + 1 /\ m.bytes = g.bytes + KeySize[k] + ValueSize[v]
               /\ m.broken = g.broken
<1>. DEFINE node == g.allocated + 1
            w == With(g, k, v)
            m == Linked(w, places, node, level)
            Ptr(p, n) == IF n > level THEN w.nexts[p][n]
                         ELSE IF p = node THEN NextOf(w, places[n], n)
                         ELSE IF places[n] = p THEN node ELSE w.nexts[p][n]
            X == [p \in Nodes(w) |-> [n \in DOMAIN w.nexts[p] |-> Ptr(p, n)]]
<1>1. /\ w \in ListType /\ w.allocated = node
      /\ Nodes(w) = Nodes(g) \cup {node} /\ w.nexts \in [Nodes(w) -> Seq(Int)]
      /\ DOMAIN w.key = Nodes(w) \ {HeadNode} /\ DOMAIN w.value = Nodes(w) \ {HeadNode}
      /\ w.key[node] = k /\ w.value[node] = v
      /\ \A p \in Nodes(g) \ {HeadNode} : w.key[p] = g.key[p] /\ w.value[p] = g.value[p]
      /\ \A p \in Nodes(g) : w.nexts[p] = g.nexts[p]
      /\ Len(w.nexts[node]) = Top(g) /\ \A n \in 1..Top(g) : w.nexts[node][n] = Nil
      /\ w.size = g.size + 1 /\ w.bytes = g.bytes + KeySize[k] + ValueSize[v]
      /\ w.broken = g.broken
  BY WithFacts
<1>2. m = [w EXCEPT !.nexts = X]
  BY DEF Linked, Nodes
<1>3. g.allocated \in Nat /\ node \notin Nodes(g) /\ Nodes(g) \subseteq Nat /\ \A p \in Nodes(g) : g.nexts[p] \in Seq(Int)
  BY ShapeFacts
<1>4. node \in Nat
  BY <1>3
<1>. HIDE DEF node, w, m
<1>5. ASSUME NEW n \in 1..level PROVE n \in 1..Top(g) /\ places[n] = start /\ NextOf(w, places[n], n) = g.nexts[start][n]
  <2>1. n \in 1..Top(g) /\ places[n] = start /\ n <= Len(g.nexts[start])
    OBVIOUS
  <2>2. start \in DOMAIN w.nexts /\ w.nexts[start] = g.nexts[start]
    BY <1>1 DEF Nodes
  <2>. QED
    BY <2>1, <2>2 DEF NextOf
<1>6. ASSUME NEW p \in Nodes(w), NEW n \in 1..Len(w.nexts[p])
      PROVE  Ptr(p, n) \in Int /\ Ptr(p, n) = IF n > level THEN w.nexts[p][n] ELSE IF p = node THEN g.nexts[start][n]
                                             ELSE IF p = start THEN node ELSE g.nexts[p][n]
  <2>1. w.nexts[p] \in Seq(Int)
    BY <1>1
  <2>2. w.nexts[p][n] \in Int /\ n \in Nat \ {0}
    BY <2>1
  <2>3. CASE n > level
    BY <2>2, <2>3
  <2>4. CASE ~ (n > level)
    <3>1. n \in 1..level
      BY <2>2, <2>4
    <3>2. n \in 1..Top(g) /\ places[n] = start /\ NextOf(w, places[n], n) = g.nexts[start][n]
      BY <1>5, <3>1
    <3>3. g.nexts[start][n] \in Int
      BY <1>3, <3>2
    <3>4. p # node => p \in Nodes(g) /\ w.nexts[p][n] = g.nexts[p][n]
      BY <1>1
    <3>. QED
      BY <1>4, <2>2, <2>4, <3>2, <3>3, <3>4
  <2>. QED
    BY <2>3, <2>4
<1>7. ASSUME NEW p \in Nodes(w)
      PROVE  /\ X[p] \in Seq(Int) /\ Len(X[p]) = Len(w.nexts[p])
             /\ \A n \in 1..Len(w.nexts[p]) : X[p][n] = Ptr(p, n)
  <2>1. w.nexts[p] \in Seq(Int) /\ DOMAIN w.nexts[p] = 1..Len(w.nexts[p]) /\ Len(w.nexts[p]) \in Nat
    BY <1>1
  <2>2. X[p] = [n \in 1..Len(w.nexts[p]) |-> Ptr(p, n)]
    <3>. HIDE DEF Ptr
    <3>. QED
      BY <2>1
  <2>3. \A n \in 1..Len(w.nexts[p]) : Ptr(p, n) \in Int
    BY <1>6
  <2>. HIDE DEF X, Ptr
  <2>. QED
    BY <2>1, <2>2, <2>3
<1>8. X \in [Nodes(w) -> Seq(Int)] /\ DOMAIN X = Nodes(w)
  <2>1. X = [p \in Nodes(w) |-> X[p]]
    <3>. HIDE DEF Ptr
    <3>. QED
      OBVIOUS
  <2>. HIDE DEF X
  <2>. QED
    BY <1>7, <2>1
<1>. HIDE DEF X
<1>9. X \in PerNode(Seq(Int))
  <2>1. Nodes(w) \in SUBSET Nat
    BY <1>1, <1>3, <1>4
  <2>. QED
    BY <1>8, <2>1 DEF PerNode
<1>10. /\ m \in ListType /\ m.nexts = X /\ m.key = w.key /\ m.value = w.value /\ m.allocated = w.allocated
       /\ m.size = w.size /\ m.bytes = w.bytes /\ m.broken = w.broken
  BY <1>1, <1>2, <1>9 DEF ListType
<1>11. Nodes(m) = Nodes(w)
  BY <1>8, <1>10 DEF Nodes
<1>12. ASSUME NEW p \in Nodes(g)
       PROVE  /\ Len(m.nexts[p]) = Len(g.nexts[p])
              /\ \A n \in 1..Len(g.nexts[p]) :
                    m.nexts[p][n] = IF n <= level /\ p = start THEN node ELSE g.nexts[p][n]
  <2>1. p \in Nodes(w) /\ p # node /\ w.nexts[p] = g.nexts[p] /\ m.nexts[p] = X[p]
    BY <1>1, <1>3, <1>10 DEF node
  <2>2. ASSUME NEW n \in 1..Len(g.nexts[p])
        PROVE  X[p][n] = IF n <= level /\ p = start THEN node ELSE g.nexts[p][n]
    <3>1. X[p][n] = IF n > level THEN w.nexts[p][n] ELSE IF p = node THEN g.nexts[start][n]
                                             ELSE IF p = start THEN node ELSE g.nexts[p][n]
      <4>. HIDE DEF Ptr
      <4>. QED
        BY <1>6, <1>7, <2>1
    <3>2. n > level <=> ~ (n <= level)
      OBVIOUS
    <3>. QED
      BY <2>1, <3>1, <3>2
  <2>. QED
    BY <1>7, <2>1, <2>2
<1>13. ASSUME NEW n \in 1..Top(g) PROVE m.nexts[node][n] = IF n <= level THEN g.nexts[start][n] ELSE Nil
  <2>1. node \in Nodes(w) /\ Len(w.nexts[node]) = Top(g) /\ w.nexts[node][n] = Nil /\ m.nexts[node] = X[node]
    BY <1>1, <1>10
  <2>2. X[node][n] = IF n > level THEN w.nexts[node][n] ELSE g.nexts[start][n]
    <3>. HIDE DEF Ptr
    <3>. QED
      BY <1>6, <1>7, <2>1
  <2>3. n > level <=> ~ (n <= level)
    OBVIOUS
  <2>. QED
    BY <2>1, <2>2, <2>3
<1>14. Len(m.nexts[node]) = Top(g)
  <2>1. node \in Nodes(w)
    BY <1>1
  <2>. QED
    BY <1>1, <1>7, <1>10, <2>1
<1>15. Inserted(g, m, k, v, start, level)
  BY <1>1, <1>10, <1>11, <1>12, <1>13, <1>14 DEF Inserted, node
<1>. QED
  BY <1>1, <1>10, <1>15 DEF m, w, node

-----------------------------------------------------------------------------
(***************************************************************************)
(* The sizes that decide when a memtable is full.                          *)
(***************************************************************************)
Weight(m, k) == KeySize[k] + ValueSize[m[k]]
Weights(m) == [k \in Present(m) |-> Weight(m, k)]
WeightsBut(m, x) == [k \in Present(m) \ {x} |-> Weight(m, k)]

SizesOK(l, m) ==
    /\ IsFiniteSet(Present(m)) /\ l.size = Cardinality(Present(m))
    /\ l.bytes = SumFunction(Weights(m))

Maps == [Key -> Value \cup {NotFound}]

\* A finite set of sizes is bounded.
LEMMA WeightsBound ==
    ASSUME NEW m \in Maps, IsFiniteSet(Present(m))
    PROVE  \E b \in Nat : Weights(m) \in [Present(m) -> 0..b]
<1>. DEFINE S == {Weight(m, k) : k \in Present(m)}
<1>1. \A k \in Present(m) : Weight(m, k) \in Nat
  <2>. SUFFICES ASSUME NEW k \in Present(m) PROVE Weight(m, k) \in Nat
    OBVIOUS
  <2>1. k \in Key /\ m[k] \in Value
    BY DEF Present, Maps
  <2>2. KeySize[k] \in Nat /\ ValueSize[m[k]] \in Nat
    BY <2>1, ListAssumption
  <2>. QED
    BY <2>2 DEF Weight
<1>2. CASE Present(m) = {}
  <2>1. Weights(m) \in [Present(m) -> 0..0]
    BY <1>2 DEF Weights
  <2>. QED
    BY <2>1
<1>3. CASE Present(m) # {}
  <2>1. S # {} /\ S \subseteq Int
    BY <1>1, <1>3
  <2>2. IsFiniteSet(S)
    <3>1. Weights(m) \in Surjection(Present(m), S)
      BY DEF Weights, Surjection
    <3>. HIDE DEF S
    <3>. QED
      BY <3>1, FS_Surjection
  <2>3. PICK b \in S : \A x \in S : x <= b
    BY <2>1, <2>2, GreatestOfFinite
  <2>4. b \in Nat /\ \A k \in Present(m) : Weight(m, k) \in 0..b
    BY <1>1, <2>3
  <2>5. Weights(m) \in [Present(m) -> 0..b]
    BY <2>4 DEF Weights
  <2>. QED
    BY <2>4, <2>5
<1>. QED
  BY <1>2, <1>3

\* The share of one key in the sum.
LEMMA WeightsSplit ==
    ASSUME NEW m \in Maps, IsFiniteSet(Present(m)), NEW x \in Present(m)
    PROVE  /\ SumFunction(Weights(m)) = SumFunction(WeightsBut(m, x)) + (KeySize[x] + ValueSize[m[x]])
           /\ SumFunction(WeightsBut(m, x)) \in Int
<1>1. PICK b \in Nat : Weights(m) \in [Present(m) -> 0..b]
  BY WeightsBound
<1>. DEFINE w == Weights(m)
<1>2. SumFunction(w) = SumFunction([i \in Present(m) \ {x} |-> w[i]]) + w[x]
  BY <1>1, SumAdd
<1>3. [i \in Present(m) \ {x} |-> w[i]] = WeightsBut(m, x) /\ w[x] = KeySize[x] + ValueSize[m[x]]
  BY DEF Weights, WeightsBut, Weight
<1>4. IsFiniteSet(Present(m) \ {x})
  BY FS_RemoveElement
<1>5. WeightsBut(m, x) \in [Present(m) \ {x} -> 0..b]
  <2>1. \A i \in Present(m) \ {x} : w[i] \in 0..b
    BY <1>1
  <2>. HIDE DEF w
  <2>. QED
    BY <1>3, <2>1
<1>6. SumFunction(WeightsBut(m, x)) \in Nat
  BY <1>4, <1>5, SumAsSize
<1>. QED
  BY <1>2, <1>3, <1>6

\* Writing a key that is not there.
LEMMA SizesAdd ==
    ASSUME NEW m \in Maps, IsFiniteSet(Present(m)), NEW k \in Key, m[k] = NotFound, NEW v \in Value
    PROVE  LET r == [m EXCEPT ![k] = v]
           IN  /\ r \in Maps /\ IsFiniteSet(Present(r)) /\ Cardinality(Present(r)) = Cardinality(Present(m)) + 1
               /\ SumFunction(Weights(r)) = SumFunction(Weights(m)) + KeySize[k] + ValueSize[v]
<1>. DEFINE r == [m EXCEPT ![k] = v]
<1>1. r \in Maps /\ r[k] = v /\ v # NotFound /\ \A i \in Key : i # k => r[i] = m[i]
  BY ListAssumption DEF Maps, NotFound
<1>2. Present(r) = Present(m) \cup {k} /\ k \notin Present(m)
  BY <1>1 DEF Present
<1>3. IsFiniteSet(Present(r)) /\ Cardinality(Present(r)) = Cardinality(Present(m)) + 1
  BY <1>2, FS_AddElement
<1>. HIDE DEF r
<1>4. WeightsBut(r, k) = Weights(m)
  <2>1. Present(r) \ {k} = Present(m)
    BY <1>2
  <2>2. \A i \in Present(m) : Weight(r, i) = Weight(m, i)
    BY <1>1, <1>2 DEF Weight, Present
  <2>. QED
    BY <2>1, <2>2 DEF WeightsBut, Weights
<1>5. SumFunction(Weights(r)) = SumFunction(Weights(m)) + (KeySize[k] + ValueSize[v]) /\ SumFunction(Weights(m)) \in Int
  BY <1>1, <1>2, <1>3, <1>4, WeightsSplit
<1>6. KeySize[k] \in Nat /\ ValueSize[v] \in Nat
  BY ListAssumption
<1>. QED
  BY <1>1, <1>3, <1>5, <1>6 DEF r

\* Overwriting one that is.
LEMMA SizesChange ==
    ASSUME NEW m \in Maps, IsFiniteSet(Present(m)), NEW k \in Present(m), NEW v \in Value
    PROVE  LET r == [m EXCEPT ![k] = v]
           IN  /\ r \in Maps /\ Present(r) = Present(m)
               /\ SumFunction(Weights(r)) = SumFunction(Weights(m)) + ValueSize[v] - ValueSize[m[k]]
<1>. DEFINE r == [m EXCEPT ![k] = v]
<1>1. r \in Maps /\ r[k] = v /\ v # NotFound /\ k \in Key /\ m[k] \in Value /\ \A i \in Key : i # k => r[i] = m[i]
  BY ListAssumption DEF Maps, NotFound, Present
<1>2. Present(r) = Present(m)
  BY <1>1 DEF Present
<1>. HIDE DEF r
<1>3. WeightsBut(r, k) = WeightsBut(m, k)
  <2>1. \A i \in Present(m) \ {k} : Weight(r, i) = Weight(m, i)
    BY <1>1 DEF Weight, Present
  <2>. QED
    BY <1>2, <2>1 DEF WeightsBut
<1>. DEFINE rest == SumFunction(WeightsBut(m, k))
<1>4. SumFunction(Weights(r)) = rest + (KeySize[k] + ValueSize[v])
  BY <1>1, <1>2, <1>3, WeightsSplit
<1>5. SumFunction(Weights(m)) = rest + (KeySize[k] + ValueSize[m[k]]) /\ rest \in Int
  BY WeightsSplit
<1>6. KeySize[k] \in Nat /\ ValueSize[v] \in Nat /\ ValueSize[m[k]] \in Nat
  BY <1>1, ListAssumption
<1>. HIDE DEF rest
<1>. QED
  BY <1>1, <1>2, <1>4, <1>5, <1>6 DEF r

\* Taking one out.
LEMMA SizesRemove ==
    ASSUME NEW m \in Maps, IsFiniteSet(Present(m)), NEW k \in Present(m)
    PROVE  LET r == [m EXCEPT ![k] = NotFound]
           IN  /\ r \in Maps /\ IsFiniteSet(Present(r)) /\ Cardinality(Present(r)) = Cardinality(Present(m)) - 1
               /\ SumFunction(Weights(r)) = SumFunction(Weights(m)) - KeySize[k] - ValueSize[m[k]]
<1>. DEFINE r == [m EXCEPT ![k] = NotFound]
<1>1. r \in Maps /\ r[k] = NotFound /\ k \in Key /\ m[k] \in Value /\ \A i \in Key : i # k => r[i] = m[i]
  BY DEF Maps, Present
<1>2. Present(r) = Present(m) \ {k}
  BY <1>1 DEF Present
<1>3. IsFiniteSet(Present(r)) /\ Cardinality(Present(r)) = Cardinality(Present(m)) - 1
  BY <1>2, FS_RemoveElement
<1>. HIDE DEF r
<1>4. WeightsBut(m, k) = Weights(r)
  <2>1. \A i \in Present(m) \ {k} : Weight(r, i) = Weight(m, i)
    BY <1>1 DEF Weight, Present
  <2>. QED
    BY <1>2, <2>1 DEF WeightsBut, Weights
<1>5. SumFunction(Weights(m)) = SumFunction(Weights(r)) + (KeySize[k] + ValueSize[m[k]]) /\ SumFunction(Weights(r)) \in Int
  BY <1>4, WeightsSplit
<1>6. KeySize[k] \in Nat /\ ValueSize[m[k]] \in Nat
  BY <1>1, ListAssumption
<1>. QED
  BY <1>1, <1>3, <1>5, <1>6 DEF r

-----------------------------------------------------------------------------
(***************************************************************************)
(* Put.                                                                    *)
(***************************************************************************)
\* The list is sound and is the map m, in contents and in sizes.
IsMap(l, m) == ListInv(l) /\ HoldsMap(l, m) /\ SizesOK(l, m)

\* A node with a key not yet there makes the map with that key.
LEMMA InsertedMap ==
    ASSUME NEW l, NEW m, IsMap(l, m), NEW k \in Key, NEW v \in Value, NEW g, ListInv(g), SameNodes(l, g),
           NEW start, Linkable(g, k, start), NEW level \in 1..Top(g), NEW p,
           Inserted(g, p, k, v, start, level),
           p.size = g.size + 1, p.bytes = g.bytes + KeySize[k] + ValueSize[v]
    PROVE  IsMap(p, [m EXCEPT ![k] = v])
<1>. DEFINE r == [m EXCEPT ![k] = v]
            node == g.allocated + 1
<1>1. Shape(g) /\ HoldsMap(l, m) /\ SizesOK(l, m) /\ Shape(l)
  BY DEF IsMap, ListInv
<1>2. PICK R : Towers(g, R)
  BY DEF ListInv
<1>3. ListInv(p)
  BY <1>1, <1>2, InsertedShape, InsertedTowers DEF ListInv
<1>4. /\ Nodes(p) = Nodes(g) \cup {node} /\ p.key[node] = k /\ p.value[node] = v
      /\ \A x \in Nodes(g) \ {HeadNode} : p.key[x] = g.key[x] /\ p.value[x] = g.value[x]
  BY DEF Inserted
<1>5. Nodes(g) = Nodes(l) /\ g.key = l.key /\ g.value = l.value /\ g.size = l.size /\ g.bytes = l.bytes
  BY DEF SameNodes
<1>6. node # HeadNode
  BY <1>1, InsertedOrder
<1>7. \A x \in Nodes(l) \ {HeadNode} : l.key[x] # k /\ l.key[x] \in Key
  <2>1. \A x \in Nodes(g) : Pos(g, x) # k
    BY DEF Linkable
  <2>. QED
    BY <1>1, <1>5, <2>1, ShapeFacts
<1>8. m \in Maps /\ m[k] = NotFound
  <2>1. m \in Maps
    BY <1>1 DEF HoldsMap, Maps
  <2>2. m[k] # NotFound => \E x \in Nodes(l) \ {HeadNode} : l.key[x] = k
    BY <1>1 DEF HoldsMap
  <2>. QED
    BY <1>7, <2>1, <2>2
<1>9. r \in Maps /\ r[k] = v /\ \A i \in Key : i # k => r[i] = m[i]
  BY <1>8, ListAssumption DEF Maps
<1>10. HoldsMap(p, r)
  <2>. HIDE DEF r, node
  <2>1. ASSUME NEW x \in Nodes(p) \ {HeadNode} PROVE r[p.key[x]] = p.value[x]
    <3>1. CASE x = node
      BY <1>4, <1>9, <3>1
    <3>2. CASE x # node
      <4>1. x \in Nodes(l) \ {HeadNode} /\ p.key[x] = l.key[x] /\ p.value[x] = l.value[x]
        BY <1>4, <1>5, <3>2
      <4>2. m[l.key[x]] = l.value[x]
        BY <1>1, <4>1 DEF HoldsMap
      <4>3. r[l.key[x]] = m[l.key[x]]
        BY <1>7, <1>9, <4>1
      <4>. QED
        BY <4>1, <4>2, <4>3
    <3>. QED
      BY <3>1, <3>2
  <2>2. ASSUME NEW i \in Key, r[i] # NotFound PROVE \E x \in Nodes(p) \ {HeadNode} : p.key[x] = i
    <3>1. CASE i = k
      BY <1>4, <1>6, <3>1
    <3>2. CASE i # k
      <4>1. m[i] # NotFound
        BY <1>9, <2>2, <3>2
      <4>2. PICK x \in Nodes(l) \ {HeadNode} : l.key[x] = i
        BY <1>1, <4>1 DEF HoldsMap
      <4>3. x \in Nodes(p) \ {HeadNode} /\ p.key[x] = i
        BY <1>4, <1>5, <4>2
      <4>. QED
        BY <4>3
    <3>. QED
      BY <3>1, <3>2
  <2>. QED
    BY <1>9, <2>1, <2>2 DEF HoldsMap, Maps
<1>11. SizesOK(p, r)
  <2>1. IsFiniteSet(Present(m)) /\ l.size = Cardinality(Present(m)) /\ l.bytes = SumFunction(Weights(m))
    BY <1>1 DEF SizesOK
  <2>2. /\ IsFiniteSet(Present(r)) /\ Cardinality(Present(r)) = Cardinality(Present(m)) + 1
        /\ SumFunction(Weights(r)) = SumFunction(Weights(m)) + KeySize[k] + ValueSize[v]
    BY <1>8, <2>1, SizesAdd
  <2>. HIDE DEF r
  <2>. QED
    BY <1>5, <2>1, <2>2 DEF SizesOK
<1>. HIDE DEF r
<1>12. IsMap(p, r)
  BY <1>3, <1>10, <1>11 DEF IsMap
<1>. QED
  BY <1>12 DEF r

\* A new value in a node makes the map with that value.
LEMMA UpdatedMap ==
    ASSUME NEW l, NEW m, IsMap(l, m), NEW k \in Key, NEW v \in Value, NEW hit \in Nodes(l) \ {HeadNode},
           l.key[hit] = k, NEW p,
           p = [l EXCEPT !.value[hit] = v, !.bytes = @ + ValueSize[v] - ValueSize[l.value[hit]]]
    PROVE  IsMap(p, [m EXCEPT ![k] = v])
<1>. DEFINE r == [m EXCEPT ![k] = v]
            vs == [l.value EXCEPT ![hit] = v]
            bytes == l.bytes + ValueSize[v] - ValueSize[l.value[hit]]
<1>1. Shape(l) /\ HoldsMap(l, m) /\ SizesOK(l, m) /\ l \in ListType /\ NodesOK(l) /\ PointersOK(l)
  BY DEF IsMap, ListInv, Shape
<1>2. PICK R : Towers(l, R)
  BY DEF IsMap, ListInv
<1>3. p = [l EXCEPT !.value = vs, !.bytes = bytes]
  BY <1>1 DEF ListType
<1>4. DOMAIN l.value = Nodes(l) \ {HeadNode} /\ Nodes(l) \subseteq Nat /\ l.bytes \in Int
      /\ \A x \in Nodes(l) \ {HeadNode} : l.key[x] \in Key /\ l.value[x] \in Value
  BY <1>1, ShapeFacts DEF NodesOK
<1>5. PICK D \in SUBSET Nat : l.value \in [D -> Value]
  BY <1>1 DEF ListType, PerNode
<1>6. vs \in [D -> Value] /\ DOMAIN vs = DOMAIN l.value /\ vs[hit] = v /\ \A x \in Nodes(l) \ {HeadNode} : x # hit => vs[x] = l.value[x]
  BY <1>4, <1>5
<1>7. vs \in PerNode(Value)
  <2>. HIDE DEF vs
  <2>. QED
    BY <1>6 DEF PerNode
<1>8. ValueSize[v] \in Nat /\ ValueSize[l.value[hit]] \in Nat
  BY <1>4, ListAssumption
<1>9. bytes \in Int
  BY <1>4, <1>8
<1>. HIDE DEF vs, bytes
<1>10. /\ p \in ListType /\ p.nexts = l.nexts /\ p.key = l.key /\ p.value = vs /\ p.allocated = l.allocated
       /\ p.size = l.size /\ p.bytes = bytes
  BY <1>1, <1>3, <1>7, <1>9 DEF ListType
<1>11. Nodes(p) = Nodes(l) /\ Top(p) = Top(l) /\ \A x : Pos(p, x) = Pos(l, x)
  BY <1>10 DEF Nodes, Top, Pos
<1>12. Shape(p)
  <2>1. NodesOK(p)
    BY <1>1, <1>6, <1>10, <1>11 DEF NodesOK
  <2>2. PointersOK(p)
    BY <1>1, <1>10, <1>11 DEF PointersOK
  <2>. QED
    BY <1>10, <2>1, <2>2 DEF Shape
<1>13. Towers(p, R)
  BY <1>2, <1>10, <1>11 DEF Towers, IsNext
<1>14. m \in Maps /\ m[k] = l.value[hit] /\ k \in Present(m)
  <2>1. m \in Maps /\ m[k] = l.value[hit]
    BY <1>1 DEF HoldsMap, Maps
  <2>2. l.value[hit] # NotFound
    BY <1>4, ListAssumption DEF NotFound
  <2>. QED
    BY <2>1, <2>2 DEF Present
<1>15. r \in Maps /\ r[k] = v /\ \A i \in Key : i # k => r[i] = m[i]
  BY <1>14, ListAssumption DEF Maps
<1>16. HoldsMap(p, r)
  <2>. HIDE DEF r
  <2>1. ASSUME NEW x \in Nodes(l) \ {HeadNode} PROVE r[l.key[x]] = vs[x]
    <3>1. CASE x = hit
      BY <1>6, <1>15, <3>1
    <3>2. CASE x # hit
      <4>1. l.key[x] # k
        BY <1>1, <3>2 DEF NodesOK
      <4>. QED
        BY <1>1, <1>4, <1>6, <1>15, <3>2, <4>1 DEF HoldsMap
    <3>. QED
      BY <3>1, <3>2
  <2>2. ASSUME NEW i \in Key, r[i] # NotFound PROVE \E x \in Nodes(l) \ {HeadNode} : l.key[x] = i
    <3>1. CASE i = k
      BY <3>1
    <3>2. CASE i # k
      BY <1>1, <1>15, <2>2, <3>2 DEF HoldsMap
    <3>. QED
      BY <3>1, <3>2
  <2>3. \A x \in Nodes(p) \ {HeadNode} : r[p.key[x]] = p.value[x]
    BY <1>10, <1>11, <2>1
  <2>4. \A i \in Key : r[i] # NotFound => \E x \in Nodes(p) \ {HeadNode} : p.key[x] = i
    BY <1>10, <1>11, <2>2
  <2>. QED
    BY <1>15, <2>3, <2>4 DEF HoldsMap, Maps
<1>17. SizesOK(p, r)
  <2>1. IsFiniteSet(Present(m)) /\ l.size = Cardinality(Present(m)) /\ l.bytes = SumFunction(Weights(m))
    BY <1>1 DEF SizesOK
  <2>2. /\ Present(r) = Present(m)
        /\ SumFunction(Weights(r)) = SumFunction(Weights(m)) + ValueSize[v] - ValueSize[m[k]]
    BY <1>14, <2>1, SizesChange
  <2>3. bytes = SumFunction(Weights(r))
    <3>1. bytes = l.bytes + ValueSize[v] - ValueSize[m[k]]
      BY <1>14 DEF bytes
    <3>. HIDE DEF r
    <3>. QED
      BY <2>1, <2>2, <3>1
  <2>. HIDE DEF r
  <2>. QED
    BY <1>10, <2>1, <2>2, <2>3 DEF SizesOK
<1>. HIDE DEF r
<1>18. IsMap(p, r)
  BY <1>12, <1>13, <1>16, <1>17 DEF IsMap, ListInv
<1>. QED
  BY <1>18 DEF r

\* Put makes the map with the new entry, or reads outside a node.
LEMMA PutKeeps ==
    ASSUME NEW l, NEW m, IsMap(l, m), NEW k \in Key, NEW v \in Value, NEW level \in Nat \ {0}
    PROVE  Put(l, k, v, level).broken \/ IsMap(Put(l, k, v, level), [m EXCEPT ![k] = v])
<1>. DEFINE at == Descend(l, HeadNode, k)
            hit == Hit(l, at[1], k)
            grown == Grown(l, at, level)
            start == IF level > Top(l) THEN Descend(grown, HeadNode, k)[1] ELSE at[1]
            places == Descend(grown, start, k)
            fail == [l EXCEPT !.broken = TRUE]
            set == [l EXCEPT !.value[hit] = v, !.bytes = @ + ValueSize[v] - ValueSize[l.value[hit]]]
            new == Linked(With(grown, k, v), places, l.allocated + 1, level)
<1>1. ListInv(l) /\ Shape(l) /\ k \in Nat
  BY ListAssumption DEF IsMap, ListInv
<1>2. PICK R : Towers(l, R)
  BY <1>1 DEF ListInv
<1>3. /\ ListInv(grown) /\ SameNodes(l, grown) /\ level <= Top(grown)
      /\ level <= Top(l) => grown = l
  BY <1>1, GrownKeeps
<1>4. PICK Q : Towers(grown, Q)
  BY <1>3 DEF ListInv
<1>5. Shape(grown) /\ grown.allocated = l.allocated /\ Nodes(grown) = Nodes(l) /\ grown.key = l.key
  BY <1>3 DEF ListInv, SameNodes
<1>6. Put(l, k, v, level) = IF Wild \in Range(at) THEN fail
                            ELSE IF hit # Nil THEN set
                            ELSE IF start = Wild \/ Wild \in Range(places) THEN fail
                            ELSE new
  BY <1>5 DEF Put, With
<1>7. Wild \notin Range(at) /\ IsPred(l, Nodes(l), k, at[1]) /\ Top(l) \in Nat \ {0}
  <2>1. 1 \in 1..Top(l) /\ R[1] = Nodes(l) /\ Top(l) \in Nat \ {0}
    BY <1>2 DEF Towers
  <2>. QED
    BY <1>1, <1>2, <2>1, HeadDescent
<1>8. IsPred(grown, Nodes(grown), k, start)
  <2>1. CASE level > Top(l)
    <3>1. 1 \in 1..Top(grown) /\ Q[1] = Nodes(grown)
      BY <1>4 DEF Towers
    <3>2. start = Descend(grown, HeadNode, k)[1]
      BY <2>1
    <3>. HIDE DEF grown
    <3>. QED
      BY <1>1, <1>4, <1>5, <3>1, <3>2, HeadDescent
  <2>2. CASE ~ (level > Top(l))
    <3>1. grown = l /\ start = at[1]
      BY <1>3, <1>7, <2>2
    <3>. HIDE DEF grown, start, at
    <3>. QED
      BY <1>7, <3>1
  <2>. QED
    BY <2>1, <2>2
<1>9. /\ hit # Nil => hit \in Nodes(l) \ {HeadNode} /\ l.key[hit] = k
      /\ hit = Nil => \A x \in Nodes(l) : Pos(l, x) # k
  BY <1>1, <1>2, <1>7, HeadHit
<1>10. l \in ListType
  BY <1>1 DEF Shape
<1>11. fail.broken
  <2>. QED
    BY <1>10 DEF ListType
<1>. HIDE DEF at, hit, grown, start, fail
<1>12. CASE hit # Nil
  <2>1. hit \in Nodes(l) \ {HeadNode} /\ l.key[hit] = k
    BY <1>9, <1>12
  <2>2. IsMap(set, [m EXCEPT ![k] = v])
    BY <2>1, UpdatedMap
  <2>. HIDE DEF set
  <2>. QED
    BY <1>6, <1>7, <1>12, <2>2
<1>13. CASE hit = Nil /\ (start = Wild \/ Wild \in Range(places))
  <2>. HIDE DEF set, new, places
  <2>. QED
    BY <1>6, <1>7, <1>11, <1>13
<1>14. CASE hit = Nil /\ ~ (start = Wild \/ Wild \in Range(places))
  <2>1. Put(l, k, v, level) = new
    <3>. HIDE DEF set, new, places
    <3>. QED
      BY <1>6, <1>7, <1>14
  <2>2. Top(grown) \in Nat \ {0} /\ level \in 1..Top(grown)
    <3>1. Top(grown) \in Nat \ {0}
      BY <1>4 DEF Towers
    <3>. QED
      BY <1>3, <3>1
  <2>3. \A n \in 1..Top(grown) : places[n] = start
           /\ n <= Len(grown.nexts[start]) /\ grown.nexts[start][n] \in Nodes(grown) \cup {Nil}
    BY <1>1, <1>5, <1>8, <1>14, <2>2, StartDescent
  <2>4. \A x \in Nodes(grown) : Pos(grown, x) # k
    BY <1>5, <1>9, <1>14 DEF Pos
  <2>5. Linkable(grown, k, start)
    BY <1>8, <2>3, <2>4 DEF Linkable
  <2>6. start \in Nodes(grown)
    BY <1>8 DEF IsPred
  <2>. HIDE DEF places
  <2>7. /\ Inserted(grown, new, k, v, start, level)
        /\ new.size = grown.size + 1 /\ new.bytes = grown.bytes + KeySize[k] + ValueSize[v]
    BY <1>5, <2>2, <2>3, <2>6, LinkedIs
  <2>. HIDE DEF new
  <2>8. IsMap(new, [m EXCEPT ![k] = v])
    BY <1>3, <2>2, <2>5, <2>7, InsertedMap
  <2>. QED
    BY <2>1, <2>8
<1>. QED
  BY <1>12, <1>13, <1>14

-----------------------------------------------------------------------------
(***************************************************************************)
(* Delete.                                                                 *)
(***************************************************************************)
\* m is l without node x, taken out behind at[n] on each level n of head_ where it was next;
\* head_ keeps h levels.
Removed(l, m, x, at, h) ==
    /\ m \in ListType /\ m.allocated = l.allocated /\ Nodes(m) = Nodes(l) \ {x}
    /\ DOMAIN m.key = Nodes(m) \ {HeadNode} /\ DOMAIN m.value = Nodes(m) \ {HeadNode}
    /\ \A p \in Nodes(m) \ {HeadNode} : m.key[p] = l.key[p] /\ m.value[p] = l.value[p]
    /\ Top(m) = h
    /\ \A p \in Nodes(m) :
          /\ Len(m.nexts[p]) <= Len(l.nexts[p]) /\ (p # HeadNode => Len(m.nexts[p]) = Len(l.nexts[p]))
          /\ \A n \in 1..Len(m.nexts[p]) :
                m.nexts[p][n] = IF n <= Top(l) /\ at[n] = p /\ l.nexts[p][n] = x
                                THEN NextOf(l, x, n) ELSE l.nexts[p][n]

\* The node taken out, and where the search for its key stopped.
Found(l, R, k, x, at) ==
    /\ x \in Nodes(l) \ {HeadNode} /\ l.key[x] = k
    /\ \A n \in 1..Top(l) : IsPred(l, R[n], k, at[n])

\* Where the search met the node it is in the tower, and its next node is there too.
LEMMA FoundNext ==
    ASSUME NEW l, Shape(l), NEW R, Towers(l, R), NEW k \in Nat, NEW x, NEW at, Found(l, R, k, x, at),
           NEW n \in 1..Top(l), NEW p \in R[n], l.nexts[p][n] = x
    PROVE  /\ at[n] = p /\ x \in R[n] /\ Pos(l, p) < Pos(l, x)
           /\ IsNext(l, R[n], x, NextOf(l, x, n)) /\ IsNext(l, R[n], p, x)
           /\ NextOf(l, x, n) # Nil => NextOf(l, x, n) \in R[n]
<1>1. x \in Nodes(l) \ {HeadNode} /\ l.key[x] = k /\ IsPred(l, R[n], k, at[n])
  BY DEF Found
<1>2. x # Nil /\ Pos(l, x) = k
  BY <1>1, ShapeFacts
<1>3. IsNext(l, R[n], p, x) /\ R[n] \subseteq Nodes(l)
  BY DEF Towers
<1>4. x \in R[n] /\ Pos(l, p) < Pos(l, x) /\ \A s \in R[n] : Pos(l, p) < Pos(l, s) => Pos(l, x) <= Pos(l, s)
  BY <1>2, <1>3 DEF IsNext
<1>5. IsPred(l, R[n], k, p)
  <2>1. \A s \in R[n] : Pos(l, s) \in Int
    BY <1>3, ShapeFacts
  <2>2. \A s \in R[n] : Pos(l, s) < k => Pos(l, s) <= Pos(l, p)
    BY <1>2, <1>4, <2>1
  <2>. QED
    BY <1>2, <1>4, <2>2 DEF IsPred
<1>6. at[n] = p
  BY <1>1, <1>3, <1>5, PredUnique
<1>. QED
  BY <1>3, <1>4, <1>6, TowerNext

\* Deletion keeps what is said of all pointers: those that are not repaired lead to
\* a node that is not there any more.
LEMMA RemovedShape ==
    ASSUME NEW l, Shape(l), NEW R, Towers(l, R), NEW k \in Nat, NEW x, NEW at, Found(l, R, k, x, at),
           NEW h, NEW m, Removed(l, m, x, at, h)
    PROVE  Shape(m) /\ \A p \in Nodes(m) : Pos(m, p) = Pos(l, p) /\ Pos(l, p) \in Int
<1>1. /\ m \in ListType /\ m.allocated = l.allocated /\ Nodes(m) = Nodes(l) \ {x}
      /\ DOMAIN m.key = Nodes(m) \ {HeadNode} /\ DOMAIN m.value = Nodes(m) \ {HeadNode}
      /\ \A p \in Nodes(m) \ {HeadNode} : m.key[p] = l.key[p] /\ m.value[p] = l.value[p]
  BY DEF Removed
<1>2. NodesOK(l) /\ PointersOK(l) /\ x # HeadNode /\ x \in Nodes(l)
  BY DEF Shape, Found
<1>3. \A p \in Nodes(m) : Pos(m, p) = Pos(l, p) /\ Pos(l, p) \in Int
  <2>1. \A p \in Nodes(l) : Pos(l, p) \in Int
    BY ShapeFacts
  <2>. QED
    BY <1>1, <2>1 DEF Pos
<1>4. NodesOK(m)
  BY <1>1, <1>2 DEF NodesOK
<1>5. ASSUME NEW p \in Nodes(m), NEW n \in 1..Len(m.nexts[p])
      PROVE  /\ m.nexts[p][n] \in 0..m.allocated
             /\ m.nexts[p][n] \in Nodes(m) => Pos(m, p) < Pos(m, m.nexts[p][n])
  <2>1. p \in Nodes(l) /\ l.nexts[p] \in Seq(Int) /\ Len(m.nexts[p]) <= Len(l.nexts[p]) /\ m.nexts[p] \in Seq(Int)
    <3>1. p \in Nodes(l)
      BY <1>1
    <3>2. PICK D \in SUBSET Nat : m.nexts \in [D -> Seq(Int)]
      BY <1>1 DEF ListType, PerNode
    <3>3. m.nexts[p] \in Seq(Int)
      BY <3>2 DEF Nodes
    <3>. QED
      BY <3>1, <3>3, ShapeFacts DEF Removed
  <2>2. n \in 1..Len(l.nexts[p])
    BY <2>1
  <2>3. m.nexts[p][n] = IF n <= Top(l) /\ at[n] = p /\ l.nexts[p][n] = x THEN NextOf(l, x, n) ELSE l.nexts[p][n]
    BY DEF Removed
  <2>4. CASE n <= Top(l) /\ at[n] = p /\ l.nexts[p][n] = x
    <3>. DEFINE q == NextOf(l, x, n)
    <3>1. n \in 1..Top(l)
      <4>1. Top(l) \in Nat
        BY DEF Towers
      <4>. QED
        BY <2>2, <2>4, <4>1
    <3>2. p \in R[n]
      BY <2>4, <3>1 DEF Found, IsPred
    <3>3. /\ x \in R[n] /\ Pos(l, p) < Pos(l, x) /\ IsNext(l, R[n], x, q) /\ (q # Nil => q \in R[n])
      BY <2>4, <3>1, <3>2, FoundNext
    <3>4. R[n] \subseteq Nodes(l) /\ Nodes(l) \subseteq 1..l.allocated /\ l.allocated \in Nat
      BY <1>2, <3>1, ShapeFacts DEF Towers, NodesOK
    <3>5. m.nexts[p][n] = q
      BY <2>3, <2>4
    <3>. HIDE DEF q
    <3>6. CASE q = Nil
      BY <1>1, <3>4, <3>5, <3>6 DEF Nil
    <3>7. CASE q # Nil
      <4>1. q \in R[n] /\ Pos(l, x) < Pos(l, q)
        BY <3>3, <3>7 DEF IsNext
      <4>2. q \in 0..m.allocated
        BY <1>1, <3>4, <4>1
      <4>3. Pos(l, p) \in Int /\ Pos(l, x) \in Int /\ Pos(l, q) \in Int
        BY <1>2, <2>1, <3>4, <4>1, ShapeFacts
      <4>4. Pos(l, p) < Pos(l, q)
        BY <3>3, <4>1, <4>3
      <4>. QED
        BY <1>3, <3>5, <4>2, <4>4
    <3>. QED
      BY <3>6, <3>7
  <2>5. CASE ~ (n <= Top(l) /\ at[n] = p /\ l.nexts[p][n] = x)
    <3>. DEFINE q == l.nexts[p][n]
    <3>1. m.nexts[p][n] = q
      BY <2>3, <2>5
    <3>2. q \in 0..l.allocated /\ (q \in Nodes(l) => Pos(l, p) < Pos(l, q))
      BY <1>2, <2>1, <2>2 DEF PointersOK
    <3>. HIDE DEF q
    <3>. QED
      BY <1>1, <1>3, <3>1, <3>2
  <2>. QED
    BY <2>4, <2>5
<1>6. PointersOK(m)
  BY <1>5 DEF PointersOK
<1>. QED
  BY <1>1, <1>3, <1>4, <1>6 DEF Shape

\* Deletion keeps the towers: the node leaves all of them.
LEMMA RemovedTowers ==
    ASSUME NEW l, Shape(l), NEW R, Towers(l, R), NEW k \in Nat, NEW x, NEW at, Found(l, R, k, x, at),
           NEW h \in 1..Top(l), NEW m, Removed(l, m, x, at, h)
    PROVE  \E Q : Towers(m, Q)
<1>. DEFINE Q == [n \in 1..h |-> R[n] \ {x}]
<1>1. /\ Nodes(m) = Nodes(l) \ {x} /\ Top(m) = h
      /\ \A p \in Nodes(m) : Len(m.nexts[p]) <= Len(l.nexts[p]) /\ (p # HeadNode => Len(m.nexts[p]) = Len(l.nexts[p]))
      /\ \A p \in Nodes(m) : \A n \in 1..Len(m.nexts[p]) :
            m.nexts[p][n] = IF n <= Top(l) /\ at[n] = p /\ l.nexts[p][n] = x
                            THEN NextOf(l, x, n) ELSE l.nexts[p][n]
  BY DEF Removed
<1>2. x # HeadNode /\ x \in Nodes(l)
  BY DEF Found
<1>3. /\ Top(l) \in Nat \ {0} /\ R[1] = Nodes(l)
      /\ \A n \in 1..Top(l) : HeadNode \in R[n] /\ R[n] \subseteq Nodes(l)
      /\ \A n \in 1..Top(l) - 1 : R[n + 1] \subseteq R[n]
      /\ \A n \in 1..Top(l) : \A p \in R[n] : n <= Len(l.nexts[p]) /\ IsNext(l, R[n], p, l.nexts[p][n])
  BY DEF Towers
<1>4. h \in Nat \ {0} /\ \A n \in 1..h : n \in 1..Top(l)
  BY <1>3
<1>5. \A n \in 1..h : Q[n] = R[n] \ {x}
  OBVIOUS
<1>6. DOMAIN Q = 1..h
  OBVIOUS
<1>. HIDE DEF Q
<1>7. \A p \in Nodes(m) : Pos(m, p) = Pos(l, p) /\ Pos(l, p) \in Int
  BY RemovedShape
<1>8. ASSUME NEW n \in 1..h, NEW p \in Q[n]
      PROVE  n <= Len(m.nexts[p]) /\ IsNext(m, Q[n], p, m.nexts[p][n])
  <2>. DEFINE S == R[n]
              q == l.nexts[p][n]
  <2>1. n \in 1..Top(l) /\ p \in S /\ p # x /\ S \subseteq Nodes(l) /\ p \in Nodes(m) /\ Q[n] = S \ {x}
    BY <1>1, <1>3, <1>4, <1>5
  <2>2. n <= Len(l.nexts[p]) /\ IsNext(l, S, p, q)
    BY <1>3, <2>1
  <2>3. n <= Len(m.nexts[p])
    <3>1. CASE p = HeadNode
      BY <1>1, <3>1 DEF Top
    <3>2. CASE p # HeadNode
      BY <1>1, <2>1, <2>2, <3>2
    <3>. QED
      BY <3>1, <3>2
  <2>4. n \in 1..Len(m.nexts[p])
    <3>1. Shape(m)
      BY RemovedShape
    <3>2. m.nexts[p] \in Seq(Int)
      BY <2>1, <3>1, ShapeFacts
    <3>. QED
      BY <2>1, <2>3, <3>2
  <2>5. m.nexts[p][n] = IF n <= Top(l) /\ at[n] = p /\ q = x THEN NextOf(l, x, n) ELSE q
    BY <1>1, <2>1, <2>4
  <2>6. \A s \in S \ {x} : Pos(m, s) = Pos(l, s) /\ Pos(l, s) \in Int
    BY <1>1, <1>7, <2>1
  <2>7. Nil \notin Nodes(l) /\ Pos(l, x) \in Int
    BY <1>2, ShapeFacts
  <2>8. CASE q = x
    <3>. DEFINE y == NextOf(l, x, n)
    <3>1. /\ at[n] = p /\ x \in S /\ Pos(l, p) < Pos(l, x) /\ IsNext(l, S, x, y) /\ IsNext(l, S, p, x)
      BY <2>1, <2>8, FoundNext
    <3>2. m.nexts[p][n] = y
      BY <2>1, <2>5, <2>8, <3>1
    <3>3. \A s \in S : Pos(l, p) < Pos(l, s) => Pos(l, x) <= Pos(l, s)
      BY <1>2, <2>7, <3>1 DEF IsNext
    <3>4. \A s \in S \ {x} : Pos(l, s) # Pos(l, x)
      BY <1>2, <2>1, ShapeFacts
    <3>. HIDE DEF y, S
    <3>5. CASE y = Nil
      <4>1. \A s \in S : Pos(l, s) <= Pos(l, x)
        BY <3>1, <3>5 DEF IsNext
      <4>2. \A s \in S \ {x} : Pos(m, s) <= Pos(m, p)
        BY <2>1, <2>6, <2>7, <3>3, <3>4, <4>1
      <4>. QED
        BY <2>1, <2>3, <3>2, <3>5, <4>2 DEF IsNext
    <3>6. CASE y # Nil
      <4>1. y \in S /\ Pos(l, x) < Pos(l, y) /\ \A s \in S : Pos(l, x) < Pos(l, s) => Pos(l, y) <= Pos(l, s)
        BY <3>1, <3>6 DEF IsNext
      <4>2. y \in S \ {x}
        BY <2>7, <4>1
      <4>3. Pos(m, p) < Pos(m, y)
        BY <2>1, <2>6, <2>7, <3>1, <4>1, <4>2
      <4>4. \A s \in S \ {x} : Pos(m, p) < Pos(m, s) => Pos(m, y) <= Pos(m, s)
        BY <2>1, <2>6, <2>7, <3>3, <3>4, <4>1, <4>2
      <4>. QED
        BY <2>1, <2>3, <3>2, <3>6, <4>2, <4>3, <4>4 DEF IsNext
    <3>. QED
      BY <3>5, <3>6
  <2>9. CASE q # x
    <3>1. m.nexts[p][n] = q
      BY <2>5, <2>9
    <3>. HIDE DEF S, q
    <3>2. CASE q = Nil
      BY <2>1, <2>2, <2>3, <2>6, <3>1, <3>2 DEF IsNext
    <3>3. CASE q # Nil
      <4>1. q \in S /\ Pos(l, p) < Pos(l, q) /\ \A s \in S : Pos(l, p) < Pos(l, s) => Pos(l, q) <= Pos(l, s)
        BY <2>2, <3>3 DEF IsNext
      <4>. QED
        BY <2>1, <2>3, <2>6, <2>9, <3>1, <3>3, <4>1 DEF IsNext
    <3>. QED
      BY <3>2, <3>3
  <2>. QED
    BY <2>8, <2>9
<1>9. Q[1] = Nodes(m)
  BY <1>1, <1>3, <1>4, <1>5
<1>10. \A n \in 1..h : HeadNode \in Q[n] /\ Q[n] \subseteq Nodes(m)
  BY <1>1, <1>2, <1>3, <1>4, <1>5
<1>11. \A n \in 1..h - 1 : Q[n + 1] \subseteq Q[n]
  <2>. SUFFICES ASSUME NEW n \in 1..h - 1 PROVE Q[n + 1] \subseteq Q[n]
    OBVIOUS
  <2>1. n \in 1..h /\ n + 1 \in 1..h /\ n \in 1..Top(l) - 1
    BY <1>3
  <2>. QED
    BY <1>3, <1>5, <2>1
<1>12. Towers(m, Q)
  BY <1>1, <1>4, <1>6, <1>8, <1>9, <1>10, <1>11 DEF Towers
<1>. QED
  BY <1>12

\* Unlinked takes the node out.
LEMMA UnlinkedIs ==
    ASSUME NEW l, Shape(l), NEW R, Towers(l, R), NEW k \in Nat, NEW x, NEW at, Found(l, R, k, x, at)
    PROVE  /\ \E h \in 1..Top(l) : Removed(l, Unlinked(l, at, x), x, at, h)
           /\ Unlinked(l, at, x).size = l.size - 1
           /\ Unlinked(l, at, x).bytes = l.bytes - KeySize[l.key[x]] - ValueSize[l.value[x]]
<1>. DEFINE rest == Nodes(l) \ {x}
            Ptr(p, n) == IF n <= Top(l) /\ at[n] = p /\ l.nexts[p][n] = x THEN NextOf(l, x, n) ELSE l.nexts[p][n]
            shorter == [p \in rest |-> [n \in DOMAIN l.nexts[p] |-> Ptr(p, n)]]
            used == {1} \cup {n \in 1..Top(l) : shorter[HeadNode][n] # Nil}
            h == Max(used)
            X == [shorter EXCEPT ![HeadNode] = Resize(@, h)]
            C == Nodes(l) \ {HeadNode}
            K == [p \in C \ {x} |-> l.key[p]]
            V == [p \in C \ {x} |-> l.value[p]]
            size == l.size - 1
            bytes == l.bytes - KeySize[l.key[x]] - ValueSize[l.value[x]]
            m == Unlinked(l, at, x)
<1>1. l \in ListType /\ DOMAIN l.key = C /\ DOMAIN l.value = C
  BY DEF Shape, NodesOK
<1>2. /\ x \in Nodes(l) /\ x # HeadNode /\ HeadNode \in Nodes(l) /\ Nodes(l) \subseteq Nat
      /\ l.size \in Int /\ l.bytes \in Int
      /\ \A p \in Nodes(l) : l.nexts[p] \in Seq(Int)
      /\ \A p \in C : l.key[p] \in Key /\ l.value[p] \in Value
  BY ShapeFacts DEF Found
<1>3. m = [l EXCEPT !.nexts = X, !.key = K, !.value = V, !.size = size, !.bytes = bytes]
  BY <1>1 DEF Unlinked, Nodes, Restrict, ListType
<1>4. Top(l) \in Nat \ {0} /\ Len(l.nexts[HeadNode]) = Top(l)
  BY DEF Towers, Top
<1>5. size \in Int /\ bytes \in Int
  <2>1. KeySize[l.key[x]] \in Nat /\ ValueSize[l.value[x]] \in Nat
    BY <1>2, ListAssumption
  <2>. QED
    BY SMTT(30), <1>2, <2>1
<1>. HIDE DEF size, bytes, m
<1>6. ASSUME NEW p \in rest, NEW n \in 1..Len(l.nexts[p]) PROVE Ptr(p, n) \in Int
  <2>1. l.nexts[p][n] \in Int
    BY <1>2
  <2>2. NextOf(l, x, n) \in Int
    <3>1. l.nexts[x] \in Seq(Int) /\ n \in Nat \ {0}
      BY <1>2
    <3>. QED
      BY <3>1 DEF NextOf, Wild
  <2>. QED
    BY <2>1, <2>2
<1>7. ASSUME NEW p \in rest
      PROVE  /\ shorter[p] \in Seq(Int) /\ Len(shorter[p]) = Len(l.nexts[p])
             /\ \A n \in 1..Len(l.nexts[p]) : shorter[p][n] = Ptr(p, n)
  <2>1. DOMAIN l.nexts[p] = 1..Len(l.nexts[p]) /\ Len(l.nexts[p]) \in Nat
    BY <1>2
  <2>2. shorter[p] = [n \in 1..Len(l.nexts[p]) |-> Ptr(p, n)]
    <3>. HIDE DEF Ptr
    <3>. QED
      BY <2>1
  <2>. HIDE DEF shorter, Ptr
  <2>. QED
    BY <1>6, <2>1, <2>2
<1>8. shorter = [p \in rest |-> shorter[p]] /\ HeadNode \in rest
  <2>. HIDE DEF Ptr
  <2>. QED
    BY <1>2
<1>. HIDE DEF shorter
<1>9. h \in 1..Top(l)
  <2>1. used \subseteq Nat /\ used # {} /\ (\A n \in used : n <= Top(l)) /\ \A n \in used : n \in 1..Top(l)
    BY <1>4
  <2>. HIDE DEF used
  <2>. QED
    BY <1>4, <2>1, MaxOfBounded
<1>. HIDE DEF h
<1>10. /\ DOMAIN X = rest /\ X[HeadNode] = Resize(shorter[HeadNode], h)
       /\ \A p \in rest : p # HeadNode => X[p] = shorter[p]
  BY <1>8
<1>11. /\ X[HeadNode] \in Seq(Int) /\ Len(X[HeadNode]) = h
       /\ \A n \in 1..h : X[HeadNode][n] = Ptr(HeadNode, n)
  <2>. DEFINE s == shorter[HeadNode]
  <2>1. s \in Seq(Int) /\ Len(s) = Top(l) /\ \A n \in 1..Top(l) : s[n] = Ptr(HeadNode, n)
    BY <1>4, <1>7, <1>8
  <2>2. /\ Resize(s, h) \in Seq(Int) /\ Len(Resize(s, h)) = h
        /\ \A n \in 1..h : Resize(s, h)[n] = IF n <= Len(s) THEN s[n] ELSE Nil
    <3>1. h \in Nat
      BY <1>4, <1>9
    <3>2. s \in Seq(Int)
      BY <2>1
    <3>. HIDE DEF s
    <3>. QED
      BY <3>1, <3>2, ResizeFacts
  <2>3. \A n \in 1..h : n <= Len(s) /\ n \in 1..Top(l)
    BY <1>4, <1>9, <2>1
  <2>. HIDE DEF s, Ptr, X
  <2>. QED
    BY <1>10, <2>1, <2>2, <2>3 DEF s
<1>12. X \in [rest -> Seq(Int)]
  <2>1. \A p \in rest : X[p] \in Seq(Int)
    <3>. HIDE DEF X, Ptr
    <3>. QED
      BY <1>7, <1>10, <1>11
  <2>2. X = [p \in rest |-> X[p]]
    BY <1>8
  <2>. HIDE DEF X
  <2>. QED
    BY <2>1, <2>2
<1>13. K \in [C \ {x} -> Key] /\ V \in [C \ {x} -> Value] /\ \A p \in C \ {x} : K[p] = l.key[p] /\ V[p] = l.value[p]
  BY <1>2
<1>. HIDE DEF X, K, V
<1>14. X \in PerNode(Seq(Int)) /\ K \in PerNode(Key) /\ V \in PerNode(Value)
  <2>1. rest \in SUBSET Nat /\ C \ {x} \in SUBSET Nat
    BY <1>2
  <2>. HIDE DEF rest, C
  <2>. QED
    BY <1>12, <1>13, <2>1 DEF PerNode
<1>15. /\ m \in ListType /\ m.nexts = X /\ m.key = K /\ m.value = V /\ m.allocated = l.allocated /\ m.size = size
       /\ m.bytes = bytes
  BY <1>1, <1>3, <1>5, <1>14 DEF ListType
<1>16. Nodes(m) = rest /\ Top(m) = h /\ C \ {x} = rest \ {HeadNode}
  BY <1>10, <1>11, <1>15 DEF Nodes, Top
<1>17. ASSUME NEW p \in rest
       PROVE  /\ Len(X[p]) <= Len(l.nexts[p]) /\ (p # HeadNode => Len(X[p]) = Len(l.nexts[p]))
              /\ \A n \in 1..Len(X[p]) : X[p][n] = Ptr(p, n)
  <2>1. CASE p = HeadNode
    <3>. HIDE DEF Ptr
    <3>. QED
      BY <1>4, <1>9, <1>11, <2>1
  <2>2. CASE p # HeadNode
    <3>1. Len(l.nexts[p]) \in Nat
      BY <1>2
    <3>. HIDE DEF Ptr
    <3>. QED
      BY <1>7, <1>10, <2>2, <3>1
  <2>. QED
    BY <2>1, <2>2
<1>18. Removed(l, m, x, at, h)
  <2>1. DOMAIN K = C \ {x} /\ DOMAIN V = C \ {x}
    BY <1>13
  <2>. QED
    BY <1>13, <1>15, <1>16, <1>17, <2>1 DEF Removed
<1>. QED
  BY <1>9, <1>15, <1>18 DEF m, size, bytes

\* Without the node the list is the map without the key.
LEMMA RemovedMap ==
    ASSUME NEW l, NEW m, IsMap(l, m), NEW R, Towers(l, R), NEW k \in Key, NEW x, NEW at,
           Found(l, R, k, x, at), NEW h \in 1..Top(l), NEW p, Removed(l, p, x, at, h),
           p.size = l.size - 1, p.bytes = l.bytes - KeySize[l.key[x]] - ValueSize[l.value[x]]
    PROVE  IsMap(p, [m EXCEPT ![k] = NotFound])
<1>. DEFINE r == [m EXCEPT ![k] = NotFound]
<1>1. Shape(l) /\ HoldsMap(l, m) /\ SizesOK(l, m) /\ k \in Nat
  BY ListAssumption DEF IsMap, ListInv
<1>2. ListInv(p)
  BY <1>1, RemovedShape, RemovedTowers DEF ListInv
<1>3. x \in Nodes(l) \ {HeadNode} /\ l.key[x] = k
  BY DEF Found
<1>4. /\ Nodes(p) = Nodes(l) \ {x}
      /\ \A y \in Nodes(p) \ {HeadNode} : p.key[y] = l.key[y] /\ p.value[y] = l.value[y]
  BY DEF Removed
<1>5. \A y \in Nodes(l) \ {HeadNode} : l.key[y] \in Key /\ l.value[y] \in Value /\ (l.key[y] = k => y = x)
  BY <1>1, <1>3, ShapeFacts DEF Shape, NodesOK
<1>6. m \in Maps /\ m[k] = l.value[x] /\ k \in Present(m)
  <2>1. m \in Maps /\ m[k] = l.value[x]
    BY <1>1, <1>3 DEF HoldsMap, Maps
  <2>2. l.value[x] # NotFound
    BY <1>3, <1>5, ListAssumption DEF NotFound
  <2>. QED
    BY <2>1, <2>2 DEF Present
<1>7. r \in Maps /\ r[k] = NotFound /\ \A i \in Key : i # k => r[i] = m[i]
  BY <1>6 DEF Maps
<1>8. HoldsMap(p, r)
  <2>. HIDE DEF r
  <2>1. ASSUME NEW y \in Nodes(p) \ {HeadNode} PROVE r[p.key[y]] = p.value[y]
    <3>1. y \in Nodes(l) \ {HeadNode} /\ y # x /\ p.key[y] = l.key[y] /\ p.value[y] = l.value[y]
      BY <1>4
    <3>2. l.key[y] # k /\ l.key[y] \in Key /\ m[l.key[y]] = l.value[y]
      BY <1>1, <1>5, <3>1 DEF HoldsMap
    <3>. QED
      BY <1>7, <3>1, <3>2
  <2>2. ASSUME NEW i \in Key, r[i] # NotFound PROVE \E y \in Nodes(p) \ {HeadNode} : p.key[y] = i
    <3>1. i # k /\ m[i] # NotFound
      BY <1>7, <2>2
    <3>2. PICK y \in Nodes(l) \ {HeadNode} : l.key[y] = i
      BY <1>1, <3>1 DEF HoldsMap
    <3>3. y \in Nodes(p) \ {HeadNode} /\ p.key[y] = i
      BY <1>3, <1>4, <3>1, <3>2
    <3>. QED
      BY <3>3
  <2>. QED
    BY <1>7, <2>1, <2>2 DEF HoldsMap, Maps
<1>9. SizesOK(p, r)
  <2>1. IsFiniteSet(Present(m)) /\ l.size = Cardinality(Present(m)) /\ l.bytes = SumFunction(Weights(m))
    BY <1>1 DEF SizesOK
  <2>2. /\ IsFiniteSet(Present(r)) /\ Cardinality(Present(r)) = Cardinality(Present(m)) - 1
        /\ SumFunction(Weights(r)) = SumFunction(Weights(m)) - KeySize[k] - ValueSize[m[k]]
    BY <1>6, <2>1, SizesRemove
  <2>. HIDE DEF r
  <2>. QED
    BY <1>3, <1>6, <2>1, <2>2 DEF SizesOK
<1>. HIDE DEF r
<1>10. IsMap(p, r)
  BY <1>2, <1>8, <1>9 DEF IsMap
<1>. QED
  BY <1>10 DEF r

\* Delete makes the map without the key, or reads outside a node.
LEMMA DeleteKeeps ==
    ASSUME NEW l, NEW m, IsMap(l, m), NEW k \in Key
    PROVE  Delete(l, k).broken \/ IsMap(Delete(l, k), [m EXCEPT ![k] = NotFound])
<1>. DEFINE at == Descend(l, HeadNode, k)
            node == Hit(l, at[1], k)
            wild == \E n \in DOMAIN at : NextOf(l, at[n], n) = node /\ NextOf(l, node, n) = Wild
            fail == [l EXCEPT !.broken = TRUE]
<1>1. ListInv(l) /\ Shape(l) /\ k \in Nat /\ HoldsMap(l, m) /\ l \in ListType
  BY ListAssumption DEF IsMap, ListInv, Shape
<1>2. PICK R : Towers(l, R)
  BY <1>1 DEF ListInv
<1>3. Delete(l, k) = IF Wild \in Range(at) THEN fail ELSE IF node = Nil THEN l
                     ELSE IF wild THEN fail ELSE Unlinked(l, at, node)
  BY DEF Delete
<1>4. fail.broken
  BY <1>1 DEF ListType
<1>5. /\ Wild \notin Range(at) /\ IsPred(l, Nodes(l), k, at[1])
      /\ \A n \in 1..Top(l) : IsPred(l, R[n], k, at[n])
  <2>1. 1 \in 1..Top(l) /\ R[1] = Nodes(l)
    BY <1>2 DEF Towers
  <2>. QED
    BY <1>1, <1>2, <2>1, HeadDescent
<1>6. /\ node # Nil => node \in Nodes(l) \ {HeadNode} /\ l.key[node] = k
      /\ node = Nil => \A x \in Nodes(l) : Pos(l, x) # k
  BY <1>1, <1>2, <1>5, HeadHit
<1>. HIDE DEF at, node, wild, fail
<1>7. CASE node = Nil
  <2>1. m[k] = NotFound
    <3>1. \A x \in Nodes(l) \ {HeadNode} : l.key[x] # k
      BY <1>6, <1>7 DEF Pos
    <3>. QED
      BY <1>1, <3>1 DEF HoldsMap
  <2>2. [m EXCEPT ![k] = NotFound] = m
    <3>1. m \in Maps
      BY <1>1 DEF HoldsMap, Maps
    <3>. QED
      BY <2>1, <3>1 DEF Maps
  <2>. QED
    BY <1>3, <1>5, <1>7, <2>2
<1>8. CASE node # Nil /\ wild
  BY <1>3, <1>4, <1>5, <1>8
<1>9. CASE node # Nil /\ ~ wild
  <2>1. Delete(l, k) = Unlinked(l, at, node)
    BY <1>3, <1>5, <1>9
  <2>2. Found(l, R, k, node, at)
    BY <1>5, <1>6, <1>9 DEF Found
  <2>. DEFINE p == Unlinked(l, at, node)
  <2>3. /\ \E h \in 1..Top(l) : Removed(l, p, node, at, h)
        /\ p.size = l.size - 1 /\ p.bytes = l.bytes - KeySize[l.key[node]] - ValueSize[l.value[node]]
    BY <1>1, <1>2, <2>2, UnlinkedIs
  <2>. HIDE DEF p
  <2>4. IsMap(p, [m EXCEPT ![k] = NotFound])
    BY <1>2, <2>2, <2>3, RemovedMap
  <2>. QED
    BY <2>1, <2>4 DEF p
<1>. QED
  BY <1>7, <1>8, <1>9

(***************************************************************************)
(* The memtable.                                                           *)
(***************************************************************************)
MemInv == ~ list.broken => IsMap(list, map)

\* A list without nodes is the map without keys.
LEMMA EmptyIsMap == IsMap(EmptyList, [k \in Key |-> NotFound])
<1>. DEFINE l == EmptyList
            m == [k \in Key |-> NotFound]
            nx == [p \in {HeadNode} |-> <<Nil>>]
            R == [n \in 1..1 |-> {HeadNode}]
<1>1. /\ l.nexts = nx /\ l.key = <<>> /\ l.value = <<>> /\ l.allocated = 1
      /\ l.size = 0 /\ l.bytes = 0 /\ l.broken = FALSE
  BY DEF EmptyList
<1>2. nx[HeadNode] = <<Nil>> /\ DOMAIN nx = {HeadNode}
  OBVIOUS
<1>3. <<Nil>> \in Seq(Int) /\ Len(<<Nil>>) = 1 /\ <<Nil>>[1] = Nil
  BY DEF Nil
<1>4. DOMAIN <<>> = {}
  OBVIOUS
<1>5. l \in ListType
  <2>1. nx \in PerNode(Seq(Int))
    <3>1. nx \in [{HeadNode} -> Seq(Int)]
      BY <1>3
    <3>2. {HeadNode} \in SUBSET Nat
      BY DEF HeadNode
    <3>. HIDE DEF nx
    <3>. QED
      BY <3>1, <3>2 DEF PerNode
  <2>2. <<>> \in PerNode(Key) /\ <<>> \in PerNode(Value)
    <3>1. <<>> \in [{} -> Key] /\ <<>> \in [{} -> Value] /\ {} \in SUBSET Nat
      OBVIOUS
    <3>. QED
      BY <3>1 DEF PerNode
  <2>3. 0 \in Int /\ 1 \in Nat /\ FALSE \in BOOLEAN
    OBVIOUS
  <2>. QED
    BY <2>1, <2>2, <2>3 DEF EmptyList, ListType
<1>. HIDE DEF l, nx
<1>6. Nodes(l) = {HeadNode} /\ Top(l) = 1 /\ l.nexts[HeadNode] = <<Nil>>
  BY <1>1, <1>2, <1>3 DEF Nodes, Top
<1>7. NodesOK(l)
  BY <1>1, <1>4, <1>6 DEF NodesOK, HeadNode
<1>8. PointersOK(l)
  BY <1>1, <1>3, <1>6 DEF PointersOK, HeadNode, Nil
<1>9. Towers(l, R)
  <2>1. DOMAIN R = 1..1 /\ R[1] = {HeadNode} /\ \A n \in 1..1 : R[n] = {HeadNode} /\ n = 1
    OBVIOUS
  <2>2. IsNext(l, {HeadNode}, HeadNode, Nil)
    <3>1. Pos(l, HeadNode) = -1
      BY DEF Pos
    <3>. QED
      BY <3>1 DEF IsNext
  <2>3. 1..(1 - 1) = {}
    OBVIOUS
  <2>. HIDE DEF R
  <2>4. Top(l) \in Nat \ {0} /\ DOMAIN R = 1..Top(l) /\ R[1] = Nodes(l)
    BY <1>6, <2>1
  <2>5. \A n \in 1..Top(l) : HeadNode \in R[n] /\ R[n] \subseteq Nodes(l)
    BY <1>6, <2>1
  <2>6. \A n \in 1..Top(l) - 1 : R[n + 1] \subseteq R[n]
    BY <1>6, <2>3
  <2>7. ASSUME NEW n \in 1..Top(l), NEW p \in R[n]
        PROVE  n <= Len(l.nexts[p]) /\ IsNext(l, R[n], p, l.nexts[p][n])
    <3>1. n = 1 /\ R[n] = {HeadNode} /\ p = HeadNode
      BY <1>6, <2>1
    <3>2. l.nexts[p] = <<Nil>>
      BY <1>6, <3>1
    <3>. QED
      BY <1>3, <2>2, <3>1, <3>2
  <2>. QED
    BY <2>4, <2>5, <2>6, <2>7 DEF Towers
<1>10. ListInv(l)
  BY <1>5, <1>7, <1>8, <1>9 DEF ListInv, Shape
<1>11. HoldsMap(l, m)
  BY <1>6 DEF HoldsMap
<1>12. SizesOK(l, m)
  <2>1. Present(m) = {}
    BY DEF Present
  <2>2. IsFiniteSet(Present(m)) /\ Cardinality(Present(m)) = 0
    BY <2>1, FS_EmptySet
  <2>3. m \in Maps
    BY DEF Maps
  <2>. HIDE DEF m
  <2>4. SumFunction(Weights(m)) = 0
    <3>. DEFINE w == Weights(m)
    <3>1. w \in [{} -> 0..0]
      BY <2>1 DEF Weights
    <3>2. Squares(w, {}, 0) = {}
      BY DEF Squares
    <3>. HIDE DEF w
    <3>3. SumFunction(w) = Cardinality(Squares(w, {}, 0))
      <4>1. IsFiniteSet({}) /\ 0 \in Nat
        BY FS_EmptySet
      <4>. QED
        BY <3>1, <4>1, SumAsSize
    <3>. QED
      BY <3>2, <3>3, FS_EmptySet DEF w
  <2>. QED
    BY <1>1, <2>2, <2>4 DEF SizesOK
<1>. QED
  BY <1>10, <1>11, <1>12 DEF IsMap, l

\* A write of the memtable keeps the list and the map together.
LEMMA PutStep ==
    ASSUME MemInv, Usable, NEW k \in Key, NEW v \in Value, ApplyPut(k, v)
    PROVE  MemInv'
<1>1. IsMap(list, map)
  BY DEF MemInv, Usable
<1>2. PICK level \in 1..MaxLevel : list' = Put(list, k, v, level)
  BY DEF ApplyPut
<1>3. level \in Nat \ {0}
  BY BatchAssumption
<1>4. Put(list, k, v, level).broken \/ IsMap(Put(list, k, v, level), [map EXCEPT ![k] = v])
  BY <1>1, <1>3, PutKeeps
<1>5. map' = [map EXCEPT ![k] = v]
  BY DEF ApplyPut
<1>. QED
  BY <1>2, <1>4, <1>5 DEF MemInv

\* So does a delete.
LEMMA DeleteStep ==
    ASSUME MemInv, Usable, NEW k \in Key, ApplyDelete(k)
    PROVE  MemInv'
<1>1. IsMap(list, map)
  BY DEF MemInv, Usable
<1>2. list' = Delete(list, k) /\ map' = [map EXCEPT ![k] = NotFound]
  BY DEF ApplyDelete
<1>3. Delete(list, k).broken \/ IsMap(Delete(list, k), [map EXCEPT ![k] = NotFound])
  BY <1>1, DeleteKeeps
<1>. QED
  BY <1>2, <1>3 DEF MemInv

\* Every step does: the list and its map change in a write and in a step of a commit only.
LEMMA MemStep ==
    ASSUME BatchInv, MemInv, [Next]_vars
    PROVE  MemInv'
<1>1. ASSUME NEW k \in Key, NEW v \in Value, SinglePut(k, v) PROVE MemInv'
  BY <1>1, PutStep DEF SinglePut
<1>2. ASSUME NEW t \in Thread, CommitStep(t) PROVE MemInv'
  <2>. DEFINE op == txn[t].entries[txn[t].next + 1]
  <2>1. txn[t].entries \in Seq(Op) /\ txn[t].next \in Nat /\ txn[t].next < Len(txn[t].entries)
    BY <1>2 DEF BatchInv, TxnState, CommitStep
  <2>2. op \in Op
    BY <2>1
  <2>3. Usable /\ Apply(op)
    BY <1>2 DEF CommitStep
  <2>. HIDE DEF op
  <2>4. CASE op \in [type : {"put"}, key : Key, value : Value]
    <3>1. op.type = "put" /\ op.key \in Key /\ op.value \in Value
      BY <2>4
    <3>2. ApplyPut(op.key, op.value)
      BY <2>3, <3>1 DEF Apply
    <3>. QED
      BY <2>3, <3>1, <3>2, PutStep
  <2>5. CASE op \in [type : {"delete"}, key : Key]
    <3>1. op.type = "delete" /\ op.key \in Key
      BY <2>5
    <3>2. ApplyDelete(op.key)
      BY <2>3, <3>1 DEF Apply
    <3>. QED
      BY <2>3, <3>1, <3>2, DeleteStep
  <2>. QED
    BY <2>2, <2>4, <2>5 DEF Op
<1>3. ASSUME UNCHANGED <<list, map>> PROVE MemInv'
  BY <1>3 DEF MemInv
<1>4. ASSUME NEW t \in Thread,
             \/ Begin(t) \/ Rollback(t) \/ End(t)
             \/ \E op \in Op : Collect(t, op)
             \/ \E managed \in BOOLEAN : CommitBegin(t, managed)
             \/ CommitEnd(t) \/ CommitThrow(t)
      PROVE  UNCHANGED <<list, map>>
  BY <1>4 DEF Begin, Rollback, End, Collect, CommitBegin, CommitEnd, CommitThrow
<1>5. CASE UNCHANGED vars
  BY <1>3, <1>5 DEF vars
<1>6. CASE Next
  BY <1>1, <1>2, <1>3, <1>4, <1>6 DEF Next
<1>. QED
  BY <1>5, <1>6

(***************************************************************************)
(* For any keys, values, levels drawn by RandLevel and interleaving of     *)
(* single writes and batches: as long as no operation of the skip list has *)
(* read outside a node, Get finds the last value written to every key and  *)
(* none that was deleted, iteration visits the keys of the map in their    *)
(* order, and the size and the bytes that decide when the memtable is full *)
(* are exact (SkipList::Get, Put, Delete and its iterator).                *)
(***************************************************************************)
THEOREM MemtableIsMap == Spec => []ListIsMap
<1>1. Init => MemInv
  BY EmptyIsMap DEF Init, MemInv
<1>2. BatchInv /\ MemInv /\ [Next]_vars => MemInv'
  BY MemStep
<1>3. MemInv => ListIsMap
  <2>. SUFFICES ASSUME MemInv, ~ list.broken
                PROVE  /\ Range(Scan(list)) = Present(map)
                       /\ \A i, j \in DOMAIN Scan(list) : i < j => Scan(list)[i] < Scan(list)[j]
                       /\ \A k \in Key : Get(list, k) = map[k]
                       /\ list.size = Cardinality(Present(map))
                       /\ list.bytes = SumFunction(Weights(map))
    BY DEF ListIsMap, Present, Weights, Weight
  <2>1. ListInv(list) /\ HoldsMap(list, map) /\ SizesOK(list, map)
    BY DEF MemInv, IsMap
  <2>. QED
    BY <2>1, GetIs, ScanIs DEF SizesOK
<1>4. Spec => []BatchInv
  BY BatchInvariant
<1>. QED
  BY <1>1, <1>2, <1>3, <1>4, PTL DEF Spec
=============================================================================
