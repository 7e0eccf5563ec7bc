------------------------------ MODULE SkipList ------------------------------
(***************************************************************************)
(* The skip list behind a memtable (lsm/skiplist.hpp), as a value; every   *)
(* operation holds the list's spin lock from beginning to end, so it is a  *)
(* function of the list.                                                   *)
(*                                                                         *)
(* Nodes are numbered as they are allocated, Head is the first.  nexts[p]  *)
(* is the vector of node p, lowest level first; a node that was deleted    *)
(* has none.  Put and Delete read vectors without looking at their length  *)
(* and follow pointers without knowing whether the node is still there.    *)
(* Such a step has no defined outcome: Wild is what it reads, and the list *)
(* is broken from then on.                                                 *)
(***************************************************************************)
EXTENDS Integers, FiniteSets, FiniteSetsExt, Sequences, SequencesExt, Functions

CONSTANTS
    Key,        \* the keys, in their order
    KeySize,    \* KeySize[k] and ValueSize[v]: lengths in bytes
    Value,
    ValueSize

ASSUME ListAssumption ==
    /\ Key \subseteq Nat /\ Value \subseteq Nat \ {0}
    /\ KeySize \in [Key -> Nat] /\ ValueSize \in [Value -> Nat]

Nil == 0
HeadNode == 1
Wild == -1
NotFound == 0

EmptyList ==
    [nexts |-> [p \in {HeadNode} |-> <<Nil>>], key |-> <<>>, value |-> <<>>,
     allocated |-> 1, size |-> 0, bytes |-> 0, broken |-> FALSE]

Top(l) == Len(l.nexts[HeadNode])
Resize(s, n) == [i \in 1..n |-> IF i <= Len(s) THEN s[i] ELSE Nil]

\* p->nexts[level]
NextOf(l, p, level) ==
    IF p \in DOMAIN l.nexts /\ level <= Len(l.nexts[p]) THEN l.nexts[p][level] ELSE Wild

\* while (p->nexts[level] && p->nexts[level]->key < k) p = p->nexts[level]
Walk(l, from, level, k) ==
    LET walk[p \in DOMAIN l.nexts \cup {Wild}] ==
            LET q == NextOf(l, p, level) IN
            IF p = Wild \/ q = Wild \/ q \notin DOMAIN l.nexts \cup {Nil} THEN Wild
            ELSE IF q # Nil /\ l.key[q] < k THEN walk[q] ELSE p
    IN  walk[from]

\* Where the loop over the levels stops on each of them, coming from `from`.
Descend(l, from, k) ==
    LET at[level \in 1..Top(l)] ==
            Walk(l, IF level = Top(l) THEN from ELSE at[level + 1], level, k)
    IN  at

\* The node with key k behind position p of the lowest level, if there is one.
Hit(l, p, k) ==
    LET q == NextOf(l, p, 1) IN IF q \in DOMAIN l.key /\ l.key[q] = k THEN q ELSE Nil

Get(l, k) ==
    LET hit == Hit(l, Descend(l, HeadNode, k)[1], k) IN IF hit = Nil THEN NotFound ELSE l.value[hit]

\* head_ grows to the level of the new node, and so do the nodes the search passed
\* on the upper levels.
Grown(l, at, level) ==
    LET passed == {at[n] : n \in 2..Top(l)} IN
    IF level <= Top(l) THEN l
    ELSE [l EXCEPT !.nexts = [p \in DOMAIN @ |->
              IF p = HeadNode \/ p \in passed THEN Resize(@[p], level) ELSE @[p]]]

\* Mutant: the new node does not take over what its predecessor pointed to.
Linked_Cut(l, at, node, level) ==
    [l EXCEPT !.nexts = [p \in DOMAIN @ |->
        [n \in DOMAIN @[p] |-> IF n <= level /\ at[n] = p THEN node ELSE @[p][n]]]]

\* The new node behind at[n] on every level n it has.
Linked(l, at, node, level) ==
    [l EXCEPT !.nexts = [p \in DOMAIN @ |->
        [n \in DOMAIN @[p] |->
            IF n > level THEN @[p][n]
            ELSE IF p = node THEN NextOf(l, at[n], n)
            ELSE IF at[n] = p THEN node ELSE @[p][n]]]]

\* Put.  The insertion loop starts on the highest level at the place the search
\* found on the lowest one.
Put(l, k, v, level) ==
    LET at == Descend(l, HeadNode, k)
        hit == Hit(l, at[1], k)
        node == l.allocated + 1
        grown == Grown(l, at, level)
        start == IF level > Top(l) THEN Descend(grown, HeadNode, k)[1] ELSE at[1]
        places == Descend(grown, start, k)
        with == [grown EXCEPT
                    !.nexts = [p \in DOMAIN @ \cup {node} |->
                                  IF p = node THEN Resize(<<>>, Top(grown)) ELSE @[p]],
                    !.key = [p \in DOMAIN @ \cup {node} |-> IF p = node THEN k ELSE @[p]],
                    !.value = [p \in DOMAIN @ \cup {node} |-> IF p = node THEN v ELSE @[p]],
                    !.allocated = node,
                    !.size = @ + 1,
                    !.bytes = @ + KeySize[k] + ValueSize[v]]
    IN  IF Wild \in Range(at) THEN [l EXCEPT !.broken = TRUE]
        ELSE IF hit # Nil
        THEN [l EXCEPT !.value[hit] = v, !.bytes = @ + ValueSize[v] - ValueSize[l.value[hit]]]
        ELSE IF start = Wild \/ Wild \in Range(places) THEN [l EXCEPT !.broken = TRUE]
        ELSE Linked(with, places, node, level)

\* The node is taken out where the search met it and freed; empty levels of head_
\* are given up.
Unlinked(l, at, node) ==
    LET rest == DOMAIN l.nexts \ {node}
        shorter == [p \in rest |-> [n \in DOMAIN l.nexts[p] |->
                       IF n <= Top(l) /\ at[n] = p /\ l.nexts[p][n] = node
                       THEN NextOf(l, node, n) ELSE l.nexts[p][n]]]
        used == {1} \cup {n \in 1..Top(l) : shorter[HeadNode][n] # Nil}
    IN  [l EXCEPT !.nexts = [shorter EXCEPT ![HeadNode] = Resize(@, Max(used))],
                  !.key = Restrict(@, DOMAIN @ \ {node}),
                  !.value = Restrict(@, DOMAIN @ \ {node}),
                  !.size = @ - 1,
                  !.bytes = @ - KeySize[l.key[node]] - ValueSize[l.value[node]]]

Delete(l, k) ==
    LET at == Descend(l, HeadNode, k)
        node == Hit(l, at[1], k)
        wild == \E n \in DOMAIN at : NextOf(l, at[n], n) = node /\ NextOf(l, node, n) = Wild
    IN  IF Wild \in Range(at) THEN [l EXCEPT !.broken = TRUE]
        ELSE IF node = Nil THEN l
        ELSE IF wild THEN [l EXCEPT !.broken = TRUE]
        ELSE Unlinked(l, at, node)

\* The keys from begin() to end().
Scan(l) ==
    LET order[n \in 0..Cardinality(DOMAIN l.nexts)] ==
            IF n = 0 THEN <<HeadNode>>
            ELSE LET q == NextOf(l, Last(order[n - 1]), 1) IN
                 IF q \in {Nil, Wild} THEN order[n - 1] ELSE Append(order[n - 1], q)
    IN  [i \in 1..Len(order[Cardinality(DOMAIN l.nexts)]) - 1 |->
            l.key[order[Cardinality(DOMAIN l.nexts)][i + 1]]]
=============================================================================
