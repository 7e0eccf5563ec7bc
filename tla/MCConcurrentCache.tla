-------------------------- MODULE MCConcurrentCache --------------------------
(* Small caches for TLC. *)
EXTENDS ConcurrentCache

\* A window that can hold two nodes with the same key, and a main part that is soon full.
SmallParts == [p \in Part |-> IF p = "window" THEN 2 ELSE 1]

\* Two rows; keys 1 and 2 collide in the first, 2 and 3 in the second, and there are
\* keys on lower and on upper counters of a byte.
Indexes == <<[k \in Key |-> IF k <= 2 THEN 0 ELSE 1], [k \in Key |-> IF k = 1 THEN 1 ELSE 0]>>
=============================================================================
