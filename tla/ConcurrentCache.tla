--------------------------- MODULE ConcurrentCache ---------------------------
(***************************************************************************)
(* The two-part cache Concurrent2LRUCache (cache/concurrent_cache.hpp): a  *)
(* small window and a main part, both a ConcurrentLRUCache, and a sketch   *)
(* of how often keys are used (cache/cm_sketch.hpp) that decides whether   *)
(* what leaves the window may displace what is in main.  A value is its    *)
(* key, as in an int cache.                                                *)
(*                                                                         *)
(* An insertion looks for the key and inserts under two holds of the same  *)
(* mutex; what is done under one hold is one step.  map[k] is the node the *)
(* map has for k; a node is a number that is free again when it is popped. *)
(***************************************************************************)
EXTENDS Integers, Sequences, SequencesExt, FiniteSets, FiniteSetsExt

CONSTANTS
    Key, Thread,
    Capacity,   \* Capacity[p]: the capacity of part p, "window" or "main"
    Promotions, \* should_promote_num_
    Row, Slots, \* the sketch has Slots counters in each row
    Index,      \* Index[r][k]: the counter of k in row r, by the seed of the row
    CounterMax, \* the largest count: 15, a nibble
    MaxOp       \* bound: calls of Put and Get

Part == {"window", "main"}

ASSUME CacheAssumption ==
    /\ Capacity \in [Part -> Nat \ {0}]     \* the constructor makes a zero a one
    /\ Promotions \in Nat
    /\ Slots \in Nat /\ Slots % 2 = 0
    /\ Index \in [Row -> [Key -> 0..Slots - 1]]
    /\ CounterMax \in Nat /\ MaxOp \in Nat

VARIABLES
    part,       \* part[p]: list_, map_ and the promotions of the nodes
    sketch,     \* sketch[r][i]: a counter
    thread,     \* thread[t]: the call thread t is in
    ops,
    owner,      \* "alive", "stop", "join", "joined" or "gone": stop() and the destructor
    stop,       \* stop_
    refresher,  \* the refresh thread: "lock", "blocking", "waiting", "woken", "returned"
    uses,       \* history: uses[k], calls with key k, halved when the sketch is
    raced       \* history: raced[p], keys that were inserted although they were there

vars == <<part, sketch, thread, ops, owner, stop, refresher, uses, raced>>

Nodes(p) == 1..Capacity[p]

\* list: the nodes, most recent first; key[n] and hits[n] of the nodes in it.
EmptyPart(p) ==
    [list |-> <<>>, key |-> [n \in Nodes(p) |-> 0], hits |-> [n \in Nodes(p) |-> 0],
     map |-> [k \in Key |-> 0]]

EmptySketch == [r \in Row |-> [i \in 0..Slots - 1 |-> 0]]

\* value: the key in hand, what left the window once it is on its way to main
NoCall == [pc |-> "idle", op |-> "none", value |-> 0]

Init ==
    /\ part = [p \in Part |-> EmptyPart(p)]
    /\ sketch = EmptySketch
    /\ thread = [t \in Thread |-> NoCall]
    /\ ops = 0
    /\ owner = "alive" /\ stop = FALSE /\ refresher = "lock"
    /\ uses = [k \in Key |-> 0]
    /\ raced = [p \in Part |-> {}]

Smaller(a, b) == IF a < b THEN a ELSE b

(***************************************************************************)
(* CMSketch4Bits.  Two counters share a byte; Estimate shifts the byte but *)
(* does not mask it, so the lower counter is read with the upper one.      *)
(***************************************************************************)
Increment(s, k) ==
    [r \in Row |-> [s[r] EXCEPT ![Index[r][k]] = IF @ < CounterMax THEN @ + 1 ELSE @]]

Byte(s, r, i) == IF i % 2 = 0 THEN s[r][i] + (CounterMax + 1) * s[r][i + 1] ELSE s[r][i]

Estimate(s, k) == Min({CounterMax} \cup {Byte(s, r, Index[r][k]) : r \in Row})

\* Mutant: a counter at its limit starts again from zero when it is halved.
Reset_Clears(s) == [r \in Row |-> [i \in 0..Slots - 1 |-> IF s[r][i] = CounterMax THEN 0 ELSE s[r][i] \div 2]]

Reset(s) == [r \in Row |-> [i \in 0..Slots - 1 |-> s[r][i] \div 2]]

(***************************************************************************)
(* ConcurrentLRUCache, as functions of one part.                           *)
(***************************************************************************)
\* Extract of the node n.
Extract(list, n) == RemoveAt(list, CHOOSE i \in DOMAIN list : list[i] = n)

\* Promote of the node n: it moves to the front when it was hit often enough.
Promote(c, n) ==
    IF c.hits[n] >= Promotions
    THEN [c EXCEPT !.list = <<n>> \o Extract(@, n), !.hits[n] = 0]
    ELSE [c EXCEPT !.hits[n] = @ + 1]

Found(c, k) == c.map[k] # 0

\* Mutant: the key of the node that is popped stays in the map.
PopBack_KeepsMap(c) == [c EXCEPT !.list = Front(@)]

\* PopBack, and the erasure of the key from the map.
PopBack(c) == [c EXCEPT !.list = Front(@), !.map[c.key[Last(c.list)]] = 0]

Full(p, c) == Len(c.list) = Capacity[p]

\* PushFront of a new node; emplace does nothing if the key is in the map.
PushFront(p, c, k) ==
    LET n == Min(Nodes(p) \ ToSet(c.list)) IN
    [c EXCEPT !.list = <<n>> \o @, !.key[n] = k, !.hits[n] = 0,
              !.map[k] = IF @ = 0 THEN n ELSE @]

(***************************************************************************)
(* Put and Get.                                                            *)
(***************************************************************************)
MayCall(t) == thread[t].pc = "idle" /\ owner = "alive" /\ ops < MaxOp

\* The first step of both, under the mutex of the sketch.
Call(t, op, k) ==
    /\ MayCall(t)
    /\ ops' = ops + 1
    /\ sketch' = Increment(sketch, k)
    /\ uses' = [uses EXCEPT ![k] = @ + 1]
    /\ thread' = [thread EXCEPT ![t] = [pc |-> "window", op |-> op, value |-> k]]
    /\ UNCHANGED <<part, owner, stop, refresher, raced>>

Goes(t, pc) == thread' = [thread EXCEPT ![t] = IF pc = "idle" THEN NoCall ELSE [@ EXCEPT !.pc = pc]]

\* Where a thread goes that did not find its key in part p.
Missed(t, p) ==
    CASE thread[t].op = "put" -> IF p = "window" THEN "insertWindow" ELSE "insertMain"
      [] OTHER -> IF p = "window" THEN "main" ELSE "idle"

\* Get of a part, and the first hold of the mutex in PutWithDisuse and PutWithCompair.
Look(t, p) ==
    /\ thread[t].pc = p
    /\ LET k == thread[t].value IN
       \/ /\ Found(part[p], k)
          /\ part' = [part EXCEPT ![p] = Promote(@, @.map[k])]
          /\ Goes(t, "idle")
       \/ /\ ~ Found(part[p], k)
          /\ UNCHANGED part
          /\ Goes(t, Missed(t, p))
    /\ UNCHANGED <<sketch, ops, owner, stop, refresher, uses, raced>>

Raced(p, k) == IF Found(part[p], k) THEN [raced EXCEPT ![p] = @ \cup {k}] ELSE raced

\* The second hold in PutWithDisuse: what is pushed out goes on to main.
InsertWindow(t) ==
    /\ thread[t].pc = "insertWindow"
    /\ LET c == part["window"]
           k == thread[t].value
           full == Full("window", c)
           old == c.key[Last(c.list)]
       IN /\ part' = [part EXCEPT !["window"] = PushFront("window", IF full THEN PopBack(c) ELSE c, k)]
          /\ thread' = [thread EXCEPT ![t] =
                IF full THEN [@ EXCEPT !.pc = "main", !.value = old] ELSE NoCall]
          /\ raced' = Raced("window", k)
    /\ UNCHANGED <<sketch, ops, owner, stop, refresher, uses>>

\* The second hold in PutWithCompair, with the sketch's mutex for the comparison.
InsertMain(t) ==
    /\ thread[t].pc = "insertMain"
    /\ LET c == part["main"]
           k == thread[t].value
           full == Full("main", c)
           admitted == full => Estimate(sketch, c.key[Last(c.list)]) < Estimate(sketch, k)
       IN \/ /\ admitted
             /\ part' = [part EXCEPT !["main"] = PushFront("main", IF full THEN PopBack(c) ELSE c, k)]
             /\ raced' = Raced("main", k)
          \/ ~ admitted /\ UNCHANGED <<part, raced>>
    /\ Goes(t, "idle")
    /\ UNCHANGED <<sketch, ops, owner, stop, refresher, uses>>

(***************************************************************************)
(* The refresh thread.  It holds refresh_mutex_ except in the wait.        *)
(***************************************************************************)
RefreshMutexFree == refresher \in {"lock", "waiting", "woken", "returned"}

\* The predicate, the first time and after a notification.
RefreshLook ==
    /\ refresher \in {"lock", "woken"}
    /\ refresher' = IF stop THEN "returned" ELSE "blocking"
    /\ UNCHANGED <<part, sketch, thread, ops, owner, stop, uses, raced>>

RefreshBlocks ==
    /\ refresher = "blocking"
    /\ refresher' = "waiting"
    /\ UNCHANGED <<part, sketch, thread, ops, owner, stop, uses, raced>>

\* The time is up: the counters are halved, unless the thread is to end.
RefreshTimeout ==
    /\ refresher = "waiting"
    /\ IF stop
       THEN refresher' = "returned" /\ UNCHANGED <<sketch, uses>>
       ELSE /\ refresher' = "lock"
            /\ sketch' = Reset(sketch)
            /\ uses' = [k \in Key |-> Smaller(uses[k], CounterMax) \div 2]
    /\ UNCHANGED <<part, thread, ops, owner, stop, raced>>

\* stop(): stop_ is set without the mutex, the notification is sent with it.
StopBegin ==
    /\ owner = "alive" /\ \A t \in Thread : thread[t].pc = "idle"
    /\ owner' = "stop" /\ stop' = TRUE
    /\ UNCHANGED <<part, sketch, thread, ops, refresher, uses, raced>>

\* Mutant: the notification does not wait for the mutex.
NotifyGuard_Unlocked == TRUE

NotifyGuard == RefreshMutexFree

StopNotify ==
    /\ owner = "stop" /\ NotifyGuard
    /\ owner' = "join"
    /\ refresher' = IF refresher = "waiting" THEN "woken" ELSE refresher
    /\ UNCHANGED <<part, sketch, thread, ops, stop, uses, raced>>

StopJoin ==
    /\ owner = "join" /\ refresher = "returned"
    /\ owner' = "joined"
    /\ UNCHANGED <<part, sketch, thread, ops, stop, refresher, uses, raced>>

\* The rest of the destructor.
Destroy ==
    /\ owner = "joined"
    /\ owner' = "gone"
    /\ UNCHANGED <<part, sketch, thread, ops, stop, refresher, uses, raced>>

\* The rest of operator=, from a new cache.  The shards of ConcurrentBucket2LRUCache
\* are assigned to before their first use.  stop_ stays set.
MoveAssign ==
    /\ owner = "joined" /\ ops = 0
    /\ part' = [p \in Part |-> EmptyPart(p)]
    /\ sketch' = EmptySketch
    /\ refresher' = "lock"
    /\ owner' = "alive"
    /\ UNCHANGED <<thread, ops, stop, uses, raced>>

ThreadStep(t) ==
    \/ \E op \in {"put", "get"}, k \in Key : Call(t, op, k)
    \/ \E p \in Part : Look(t, p)
    \/ InsertWindow(t) \/ InsertMain(t)

Next ==
    \/ \E t \in Thread : ThreadStep(t)
    \/ RefreshLook \/ RefreshBlocks \/ RefreshTimeout
    \/ StopBegin \/ StopNotify \/ StopJoin \/ Destroy \/ MoveAssign

\* Threads go on; the 60 seconds of the refresh thread need not pass.
Spec ==
    /\ Init /\ [][Next]_vars
    /\ WF_vars(RefreshLook \/ RefreshBlocks) /\ WF_vars(StopNotify) /\ WF_vars(StopJoin)

-----------------------------------------------------------------------------
(***************************************************************************)
(* Map and list of a part agree, whatever Puts overlap: the map has no     *)
(* node that was popped or holds another key, the list is never longer     *)
(* than the capacity, and a node that no lookup can reach belongs to a key *)
(* that two Puts inserted at the same time ("setting the same value        *)
(* concurrently produces garbage data", concurrent_cache.hpp:150).         *)
(***************************************************************************)
MapMatchesList ==
    \A p \in Part : LET c == part[p] IN
        /\ Len(c.list) <= Capacity[p] /\ IsInjective(c.list)
        /\ \A k \in Key : c.map[k] # 0 => c.map[k] \in ToSet(c.list) /\ c.key[c.map[k]] = k
        /\ \A n \in ToSet(c.list) : c.key[n] \notin raced[p] => c.map[c.key[n]] = n

(***************************************************************************)
(* The sketch never underestimates: an estimate is at least the number of  *)
(* uses, up to the limit of a counter, through saturation, collisions and  *)
(* halving.  (Otherwise a key in use would lose its place in main.)        *)
(***************************************************************************)
NeverUnderestimates == \A k \in Key : Estimate(sketch, k) >= Smaller(uses[k], CounterMax)

(***************************************************************************)
(* stop() returns without waiting for the minute to pass: its notification *)
(* cannot fall between the refresh thread's look at stop_ and its wait,    *)
(* also not in a cache that was assigned to.                               *)
(***************************************************************************)
StopReturns == owner = "stop" ~> owner \in {"joined", "alive", "gone"}

(***************************************************************************)
(* The counters of a cache in use go on being halved.  Not so: operator=   *)
(* starts a refresh thread and leaves stop_ set.                           *)
(***************************************************************************)
RefreshAlive == owner = "alive" => refresher # "returned"
=============================================================================
