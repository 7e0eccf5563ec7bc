------------------------------ MODULE DBProofs ------------------------------
(***************************************************************************)
(* Proofs about the database, for every set of keys, every size of a       *)
(* memtable and every number of puts, with the data race on inmemtables_:  *)
(* it implements module Store, and a Get finds in memory nothing older     *)
(* than the last put that was complete when it began, unless that put is   *)
(* one that the race dropped.                                              *)
(***************************************************************************)
EXTENDS DB, FiniteSetTheorems, SequenceTheorems, TLAPS

(***************************************************************************)
(* The inductive invariant.                                                *)
(***************************************************************************)

\* DbTypeOK without the size of the active table.
TablesType ==
    /\ memtable \in Table /\ flushing \in Table /\ latest \in Table
    /\ inmemtables \in Seq(Table) /\ published \in Seq(Table) /\ disk \in Seq(Table)
    /\ flusher \in FlusherState
    /\ closing \in {"no", "rotated", "stopped"}
    /\ get \in GetState
    /\ puts \in 0..MaxPut
    /\ lost \subseteq 1..MaxPut

\* The flush thread and its table; after the last put nothing is rotated.
FlushInv ==
    /\ flusher \notin {"erasing", "writing"} => flushing = EmptyTable
    /\ flusher = "erasing" => inmemtables # <<>> /\ flushing = Head(inmemtables)
    /\ flusher = "done" => closing = "stopped" /\ inmemtables = <<>>
    /\ closing # "no" => full = FALSE

\* A table has nothing newer than the tables above it, and nothing from the future.
Below(t, u) == \A k \in Key : t[k] # NoValue /\ u[k] # NoValue => t[k] <= u[k]
Known(t, n) == \A k \in Key : t[k] <= n
OrderInv ==
    /\ Known(memtable, puts) /\ Known(flushing, puts) /\ Below(flushing, memtable)
    /\ \A i \in 1..Len(inmemtables) :
          /\ Known(inmemtables[i], puts)
          /\ Below(inmemtables[i], memtable) /\ Below(flushing, inmemtables[i])
          /\ \A j \in i..Len(inmemtables) : Below(inmemtables[i], inmemtables[j])
    /\ \A p \in 1..Len(published) :
          /\ Known(published[p], puts)
          /\ Below(published[p], memtable) /\ Below(published[p], flushing)
          /\ \A i \in 1..Len(inmemtables) : Below(published[p], inmemtables[i])
    /\ \A p \in 1..Len(disk) : Known(disk[p], puts)

\* The value v of k is in a table that lookups reach below slot n of the list.
Sees(k, v, n) ==
    \/ flushing[k] = v
    \/ InManifest(k, v)
    \/ \E i \in 1..Len(inmemtables) : i <= n /\ inmemtables[i][k] = v

\* The last put of a key is somewhere, or the race dropped it.
LatestInv ==
    \A k \in Key : latest[k] \notin lost \cup {NoValue} =>
        memtable[k] = latest[k] \/ \E n \in Nat : Sees(k, latest[k], n)

\* A reader has what it must find still before it.
GetInv ==
    /\ get.since \notin lost \cup {NoValue} /\ get.stage = "scanning" =>
          Sees(get.key, get.since, get.at)
    /\ ReadsLatest

DbInv == TablesType /\ FlushInv /\ OrderInv /\ LatestInv /\ GetInv

-----------------------------------------------------------------------------
(***************************************************************************)
(* Tables and lists of tables.                                             *)
(***************************************************************************)

\* The table of a new memtable.
LEMMA EmptyIsTable == EmptyTable \in Table /\ \A k \in Key : EmptyTable[k] = NoValue
BY DbAssumption DEF EmptyTable, Table, NoValue

\* The values of a table are numbers of puts.
LEMMA ValuesType ==
    ASSUME NEW t \in Table
    PROVE  Values(t) \subseteq 1..MaxPut
BY DbAssumption DEF Values, Table, NoValue

\* A table without entries is the empty table.
LEMMA NoEntries ==
    ASSUME NEW t \in Table, Size(t) = 0
    PROVE  t = EmptyTable
<1>. DEFINE S == {k \in Key : t[k] # NoValue}
<1>1. IsFiniteSet(S)
  BY DbAssumption, FS_Subset
<1>2. S = {}
  BY <1>1, FS_EmptySet DEF Size
<1>. QED
  BY <1>2 DEF EmptyTable, Table

\* The list without its front.
LEMMA TailOf ==
    ASSUME NEW q \in Seq(Table), q # <<>>
    PROVE  /\ Head(q) = q[1] /\ Head(q) \in Table /\ Tail(q) \in Seq(Table)
           /\ Len(q) \in Nat \ {0} /\ Len(Tail(q)) = Len(q) - 1
           /\ \A i \in 1..Len(Tail(q)) : Tail(q)[i] = q[i + 1]
BY HeadTailProperties, EmptySeq, LenProperties

\* The list with one more table.
LEMMA AppendOf ==
    ASSUME NEW q \in Seq(Table), NEW t \in Table
    PROVE  /\ Append(q, t) \in Seq(Table) /\ Len(q) \in Nat /\ Len(Append(q, t)) = Len(q) + 1
           /\ \A i \in 1..Len(q) : Append(q, t)[i] = q[i]
           /\ Append(q, t)[Len(q) + 1] = t
BY AppendProperties, LenProperties

(***************************************************************************)
(* How a step that is not a start moves the full tables.                   *)
(***************************************************************************)
TakeFront ==
    /\ flushing = EmptyTable /\ inmemtables # <<>> /\ flushing' = Head(inmemtables)
    /\ UNCHANGED <<inmemtables, published>>

EraseFront ==
    /\ inmemtables # <<>> /\ flushing = Head(inmemtables)
    /\ inmemtables' = Tail(inmemtables)
    /\ UNCHANGED <<flushing, published>>

Insert ==
    /\ published' = Append(published, flushing) /\ flushing' = EmptyTable
    /\ UNCHANGED inmemtables

AddFull == inmemtables' = Append(inmemtables, memtable) /\ UNCHANGED <<flushing, published>>

Moves ==
    \/ UNCHANGED <<inmemtables, flushing, published>>
    \/ TakeFront \/ EraseFront \/ Insert \/ AddFull

\* The steps of the flush thread.
LEMMA FlusherMoves ==
    ASSUME TablesType, FlushInv, Flusher
    PROVE  /\ UNCHANGED <<memtable, full, closing, disk, get, puts, latest, lost>>
           /\ \/ UNCHANGED <<inmemtables, flushing, published>>
              \/ TakeFront \/ EraseFront \/ Insert
<1>1. UNCHANGED <<memtable, full, closing, disk, get, puts, latest, lost>>
  BY DEF Flusher, FlusherCheck, FlusherPark, FlusherFront, FlusherErase, ToSST, FlusherLoopEnd,
         FlusherTo, historyVars
<1>2. CASE FlusherCheck \/ FlusherPark \/ FlusherLoopEnd
  BY <1>1, <1>2 DEF FlusherCheck, FlusherPark, FlusherLoopEnd
<1>3. CASE FlusherFront
  BY <1>1, <1>3 DEF FlusherFront, TakeFront, FlushInv
<1>4. CASE FlusherErase
  BY <1>1, <1>4 DEF FlusherErase, EraseFront, FlushInv
<1>5. CASE ToSST
  BY <1>1, <1>5 DEF ToSST, Insert
<1>. QED
  BY <1>2, <1>3, <1>4, <1>5 DEF Flusher

\* An append that overlaps an erase is one of the two, or neither.
LEMMA RaceMoves ==
    ASSUME FlushInv, AppendMeetsErase(memtable), UNCHANGED <<flushing, published>>
    PROVE  Moves
BY DEF FlushInv, AppendMeetsErase, Moves, EraseFront, AddFull

\* The steps of a reader.
LEMMA GetLeaves ==
    ASSUME Get
    PROVE  UNCHANGED <<memtable, inmemtables, flushing, published, flusher, full, closing, disk,
                       puts, latest, lost>>
BY DEF Get, GetMemory, GetScan, GetUnlock, GetManifest, GetTo, tableVars, historyVars

\* A table that lookups reach stays within their reach.
LEMMA SeesKept ==
    ASSUME TablesType, Moves, NEW k \in Key, NEW v, v # NoValue, NEW n \in Nat, Sees(k, v, n)
    PROVE  Sees(k, v, n)'
<1>. USE DEF TablesType
<1>0. Len(inmemtables) \in Nat /\ Len(published) \in Nat
  BY LenProperties
<1>1. CASE UNCHANGED <<inmemtables, flushing, published>>
  BY <1>1 DEF Sees, InManifest
<1>2. CASE TakeFront
  <2>1. flushing[k] # v
    BY <1>2, EmptyIsTable DEF TakeFront
  <2>. QED
    BY <1>2, <2>1 DEF TakeFront, Sees, InManifest
<1>3. CASE EraseFront
  <2>1. /\ flushing = inmemtables[1] /\ Len(inmemtables') = Len(inmemtables) - 1
        /\ \A i \in 1..Len(inmemtables') : inmemtables'[i] = inmemtables[i + 1]
    BY <1>3, TailOf DEF EraseFront
  <2>2. CASE flushing[k] = v \/ InManifest(k, v)
    BY <1>3, <2>2 DEF EraseFront, Sees, InManifest
  <2>3. ASSUME NEW i \in 1..Len(inmemtables), i <= n, inmemtables[i][k] = v
        PROVE  Sees(k, v, n)'
    <3>1. CASE i = 1
      BY <1>3, <2>1, <2>3, <3>1 DEF EraseFront, Sees
    <3>2. CASE i # 1
      <4>1. i - 1 \in 1..Len(inmemtables') /\ i - 1 <= n /\ inmemtables'[i - 1] = inmemtables[i]
        BY <1>0, <2>1, <2>3, <3>2
      <4>. QED
        BY <2>3, <4>1 DEF Sees
    <3>. QED
      BY <3>1, <3>2
  <2>. QED
    BY <2>2, <2>3 DEF Sees
<1>4. CASE Insert
  <2>1. /\ Len(published') = Len(published) + 1
        /\ \A i \in 1..Len(published) : published'[i] = published[i]
        /\ published'[Len(published) + 1] = flushing
        /\ published' \in Seq(Table)
    BY <1>4, AppendOf DEF Insert
  <2>2. CASE flushing[k] = v
    <3>1. Len(published) + 1 \in DOMAIN published'
      BY <1>0, <2>1
    <3>. QED
      BY <2>1, <2>2, <3>1 DEF Sees, InManifest
  <2>3. CASE InManifest(k, v)
    <3>1. PICK i \in DOMAIN published : published[i][k] = v
      BY <2>3 DEF InManifest
    <3>2. i \in DOMAIN published' /\ published'[i] = published[i]
      BY <1>0, <2>1
    <3>. QED
      BY <3>1, <3>2 DEF Sees, InManifest
  <2>. QED
    BY <1>4, <2>2, <2>3 DEF Insert, Sees
<1>5. CASE AddFull
  <2>1. /\ Len(inmemtables') = Len(inmemtables) + 1
        /\ \A i \in 1..Len(inmemtables) : inmemtables'[i] = inmemtables[i]
    BY <1>5, AppendOf DEF AddFull
  <2>2. CASE flushing[k] = v \/ InManifest(k, v)
    BY <1>5, <2>2 DEF AddFull, Sees, InManifest
  <2>3. ASSUME NEW i \in 1..Len(inmemtables), i <= n, inmemtables[i][k] = v
        PROVE  Sees(k, v, n)'
    <3>1. i \in 1..Len(inmemtables') /\ inmemtables'[i] = inmemtables[i]
      BY <1>0, <2>1
    <3>. QED
      BY <2>3, <3>1 DEF Sees
  <2>. QED
    BY <2>2, <2>3 DEF Sees
<1>. QED
  BY <1>1, <1>2, <1>3, <1>4, <1>5 DEF Moves

-----------------------------------------------------------------------------
(***************************************************************************)
(* The invariant holds.                                                    *)
(***************************************************************************)

\* Moving tables around keeps the lists of tables.
LEMMA MovesTyped ==
    ASSUME TablesType, Moves
    PROVE  inmemtables' \in Seq(Table) /\ flushing' \in Table /\ published' \in Seq(Table)
<1>. USE DEF TablesType
<1>1. CASE UNCHANGED <<inmemtables, flushing, published>>
  BY <1>1
<1>2. CASE TakeFront
  BY <1>2, TailOf DEF TakeFront
<1>3. CASE EraseFront
  BY <1>3, TailOf DEF EraseFront
<1>4. CASE Insert
  BY <1>4, AppendOf, EmptyIsTable DEF Insert
<1>5. CASE AddFull
  BY <1>5, AppendOf DEF AddFull
<1>. QED
  BY <1>1, <1>2, <1>3, <1>4, <1>5 DEF Moves

\* A rotation, by Put or by the destructor.
LEMMA RotateMoves ==
    ASSUME TablesType, FlushInv, Rotate \/ CloseRotate
    PROVE  /\ Moves
           /\ UNCHANGED <<flushing, published, disk, get, puts, latest>>
           /\ flusher' \in FlusherState
           /\ lost' \subseteq 1..MaxPut /\ lost \subseteq lost'
           /\ lost' = lost \/ lost' = lost \cup Values(memtable)
           /\ ~ GetHasLock
<1>. USE DEF TablesType
<1>0. UNCHANGED <<flushing, published, disk, get, puts, latest>> /\ ~ GetHasLock
  BY DEF Rotate, CloseRotate, GetHasLock
<1>1. CASE AppendMeetsErase(memtable)
  <2>1. Moves
    BY <1>0, <1>1, RaceMoves
  <2>2. flusher' \in FlusherState /\ (lost' = lost \/ lost' = lost \cup Values(memtable))
    BY <1>1 DEF AppendMeetsErase, FlusherState
  <2>3. Values(memtable) \subseteq 1..MaxPut
    BY ValuesType
  <2>. QED
    BY <1>0, <2>1, <2>2, <2>3
<1>2. CASE Rotate /\ ~ AppendMeetsErase(memtable)
  <2>1. inmemtables' = Append(inmemtables, memtable) /\ flusher' = Notified /\ lost' = lost
    BY <1>2 DEF Rotate
  <2>2. Moves
    BY <1>0, <2>1 DEF Moves, AddFull
  <2>3. flusher' \in FlusherState
    BY <2>1 DEF Notified, FlusherState
  <2>. QED
    BY <1>0, <2>1, <2>2, <2>3
<1>3. CASE CloseRotate /\ ~ AppendMeetsErase(memtable)
  <2>1. /\ inmemtables' = inmemtables \/ inmemtables' = Append(inmemtables, memtable)
        /\ UNCHANGED <<flusher, lost>>
    BY <1>3 DEF CloseRotate
  <2>2. Moves
    BY <1>0, <2>1 DEF Moves, AddFull
  <2>. QED
    BY <1>0, <2>1, <2>2
<1>. QED
  BY <1>1, <1>2, <1>3

\* Types.
LEMMA TypesStep ==
    ASSUME TablesType, FlushInv, [DbNext]_dbVars
    PROVE  TablesType'
<1>. USE DEF TablesType
<1>0. puts \in Nat /\ MaxPut \in Nat
  BY DbAssumption
<1>1. CASE UNCHANGED dbVars
  BY <1>1 DEF dbVars, tableVars, historyVars
<1>2. ASSUME NEW k \in Key, Put(k) PROVE TablesType'
  <2>1. puts' = puts + 1 /\ puts' \in 0..MaxPut
    BY <1>0, <1>2 DEF Put
  <2>2. memtable' \in Table /\ latest' \in Table
    BY <1>2, <2>1 DEF Put, Table
  <2>. QED
    BY <1>2, <2>1, <2>2 DEF Put
<1>3. CASE Rotate \/ CloseRotate
  <2>1. memtable' \in Table /\ closing' \in {"no", "rotated", "stopped"}
    BY <1>3, EmptyIsTable DEF Rotate, CloseRotate
  <2>. QED
    BY <1>3, <2>1, RotateMoves, MovesTyped
<1>4. CASE Flusher
  <2>1. flusher' \in FlusherState
    BY <1>4 DEF Flusher, FlusherCheck, FlusherPark, FlusherFront, FlusherErase, ToSST, FlusherLoopEnd,
       FlusherTo, FlusherState
  <2>2. Moves
    BY <1>4, FlusherMoves DEF Moves
  <2>. QED
    BY <1>4, <2>1, <2>2, FlusherMoves, MovesTyped
<1>5. CASE Get
  <2>1. ASSUME NEW stage \in {"idle", "scanning", "missed", "hit", "manifest", "absent"},
               NEW at \in Nat, NEW v \in 0..MaxPut, GetTo(stage, at, v)
        PROVE  get' \in GetState
    BY <2>1 DEF GetTo, GetState
  <2>2. ASSUME NEW k \in Key, GetMemory(k) PROVE get' \in GetState
    <3>1. Len(inmemtables) \in Nat /\ memtable[k] \in 0..MaxPut /\ latest[k] \in 0..MaxPut
      BY LenProperties DEF Table
    <3>. QED
      BY <2>2, <3>1 DEF GetMemory, GetState
  <2>3. ASSUME GetScan PROVE get' \in GetState
    <3>0. get.key \in Key /\ get.at \in Nat /\ get.at > 0 /\ get.at - 1 \in Nat /\ NoValue \in 0..MaxPut
      BY <1>0, <2>3 DEF GetScan, GetState, NoValue
    <3>1. PICK v \in IF get.at <= Len(inmemtables) THEN {inmemtables[get.at][get.key]}
                ELSE {NoValue} \cup (IF inmemtables = <<>> THEN {flushing[get.key]} ELSE {}) :
             GetTo("scanning", get.at - 1, NoValue) \/ GetTo("hit", get.at, v)
      BY <2>3 DEF GetScan
    <3>2. get.at <= Len(inmemtables) => inmemtables[get.at] \in Table
      BY <3>0, LenProperties
    <3>3. v \in 0..MaxPut
      BY <3>0, <3>1, <3>2 DEF Table
    <3>. QED
      BY <2>1, <3>0, <3>1, <3>3
  <2>4. ASSUME GetUnlock PROVE get' \in GetState
    BY <1>0, <2>1, <2>4 DEF GetUnlock, NoValue
  <2>5. ASSUME GetManifest PROVE get' \in GetState
    BY <1>0, <2>1, <2>5 DEF GetManifest, NoValue
  <2>6. get' \in GetState
    BY <1>5, <2>2, <2>3, <2>4, <2>5 DEF Get
  <2>. QED
    BY <1>5, <2>6, GetLeaves
<1>6. CASE CloseStop
  BY <1>6 DEF CloseStop, Notified, FlusherState, tableVars, historyVars
<1>7. ASSUME NEW saved \in Seq(Table), StartFrom(saved), disk' \in Seq(Table) PROVE TablesType'
  <2>1. get' \in GetState
    BY <1>7 DEF StartFrom, GetState
  <2>2. <<>> \in Seq(Table) /\ "check" \in FlusherState
    BY DEF FlusherState
  <2>. QED
    BY <1>7, <2>1, <2>2, EmptyIsTable DEF StartFrom
<1>8. CASE CloseSave \/ Kill
  BY <1>7, <1>8 DEF CloseSave, Kill
<1>. QED
  BY <1>1, <1>2, <1>3, <1>4, <1>5, <1>6, <1>8 DEF DbNext, Close

\* The flush thread and its table.
LEMMA FlushStep ==
    ASSUME TablesType, FlushInv, [DbNext]_dbVars
    PROVE  FlushInv'
<1>. USE DEF FlushInv, TablesType
<1>1. CASE UNCHANGED dbVars
  BY <1>1 DEF dbVars, tableVars
<1>2. ASSUME NEW k \in Key, Put(k) PROVE FlushInv'
  BY <1>2 DEF Put
<1>3. CASE Rotate \/ CloseRotate
  <2>1. flushing' = flushing /\ closing # "stopped" /\ (closing' # "no" => full' = FALSE)
    BY <1>3 DEF Rotate, CloseRotate
  <2>2. CASE AppendMeetsErase(memtable)
    BY <2>1, <2>2 DEF AppendMeetsErase
  <2>3. CASE /\ inmemtables' = inmemtables \/ inmemtables' = Append(inmemtables, memtable)
             /\ flusher' = flusher \/ (flusher = "blocked" /\ flusher' = "check")
    <3>1. inmemtables # <<>> => inmemtables' # <<>> /\ Head(inmemtables') = Head(inmemtables)
      <4>1. CASE inmemtables' = inmemtables
        BY <4>1
      <4>2. ASSUME inmemtables' = Append(inmemtables, memtable), inmemtables # <<>>
            PROVE  inmemtables' # <<>> /\ Head(inmemtables') = Head(inmemtables)
        BY <4>2, AppendOf, TailOf
      <4>. QED
        BY <2>3, <4>1, <4>2
    <3>. QED
      BY <2>1, <2>3, <3>1
  <2>. QED
    BY <1>3, <2>2, <2>3 DEF Rotate, CloseRotate, Notified
<1>4. CASE Flusher
  <2>1. UNCHANGED <<full, closing>>
    BY <1>4, FlusherMoves
  <2>2. CASE FlusherCheck
    BY <2>1, <2>2 DEF FlusherCheck, FlusherTo
  <2>3. CASE FlusherPark \/ FlusherLoopEnd
    BY <2>1, <2>3 DEF FlusherPark, FlusherLoopEnd, FlusherTo
  <2>4. CASE FlusherFront
    BY <2>1, <2>4 DEF FlusherFront, FlusherTo
  <2>5. CASE FlusherErase
    BY <2>1, <2>5 DEF FlusherErase, FlusherTo
  <2>6. CASE ToSST
    BY <2>1, <2>6 DEF ToSST, FlusherTo
  <2>. QED
    BY <1>4, <2>2, <2>3, <2>4, <2>5, <2>6 DEF Flusher
<1>5. CASE Get
  BY <1>5, GetLeaves
<1>6. CASE CloseStop
  BY <1>6 DEF CloseStop, Notified, tableVars
<1>7. CASE CloseSave \/ Kill
  BY <1>7 DEF CloseSave, Kill, StartFrom
<1>. QED
  BY <1>1, <1>2, <1>3, <1>4, <1>5, <1>6, <1>7 DEF DbNext, Close

\* Nothing is above or below the empty table; every table is below itself.
LEMMA BelowFacts ==
    ASSUME NEW t \in Table
    PROVE  Below(t, t) /\ Below(EmptyTable, t) /\ Below(t, EmptyTable)
BY EmptyIsTable, DbAssumption DEF Below, Table, NoValue

\* The order of the tables, as a function of them.
Ordered(m, l, f, p, n) ==
    /\ Known(m, n) /\ Known(f, n) /\ Below(f, m)
    /\ \A i \in 1..Len(l) :
          /\ Known(l[i], n)
          /\ Below(l[i], m) /\ Below(f, l[i])
          /\ \A j \in i..Len(l) : Below(l[i], l[j])
    /\ \A q \in 1..Len(p) :
          /\ Known(p[q], n)
          /\ Below(p[q], m) /\ Below(p[q], f)
          /\ \A i \in 1..Len(l) : Below(p[q], l[i])

\* Moving the full tables keeps them in order.
LEMMA MovesOrdered ==
    ASSUME TablesType, Moves, Ordered(memtable, inmemtables, flushing, published, puts)
    PROVE  Ordered(memtable, inmemtables', flushing', published', puts)
<1>. USE DEF TablesType
<1>0. Len(inmemtables) \in Nat /\ Len(published) \in Nat /\ puts \in Nat
  BY LenProperties, DbAssumption
<1>1. CASE UNCHANGED <<inmemtables, flushing, published>>
  BY <1>1
<1>2. CASE TakeFront
  <2>1. flushing' = inmemtables[1] /\ 1 \in 1..Len(inmemtables)
    BY <1>0, <1>2, TailOf DEF TakeFront
  <2>. QED
    BY <1>0, <1>2, <2>1 DEF TakeFront, Ordered
<1>3. CASE EraseFront
  <2>1. /\ Len(inmemtables') = Len(inmemtables) - 1
        /\ \A i \in 1..Len(inmemtables') : inmemtables'[i] = inmemtables[i + 1]
    BY <1>3, TailOf DEF EraseFront
  <2>2. \A i \in 1..Len(inmemtables') :
          /\ Known(inmemtables'[i], puts)
          /\ Below(inmemtables'[i], memtable) /\ Below(flushing, inmemtables'[i])
    <3>. TAKE i \in 1..Len(inmemtables')
    <3>1. i + 1 \in 1..Len(inmemtables) /\ inmemtables'[i] = inmemtables[i + 1]
      BY <1>0, <2>1
    <3>. QED
      BY <3>1 DEF Ordered
  <2>3. \A i \in 1..Len(inmemtables') : \A j \in i..Len(inmemtables') :
            Below(inmemtables'[i], inmemtables'[j])
    <3>. TAKE i \in 1..Len(inmemtables')
    <3>. TAKE j \in i..Len(inmemtables')
    <3>1. /\ i + 1 \in 1..Len(inmemtables) /\ j + 1 \in (i + 1)..Len(inmemtables)
          /\ inmemtables'[i] = inmemtables[i + 1] /\ inmemtables'[j] = inmemtables[j + 1]
      BY <1>0, <2>1
    <3>. QED
      BY <3>1 DEF Ordered
  <2>4. \A q \in 1..Len(published) : \A i \in 1..Len(inmemtables') : Below(published[q], inmemtables'[i])
    <3>. TAKE q \in 1..Len(published)
    <3>. TAKE i \in 1..Len(inmemtables')
    <3>1. i + 1 \in 1..Len(inmemtables) /\ inmemtables'[i] = inmemtables[i + 1]
      BY <1>0, <2>1
    <3>. QED
      BY <3>1 DEF Ordered
  <2>5. flushing' = flushing /\ published' = published
    BY <1>3 DEF EraseFront
  <2>. QED
    BY <2>2, <2>3, <2>4, <2>5 DEF Ordered
<1>4. CASE Insert
  <2>1. /\ Len(published') = Len(published) + 1
        /\ \A i \in 1..Len(published) : published'[i] = published[i]
        /\ published'[Len(published) + 1] = flushing
    BY <1>4, AppendOf DEF Insert
  <2>2. \A q \in 1..Len(published') : q \in 1..Len(published) \/ q = Len(published) + 1
    BY <1>0, <2>1
  <2>3. \A q \in 1..Len(published') : published'[q] = flushing \/
          \E r \in 1..Len(published) : published'[q] = published[r]
    BY <2>1, <2>2
  <2>4. \A q \in 1..Len(published') : published'[q] \in Table
    BY <2>3, LenProperties
  <2>5. \A q \in 1..Len(published') :
          /\ Known(published'[q], puts)
          /\ Below(published'[q], memtable) /\ Below(published'[q], EmptyTable)
          /\ \A i \in 1..Len(inmemtables) : Below(published'[q], inmemtables[i])
    BY <2>3, <2>4, BelowFacts DEF Ordered
  <2>6. Known(EmptyTable, puts)
    BY <1>0, EmptyIsTable DEF Known, NoValue
  <2>7. Below(EmptyTable, memtable) /\ \A i \in 1..Len(inmemtables) : Below(EmptyTable, inmemtables[i])
    BY BelowFacts, LenProperties
  <2>8. flushing' = EmptyTable /\ inmemtables' = inmemtables
    BY <1>4 DEF Insert
  <2>. QED
    BY <2>5, <2>6, <2>7, <2>8 DEF Ordered
<1>5. CASE AddFull
  <2>. DEFINE n == Len(inmemtables)
  <2>1. /\ Len(inmemtables') = n + 1
        /\ \A i \in 1..n : inmemtables'[i] = inmemtables[i]
        /\ inmemtables'[n + 1] = memtable
    BY <1>5, AppendOf DEF AddFull
  <2>2. Below(memtable, memtable)
    BY BelowFacts
  <2>3. \A i \in 1..(n + 1) :
          /\ Known(inmemtables'[i], puts)
          /\ Below(inmemtables'[i], memtable) /\ Below(flushing, inmemtables'[i])
    <3>. TAKE i \in 1..(n + 1)
    <3>1. CASE i \in 1..n
      BY <2>1, <3>1 DEF Ordered
    <3>2. CASE i = n + 1
      BY <2>1, <2>2, <3>2 DEF Ordered
    <3>. QED
      BY <1>0, <3>1, <3>2
  <2>4. \A i \in 1..(n + 1) : \A j \in i..(n + 1) : Below(inmemtables'[i], inmemtables'[j])
    <3>. TAKE i \in 1..(n + 1)
    <3>. TAKE j \in i..(n + 1)
    <3>1. CASE j = n + 1
      BY <2>1, <2>3, <3>1
    <3>2. CASE j # n + 1
      <4>1. i \in 1..n /\ j \in i..n /\ j \in 1..n
        BY <1>0, <3>2
      <4>. QED
        BY <2>1, <4>1 DEF Ordered
    <3>. QED
      BY <3>1, <3>2
  <2>5. \A q \in 1..Len(published) : \A i \in 1..(n + 1) : Below(published[q], inmemtables'[i])
    <3>. TAKE q \in 1..Len(published)
    <3>. TAKE i \in 1..(n + 1)
    <3>1. CASE i \in 1..n
      BY <2>1, <3>1 DEF Ordered
    <3>2. CASE i = n + 1
      BY <2>1, <3>2 DEF Ordered
    <3>. QED
      BY <1>0, <3>1, <3>2
  <2>6. flushing' = flushing /\ published' = published
    BY <1>5 DEF AddFull
  <2>. HIDE DEF n
  <2>. QED
    BY <2>1, <2>3, <2>4, <2>5, <2>6 DEF Ordered
<1>. QED
  BY <1>1, <1>2, <1>3, <1>4, <1>5 DEF Moves

\* The active table is replaced by a new one.
LEMMA FreshOrdered ==
    ASSUME NEW l \in Seq(Table), NEW f \in Table, NEW p \in Seq(Table), NEW m, NEW n \in Nat,
           Ordered(m, l, f, p, n)
    PROVE  Ordered(EmptyTable, l, f, p, n)
<1>1. Known(EmptyTable, n)
  BY EmptyIsTable DEF Known, NoValue
<1>2. Below(f, EmptyTable) /\ (\A i \in 1..Len(l) : Below(l[i], EmptyTable))
      /\ \A q \in 1..Len(p) : Below(p[q], EmptyTable)
  BY BelowFacts, LenProperties
<1>. QED
  BY <1>1, <1>2 DEF Ordered

\* A put is newer than everything else.
LEMMA PutOrdered ==
    ASSUME TablesType, NEW k \in Key, Put(k),
           Ordered(memtable, inmemtables, flushing, published, puts)
    PROVE  Ordered(memtable', inmemtables, flushing, published, puts')
<1>. USE DEF TablesType
<1>0. puts \in Nat /\ puts' = puts + 1 /\ memtable' = [memtable EXCEPT ![k] = puts']
  BY DbAssumption DEF Put
<1>1. ASSUME NEW t \in Table, Known(t, puts) PROVE Known(t, puts')
  <2>1. \A j \in Key : t[j] \in Nat /\ t[j] <= puts
    BY <1>1, DbAssumption DEF Known, Table
  <2>2. \A j \in Key : t[j] <= puts'
    BY <1>0, <2>1
  <2>. QED
    BY <2>2 DEF Known
<1>2. ASSUME NEW t \in Table, Known(t, puts), Below(t, memtable) PROVE Below(t, memtable')
  <2>. SUFFICES ASSUME NEW j \in Key, t[j] # NoValue, memtable'[j] # NoValue PROVE t[j] <= memtable'[j]
    BY DEF Below
  <2>1. CASE j = k
    BY <1>0, <1>2, <2>1 DEF Known, Table
  <2>2. CASE j # k
    BY <1>0, <1>2, <2>2 DEF Below, Table
  <2>. QED
    BY <2>1, <2>2
<1>3. Known(memtable', puts')
  <2>1. \A j \in Key : memtable[j] \in 0..MaxPut
    BY DEF Table
  <2>2. \A j \in Key : memtable[j] <= puts
    BY DEF Known, Ordered
  <2>3. \A j \in Key : memtable'[j] = IF j = k THEN puts' ELSE memtable[j]
    BY <1>0 DEF Table
  <2>4. \A j \in Key : memtable'[j] <= puts'
    BY <1>0, <2>1, <2>2, <2>3, DbAssumption
  <2>. QED
    BY <2>4 DEF Known
<1>4. /\ \A i \in 1..Len(inmemtables) : inmemtables[i] \in Table
      /\ \A q \in 1..Len(published) : published[q] \in Table
  BY LenProperties
<1>. QED
  BY <1>1, <1>2, <1>3, <1>4 DEF Ordered

\* Every step keeps the tables in order.
LEMMA OrderStep ==
    ASSUME TablesType, FlushInv, OrderInv, [DbNext]_dbVars
    PROVE  OrderInv'
<1>. DEFINE DiskKnown == \A p \in 1..Len(disk) : Known(disk[p], puts)
<1>0. Ordered(memtable, inmemtables, flushing, published, puts) /\ DiskKnown
  BY DEF OrderInv, Ordered
<1>. SUFFICES Ordered(memtable', inmemtables', flushing', published', puts') /\ DiskKnown'
  BY DEF OrderInv, Ordered
<1>a. puts \in Nat /\ memtable \in Table /\ flushing \in Table
      /\ inmemtables \in Seq(Table) /\ published \in Seq(Table) /\ disk \in Seq(Table)
  BY DbAssumption DEF TablesType
<1>1. CASE UNCHANGED <<memtable, inmemtables, flushing, published, puts, disk>>
  BY <1>0, <1>1
<1>2. ASSUME NEW k \in Key, Put(k)
      PROVE  Ordered(memtable', inmemtables', flushing', published', puts') /\ DiskKnown'
  <2>1. UNCHANGED <<inmemtables, flushing, published, disk>> /\ puts' = puts + 1
    BY <1>2 DEF Put
  <2>2. DiskKnown'
    <3>. SUFFICES ASSUME NEW p \in 1..Len(disk) PROVE Known(disk[p], puts')
      BY <2>1
    <3>1. disk[p] \in Table /\ Known(disk[p], puts)
      BY <1>0, <1>a, LenProperties
    <3>. QED
      BY <1>a, <2>1, <3>1 DEF Known, Table
  <2>. QED
    BY <1>0, <1>2, <2>1, <2>2, PutOrdered
<1>3. CASE Rotate \/ CloseRotate
  <2>1. Ordered(memtable, inmemtables', flushing', published', puts)
    BY <1>0, <1>3, RotateMoves, MovesOrdered
  <2>2. /\ inmemtables' \in Seq(Table) /\ flushing' \in Table /\ published' \in Seq(Table)
        /\ UNCHANGED <<puts, disk>>
    BY <1>3, RotateMoves, MovesTyped
  <2>3. memtable' = EmptyTable \/ memtable' = memtable
    BY <1>3 DEF Rotate, CloseRotate
  <2>4. Ordered(EmptyTable, inmemtables', flushing', published', puts)
    BY <1>a, <2>1, <2>2, FreshOrdered
  <2>. QED
    BY <1>0, <2>1, <2>2, <2>3, <2>4
<1>4. CASE Flusher
  <2>1. Moves /\ UNCHANGED <<memtable, disk, puts>>
    BY <1>4, FlusherMoves DEF Moves
  <2>. QED
    BY <1>0, <2>1, MovesOrdered
<1>5. CASE Get
  BY <1>1, <1>5, GetLeaves
<1>6. CASE CloseStop \/ UNCHANGED dbVars
  BY <1>1, <1>6 DEF CloseStop, dbVars, tableVars, historyVars
<1>7. ASSUME NEW saved \in Seq(Table), StartFrom(saved), disk' = saved,
             \A p \in 1..Len(saved) : Known(saved[p], puts)
      PROVE  Ordered(memtable', inmemtables', flushing', published', puts') /\ DiskKnown'
  <2>1. /\ memtable' = EmptyTable /\ inmemtables' = <<>> /\ flushing' = EmptyTable
        /\ published' = saved /\ puts' = puts
    BY <1>7 DEF StartFrom
  <2>2. Known(EmptyTable, puts) /\ Below(EmptyTable, EmptyTable)
    BY <1>a, EmptyIsTable, BelowFacts DEF Known, NoValue
  <2>3. \A q \in 1..Len(saved) : Below(saved[q], EmptyTable)
    BY BelowFacts, LenProperties
  <2>4. Len(<<>>) = 0
    OBVIOUS
  <2>. QED
    BY <1>7, <2>1, <2>2, <2>3, <2>4 DEF Ordered
<1>8. CASE CloseSave
  BY <1>0, <1>a, <1>7, <1>8 DEF CloseSave, Ordered
<1>9. CASE Kill
  BY <1>0, <1>a, <1>7, <1>9 DEF Kill
<1>. HIDE DEF DiskKnown
<1>. QED
  BY <1>2, <1>3, <1>4, <1>5, <1>6, <1>8, <1>9 DEF DbNext, Close

\* Put and Get leave the full tables alone.
LEMMA Still ==
    ASSUME UNCHANGED <<inmemtables, flushing, published>>
    PROVE  Moves
BY DEF Moves

\* The last put of each key stays somewhere, or the race drops it.
LEMMA LatestStep ==
    ASSUME TablesType, FlushInv, LatestInv, [DbNext]_dbVars
    PROVE  LatestInv'
<1>. DEFINE At(k) == memtable[k] = latest[k] \/ \E n \in Nat : Sees(k, latest[k], n)
            Kept(k) == latest[k] \notin lost \cup {NoValue} => At(k)
<1>0. \A k \in Key : Kept(k)
  BY DEF LatestInv
<1>. SUFFICES ASSUME NEW k \in Key, latest'[k] \notin lost' \cup {NoValue} PROVE At(k)'
  BY DEF LatestInv
<1>1. ASSUME Moves, UNCHANGED <<memtable, latest>>, lost \subseteq lost' PROVE At(k)'
  <2>1. At(k)
    BY <1>0, <1>1
  <2>2. ASSUME NEW n \in Nat, Sees(k, latest[k], n) PROVE At(k)'
    BY <1>1, <2>2, SeesKept
  <2>. QED
    BY <1>1, <2>1, <2>2
<1>2. ASSUME NEW j \in Key, Put(j) PROVE At(k)'
  <2>1. /\ Moves /\ lost' = lost
        /\ memtable' = [memtable EXCEPT ![j] = puts'] /\ latest' = [latest EXCEPT ![j] = puts']
    BY <1>2, Still DEF Put
  <2>2. CASE j = k
    BY <2>1, <2>2 DEF TablesType, Table
  <2>3. CASE j # k
    <3>1. memtable'[k] = memtable[k] /\ latest'[k] = latest[k]
      BY <2>1, <2>3 DEF TablesType, Table
    <3>2. At(k)
      BY <1>0, <2>1, <3>1
    <3>3. ASSUME NEW n \in Nat, Sees(k, latest[k], n) PROVE At(k)'
      BY <2>1, <3>1, <3>3, SeesKept
    <3>. QED
      BY <3>1, <3>2, <3>3
  <2>. QED
    BY <2>2, <2>3
<1>3. CASE Rotate
  <2>1. /\ Moves /\ latest' = latest /\ lost \subseteq lost'
    BY <1>3, RotateMoves
  <2>2. At(k)
    BY <1>0, <2>1
  <2>3. ASSUME NEW n \in Nat, Sees(k, latest[k], n) PROVE At(k)'
    BY <2>1, <2>3, SeesKept
  <2>4. CASE memtable[k] = latest[k]
    <3>1. latest[k] \in Values(memtable)
      BY <2>1, <2>4 DEF Values
    <3>2. inmemtables' = Append(inmemtables, memtable)
      BY <1>3, <2>1, <3>1 DEF Rotate, AppendMeetsErase
    <3>. DEFINE n == Len(inmemtables) + 1
    <3>3. n \in Nat /\ n \in 1..Len(inmemtables') /\ inmemtables'[n] = memtable
      BY <3>2, AppendOf DEF TablesType
    <3>. HIDE DEF n
    <3>. QED
      BY <2>1, <2>4, <3>3 DEF Sees
  <2>. QED
    BY <2>2, <2>3, <2>4
<1>4. CASE CloseRotate
  BY <1>1, <1>4, RotateMoves DEF CloseRotate
<1>5. CASE Flusher
  BY <1>1, <1>5, FlusherMoves DEF Moves
<1>6. CASE Get
  BY <1>1, <1>6, GetLeaves, Still
<1>7. CASE CloseStop \/ UNCHANGED dbVars
  BY <1>1, <1>7, Still DEF CloseStop, dbVars, tableVars, historyVars
<1>8. CASE CloseSave \/ Kill
  <2>1. latest'[k] = NoValue
    BY <1>8, EmptyIsTable DEF CloseSave, Kill, StartFrom
  <2>. QED
    BY <2>1
<1>. HIDE DEF At, Kept
<1>. QED
  BY <1>2, <1>3, <1>4, <1>5, <1>6, <1>7, <1>8 DEF DbNext, Close

\* What a lookup can still reach is not newer than the table it looks into.
LEMMA SeenBelow ==
    ASSUME TablesType, OrderInv, NEW k \in Key, NEW v, v # NoValue, NEW n \in Nat, Sees(k, v, n)
    PROVE  /\ memtable[k] # NoValue => v <= memtable[k]
           /\ n \in 1..Len(inmemtables) /\ inmemtables[n][k] # NoValue => v <= inmemtables[n][k]
           /\ inmemtables = <<>> /\ flushing[k] # NoValue => v <= flushing[k]
<1>. USE DEF TablesType
<1>0. Len(inmemtables) \in Nat /\ flushing[k] \in Nat
  BY LenProperties, DbAssumption DEF Table
<1>1. CASE flushing[k] = v
  BY <1>0, <1>1 DEF OrderInv, Below
<1>2. CASE InManifest(k, v)
  <2>1. PICK p \in 1..Len(published) : published[p][k] = v
    BY <1>2, LenProperties DEF InManifest
  <2>. QED
    BY <2>1 DEF OrderInv, Below
<1>3. ASSUME NEW i \in 1..Len(inmemtables), i <= n, inmemtables[i][k] = v
      PROVE  /\ memtable[k] # NoValue => v <= memtable[k]
             /\ n \in 1..Len(inmemtables) /\ inmemtables[n][k] # NoValue => v <= inmemtables[n][k]
             /\ inmemtables = <<>> /\ flushing[k] # NoValue => v <= flushing[k]
  <2>1. n \in 1..Len(inmemtables) => n \in i..Len(inmemtables)
    BY <1>0, <1>3
  <2>2. inmemtables # <<>>
    BY <1>0
  <2>3. Below(inmemtables[i], memtable) /\ (n \in 1..Len(inmemtables) => Below(inmemtables[i], inmemtables[n]))
    BY <2>1 DEF OrderInv
  <2>. QED
    BY <1>3, <2>2, <2>3 DEF Below
<1>. QED
  BY <1>1, <1>2, <1>3 DEF Sees

\* What ReadsLatest asks of a reader that has left the memtables.
LEMMA SeesNone ==
    ASSUME NEW k, NEW v
    PROVE  Sees(k, v, 0) <=> flushing[k] = v \/ InManifest(k, v)
BY DEF Sees

\* A reader never overlooks the last put.
LEMMA GetStep ==
    ASSUME DbInv, [DbNext]_dbVars
    PROVE  GetInv'
<1>0. TablesType /\ FlushInv /\ OrderInv /\ LatestInv /\ GetInv
  BY DEF DbInv
<1>a. get \in GetState /\ get.key \in Key /\ get.at \in Nat /\ get.since \in Nat /\ NoValue = 0
  BY <1>0, DbAssumption DEF TablesType, GetState, NoValue
<1>1. ASSUME Moves, get' = get, lost \subseteq lost', ~ GetHasLock \/ lost' = lost PROVE GetInv'
  <2>. SUFFICES ASSUME get.since \notin lost' \cup {NoValue}
                PROVE  /\ get.stage = "scanning" => Sees(get.key, get.since, get.at)'
                       /\ get.stage = "hit" => get.value >= get.since
                       /\ get.stage \in {"missed", "absent"} =>
                             Sees(get.key, get.since, 0)'
    BY <1>1, SeesNone DEF GetInv, ReadsLatest, Sees
  <2>1. get.since \notin lost \cup {NoValue}
    BY <1>1
  <2>2. get.stage = "scanning" => Sees(get.key, get.since, get.at)'
    <3>1. get.stage = "scanning" => Sees(get.key, get.since, get.at)
      BY <1>0, <2>1 DEF GetInv
    <3>. QED
      BY <1>0, <1>1, <1>a, <2>1, <3>1, SeesKept
  <2>3. get.stage \in {"missed", "absent"} => Sees(get.key, get.since, 0)'
    <3>1. get.stage \in {"missed", "absent"} => Sees(get.key, get.since, 0)
      BY <1>0, <2>1, SeesNone DEF GetInv, ReadsLatest
    <3>. QED
      BY <1>0, <1>1, <1>a, <2>1, <3>1, SeesKept
  <2>. QED
    BY <1>0, <2>1, <2>2, <2>3 DEF GetInv, ReadsLatest
<1>2. ASSUME NEW k \in Key, Put(k) PROVE GetInv'
  BY <1>1, <1>2, Still DEF Put
<1>3. CASE Rotate \/ CloseRotate
  BY <1>0, <1>1, <1>3, RotateMoves
<1>4. CASE Flusher
  BY <1>0, <1>1, <1>4, FlusherMoves DEF Moves
<1>5. CASE CloseStop \/ UNCHANGED dbVars
  BY <1>1, <1>5, Still DEF CloseStop, dbVars, tableVars, historyVars
<1>6. CASE CloseSave \/ Kill
  <2>1. get'.stage = "idle"
    BY <1>6, <1>a DEF CloseSave, Kill, StartFrom, GetState
  <2>. QED
    BY <2>1 DEF GetInv, ReadsLatest
<1>7. ASSUME NEW k \in Key, GetMemory(k) PROVE GetInv'
  <2>1. /\ get'.stage = IF memtable[k] = NoValue THEN "scanning" ELSE "hit"
        /\ get'.key = k /\ get'.at = Len(inmemtables) /\ get'.value = memtable[k]
        /\ get'.since = latest[k]
        /\ UNCHANGED <<memtable, inmemtables, flushing, published, latest, lost>>
    BY <1>7 DEF GetMemory, tableVars, historyVars
  <2>2. Len(inmemtables) \in Nat /\ memtable[k] \in Nat /\ latest[k] \in Nat
    BY <1>0, LenProperties, DbAssumption DEF TablesType, Table
  <2>3. ASSUME latest[k] \notin lost \cup {NoValue}
        PROVE  /\ memtable[k] # NoValue => memtable[k] >= latest[k]
               /\ memtable[k] = NoValue => Sees(k, latest[k], Len(inmemtables))
    <3>1. CASE memtable[k] = latest[k]
      BY <2>2, <2>3, <3>1
    <3>2. ASSUME NEW n \in Nat, Sees(k, latest[k], n)
          PROVE  /\ memtable[k] # NoValue => memtable[k] >= latest[k]
                 /\ memtable[k] = NoValue => Sees(k, latest[k], Len(inmemtables))
      <4>1. memtable[k] # NoValue => latest[k] <= memtable[k]
        BY <1>0, <2>3, <3>2, SeenBelow
      <4>2. Sees(k, latest[k], Len(inmemtables))
        BY <2>2, <3>2 DEF Sees
      <4>. QED
        BY <2>2, <4>1, <4>2
    <3>. QED
      BY <1>0, <2>3, <3>1, <3>2 DEF LatestInv
  <2>. QED
    BY <2>1, <2>3 DEF GetInv, ReadsLatest, Sees, InManifest
<1>8. ASSUME NEW stage, NEW at \in Nat, NEW v, GetTo(stage, at, v)
      PROVE  /\ get'.stage = stage /\ get'.at = at /\ get'.value = v
             /\ get'.key = get.key /\ get'.since = get.since
             /\ UNCHANGED <<inmemtables, flushing, published, lost>>
  BY <1>8, <1>a DEF GetTo, GetState, tableVars, historyVars
<1>9. CASE GetScan
  <2>0. get.stage = "scanning" /\ get.at > 0 /\ get.at - 1 \in Nat
    BY <1>9, <1>a DEF GetScan
  <2>1. PICK v \in IF get.at <= Len(inmemtables) THEN {inmemtables[get.at][get.key]}
                ELSE {NoValue} \cup (IF inmemtables = <<>> THEN {flushing[get.key]} ELSE {}) :
          IF v = NoValue THEN GetTo("scanning", get.at - 1, NoValue) ELSE GetTo("hit", get.at, v)
    BY <1>9 DEF GetScan
  <2>2. Len(inmemtables) \in Nat
    BY <1>0, LenProperties DEF TablesType
  <2>3. CASE v = NoValue
    <3>1. /\ get'.stage = "scanning" /\ get'.at = get.at - 1
          /\ get'.key = get.key /\ get'.since = get.since
          /\ UNCHANGED <<inmemtables, flushing, published, lost>>
      BY <1>8, <2>0, <2>1, <2>3
    <3>2. ASSUME get.since \notin lost \cup {NoValue}, Sees(get.key, get.since, get.at)
          PROVE  Sees(get.key, get.since, get.at - 1)
      <4>1. ASSUME NEW i \in 1..Len(inmemtables), i <= get.at, inmemtables[i][get.key] = get.since
            PROVE  i <= get.at - 1
        <5>1. CASE i = get.at
          <6>1. v = inmemtables[get.at][get.key]
            BY <1>a, <2>1, <2>2, <5>1
          <6>. QED
            BY <2>3, <3>2, <4>1, <5>1, <6>1
        <5>2. CASE i # get.at
          BY <1>a, <4>1, <5>2
        <5>. QED
          BY <5>1, <5>2
      <4>2. CASE flushing[get.key] = get.since \/ InManifest(get.key, get.since)
        BY <4>2 DEF Sees
      <4>3. ASSUME NEW i \in 1..Len(inmemtables), i <= get.at, inmemtables[i][get.key] = get.since
            PROVE  Sees(get.key, get.since, get.at - 1)
        BY <4>1, <4>3 DEF Sees
      <4>. QED
        BY <3>2, <4>2, <4>3 DEF Sees
    <3>. QED
      BY <1>0, <2>0, <3>1, <3>2 DEF GetInv, ReadsLatest, Sees, InManifest
  <2>4. CASE v # NoValue
    <3>1. /\ get'.stage = "hit" /\ get'.value = v
          /\ get'.key = get.key /\ get'.since = get.since
          /\ UNCHANGED <<inmemtables, flushing, published, lost>>
      BY <1>8, <1>a, <2>1, <2>4
    <3>2. ASSUME get.since \notin lost \cup {NoValue} PROVE v >= get.since
      <4>1. Sees(get.key, get.since, get.at)
        BY <1>0, <2>0, <3>2 DEF GetInv
      <4>2. get.since <= v
        <5>1. CASE get.at <= Len(inmemtables)
          <6>1. v = inmemtables[get.at][get.key] /\ get.at \in 1..Len(inmemtables)
            BY <1>a, <2>0, <2>1, <2>2, <5>1
          <6>. QED
            BY <1>0, <1>a, <2>4, <3>2, <4>1, <6>1, SeenBelow
        <5>2. CASE ~ (get.at <= Len(inmemtables))
          <6>1. inmemtables = <<>> /\ v = flushing[get.key]
            BY <2>1, <2>4, <5>2
          <6>. QED
            BY <1>0, <1>a, <2>4, <3>2, <4>1, <6>1, SeenBelow
        <5>. QED
          BY <5>1, <5>2
      <4>3. v \in Nat
        <5>1. get.at <= Len(inmemtables) => inmemtables[get.at] \in Table
          BY <1>0, <1>a, <2>0, LenProperties DEF TablesType
        <5>. QED
          BY <1>0, <1>a, <2>1, <5>1, DbAssumption DEF TablesType, Table
      <4>. QED
        BY <1>a, <4>2, <4>3
    <3>. QED
      BY <3>1, <3>2 DEF GetInv, ReadsLatest
  <2>. QED
    BY <2>3, <2>4
<1>10. CASE GetUnlock
  <2>1. /\ get.stage = "scanning" /\ get.at = 0 /\ get'.stage = "missed"
        /\ get'.key = get.key /\ get'.since = get.since
        /\ UNCHANGED <<inmemtables, flushing, published, lost>>
    BY <1>8, <1>10 DEF GetUnlock
  <2>2. get.since \notin lost \cup {NoValue} =>
           flushing[get.key] = get.since \/ InManifest(get.key, get.since)
    BY <1>0, <2>1, SeesNone DEF GetInv
  <2>. QED
    BY <2>1, <2>2 DEF GetInv, ReadsLatest, InManifest
<1>11. CASE GetManifest
  <2>1. /\ get.stage = "missed" /\ get'.stage \in {"manifest", "absent"}
        /\ get'.key = get.key /\ get'.since = get.since
        /\ UNCHANGED <<inmemtables, flushing, published, lost>>
    BY <1>8, <1>11 DEF GetManifest
  <2>2. get.since \notin lost \cup {NoValue} =>
           flushing[get.key] = get.since \/ InManifest(get.key, get.since)
    BY <1>0, <2>1 DEF GetInv, ReadsLatest
  <2>. QED
    BY <2>1, <2>2 DEF GetInv, ReadsLatest, InManifest
<1>. QED
  BY <1>2, <1>3, <1>4, <1>5, <1>6, <1>7, <1>9, <1>10, <1>11 DEF DbNext, Close, Get

\* The database starts in the invariant.
LEMMA InitDbInv == DbInit => DbInv
<1>. SUFFICES ASSUME DbInit PROVE DbInv
  OBVIOUS
<1>0. MaxPut \in Nat /\ Len(<<>>) = 0 /\ <<>> \in Seq(Table)
  BY DbAssumption
<1>1. TablesType
  <2>1. get \in GetState
    BY <1>0 DEF DbInit, GetState, NoValue
  <2>2. 0 \in 0..MaxPut /\ {} \subseteq 1..MaxPut
    BY <1>0
  <2>. QED
    BY <1>0, <2>1, <2>2, EmptyIsTable DEF DbInit, TablesType, FlusherState
<1>2. FlushInv
  BY DEF DbInit, FlushInv
<1>3. OrderInv
  <2>1. Known(EmptyTable, 0)
    BY EmptyIsTable DEF Known, NoValue
  <2>. QED
    BY <1>0, <2>1, EmptyIsTable, BelowFacts DEF DbInit, OrderInv
<1>4. LatestInv
  BY EmptyIsTable DEF DbInit, LatestInv
<1>5. GetInv
  BY DEF DbInit, GetInv, ReadsLatest
<1>. QED
  BY <1>1, <1>2, <1>3, <1>4, <1>5 DEF DbInv

\* The invariant holds in every state.
LEMMA DbInvariance == DbSpec => []DbInv
<1>1. DbInv /\ [DbNext]_dbVars => DbInv'
  BY TypesStep, FlushStep, OrderStep, LatestStep, GetStep DEF DbInv
<1>. QED
  BY <1>1, InitDbInv, PTL DEF DbSpec

-----------------------------------------------------------------------------
(***************************************************************************)
(* The tables, the threads and the reader are of their types, and a        *)
(* memtable past its limit is one that Put is about to rotate.             *)
(***************************************************************************)
THEOREM DbTypeCorrect == DbSpec => []DbTypeOK
<1>. DEFINE FullInv == full = (Size(memtable) > MaxSize)
<1>1. FALSE = (Size(EmptyTable) > MaxSize)
  <2>1. {k \in Key : EmptyTable[k] # NoValue} = {}
    BY EmptyIsTable
  <2>2. Size(EmptyTable) = 0 /\ MaxSize \in Nat
    BY <2>1, FS_EmptySet, DbAssumption DEF Size
  <2>3. FALSE = (0 > MaxSize)
    BY <2>2
  <2>. QED
    BY <2>2, <2>3, Zenon
<1>2. DbInit => FullInv
  <2>. SUFFICES ASSUME memtable = EmptyTable, full = FALSE PROVE full = (Size(memtable) > MaxSize)
    BY DEF DbInit
  <2>. QED
    BY <1>1, Zenon
<1>3. DbInv /\ FullInv /\ [DbNext]_dbVars => FullInv'
  <2>. SUFFICES ASSUME DbInv, FullInv, [DbNext]_dbVars PROVE FullInv'
    OBVIOUS
  <2>1. CASE UNCHANGED <<full, memtable>>
    BY <2>1
  <2>2. CASE memtable' = EmptyTable /\ full' = FALSE
    <3>1. full' = (Size(memtable') > MaxSize)
      BY <1>1, <2>2, Zenon
    <3>. QED
      BY <3>1
  <2>3. ASSUME NEW k \in Key, Put(k) PROVE FullInv'
    BY <2>3 DEF Put
  <2>4. CASE Rotate \/ CloseSave \/ Kill
    BY <2>2, <2>4 DEF Rotate, CloseSave, Kill, StartFrom
  <2>5. CASE Flusher
    BY <2>1, <2>5, FlusherMoves DEF DbInv
  <2>6. CASE Get
    BY <2>1, <2>6, GetLeaves
  <2>7. CASE CloseRotate \/ CloseStop \/ UNCHANGED dbVars
    <3>1. UNCHANGED <<full, memtable>>
      BY <2>7 DEF CloseRotate, CloseStop, dbVars, tableVars
    <3>. QED
      BY <2>1, <3>1
  <2>. HIDE DEF FullInv
  <2>. QED
    BY <2>3, <2>4, <2>5, <2>6, <2>7 DEF DbNext, Close
<1>4. FullInv /\ DbInv => DbTypeOK
  BY Zenon DEF DbTypeOK, DbInv, TablesType
<1>. HIDE DEF FullInv
<1>. QED
  BY <1>2, <1>3, <1>4, DbInvariance, PTL DEF DbSpec

(***************************************************************************)
(* A Get that finds its key in memory finds nothing older than the last    *)
(* put that was complete when it began, though the flush thread erases the *)
(* front of the list while the Get iterates over it; and it passes the     *)
(* memtables only if that put has reached the flush thread's hands or the  *)
(* manifest.  Only the puts that an overlapping erase dropped are excepted. *)
(***************************************************************************)
THEOREM GetsReadLatest == DbSpec => []ReadsLatest
<1>1. DbInv => ReadsLatest
  BY DEF DbInv, GetInv
<1>. QED
  BY <1>1, DbInvariance, PTL

-----------------------------------------------------------------------------
(***************************************************************************)
(* The refinement of module Store.                                         *)
(***************************************************************************)

\* A list behind the table in the hands of the flush thread.
LEMMA Behind ==
    ASSUME NEW f \in Table, NEW q \in Seq(Table)
    PROVE  /\ <<f>> \o q # <<>> /\ Head(<<f>> \o q) = f /\ Tail(<<f>> \o q) = q
           /\ \A t \in Table : <<f>> \o Append(q, t) = Append(<<f>> \o q, t)
           /\ q # <<>> => <<Head(q)>> \o Tail(q) = q
<1>1. <<f>> \in Seq(Table) /\ Len(<<f>>) = 1
  OBVIOUS
<1>2. /\ <<f>> \o q \in Seq(Table) /\ Len(<<f>> \o q) = 1 + Len(q) /\ Len(q) \in Nat
      /\ (<<f>> \o q)[1] = f /\ \A i \in 1..Len(q) : (<<f>> \o q)[i + 1] = q[i]
  BY <1>1, ConcatProperties, LenProperties
<1>3. <<f>> \o q # <<>> /\ Head(<<f>> \o q) = f
  BY <1>2, TailOf
<1>4. Tail(<<f>> \o q) = q
  <2>1. /\ Tail(<<f>> \o q) \in Seq(Table) /\ Len(Tail(<<f>> \o q)) = Len(q)
        /\ \A i \in 1..Len(q) : Tail(<<f>> \o q)[i] = q[i]
    BY <1>2, <1>3, TailOf
  <2>. QED
    BY <2>1, SeqEqual
<1>5. ASSUME NEW t \in Table PROVE <<f>> \o Append(q, t) = Append(<<f>> \o q, t)
  BY <1>1, <1>5, AppendIsConcat, <1>2, ConcatAssociative
<1>6. ASSUME q # <<>> PROVE <<Head(q)>> \o Tail(q) = q
  BY <1>6
<1>. QED
  BY <1>3, <1>4, <1>5, <1>6

\* A rotation while Active is the memtable fills the active table of the store, or
\* collides.
LEMMA RotateIsFill ==
    ASSUME TablesType, FlushInv, Rotate \/ CloseRotate, Active' = EmptyTable,
           \/ inmemtables' = Append(inmemtables, memtable) /\ (flusher' = flusher \/ flusher' = Notified)
           \/ AppendMeetsErase(memtable)
    PROVE  Tables!Fill \/ Tables!Collide
<1>. USE DEF TablesType
<1>0. /\ Active = memtable /\ UNCHANGED <<flushing, published, disk>>
      /\ EmptyTable = Tables!Empty
  BY DEF Rotate, CloseRotate, Active, FlushInv, EmptyTable, Tables!Empty
<1>1. CASE inmemtables' = Append(inmemtables, memtable) /\ (flusher' = flusher \/ flusher' = Notified)
  <2>1. flusher' = "writing" <=> flusher = "writing"
    BY <1>1 DEF Notified
  <2>2. Pending' = Append(Pending, memtable)
    BY <1>0, <1>1, <2>1, Behind DEF Pending
  <2>. QED
    BY <1>0, <2>2 DEF Tables!Fill
<1>2. CASE AppendMeetsErase(memtable)
  <2>1. flusher = "erasing" /\ flusher' = "writing" /\ inmemtables # <<>> /\ flushing = Head(inmemtables)
    BY <1>2 DEF AppendMeetsErase, FlushInv
  <2>2. Pending = inmemtables /\ Pending' = <<Head(inmemtables)>> \o inmemtables'
    BY <1>0, <2>1 DEF Pending
  <2>3. inmemtables' \in {inmemtables, Tail(inmemtables), Append(inmemtables, memtable)}
    BY <1>2 DEF AppendMeetsErase
  <2>4. <<Head(inmemtables)>> \o Tail(inmemtables) = inmemtables
    BY <2>1, Behind
  <2>5. Pending' \in {Pending, <<Head(Pending)>> \o Pending, <<Head(Pending)>> \o Append(Pending, memtable)}
    BY <2>2, <2>3, <2>4
  <2>. QED
    BY <1>0, <2>1, <2>2, <2>5 DEF Tables!Collide
<1>. QED
  BY <1>1, <1>2

(***************************************************************************)
(* The database keeps the promise of module Store: whatever the order in   *)
(* which puts, rotations, the flush thread, reads and the destructor run,  *)
(* full tables are published in order and none is skipped, the manifest is *)
(* saved only when all of them are in it, the last active one included,    *)
(* and a kill returns to the last close.  A table is lost or published     *)
(* twice only where an append to inmemtables_ overlaps an erase.           *)
(***************************************************************************)
THEOREM DatabaseIsStore == DbSpec => ImplementsStore
<1>1. DbInit => Tables!StoreInit
  BY DEF DbInit, Tables!StoreInit, Tables!Empty, Active, Pending, EmptyTable
<1>2. DbInv /\ [DbNext]_dbVars => [Tables!StoreNext]_(Tables!storeVars)
  <2>. DEFINE Same == UNCHANGED <<Active, Pending, published, disk>>
              Goal == Tables!StoreNext \/ Same
  <2>. SUFFICES ASSUME DbInv, [DbNext]_dbVars PROVE Goal
    BY DEF Tables!storeVars
  <2>0. TablesType /\ FlushInv
    BY DEF DbInv
  <2>1. CASE UNCHANGED <<memtable, inmemtables, flushing, published, flusher, closing, disk>>
    BY <2>1 DEF Active, Pending
  <2>2. ASSUME NEW k \in Key, Put(k) PROVE Goal
    <3>1. /\ closing = "no" /\ UNCHANGED <<closing, inmemtables, flushing, published, flusher, disk>>
          /\ memtable' = [memtable EXCEPT ![k] = puts'] /\ puts' = puts + 1
      BY <2>2 DEF Put
    <3>2. Active = memtable /\ Active' = memtable' /\ UNCHANGED Pending
      BY <3>1 DEF Active, Pending
    <3>3. memtable'[k] # NoValue /\ \A other \in Key \ {k} : memtable'[other] = memtable[other]
      BY <2>0, <3>1, DbAssumption DEF TablesType, Table, NoValue
    <3>. QED
      BY <3>1, <3>2, <3>3 DEF Tables!StoreNext, Tables!Write
  <2>3. CASE Rotate
    <3>1. Active' = EmptyTable
      BY <2>3 DEF Rotate, Active
    <3>. QED
      BY <2>0, <2>3, <3>1, RotateIsFill DEF Rotate, Tables!StoreNext
  <2>4. CASE CloseRotate
    <3>1. Active' = EmptyTable /\ Active = memtable
      BY <2>4 DEF CloseRotate, Active
    <3>2. CASE Size(memtable) = 0 /\ UNCHANGED <<inmemtables, flusher, lost>>
      <4>1. memtable = EmptyTable
        BY <2>0, <3>2, NoEntries DEF TablesType
      <4>. QED
        BY <2>4, <3>1, <3>2, <4>1 DEF CloseRotate, Pending
    <3>. QED
      BY <2>0, <2>4, <3>1, <3>2, RotateIsFill DEF CloseRotate, Tables!StoreNext
  <2>5. CASE Flusher
    <3>1. UNCHANGED <<Active, disk>>
      BY <2>0, <2>5, FlusherMoves DEF Active
    <3>2. CASE FlusherCheck \/ FlusherPark \/ FlusherLoopEnd \/ FlusherFront
      BY <3>1, <3>2 DEF FlusherCheck, FlusherPark, FlusherLoopEnd, FlusherFront, FlusherTo, Pending
    <3>3. CASE FlusherErase
      <4>1. inmemtables # <<>> /\ flushing = Head(inmemtables) /\ inmemtables' = Tail(inmemtables)
            /\ UNCHANGED <<flushing, published>> /\ flusher = "erasing" /\ flusher' = "writing"
        BY <2>0, <3>3 DEF FlusherErase, FlusherTo, FlushInv
      <4>2. <<Head(inmemtables)>> \o Tail(inmemtables) = inmemtables
        BY <2>0, <4>1, Behind DEF TablesType
      <4>. QED
        BY <3>1, <4>1, <4>2 DEF Pending
    <3>4. CASE ToSST
      <4>1. /\ Pending = <<flushing>> \o inmemtables /\ Pending' = inmemtables
            /\ published' = Append(published, flushing)
        BY <3>4 DEF ToSST, FlusherTo, Pending
      <4>2. Pending # <<>> /\ Head(Pending) = flushing /\ Tail(Pending) = inmemtables
        BY <2>0, <4>1, Behind DEF TablesType
      <4>. QED
        BY <3>1, <4>1, <4>2 DEF Tables!StoreNext, Tables!Publish
    <3>. QED
      BY <2>5, <3>2, <3>3, <3>4 DEF Flusher
  <2>6. CASE Get
    BY <2>1, <2>6, GetLeaves
  <2>7. CASE CloseStop
    <3>1. closing # "no" /\ closing' # "no" /\ (flusher' = "writing" <=> flusher = "writing")
          /\ UNCHANGED <<inmemtables, flushing, published, disk>>
      BY <2>7 DEF CloseStop, Notified, tableVars
    <3>. QED
      BY <3>1 DEF Active, Pending
  <2>8. CASE CloseSave
    <3>1. Active = EmptyTable /\ Active' = EmptyTable /\ Pending = <<>> /\ Pending' = <<>>
      BY <2>0, <2>8 DEF CloseSave, StartFrom, Active, Pending, FlushInv
    <3>2. published' = published /\ disk' = published /\ EmptyTable = Tables!Empty
      BY <2>8 DEF CloseSave, StartFrom, EmptyTable, Tables!Empty
    <3>. QED
      BY <3>1, <3>2 DEF Tables!StoreNext, Tables!Save
  <2>9. CASE Kill
    <3>1. Active' = EmptyTable /\ Pending' = <<>> /\ published' = disk /\ disk' = disk
          /\ EmptyTable = Tables!Empty
      BY <2>9 DEF Kill, StartFrom, Active, Pending, EmptyTable, Tables!Empty
    <3>. QED
      BY <3>1 DEF Tables!StoreNext, Tables!Lose
  <2>10. CASE UNCHANGED dbVars
    BY <2>1, <2>10 DEF dbVars, tableVars
  <2>. HIDE DEF Goal
  <2>. QED
    BY <2>2, <2>3, <2>4, <2>5, <2>6, <2>7, <2>8, <2>9, <2>10 DEF DbNext, Close
<1>. QED
  BY <1>1, <1>2, DbInvariance, PTL DEF DbSpec, ImplementsStore, Tables!StoreSpec
=============================================================================
