------------------------------- MODULE Store --------------------------------
(***************************************************************************)
(* What a database promises about its tables (db.hpp): writes go to the    *)
(* active table; full tables are published in the order in which they were *)
(* filled, none skipped; closing the database makes the published tables   *)
(* durable, and only when all tables are among them; a killed process      *)
(* comes back with exactly what was durable.                               *)
(*                                                                         *)
(* The promise has one hole, as large as the code's: when a table is       *)
(* filled at the moment at which the oldest pending one is taken to be     *)
(* published, the new table may be lost and the old one published twice.   *)
(***************************************************************************)
EXTENDS Sequences

CONSTANTS Key, NoValue

VARIABLES
    active,      \* the table being written, a function on Key
    pending,     \* the full tables, oldest first
    published,   \* the tables lookups are served from, oldest first
    durable      \* the published tables at the last clean close

storeVars == <<active, pending, published, durable>>

Empty == [k \in Key |-> NoValue]

StoreInit ==
    /\ active = Empty
    /\ pending = <<>> /\ published = <<>> /\ durable = <<>>

Write(k) ==
    /\ active'[k] # NoValue
    /\ \A other \in Key \ {k} : active'[other] = active[other]
    /\ UNCHANGED <<pending, published, durable>>

Fill ==
    /\ pending' = Append(pending, active)
    /\ active' = Empty
    /\ UNCHANGED <<published, durable>>

\* Filling meets taking: of the two, one or both have no effect on the list.
Collide ==
    /\ pending # <<>>
    /\ pending' \in {pending, <<Head(pending)>> \o pending,
                     <<Head(pending)>> \o Append(pending, active)}
    /\ active' = Empty
    /\ UNCHANGED <<published, durable>>

Publish ==
    /\ pending # <<>>
    /\ published' = Append(published, Head(pending))
    /\ pending' = Tail(pending)
    /\ UNCHANGED <<active, durable>>

Save ==
    /\ active = Empty /\ pending = <<>>
    /\ durable' = published
    /\ UNCHANGED <<active, pending, published>>

Lose ==
    /\ active' = Empty /\ pending' = <<>>
    /\ published' = durable
    /\ UNCHANGED durable

StoreNext == (\E k \in Key : Write(k)) \/ Fill \/ Collide \/ Publish \/ Save \/ Lose

StoreSpec == StoreInit /\ [][StoreNext]_storeVars
=============================================================================
