------------------------------ MODULE StoreSpec ------------------------------
(***************************************************************************)
(* The durable store as its users may rely on it: spec section 3           *)
(* (PersistedSessionRecord "written once per session", read-only           *)
(* afterwards; changelog entries persisted independently), section 4.5 (a  *)
(* second write of a session id fails and leaves the first record          *)
(* unmodified) and section 6 (a uniqueness constraint on each record       *)
(* kind's natural key).                                                    *)
(*                                                                         *)
(* The store file appears once; tables are added to it one at a time; a   *)
(* record is added under a key of a table that exists and has no record    *)
(* under that key, and is never changed or removed; a writer is told of    *)
(* success at most once per key, and only for a key whose record is in the *)
(* store (at the same step as the record or later).  Partial schemas are   *)
(* allowed here: whether they may be left behind is NoPartialStore's       *)
(* question, not this specification's.                                     *)
(***************************************************************************)
EXTENDS Naturals, FiniteSets

CONSTANTS
    Keys,        \* natural keys of records: session ids and changelog entries
    Tables,      \* the tables of the schema
    TableOf(_)   \* the table a key belongs to

VARIABLES
    exists,      \* the store file exists
    made,        \* the tables created in it
    rows,        \* key -> record, for the records committed
    acks         \* key -> number of writers told the key was written

vars == <<exists, made, rows, acks>>

Init ==
    /\ exists \in BOOLEAN
    /\ made = IF exists THEN Tables ELSE {}
    /\ rows = [k \in {} |-> 0]
    /\ acks = [k \in Keys |-> 0]

\* The file is created, with no table in it.
Create ==
    /\ ~exists /\ exists'
    /\ UNCHANGED <<made, rows, acks>>

\* One table of the schema is created.
MakeTable(t) ==
    /\ exists /\ t \notin made
    /\ made' = made \cup {t}
    /\ UNCHANGED <<exists, rows, acks>>

\* A writer is told that the record under k was written.
AckOf(k) ==
    /\ acks[k] = 0
    /\ acks' = [acks EXCEPT ![k] = 1]

\* A record is committed under a fresh key of an existing table; every
\* record already there keeps its value.  The writer may be told at once.
Put(k) ==
    /\ TableOf(k) \in made /\ k \notin DOMAIN rows
    /\ DOMAIN rows' = DOMAIN rows \cup {k}
    /\ \A j \in DOMAIN rows : rows'[j] = rows[j]
    /\ AckOf(k) \/ UNCHANGED acks
    /\ UNCHANGED <<exists, made>>

\* A writer is told of a record committed earlier.
Ack(k) ==
    /\ k \in DOMAIN rows
    /\ AckOf(k)
    /\ UNCHANGED <<exists, made, rows>>

Next ==
    \/ Create
    \/ \E t \in Tables : MakeTable(t)
    \/ \E k \in Keys : Put(k) \/ Ack(k)

Spec == Init /\ [][Next]_vars

=============================================================================
