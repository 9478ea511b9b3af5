----------------------------- MODULE MeteoTables -----------------------------
(***************************************************************************)
(* The three tables of Teme/Tema2/db/init-db.sql and what a statement does *)
(* to them: countries (Tari) have cities (Orase), cities have temperatures *)
(* (Temperaturi), and a row goes with its parent.  A row is its parent's   *)
(* id, the column that makes it unique under its parent (the name, or the  *)
(* time of a temperature) and the other columns.                           *)
(***************************************************************************)
EXTENDS Integers, FiniteSets

CONSTANTS
  Column,   \* values of a column
  Second,   \* values of CURRENT_TIMESTAMP
  Id,       \* 1 .. n
  MaxId,    \* table -> bound on the ids it gives out
  NONE

Table == {"Tari", "Orase", "Temperaturi"}
Parent == [t \in Table |-> CASE t = "Tari" -> NONE
                             [] t = "Orase" -> "Tari"
                             [] t = "Temperaturi" -> "Orase"]
Row == [up: Id \cup {NONE}, key: Column \cup Second, val: Column]
Tables == [Table -> [Id -> Row \cup {NONE}]]

ASSUME TablesAssumption ==
  /\ IsFiniteSet(Id) /\ Id = 1 .. Cardinality(Id) /\ MaxId \in [Table -> Id]
  /\ NONE \notin Table /\ NONE \notin Id /\ NONE \notin Row

Empty == [t \in Table |-> [i \in Id |-> NONE]]

\* The ids, in each table, of a row and of the rows that hang from it.
Below(ts, table, id) ==
  LET under[t \in Table] ==
        IF t = table THEN {id}
        ELSE IF Parent[t] = NONE THEN {}
        ELSE {i \in Id : ts[t][i] # NONE /\ ts[t][i].up \in under[Parent[t]]}
  IN  under

\* ON DELETE CASCADE.
Deleted(ts, table, id) ==
  [t \in Table |-> [i \in Id |-> IF i \in Below(ts, table, id)[t]
                                   THEN NONE ELSE ts[t][i]]]
Written(ts, table, id, row) == [ts EXCEPT ![table][id] = row]

\* A UNIQUE or a FOREIGN KEY constraint forbids the row.
Conflicts(ts, table, id, row) ==
  \/ \E i \in Id \ {id} : /\ ts[table][i] # NONE
                          /\ ts[table][i].up = row.up /\ ts[table][i].key = row.key
  \/ /\ Parent[table] # NONE
     /\ row.up \notin {i \in Id : ts[Parent[table]][i] # NONE}
=============================================================================
