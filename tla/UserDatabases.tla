--------------------------- MODULE UserDatabases ---------------------------
(***************************************************************************)
(* What the server of Teme/Tema1 promises its users, without session keys, *)
(* num_elem or files: a user opens an empty database, changes it entry by  *)
(* entry, saves it whole and gets back exactly what was saved last, unless *)
(* the server was killed while it was saving or the disk refused it.       *)
(* Statistics of an empty database, and saving one that is empty or has    *)
(* entries without values, are errors (Tema1/README.md:27-29, 33-35).      *)
(*                                                                         *)
(* USpec is that promise.  The server breaks it in two ways, the lapses at *)
(* the end of the module: it gives statistics of a database whose entries  *)
(* were all deleted, and it saves one that has entries without values, as  *)
(* a file that cannot be read back.  LapsingSpec allows these two as well. *)
(***************************************************************************)
CONSTANTS
  User,
  Id,
  Value,     \* what a user can put in an entry
  Content,   \* what an entry may hold: values, nothing, or bytes of no user
  EMPTY,     \* the content of an entry that holds nothing
  NONE,      \* absent entry, database or user
  DAMAGED,   \* saved, but not as it was
  WritesFail \* may the disk refuse a save?

VARIABLES
  open,      \* user -> the database in use, or NONE
  saved,     \* user -> the database saved last, DAMAGED, or NONE
  reply      \* the last reply

udbVars == <<open, saved, reply>>

Database == [Id -> Content \cup {NONE}]
EmptyDatabase == [i \in Id |-> NONE]

Says(op, u, ok, val) ==
  reply' = [op |-> op, user |-> u, ok |-> ok, val |-> val]
Same == UNCHANGED <<open, saved>>

UInit ==
  /\ open = [u \in User |-> NONE]
  /\ saved = [u \in User |-> NONE]
  /\ reply = [op |-> "start", user |-> NONE, ok |-> TRUE, val |-> NONE]

\* A request whose key opens no database.
Unknown(op) == Says(op, NONE, FALSE, NONE) /\ Same

Login(u) ==
  IF open[u] = NONE
  THEN /\ open' = [open EXCEPT ![u] = EmptyDatabase]
       /\ Says("login", u, TRUE, NONE)
       /\ UNCHANGED saved
  ELSE Says("login", u, FALSE, NONE) /\ Same

Logout(u) ==
  /\ open' = [open EXCEPT ![u] = NONE]
  /\ Says("logout", u, TRUE, NONE)
  /\ UNCHANGED saved

\* An add of a new entry or an update of an existing one.
Put(u, id, new, v) ==
  IF (open[u][id] = NONE) = new
  THEN /\ open' = [open EXCEPT ![u][id] = v]
       /\ Says("add_update", u, TRUE, NONE)
       /\ UNCHANGED saved
  ELSE Says("add_update", u, FALSE, NONE) /\ Same

Read(u, id) ==
  /\ Says("read_entry", u, open[u][id] # NONE, open[u][id])
  /\ Same

Delete(u, id) ==
  /\ open' = [open EXCEPT ![u][id] = NONE]
  /\ Says("del", u, open[u][id] # NONE, NONE)
  /\ UNCHANGED saved

Load(u) ==
  \/ /\ saved[u] = NONE \/ saved[u] = DAMAGED \/ open[u] # EmptyDatabase
     /\ Says("load", u, FALSE, NONE) /\ Same
  \/ /\ saved[u] # NONE /\ open[u] = EmptyDatabase
     /\ \E d \in Database \ {EmptyDatabase} :
          /\ saved[u] # DAMAGED => d = saved[u]
          /\ open' = [open EXCEPT ![u] = d]
     /\ Says("load", u, TRUE, NONE)
     /\ UNCHANGED saved

HasValues(d) == \A i \in Id : d[i] # EMPTY
Storable(d) == d # EmptyDatabase /\ HasValues(d)

\* What was asked to be saved is, or not, and the answer is the same.
Saves(u, d) ==
  /\ \E s \in {d} \cup IF WritesFail THEN {DAMAGED, saved[u]} ELSE {} :
        saved' = [saved EXCEPT ![u] = s]
  /\ Says("store", u, TRUE, NONE)
  /\ UNCHANGED open

Store(u) ==
  IF Storable(open[u]) THEN Saves(u, open[u])
                       ELSE Says("store", u, FALSE, NONE) /\ Same

Stats(u, id) ==
  /\ Says("get_stats", u, open[u][id] \notin {NONE, EMPTY}, NONE)
  /\ Same

StatsAll(u) ==
  /\ Says("get_stats_all", u, open[u] # EmptyDatabase, NONE)
  /\ Same

KilledWith(u, f) ==
  /\ open' = [w \in User |-> NONE]
  /\ saved' = [saved EXCEPT ![u] = f]
  /\ Says("crash", u, FALSE, NONE)

\* The server is killed; at worst, the file being written is lost.
Restart ==
  \/ /\ open' = [u \in User |-> NONE]
     /\ Says("crash", NONE, FALSE, NONE)
     /\ UNCHANGED saved
  \/ \E u \in User :
       /\ open[u] # NONE
       /\ Storable(open[u])
       /\ KilledWith(u, DAMAGED) \/ KilledWith(u, open[u])

Operation == {"logout", "add_update", "read_entry", "del", "load", "store",
              "get_stats", "get_stats_all"}

UNext ==
  \/ \E op \in Operation : Unknown(op)
  \/ \E u \in User :
       \/ Login(u)
       \/ /\ open[u] # NONE
          /\ \/ Logout(u) \/ Load(u) \/ Store(u) \/ StatsAll(u)
             \/ \E id \in Id : Read(u, id) \/ Delete(u, id) \/ Stats(u, id)
             \/ \E id \in Id, v \in Value, new \in BOOLEAN : Put(u, id, new, v)
  \/ Restart

USpec == UInit /\ [][UNext]_udbVars

-----------------------------------------------------------------------------
\* Statistics of a database that has no entries (any more).
StatsOfNothing(u) ==
  /\ open[u] = EmptyDatabase
  /\ Says("get_stats_all", u, TRUE, NONE)
  /\ Same

\* A save that should have been refused and damages what was saved before,
\* whether the server lives to answer it or not.
StoreWithoutValues(u) ==
  /\ open[u] # NONE
  /\ ~HasValues(open[u])
  /\ Saves(u, DAMAGED) \/ KilledWith(u, DAMAGED)

Lapse == \E u \in User : StatsOfNothing(u) \/ StoreWithoutValues(u)

LapsingSpec == UInit /\ [][UNext \/ Lapse]_udbVars
============================================================================
