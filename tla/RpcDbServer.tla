---------------------------- MODULE RpcDbServer ----------------------------
(***************************************************************************)
(* The server of Teme/Tema1: sessions, the in-memory databases of the      *)
(* logged-in users and their *.rpcdb files.  svc_run serves one request at *)
(* a time, so a handler is one action; the process may be killed between   *)
(* two handlers (Crash) or inside a store (CrashInStore), and starts again *)
(* with empty memory and the files it left behind.                         *)
(*                                                                         *)
(* Data is abstracted: the array of an entry is a member of Value, and of  *)
(* a session's num_elem only "is it zero" is kept (field counted), which   *)
(* is all the handlers' conditions look at.  The numbers themselves are    *)
(* the subject of module RpcDbStats.                                       *)
(***************************************************************************)
EXTENDS Integers

CONSTANTS
  User,      \* user names
  Id,        \* entry ids
  Value,     \* non-empty arrays a client can send in an add or an update
  EMPTY,     \* content of an entry of length 0
  JUNK,      \* content no client ever sent: uninitialised memory
  NONE,      \* absent entry, session, file or user
  UINT_MAX,  \* one more than the largest session key the server issues
  WritesFail \* may the disk refuse what a store writes?

VARIABLES
  key,           \* the last session key issued
  active_users,  \* users that have a session
  db,            \* the sessions: key -> ClientData, or NONE
  disk,          \* the *.rpcdb files: user -> File, or NONE
  resp           \* the last reply: operation, user it was done for, OK?, value

memory == <<key, active_users, db>>
vars == <<key, active_users, db, disk, resp>>

INVALID_KEY == 0
Key == 1 .. UINT_MAX - 1
AnyKey == 0 .. UINT_MAX      \* what a request may carry as its session key

Content == Value \cup {EMPTY, JUNK}
Data == [Id -> Content \cup {NONE}]
NoData == [i \in Id |-> NONE]

ClientData == [user: User, data: Data, counted: BOOLEAN]
NewClientData(u) == [user |-> u, data |-> NoData, counted |-> FALSE]

(***************************************************************************)
(* A file holds num_entries, the statistics, then the entries.  extent     *)
(* tells how much of that was written: everything ("complete"); fewer      *)
(* entries than num_entries announces, ending between two of them ("cut")  *)
(* or inside one ("torn"); or not even num_entries ("empty").              *)
(***************************************************************************)
File == [extent: {"complete", "cut", "torn", "empty"}, ents: Data]

ASSUME ServerAssumption ==
  /\ UINT_MAX \in Nat \ {0} /\ WritesFail \in BOOLEAN
  /\ NONE \notin User \cup Content \cup ClientData \cup File
  /\ EMPTY # JUNK /\ {EMPTY, JUNK} \cap Value = {}

Written(d) == {i \in Id : d[i] \notin {NONE, EMPTY}}
Keep(d, S) == [i \in Id |-> IF i \in S THEN d[i] ELSE NONE]

\* The file a store leaves: it counts entries of length 0 but skips them.
Image(d) ==
  [extent |-> IF \E i \in Id : d[i] = EMPTY THEN "cut" ELSE "complete",
   ents   |-> Keep(d, Written(d))]

\* The files a store killed half-way may leave, in any order of the entries.
PartialImages(d) ==
  {[extent |-> "empty", ents |-> NoData], Image(d)}
    \cup {[extent |-> e, ents |-> Keep(d, S)] :
             e \in {"cut", "torn"}, S \in SUBSET Written(d) \ {Written(d)}}

\* What the file is after a store.  Nobody asks out how it fares: the old file
\* is left when it cannot be opened, a part of the new one when the disk is full.
Left(d, old) ==
  {Image(d)} \cup IF WritesFail THEN PartialImages(d) \cup {old} ELSE {}

(***************************************************************************)
(* The databases the read loop of load can build from a file.  A read past *)
(* the end leaves id and len as they were: the previous entry's, whose     *)
(* emplace then changes nothing, or, before the first entry, an            *)
(* uninitialised id and length 0.                                          *)
(***************************************************************************)
GarbageEntry(d, C) ==
  {[d EXCEPT ![p[1]] = p[2]] : p \in {i \in Id : d[i] = NONE} \X C}

Loaded(f) ==
  LET unchanged == {f.ents} \ {NoData}
  IN  CASE f.extent = "complete" -> {f.ents}
        [] f.extent = "torn" ->
             unchanged \cup GarbageEntry(f.ents, {EMPTY, JUNK})
        [] OTHER ->
             IF f.ents = NoData THEN GarbageEntry(NoData, {EMPTY}) ELSE unchanged

-----------------------------------------------------------------------------
Operation == {"login", "logout", "add_update", "read_entry", "del", "load",
              "store", "get_stats", "get_stats_all"}

Live(k) == k \in Key /\ db[k] # NONE
Stored(k, id) == db[k].data[id] # NONE

Reply(op, u, ok, val) ==
  resp' = [op |-> op, user |-> u, ok |-> ok, val |-> val]

\* Early returns: an ERROR reply that changes nothing else.
Refuse(op, u) == Reply(op, u, FALSE, NONE) /\ UNCHANGED <<memory, disk>>
RefuseUnknown(op, k) == ~Live(k) /\ Refuse(op, NONE)

Init ==
  /\ key = 0
  /\ active_users = {}
  /\ db = [k \in Key |-> NONE]
  /\ disk = [u \in User |-> NONE]
  /\ resp = [op |-> "start", user |-> NONE, ok |-> TRUE, val |-> NONE]

\* The file is there and load gets a non-zero num_elem.  A file too short to
\* hold num_entries leaves num_elem as it was.
HasFile(k) ==
  /\ disk[db[k].user] # NONE
  /\ disk[db[k].user].extent = "empty" => db[k].counted

-----------------------------------------------------------------------------
\* Plausible faults, one for each property below to notice.  No behaviour of
\* this module uses them.

\* login that does not look whether the user is logged in.
loginUnchecked(u) ==
  /\ key + 1 \in Key
  /\ key' = key + 1
  /\ db' = [db EXCEPT ![key + 1] = NewClientData(u)]
  /\ active_users' = active_users \cup {u}
  /\ Reply("login", u, TRUE, key + 1)
  /\ UNCHANGED disk

\* login that takes the smallest key without a session.
loginSmallestKey(u) ==
  \/ u \in active_users /\ Refuse("login", u)
  \/ /\ u \notin active_users
     /\ \E k \in Key :
          /\ ~Live(k) /\ \A j \in 1 .. k - 1 : Live(j)
          /\ key' = IF k > key THEN k ELSE key
          /\ db' = [db EXCEPT ![k] = NewClientData(u)]
          /\ Reply("login", u, TRUE, k)
     /\ active_users' = active_users \cup {u}
     /\ UNCHANGED disk

\* logout that empties the session instead of erasing it.
logoutKeepsSession(k) ==
  \/ RefuseUnknown("logout", k)
  \/ /\ Live(k)
     /\ active_users' = active_users \ {db[k].user}
     /\ db' = [db EXCEPT ![k].user = NONE]
     /\ Reply("logout", db[k].user, TRUE, NONE)
     /\ UNCHANGED <<key, disk>>

\* logout that leaves the user in active_users.
logoutKeepsUser(k) ==
  \/ RefuseUnknown("logout", k)
  \/ /\ Live(k)
     /\ db' = [db EXCEPT ![k] = NONE]
     /\ Reply("logout", db[k].user, TRUE, NONE)
     /\ UNCHANGED <<key, active_users, disk>>

\* load that keeps the number of entries to itself.
loadUncounted(k) ==
  \/ RefuseUnknown("load", k)
  \/ /\ Live(k) /\ db[k].data = NoData /\ HasFile(k)
     /\ \E d \in Loaded(disk[db[k].user]) : db' = [db EXCEPT ![k].data = d]
     /\ Reply("load", db[k].user, TRUE, NONE)
     /\ UNCHANGED <<key, active_users, disk>>

\* load that adds what is in the file to what the session has.
loadMerges(k) ==
  \/ RefuseUnknown("load", k)
  \/ /\ Live(k) /\ HasFile(k)
     /\ \E d \in Loaded(disk[db[k].user]) :
           db' = [db EXCEPT ![k].data =
                    [i \in Id |-> IF @[i] = NONE THEN d[i] ELSE @[i]]]
     /\ Reply("load", db[k].user, TRUE, NONE)
     /\ UNCHANGED <<key, active_users, disk>>

\* store that writes the file of every user that has a session.
storeEverybody(k) ==
  \/ RefuseUnknown("store", k)
  \/ /\ Live(k)
     /\ disk' = [u \in User |->
                   IF \E j \in Key : Live(j) /\ db[j].user = u
                     THEN Image(db[CHOOSE j \in Key : Live(j) /\ db[j].user = u].data)
                     ELSE disk[u]]
     /\ Reply("store", db[k].user, TRUE, NONE)
     /\ UNCHANGED memory

-----------------------------------------------------------------------------
login(u) ==
  \/ /\ u \in active_users
     /\ Refuse("login", u)
  \/ /\ u \notin active_users
     /\ key + 1 \in Key
     /\ key' = key + 1
     /\ db' = [db EXCEPT ![key + 1] = NewClientData(u)]
     /\ active_users' = active_users \cup {u}
     /\ Reply("login", u, TRUE, key + 1)
     /\ UNCHANGED disk

logout(k) ==
  \/ RefuseUnknown("logout", k)
  \/ /\ Live(k)
     /\ active_users' = active_users \ {db[k].user}
     /\ db' = [db EXCEPT ![k] = NONE]
     /\ Reply("logout", db[k].user, TRUE, NONE)
     /\ UNCHANGED <<key, disk>>

add_update(k, id, method, v) ==
  \/ RefuseUnknown("add_update", k)
  \/ /\ Live(k)
     /\ Stored(k, id) # (method = "UPDATE")
     /\ Refuse("add_update", db[k].user)
  \/ /\ Live(k)
     /\ Stored(k, id) = (method = "UPDATE")
     /\ db' = [db EXCEPT ![k] = [@ EXCEPT !.data[id] = v, !.counted = TRUE]]
     /\ Reply("add_update", db[k].user, TRUE, NONE)
     /\ UNCHANGED <<key, active_users, disk>>

read_entry(k, id) ==
  \/ RefuseUnknown("read_entry", k)
  \/ /\ Live(k)
     /\ ~Stored(k, id)
     /\ Refuse("read_entry", db[k].user)
  \/ /\ Live(k)
     /\ Stored(k, id)
     /\ Reply("read_entry", db[k].user, TRUE, db[k].data[id])
     /\ UNCHANGED <<memory, disk>>

del(k, id) ==
  \/ RefuseUnknown("del", k)
  \/ /\ Live(k)
     /\ ~Stored(k, id)
     /\ Refuse("del", db[k].user)
  \/ /\ Live(k)
     /\ Stored(k, id)
     /\ db' = [db EXCEPT ![k].data[id] = NONE]
     /\ Reply("del", db[k].user, TRUE, NONE)
     /\ UNCHANGED <<key, active_users, disk>>

load(k) ==
  \/ RefuseUnknown("load", k)
  \/ /\ Live(k)
     /\ ~(db[k].data = NoData /\ HasFile(k))
     /\ Refuse("load", db[k].user)
  \/ /\ Live(k)
     /\ db[k].data = NoData /\ HasFile(k)
     /\ \E d \in Loaded(disk[db[k].user]) :
           db' = [db EXCEPT ![k] = [@ EXCEPT !.data = d, !.counted = TRUE]]
     /\ Reply("load", db[k].user, TRUE, NONE)
     /\ UNCHANGED <<key, active_users, disk>>

store(k) ==
  \/ RefuseUnknown("store", k)
  \/ /\ Live(k)
     /\ db[k].data = NoData
     /\ Refuse("store", db[k].user)
  \/ /\ Live(k)
     /\ db[k].data # NoData
     /\ \E f \in Left(db[k].data, disk[db[k].user]) :
           disk' = [disk EXCEPT ![db[k].user] = f]
     /\ Reply("store", db[k].user, TRUE, NONE)
     /\ UNCHANGED memory

get_stats(k, id) ==
  \/ RefuseUnknown("get_stats", k)
  \/ /\ Live(k)
     /\ db[k].data[id] \in {NONE, EMPTY}
     /\ Refuse("get_stats", db[k].user)
  \/ /\ Live(k)
     /\ db[k].data[id] \notin {NONE, EMPTY}
     /\ Reply("get_stats", db[k].user, TRUE, NONE)
     /\ UNCHANGED <<memory, disk>>

get_stats_all(k) ==
  \/ RefuseUnknown("get_stats_all", k)
  \/ /\ Live(k)
     /\ ~db[k].counted
     /\ Refuse("get_stats_all", db[k].user)
  \/ /\ Live(k)
     /\ db[k].counted
     /\ Reply("get_stats_all", db[k].user, TRUE, NONE)
     /\ UNCHANGED <<memory, disk>>

\* What a new server process starts with.
FreshMemory ==
  /\ key' = 0
  /\ active_users' = {}
  /\ db' = [k \in Key |-> NONE]

Crash ==
  /\ FreshMemory
  /\ Reply("crash", NONE, FALSE, NONE)
  /\ UNCHANGED disk

CrashInStore(k) ==
  /\ Live(k)
  /\ db[k].data # NoData
  /\ \E f \in PartialImages(db[k].data) :
        disk' = [disk EXCEPT ![db[k].user] = f]
  /\ FreshMemory
  /\ Reply("crash", db[k].user, FALSE, NONE)

Next ==
  \/ \E u \in User : login(u)
  \/ \E k \in AnyKey :
       \/ logout(k)
       \/ load(k)
       \/ store(k)
       \/ get_stats_all(k)
       \/ CrashInStore(k)
       \/ \E id \in Id :
            \/ \E m \in {"ADD", "UPDATE"}, v \in Value : add_update(k, id, m, v)
            \/ read_entry(k, id)
            \/ del(k, id)
            \/ get_stats(k, id)
  \/ Crash

Spec == Init /\ [][Next]_vars

-----------------------------------------------------------------------------
Response == [op: Operation \cup {"start", "crash"}, user: User \cup {NONE},
             ok: BOOLEAN, val: Content \cup Key \cup {NONE}]

TypeOK ==
  /\ key \in 0 .. UINT_MAX - 1
  /\ active_users \subseteq User
  /\ db \in [Key -> ClientData \cup {NONE}]
  /\ disk \in [User -> File \cup {NONE}]
  /\ resp \in Response

\* active_users and db, which the handlers update separately, never drift
\* apart: a user is marked as logged in exactly when a session is theirs, and
\* never has two (login refuses, logout frees the user of the session it ends).
SessionsMatchUsers ==
  /\ active_users = {db[k].user : k \in {j \in Key : Live(j)}}
  /\ \A j, k \in Key :
        Live(j) /\ Live(k) /\ db[j].user = db[k].user => j = k

\* The counter is never behind a session, so ++key in login names a new one
\* and never overwrites somebody's database.
NextKeyIsFree == \A k \in Key : Live(k) => k <= key

\* A session that has entries has a non-zero num_elem, whichever of add,
\* update and load put them there: get_stats_all never refuses a database
\* that has something in it.
EntriesAreCounted ==
  \A k \in Key : Live(k) /\ db[k].data # NoData => db[k].counted

\* A key that was issued and is no longer a session's never becomes one again
\* while the process lives, so a request sent with the key of a session that
\* has ended reaches nobody's database.
KeysAreNotReused ==
  [][key # 0 /\ key' # 0 =>
       \A k \in Key : k <= key /\ db[k] = NONE => db'[k] = NONE]_vars

\* Short of a crash, only the owner's own requests change a user's database
\* or file, and no request changes both.
OneDatabasePerRequest ==
  [][resp'.op # "crash" =>
       LET touched == {k \in Key : db'[k] # db[k]}
           written == {u \in User : disk'[u] # disk[u]}
       IN  /\ touched = {} \/ written = {}
           /\ written \subseteq {resp'.user}
           /\ \A k \in touched : IF Live(k) THEN db[k].user = resp'.user
                                            ELSE db'[k].user = resp'.user]_vars

============================================================================
