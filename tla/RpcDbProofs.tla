---------------------------- MODULE RpcDbProofs ----------------------------
(***************************************************************************)
(* What holds of the server of Teme/Tema1 for any users, ids, values and   *)
(* any number of sessions: its invariants, what a step may change, and     *)
(* that it implements UserDatabases but for the two lapses which that      *)
(* module names.  Then what holds of the clients at work with it, for any  *)
(* clients, any commands and any number of requests that wait: the types,  *)
(* that a request reaches its sender's session or none, and, when no call  *)
(* times out, that a client knows its session.                             *)
(***************************************************************************)
EXTENDS RpcDbSystem, RpcDbServerImplements, SequenceTheorems, TLAPS

-----------------------------------------------------------------------------
\* The server.

\* The inductive invariant.  That a user has one session (SessionsMatchUsers)
\* is kept by login only because the key it takes is free (NextKeyIsFree).
Sound == TypeOK /\ SessionsMatchUsers /\ NextKeyIsFree /\ EntriesAreCounted

USE DEF Data, Content, NoData, Operation

\* A live session is a ClientData and nothing else in db is.
LEMMA LiveSession ==
  ASSUME TypeOK, NEW k, Live(k)
  PROVE  /\ k \in Key /\ db[k] \in ClientData
         /\ db[k].user \in User /\ db[k].data \in Data /\ db[k].counted \in BOOLEAN
BY DEF TypeOK, Live, ClientData

\* A step that only replies.
LEMMA OnlyReplies ==
  ASSUME Sound, UNCHANGED memory, disk' \in [User -> File \cup {NONE}],
         resp' \in Response
  PROVE  Sound'
BY DEF Sound, TypeOK, SessionsMatchUsers, NextKeyIsFree, EntriesAreCounted,
       Live, memory, Response

LEMMA RefuseKeepsSound ==
  ASSUME Sound, NEW op \in Operation, NEW u \in User \cup {NONE}, Refuse(op, u)
  PROVE  Sound'
<1>1. UNCHANGED memory /\ disk' \in [User -> File \cup {NONE}]
  BY DEF Refuse, Sound, TypeOK
<1>2. resp' \in Response
  BY DEF Refuse, Reply, Response
<1> QED BY <1>1, <1>2, OnlyReplies

\* A step that changes the entries of one session and counts them.
LEMMA ChangeKeepsSound ==
  ASSUME Sound, NEW k, Live(k),
         NEW s \in ClientData, s.user = db[k].user, s.data # NoData => s.counted,
         db' = [db EXCEPT ![k] = s],
         UNCHANGED <<key, active_users, disk>>, resp' \in Response
  PROVE  Sound'
<1>1. k \in Key /\ s # NONE /\ db[k] # NONE
  BY LiveSession, ServerAssumption DEF Sound, ClientData, Live
<1>2. db \in [Key -> ClientData \cup {NONE}]
  BY DEF Sound, TypeOK
<1>3. /\ db' \in [Key -> ClientData \cup {NONE}]
      /\ db'[k] = s /\ \A j \in Key \ {k} : db'[j] = db[j]
  BY <1>1, <1>2
<1>4. \A j \in Key : (Live(j)' <=> Live(j)) /\ db'[j].user = db[j].user
  BY <1>1, <1>3 DEF Live
<1>5. TypeOK'
  BY <1>3 DEF Sound, TypeOK, Response
<1>6. SessionsMatchUsers'
  BY <1>4 DEF Sound, SessionsMatchUsers
<1>7. NextKeyIsFree'
  BY <1>4 DEF Sound, NextKeyIsFree
<1>8. EntriesAreCounted'
  BY <1>3, <1>4 DEF Sound, EntriesAreCounted
<1> QED BY <1>5, <1>6, <1>7, <1>8 DEF Sound

\* A new process, whatever the files.
LEMMA FreshIsSound ==
  ASSUME FreshMemory, disk' \in [User -> File \cup {NONE}], resp' \in Response
  PROVE  Sound'
BY ServerAssumption
   DEF FreshMemory, Sound, TypeOK, SessionsMatchUsers, NextKeyIsFree,
       EntriesAreCounted, Live, Response, Key

-----------------------------------------------------------------------------
\* What goes to the disk, and what can come back, is well-formed.
LEMMA ImageIsFile ==
  ASSUME NEW d \in Data
  PROVE  /\ Image(d) \in File
         /\ PartialImages(d) \subseteq File
<1>1. \A S : Keep(d, S) \in Data
  BY DEF Keep
<1>2. Image(d) \in File
  BY <1>1 DEF Image, File
<1>3. NoData \in Data
  OBVIOUS
<1> QED BY <1>1, <1>2, <1>3 DEF PartialImages, File

LEMMA LoadedIsData ==
  ASSUME NEW f \in File, NEW d \in Loaded(f)
  PROVE  d \in Data
<1>1. f.ents \in Data /\ NoData \in Data
  BY DEF File
<1>2. ASSUME NEW e \in Data, NEW C \in SUBSET {EMPTY, JUNK}
      PROVE  GarbageEntry(e, C) \subseteq Data
  <2> SUFFICES ASSUME NEW p \in {i \in Id : e[i] = NONE} \X C
               PROVE  [e EXCEPT ![p[1]] = p[2]] \in Data
    BY DEF GarbageEntry
  <2>1. p[1] \in Id /\ p[2] \in Content
    OBVIOUS
  <2> QED BY <2>1
<1>3. GarbageEntry(f.ents, {EMPTY, JUNK}) \subseteq Data
      /\ GarbageEntry(NoData, {EMPTY}) \subseteq Data
  BY <1>1, <1>2
<1>4. CASE f.extent = "complete"
  BY <1>1, <1>4 DEF Loaded
<1>5. CASE f.extent = "torn"
  BY <1>1, <1>3, <1>5 DEF Loaded
<1>6. CASE f.extent \notin {"complete", "torn"}
  BY <1>1, <1>3, <1>6 DEF Loaded
<1> QED BY <1>4, <1>5, <1>6

-----------------------------------------------------------------------------
LEMMA InitSound ==
  ASSUME Init
  PROVE  Sound
BY ServerAssumption
   DEF Init, Sound, TypeOK, SessionsMatchUsers, NextKeyIsFree,
       EntriesAreCounted, Live, Response, Key

LEMMA loginKeepsSound ==
  ASSUME Sound, NEW u \in User, login(u)
  PROVE  Sound'
<1>1. CASE u \in active_users
  BY <1>1, RefuseKeepsSound DEF login
<1>2. CASE u \notin active_users
  <2> PICK n \in Int : n = key + 1
    BY DEF Sound, TypeOK
  <2>1. /\ n \in Key /\ key' = n
        /\ db' = [db EXCEPT ![n] = NewClientData(u)]
        /\ active_users' = active_users \cup {u}
        /\ Reply("login", u, TRUE, n) /\ disk' = disk
    BY <1>2 DEF login
  <2>0. resp' \in Response
    BY <2>1 DEF Reply, Response
  <2>2. /\ NewClientData(u) \in ClientData /\ NewClientData(u) # NONE
        /\ NewClientData(u).user = u /\ NewClientData(u).data = NoData
    <3>1. NoData \in Data
      OBVIOUS
    <3>2. NewClientData(u) \in ClientData
      BY <3>1 DEF NewClientData, ClientData
    <3> QED BY <3>2, ServerAssumption DEF NewClientData
  <2>3. key \in Int /\ db \in [Key -> ClientData \cup {NONE}] /\ ~Live(n)
    BY <2>1 DEF Sound, TypeOK, NextKeyIsFree, Key
  <2>4. /\ db' \in [Key -> ClientData \cup {NONE}]
        /\ db'[n] = NewClientData(u) /\ \A j \in Key \ {n} : db'[j] = db[j]
    BY <2>1, <2>2, <2>3
  <2>5. /\ (Live(n))' /\ db'[n].user = u /\ db'[n].data = NoData
        /\ \A j \in Key \ {n} : (Live(j)' <=> Live(j)) /\ db'[j] = db[j]
    BY <2>1, <2>2, <2>4 DEF Live
  <2>6. TypeOK'
    BY <2>0, <2>1, <2>4 DEF Sound, TypeOK, Key
  <2>7. SessionsMatchUsers'
    <3>1. \A j \in Key : Live(j) => db[j].user \in active_users
      BY DEF Sound, SessionsMatchUsers
    <3>2. \A i, j \in Key :
             Live(i)' /\ Live(j)' /\ db'[i].user = db'[j].user => i = j
      BY <1>2, <2>1, <2>5, <3>1 DEF Sound, SessionsMatchUsers
    <3>3. {j \in Key : Live(j)'} = {j \in Key : Live(j)} \cup {n}
      BY <2>1, <2>5
    <3>4. active_users' = {db'[j].user : j \in {i \in Key : Live(i)'}}
      BY <2>1, <2>3, <2>5, <3>3 DEF Sound, SessionsMatchUsers
    <3> QED BY <3>2, <3>4 DEF SessionsMatchUsers
  <2>8. NextKeyIsFree'
    BY <2>1, <2>3, <2>5 DEF Sound, NextKeyIsFree, Key
  <2>9. EntriesAreCounted'
    BY <2>5 DEF Sound, EntriesAreCounted
  <2> QED BY <2>6, <2>7, <2>8, <2>9 DEF Sound
<1> QED BY <1>1, <1>2

LEMMA logoutKeepsSound ==
  ASSUME Sound, NEW k \in AnyKey, logout(k)
  PROVE  Sound'
<1>1. CASE ~Live(k)
  BY <1>1, RefuseKeepsSound DEF logout, RefuseUnknown
<1>2. CASE Live(k)
  <2>1. /\ key' = key /\ disk' = disk
        /\ db' = [db EXCEPT ![k] = NONE]
        /\ active_users' = active_users \ {db[k].user}
        /\ resp' = [op |-> "logout", user |-> db[k].user, ok |-> TRUE, val |-> NONE]
    BY <1>2 DEF logout, RefuseUnknown, Reply
  <2>2. k \in Key /\ db[k].user \in User /\ db \in [Key -> ClientData \cup {NONE}]
    BY <1>2, LiveSession DEF Sound, TypeOK
  <2>3. /\ db' \in [Key -> ClientData \cup {NONE}] /\ ~Live(k)'
        /\ \A j \in Key \ {k} : (Live(j)' <=> Live(j)) /\ db'[j] = db[j]
    BY <2>1, <2>2 DEF Live
  <2>4. TypeOK'
    BY <2>1, <2>2, <2>3 DEF Sound, TypeOK, Response
  <2>5. SessionsMatchUsers'
    BY <1>2, <2>1, <2>2, <2>3 DEF Sound, SessionsMatchUsers
  <2>6. NextKeyIsFree' /\ EntriesAreCounted'
    BY <2>1, <2>3 DEF Sound, NextKeyIsFree, EntriesAreCounted
  <2> QED BY <2>4, <2>5, <2>6 DEF Sound
<1> QED BY <1>1, <1>2

LEMMA add_updateKeepsSound ==
  ASSUME Sound, NEW k \in AnyKey, NEW id \in Id, NEW m, NEW v \in Value,
         add_update(k, id, m, v)
  PROVE  Sound'
<1>1. CASE ~Live(k) \/ Stored(k, id) # (m = "UPDATE")
  BY <1>1, LiveSession, RefuseKeepsSound DEF add_update, RefuseUnknown, Sound
<1>2. CASE Live(k) /\ Stored(k, id) = (m = "UPDATE")
  <2> DEFINE d == [db[k].data EXCEPT ![id] = v]
             s == [db[k] EXCEPT !.data[id] = v, !.counted = TRUE]
  <2>1. /\ db' = [db EXCEPT ![k] = [@ EXCEPT !.data[id] = v, !.counted = TRUE]]
        /\ UNCHANGED <<key, active_users, disk>>
        /\ Reply("add_update", db[k].user, TRUE, NONE)
    BY <1>2 DEF add_update, RefuseUnknown
  <2>2. db[k] \in ClientData /\ db[k].user \in User /\ d \in Data
    BY <1>2, LiveSession DEF Sound
  <2>3. s \in ClientData /\ s.user = db[k].user /\ s.counted
    BY <2>2 DEF ClientData
  <2>4. resp' \in Response
    BY <2>1, <2>2 DEF Reply, Response
  <2> QED BY <1>2, <2>1, <2>2, <2>3, <2>4, ChangeKeepsSound
<1> QED BY <1>1, <1>2

LEMMA delKeepsSound ==
  ASSUME Sound, NEW k \in AnyKey, NEW id \in Id, del(k, id)
  PROVE  Sound'
<1>1. CASE ~Live(k) \/ ~Stored(k, id)
  BY <1>1, LiveSession, RefuseKeepsSound DEF del, RefuseUnknown, Sound
<1>2. CASE Live(k) /\ Stored(k, id)
  <2> DEFINE d == [db[k].data EXCEPT ![id] = NONE]
             s == [db[k] EXCEPT !.data[id] = NONE]
  <2>1. /\ db' = [db EXCEPT ![k].data[id] = NONE]
        /\ UNCHANGED <<key, active_users, disk>>
        /\ Reply("del", db[k].user, TRUE, NONE)
    BY <1>2 DEF del, RefuseUnknown
  <2>2. /\ k \in Key /\ db[k] \in ClientData /\ db[k].user \in User
        /\ d \in Data /\ db[k].counted \in BOOLEAN
    BY <1>2, LiveSession DEF Sound
  <2>3. s \in ClientData /\ s.user = db[k].user /\ s.counted = db[k].counted
    BY <2>2 DEF ClientData
  <2>4. db[k].data # NoData
    BY <1>2 DEF Stored
  <2>5. db[k].counted
    BY <1>2, <2>2, <2>4 DEF Sound, EntriesAreCounted
  <2>6. resp' \in Response
    BY <2>1, <2>2 DEF Reply, Response
  <2> QED BY <1>2, <2>1, <2>2, <2>3, <2>5, <2>6, ChangeKeepsSound
<1> QED BY <1>1, <1>2

LEMMA loadKeepsSound ==
  ASSUME Sound, NEW k \in AnyKey, load(k)
  PROVE  Sound'
<1>1. CASE ~Live(k) \/ ~(db[k].data = NoData /\ HasFile(k))
  BY <1>1, LiveSession, RefuseKeepsSound DEF load, RefuseUnknown, Sound
<1>2. CASE Live(k) /\ db[k].data = NoData /\ HasFile(k)
  <2>1. PICK d \in Loaded(disk[db[k].user]) :
           /\ db' = [db EXCEPT ![k] = [@ EXCEPT !.data = d, !.counted = TRUE]]
           /\ UNCHANGED <<key, active_users, disk>>
           /\ Reply("load", db[k].user, TRUE, NONE)
    BY <1>2 DEF load, RefuseUnknown
  <2>2. db[k] \in ClientData /\ db[k].user \in User
    BY <1>2, LiveSession DEF Sound
  <2>3. d \in Data
    BY <1>2, <2>2, LoadedIsData DEF Sound, TypeOK, HasFile
  <2> DEFINE s == [db[k] EXCEPT !.data = d, !.counted = TRUE]
  <2>4. s \in ClientData /\ s.user = db[k].user /\ s.counted
    BY <2>2, <2>3 DEF ClientData
  <2>5. resp' \in Response
    BY <2>1, <2>2 DEF Reply, Response
  <2> QED BY <1>2, <2>1, <2>3, <2>4, <2>5, ChangeKeepsSound
<1> QED BY <1>1, <1>2

LEMMA storeKeepsSound ==
  ASSUME Sound, NEW k \in AnyKey, store(k)
  PROVE  Sound'
<1>1. CASE ~Live(k) \/ db[k].data = NoData
  BY <1>1, LiveSession, RefuseKeepsSound DEF store, RefuseUnknown, Sound
<1>2. CASE Live(k) /\ db[k].data # NoData
  <2>1. PICK f \in Left(db[k].data, disk[db[k].user]) :
           /\ disk' = [disk EXCEPT ![db[k].user] = f]
           /\ Reply("store", db[k].user, TRUE, NONE)
           /\ UNCHANGED memory
    BY <1>2 DEF store, RefuseUnknown
  <2>2. db[k].user \in User /\ f \in File \cup {NONE}
    BY <1>2, LiveSession, ImageIsFile DEF Sound, TypeOK, Left
  <2>3. disk' \in [User -> File \cup {NONE}] /\ resp' \in Response
    BY <2>1, <2>2 DEF Sound, TypeOK, Reply, Response
  <2> QED BY <2>1, <2>3, OnlyReplies
<1> QED BY <1>1, <1>2

LEMMA ReadKeepsSound ==
  ASSUME Sound, NEW op \in Operation, NEW u \in User, NEW ok \in BOOLEAN,
         NEW v \in Content \cup {NONE},
         Reply(op, u, ok, v), UNCHANGED <<memory, disk>>
  PROVE  Sound'
<1>1. resp' \in Response
  BY DEF Reply, Response
<1> QED BY <1>1, OnlyReplies DEF Sound, TypeOK

LEMMA read_entryKeepsSound ==
  ASSUME Sound, NEW k \in AnyKey, NEW id \in Id, read_entry(k, id)
  PROVE  Sound'
<1>1. CASE ~Live(k) \/ ~Stored(k, id)
  BY <1>1, LiveSession, RefuseKeepsSound DEF read_entry, RefuseUnknown, Sound
<1>2. CASE Live(k) /\ Stored(k, id)
  <2>1. db[k].user \in User /\ db[k].data[id] \in Content \cup {NONE}
    BY <1>2, LiveSession DEF Sound
  <2>2. /\ Reply("read_entry", db[k].user, TRUE, db[k].data[id])
        /\ UNCHANGED <<memory, disk>>
    BY <1>2 DEF read_entry, RefuseUnknown
  <2> QED BY <2>1, <2>2, ReadKeepsSound
<1> QED BY <1>1, <1>2

LEMMA get_statsKeepsSound ==
  ASSUME Sound, NEW k \in AnyKey, NEW id \in Id, get_stats(k, id)
  PROVE  Sound'
<1>1. CASE ~Live(k)
  BY <1>1, RefuseKeepsSound DEF get_stats, RefuseUnknown
<1>2. CASE Live(k)
  <2>1. db[k].user \in User
    BY <1>2, LiveSession DEF Sound
  <2>2. \/ Refuse("get_stats", db[k].user)
        \/ /\ Reply("get_stats", db[k].user, TRUE, NONE)
           /\ UNCHANGED <<memory, disk>>
    BY <1>2 DEF get_stats, RefuseUnknown
  <2> QED BY <2>1, <2>2, RefuseKeepsSound, ReadKeepsSound
<1> QED BY <1>1, <1>2

LEMMA get_stats_allKeepsSound ==
  ASSUME Sound, NEW k \in AnyKey, get_stats_all(k)
  PROVE  Sound'
<1>1. CASE ~Live(k)
  BY <1>1, RefuseKeepsSound DEF get_stats_all, RefuseUnknown
<1>2. CASE Live(k)
  <2>1. db[k].user \in User
    BY <1>2, LiveSession DEF Sound
  <2>2. \/ Refuse("get_stats_all", db[k].user)
        \/ /\ Reply("get_stats_all", db[k].user, TRUE, NONE)
           /\ UNCHANGED <<memory, disk>>
    BY <1>2 DEF get_stats_all, RefuseUnknown
  <2> QED BY <2>1, <2>2, RefuseKeepsSound, ReadKeepsSound
<1> QED BY <1>1, <1>2

LEMMA CrashKeepsSound ==
  ASSUME Sound, Crash \/ \E k \in AnyKey : CrashInStore(k)
  PROVE  Sound'
<1>1. CASE Crash
  BY <1>1, FreshIsSound DEF Crash, Reply, Response, Sound, TypeOK
<1>2. ASSUME NEW k \in AnyKey, CrashInStore(k)
      PROVE  Sound'
  <2>1. PICK f \in PartialImages(db[k].data) :
           disk' = [disk EXCEPT ![db[k].user] = f]
    BY <1>2 DEF CrashInStore
  <2>2. db[k].user \in User /\ f \in File
    BY <1>2, LiveSession, ImageIsFile DEF Sound, CrashInStore
  <2>3. disk' \in [User -> File \cup {NONE}]
    BY <2>1, <2>2 DEF Sound, TypeOK
  <2>4. FreshMemory /\ resp' \in Response
    BY <1>2, <2>2 DEF CrashInStore, Reply, Response
  <2> QED BY <2>3, <2>4, FreshIsSound
<1> QED BY <1>1, <1>2

LEMMA NextKeepsSound ==
  ASSUME Sound, [Next]_vars
  PROVE  Sound'
<1>1. CASE UNCHANGED vars
  BY <1>1, OnlyReplies DEF vars, memory, Sound, TypeOK
<1>2. ASSUME NEW u \in User, login(u) PROVE Sound'
  BY <1>2, loginKeepsSound
<1>3. ASSUME NEW k \in AnyKey, logout(k) \/ load(k) \/ store(k) PROVE Sound'
  BY <1>3, logoutKeepsSound, loadKeepsSound, storeKeepsSound
<1>4. ASSUME NEW k \in AnyKey, NEW id \in Id,
             \/ \E m \in {"ADD", "UPDATE"}, v \in Value : add_update(k, id, m, v)
             \/ del(k, id) \/ read_entry(k, id) \/ get_stats(k, id)
      PROVE  Sound'
  BY <1>4, add_updateKeepsSound, delKeepsSound, read_entryKeepsSound,
     get_statsKeepsSound
<1>5. ASSUME NEW k \in AnyKey, get_stats_all(k) PROVE Sound'
  BY <1>5, get_stats_allKeepsSound
<1>6. ASSUME Crash \/ \E k \in AnyKey : CrashInStore(k) PROVE Sound'
  BY <1>6, CrashKeepsSound
<1> QED BY <1>1, <1>2, <1>3, <1>4, <1>5, <1>6 DEF Next

-----------------------------------------------------------------------------
\* Every variable keeps its type: no handler stores what is not a database,
\* and no crash leaves what is not a file.
THEOREM TypeCorrect == Spec => []TypeOK
<1>1. Init => Sound
  BY InitSound
<1>2. Sound /\ [Next]_vars => Sound'
  BY NextKeepsSound
<1>3. Sound => TypeOK
  BY DEF Sound
<1> QED BY <1>1, <1>2, <1>3, PTL DEF Spec

\* The logged-in users are those of the sessions and each has one session,
\* whatever the interleaving of logins, logouts and crashes.
THEOREM OneSessionPerUser == Spec => [](SessionsMatchUsers /\ NextKeyIsFree)
<1>1. Init => Sound
  BY InitSound
<1>2. Sound /\ [Next]_vars => Sound'
  BY NextKeepsSound
<1>3. Sound => SessionsMatchUsers /\ NextKeyIsFree
  BY DEF Sound
<1> QED BY <1>1, <1>2, <1>3, PTL DEF Spec

\* A database that has entries has a non-zero num_elem.
THEOREM StatsForEntries == Spec => []EntriesAreCounted
<1>1. Init => Sound
  BY InitSound
<1>2. Sound /\ [Next]_vars => Sound'
  BY NextKeepsSound
<1>3. Sound => EntriesAreCounted
  BY DEF Sound
<1> QED BY <1>1, <1>2, <1>3, PTL DEF Spec

-----------------------------------------------------------------------------
\* While the process lives, no step makes a session of a key that is not
\* ahead of the counter and has none.
LEMMA EndedStaysEnded ==
  ASSUME Sound, [Next]_vars, NEW j \in Key, key' # 0, j <= key, db[j] = NONE
  PROVE  db'[j] = NONE
<1>1. CASE db' = db
  BY <1>1
<1>2. ASSUME NEW u \in User, login(u)
      PROVE  db'[j] = NONE
  <2>1. db' = db \/ (key + 1 \in Key /\ db' = [db EXCEPT ![key + 1] = NewClientData(u)])
    BY <1>2 DEF login, Refuse, memory
  <2>2. key + 1 # j
    BY DEF Sound, TypeOK, Key
  <2> QED BY <2>1, <2>2 DEF Sound, TypeOK
<1>3. ASSUME NEW k \in AnyKey, Live(k),
             \E s : db' = [db EXCEPT ![k] = s]
      PROVE  db'[j] = NONE
  BY <1>3 DEF Live, Sound, TypeOK
<1>4. ASSUME NEW k \in AnyKey, logout(k)
      PROVE  db'[j] = NONE
  BY <1>1, <1>3, <1>4 DEF logout, RefuseUnknown, Refuse, memory
<1>5. ASSUME NEW k \in AnyKey, load(k) \/ store(k) \/ get_stats_all(k)
      PROVE  db'[j] = NONE
  BY <1>1, <1>3, <1>5
     DEF load, store, get_stats_all, RefuseUnknown, Refuse, memory
<1>6. ASSUME NEW k \in AnyKey, NEW id \in Id,
             \/ \E m \in {"ADD", "UPDATE"}, v \in Value : add_update(k, id, m, v)
             \/ read_entry(k, id) \/ del(k, id) \/ get_stats(k, id)
      PROVE  db'[j] = NONE
  <2>1. db' = db \/ (Live(k) /\ \E s : db' = [db EXCEPT ![k] = s])
    BY <1>6 DEF add_update, read_entry, del, get_stats, RefuseUnknown, Refuse,
                memory
  <2> QED BY <1>1, <1>3, <2>1
<1>7. ~(Crash \/ \E k \in AnyKey : CrashInStore(k))
  BY DEF Crash, CrashInStore, FreshMemory
<1>8. CASE UNCHANGED vars
  BY <1>1, <1>8 DEF vars
<1> QED BY <1>2, <1>4, <1>5, <1>6, <1>7, <1>8 DEF Next

\* A session key is never given out twice by one server process.
THEOREM KeysIssuedOnce == Spec => KeysAreNotReused
<1>1. Init => Sound
  BY InitSound
<1>2. Sound /\ [Next]_vars => Sound'
  BY NextKeepsSound
<1>3. Sound /\ [Next]_vars =>
        [key # 0 /\ key' # 0 =>
           \A k \in Key : k <= key /\ db[k] = NONE => db'[k] = NONE]_vars
  BY EndedStaysEnded
<1> QED BY <1>1, <1>2, <1>3, PTL DEF Spec, KeysAreNotReused

-----------------------------------------------------------------------------
\* What a step that is no crash does to sessions and files, and for whom.
Touches(u) ==
  /\ \A k \in Key : db'[k] # db[k] =>
       IF Live(k) THEN db[k].user = u ELSE db'[k].user = u
  /\ disk' = disk
Writes(u) == db' = db /\ \A v \in User : disk'[v] # disk[v] => v = u

LEMMA StepHasOneUser ==
  ASSUME Sound, Next, resp'.op # "crash"
  PROVE  Touches(resp'.user) \/ Writes(resp'.user)
<1> DEFINE Keeps == db' = db /\ disk' = disk
           Changes(k) == /\ Live(k) /\ resp'.user = db[k].user /\ disk' = disk
                         /\ \E s : db' = [db EXCEPT ![k] = s]
<1>1. CASE Keeps
  BY <1>1 DEF Writes
<1>2. ASSUME NEW k \in AnyKey, Changes(k) \/ Keeps
      PROVE  Touches(resp'.user) \/ Writes(resp'.user)
  BY <1>1, <1>2 DEF Touches, Live, Sound, TypeOK
<1>3. ASSUME NEW u \in User, login(u)
      PROVE  Touches(resp'.user) \/ Writes(resp'.user)
  <2>1. CASE u \in active_users
    BY <1>1, <1>3, <2>1 DEF login, Refuse, memory
  <2>2. CASE u \notin active_users
    <3>1. /\ key + 1 \in Key /\ db' = [db EXCEPT ![key + 1] = NewClientData(u)]
          /\ resp'.user = u /\ disk' = disk
      BY <1>3, <2>2 DEF login, Reply
    <3>2. ~Live(key + 1)
      BY <3>1 DEF Sound, NextKeyIsFree, TypeOK, Key
    <3> QED BY <3>1, <3>2 DEF Touches, NewClientData, Sound, TypeOK
  <2> QED BY <2>1, <2>2
<1>4. ASSUME NEW k \in AnyKey, logout(k) \/ load(k) \/ get_stats_all(k)
      PROVE  Touches(resp'.user) \/ Writes(resp'.user)
  <2>1. logout(k) => Changes(k) \/ Keeps
    BY DEF logout, RefuseUnknown, Refuse, Reply, memory
  <2>2. load(k) => Changes(k) \/ Keeps
    <3>1. CASE RefuseUnknown("load", k) \/ Refuse("load", db[k].user)
      BY <3>1 DEF RefuseUnknown, Refuse, memory
    <3>2. ASSUME NEW s, Live(k), db' = [db EXCEPT ![k] = s], Reply("load", db[k].user, TRUE, NONE),
                 disk' = disk
          PROVE  Changes(k)
      BY <3>2 DEF Reply
    <3> QED BY <3>1, <3>2 DEF load
  <2>3. get_stats_all(k) => Keeps
    BY DEF get_stats_all, RefuseUnknown, Refuse, memory
  <2>4. Changes(k) \/ Keeps
    BY <1>4, <2>1, <2>2, <2>3
  <2> QED BY <1>2, <2>4
<1>5. ASSUME NEW k \in AnyKey, NEW id \in Id,
             \/ \E m \in {"ADD", "UPDATE"}, v \in Value : add_update(k, id, m, v)
             \/ read_entry(k, id) \/ del(k, id) \/ get_stats(k, id)
      PROVE  Touches(resp'.user) \/ Writes(resp'.user)
  <2>1. ASSUME NEW m, NEW v, add_update(k, id, m, v) PROVE Changes(k) \/ Keeps
    BY <2>1 DEF add_update, RefuseUnknown, Refuse, Reply, memory
  <2>2. del(k, id) => Changes(k) \/ Keeps
    BY DEF del, RefuseUnknown, Refuse, Reply, memory
  <2>3. read_entry(k, id) \/ get_stats(k, id) => Keeps
    BY DEF read_entry, get_stats, RefuseUnknown, Refuse, memory
  <2>4. Changes(k) \/ Keeps
    BY <1>5, <2>1, <2>2, <2>3
  <2> QED BY <1>2, <2>4
<1>6. ASSUME NEW k \in AnyKey, store(k)
      PROVE  Touches(resp'.user) \/ Writes(resp'.user)
  <2>1. CASE Live(k) /\ \E f : disk' = [disk EXCEPT ![db[k].user] = f]
                     /\ db' = db /\ resp'.user = db[k].user
    BY <2>1 DEF Writes, Sound, TypeOK
  <2> QED BY <1>1, <1>6, <2>1 DEF store, RefuseUnknown, Refuse, Reply, memory
<1>7. ~(Crash \/ \E k \in AnyKey : CrashInStore(k))
  BY DEF Crash, CrashInStore, Reply
<1> QED BY <1>3, <1>4, <1>5, <1>6, <1>7 DEF Next

\* Only the requests of a database's owner change it or its file, whichever key
\* they come with, and no request does both: the handlers find the user by the key.
THEOREM OneOwnerPerRequest == Spec => OneDatabasePerRequest
<1>1. Init => Sound
  BY InitSound
<1>2. Sound /\ [Next]_vars => Sound'
  BY NextKeepsSound
<1>3. Sound /\ [Next]_vars =>
        [resp'.op # "crash" =>
           LET touched == {k \in Key : db'[k] # db[k]}
               written == {u \in User : disk'[u] # disk[u]}
           IN  /\ touched = {} \/ written = {}
               /\ written \subseteq {resp'.user}
               /\ \A k \in touched : IF Live(k) THEN db[k].user = resp'.user
                                                ELSE db'[k].user = resp'.user]_vars
  BY StepHasOneUser DEF Touches, Writes
<1> QED BY <1>1, <1>2, <1>3, PTL DEF Spec, OneDatabasePerRequest

-----------------------------------------------------------------------------
(* Seen by a user, each handler is the operation of their own database, and *)
(* a crash is a restart.                                                    *)

\* A whole file is never that of an empty database: store refuses those.
FilesHaveEntries ==
  \A u \in User : disk[u] # NONE /\ disk[u].extent = "complete" =>
                    disk[u].ents # NoData

\* What the step simulation needs of a state.
Mapped == Sound /\ FilesHaveEntries

\* What a user finds saved when f is their file.
Bar(f) == IF f = NONE THEN NONE
          ELSE IF f.extent = "complete" THEN f.ents ELSE DAMAGED

-----------------------------------------------------------------------------
\* The mapping of the sessions: a user's database is that of their session, and
\* there is none when they have no session.
OpenIsTheSessions ==
  /\ \A k : Live(k) => openBar[db[k].user] = db[k].data
  /\ \A u \in User : u \notin active_users => openBar[u] = NONE
  /\ \A u \in active_users : \E k \in Key : Live(k) /\ db[k].user = u

LEMMA SessionsAreOpen ==
  ASSUME Sound
  PROVE  OpenIsTheSessions
<1>1. ASSUME NEW k, Live(k)
      PROVE  openBar[db[k].user] = db[k].data
  <2>1. k \in Key /\ db[k].user \in User
    BY <1>1, LiveSession DEF Sound
  <2>2. SessionOf(db[k].user) = {k}
    BY <1>1, <2>1 DEF SessionOf, Sound, SessionsMatchUsers
  <2> QED BY <2>1, <2>2 DEF openBar
<1>2. ASSUME NEW u \in User, u \notin active_users
      PROVE  openBar[u] = NONE
  <2>1. SessionOf(u) = {}
    BY <1>2 DEF SessionOf, Sound, SessionsMatchUsers
  <2> QED BY <2>1 DEF openBar
<1>3. \A u \in active_users : \E k \in Key : Live(k) /\ db[k].user = u
  BY DEF Sound, SessionsMatchUsers
<1> QED BY <1>1, <1>2, <1>3 DEF OpenIsTheSessions

LEMMA SessionsAreOpenNext == Sound' => OpenIsTheSessions'
<1>1. Sound => OpenIsTheSessions
  BY SessionsAreOpen
<1> QED BY <1>1, PTL

\* A step that leaves the sessions, or the files, leaves what users see of them.
LEMMA BarsStay ==
  /\ UNCHANGED db => UNCHANGED openBar
  /\ UNCHANGED disk => UNCHANGED savedBar
<1>1. ASSUME UNCHANGED db
      PROVE  UNCHANGED openBar
  <2> DEFINE some(S) == CHOOSE k \in S : TRUE
  <2>1. \A u : SessionOf(u)' = SessionOf(u)
    BY <1>1 DEF SessionOf, Live
  <2>2. /\ openBar = [u \in User |-> IF SessionOf(u) = {} THEN NONE
                                     ELSE db[some(SessionOf(u))].data]
        /\ openBar' = [u \in User |-> IF SessionOf(u)' = {} THEN NONE
                                      ELSE db'[some(SessionOf(u)')].data]
    BY DEF openBar
  <2> HIDE DEF some
  <2> QED BY <1>1, <2>1, <2>2
<1>2. ASSUME UNCHANGED disk
      PROVE  UNCHANGED savedBar
  BY <1>2 DEF savedBar
<1> QED BY <1>1, <1>2

LEMMA OpenIsFunction ==
  /\ openBar = [u \in User |-> openBar[u]]
  /\ openBar' = [u \in User |-> openBar'[u]]
<1>1. openBar = [u \in User |-> openBar[u]]
  <2> DEFINE open(u) == IF SessionOf(u) = {} THEN NONE
                        ELSE db[CHOOSE k \in SessionOf(u) : TRUE].data
  <2>1. openBar = [u \in User |-> open(u)]
    BY DEF openBar
  <2> HIDE DEF open
  <2> QED BY <2>1
<1>2. (openBar = [u \in User |-> openBar[u]])'
  BY <1>1, PTL
<1> QED BY <1>1, <1>2

\* A change of one session's entries changes its user's database alone.
LEMMA OpenChanges ==
  ASSUME Sound, Sound', NEW k, Live(k), NEW s, s # NONE, s.user = db[k].user,
         db' = [db EXCEPT ![k] = s], UNCHANGED active_users
  PROVE  openBar' = [openBar EXCEPT ![db[k].user] = s.data]
<1>1. k \in Key /\ db[k].user \in User /\ db \in [Key -> ClientData \cup {NONE}]
  BY LiveSession DEF Sound, TypeOK
<1>2. /\ db'[k] = s /\ Live(k)'
      /\ \A j \in Key \ {k} : db'[j] = db[j] /\ (Live(j)' <=> Live(j))
  BY <1>1 DEF Live
<1>3. ASSUME NEW u \in User
      PROVE  openBar'[u] = IF u = db[k].user THEN s.data ELSE openBar[u]
  <2>1. CASE u = db[k].user
    BY <1>2, <2>1, SessionsAreOpenNext DEF OpenIsTheSessions
  <2>2. CASE u # db[k].user /\ u \notin active_users
    BY <2>2, SessionsAreOpen, SessionsAreOpenNext DEF OpenIsTheSessions
  <2>3. CASE u # db[k].user /\ u \in active_users
    <3>1. PICK j \in Key : Live(j) /\ db[j].user = u
      BY <2>3, SessionsAreOpen DEF OpenIsTheSessions
    <3>2. j # k /\ Live(j)' /\ db'[j] = db[j]
      BY <1>2, <2>3, <3>1
    <3> QED BY <2>3, <3>1, <3>2, SessionsAreOpen, SessionsAreOpenNext
            DEF OpenIsTheSessions
  <2> QED BY <2>1, <2>2, <2>3
<1>4. [openBar EXCEPT ![db[k].user] = s.data]
        = [u \in User |-> IF u = db[k].user THEN s.data ELSE openBar[u]]
  BY <1>1, OpenIsFunction
<1> QED BY <1>1, <1>3, <1>4, OpenIsFunction

LEMMA SavedIsBar ==
  /\ savedBar = [u \in User |-> Bar(disk[u])]
  /\ savedBar' = [u \in User |-> Bar(disk'[u])]
BY DEF savedBar, Bar

\* A file that is written changes its user's saved database alone.
LEMMA SavedChanges ==
  ASSUME Sound, NEW u \in User, NEW f, disk' = [disk EXCEPT ![u] = f]
  PROVE  savedBar' = [savedBar EXCEPT ![u] = Bar(f)]
BY SavedIsBar DEF Sound, TypeOK

-----------------------------------------------------------------------------
\* What a user finds saved once d is stored.
Kept(d) == IF UDB!HasValues(d) THEN d ELSE DAMAGED

\* What a store leaves is the database, when all of it is there to read back.
LEMMA ImageIsKept ==
  ASSUME NEW d \in Data
  PROVE  /\ Bar(Image(d)) = Kept(d)
         /\ Image(d).extent = "complete" => Image(d).ents = d
<1>1. CASE \E i \in Id : d[i] = EMPTY
  BY <1>1, ImageIsFile, ServerAssumption DEF Image, Bar, Kept, UDB!HasValues
<1>2. CASE \A i \in Id : d[i] # EMPTY
  <2>1. \A i \in Id : Keep(d, Written(d))[i] = d[i]
    BY <1>2 DEF Keep, Written
  <2>2. Keep(d, Written(d)) = d
    BY <2>1 DEF Keep
  <2> QED BY <1>2, <2>2, ImageIsFile, ServerAssumption DEF Image, Bar, Kept, UDB!HasValues
<1> QED BY <1>1, <1>2

LEMMA PartialIsDamaged ==
  ASSUME NEW d \in Data, NEW f \in PartialImages(d)
  PROVE  /\ Bar(f) \in {DAMAGED, Kept(d)}
         /\ f.extent = "complete" => f.ents = d
<1>1. f # NONE
  BY ImageIsFile, ServerAssumption
<1>2. CASE f = Image(d)
  BY <1>2, ImageIsKept
<1>3. CASE f # Image(d)
  BY <1>1, <1>3 DEF PartialImages, Bar
<1> QED BY <1>2, <1>3

\* A file that has entries, whole or not, is never read as an empty database.
LEMMA LoadedHasEntries ==
  ASSUME NEW f \in File, f.extent = "complete" => f.ents # NoData,
         NEW d \in Loaded(f)
  PROVE  d # NoData /\ (f.extent = "complete" => d = f.ents)
<1>1. f.ents \in Data /\ NoData \in Data
  BY DEF File
<1>2. ASSUME NEW e \in Data, NEW C \in SUBSET {EMPTY, JUNK}, NoData \in GarbageEntry(e, C)
      PROVE  FALSE
  <2>1. PICK p \in {i \in Id : e[i] = NONE} \X C : NoData = [e EXCEPT ![p[1]] = p[2]]
    BY <1>2 DEF GarbageEntry
  <2>2. p[1] \in Id /\ p[2] \in Content
    OBVIOUS
  <2>3. NoData[p[1]] = p[2]
    BY <2>1, <2>2
  <2> QED BY <2>2, <2>3, ServerAssumption
<1>3. CASE f.extent = "complete"
  BY <1>3 DEF Loaded
<1>4. CASE f.extent = "torn"
  BY <1>1, <1>2, <1>4 DEF Loaded
<1>5. CASE f.extent \notin {"complete", "torn"}
  BY <1>1, <1>2, <1>5 DEF Loaded
<1> QED BY <1>3, <1>4, <1>5

-----------------------------------------------------------------------------
\* One lemma per handler: a step of the server is a step of the promises.
LEMMA ReplyIsSays ==
  ASSUME NEW op, NEW u, NEW ok, NEW v, Reply(op, u, ok, v)
  PROVE  UDB!Says(op, u, ok, IF op = "login" THEN NONE ELSE v)
BY DEF Reply, UDB!Says, replyBar

\* A key without a session opens no database.
LEMMA UnknownIsUnknown ==
  ASSUME NEW op \in UDB!Operation, NEW k, RefuseUnknown(op, k)
  PROVE  UDB!UNext
<1>1. UDB!Says(op, NONE, FALSE, NONE) /\ UDB!Same
  BY ReplyIsSays, BarsStay DEF RefuseUnknown, Refuse, memory, UDB!Same
<1> QED BY <1>1 DEF UDB!UNext, UDB!Unknown

\* An early return of a handler that found the session.
LEMMA RefusalIsSame ==
  ASSUME NEW op, NEW u, Refuse(op, u)
  PROVE  UDB!Says(op, u, FALSE, NONE) /\ UDB!Same
BY ReplyIsSays, BarsStay DEF Refuse, memory, UDB!Same

\* What a session shows its user.
LEMMA SessionIsOpen ==
  ASSUME Mapped, NEW k, Live(k)
  PROVE  /\ k \in Key /\ db[k].user \in User /\ db[k].data \in Data
         /\ openBar[db[k].user] = db[k].data /\ openBar[db[k].user] # NONE
<1>1. k \in Key /\ db[k].user \in User /\ db[k].data \in Data
  BY LiveSession DEF Mapped, Sound
<1>2. openBar[db[k].user] = db[k].data
  BY SessionsAreOpen DEF Mapped, OpenIsTheSessions
<1> QED BY <1>1, <1>2, MappingAssumption

LEMMA loginImplements ==
  ASSUME Mapped, Sound', NEW u \in User, login(u)
  PROVE  UDB!UNext
<1>1. CASE u \in active_users
  <2>1. openBar[u] # NONE
    <3>1. PICK k \in Key : Live(k) /\ db[k].user = u
      BY <1>1, SessionsAreOpen DEF Mapped, OpenIsTheSessions
    <3> QED BY <3>1, SessionIsOpen
  <2>2. UDB!Says("login", u, FALSE, NONE) /\ UDB!Same
    BY <1>1, RefusalIsSame DEF login
  <2> QED BY <2>1, <2>2 DEF UDB!UNext, UDB!Login
<1>2. CASE u \notin active_users
  <2>1. PICK n : n = key + 1
    OBVIOUS
  <2>2. /\ n \in Key /\ db' = [db EXCEPT ![n] = NewClientData(u)]
        /\ active_users' = active_users \cup {u} /\ disk' = disk
        /\ Reply("login", u, TRUE, n)
    BY <1>2, <2>1 DEF login
  <2>3. /\ db \in [Key -> ClientData \cup {NONE}] /\ ~Live(n)
    BY <2>1, <2>2 DEF Mapped, Sound, TypeOK, NextKeyIsFree, Key
  <2>4. NewClientData(u) # NONE /\ NewClientData(u).user = u /\ NewClientData(u).data = NoData
    <3>1. NewClientData(u) \in ClientData
      BY DEF NewClientData, ClientData
    <3> QED BY <3>1, ServerAssumption DEF NewClientData
  <2>5. /\ Live(n)' /\ db'[n].user = u /\ db'[n].data = NoData
        /\ \A j \in Key \ {n} : db'[j] = db[j] /\ (Live(j)' <=> Live(j))
    BY <2>2, <2>3, <2>4 DEF Live
  <2>6. ASSUME NEW v \in User
        PROVE  openBar'[v] = IF v = u THEN NoData ELSE openBar[v]
    <3>1. CASE v = u
      BY <2>5, <3>1, SessionsAreOpenNext DEF OpenIsTheSessions
    <3>2. CASE v # u /\ v \notin active_users
      BY <2>2, <3>2, SessionsAreOpen, SessionsAreOpenNext DEF Mapped, OpenIsTheSessions
    <3>3. CASE v # u /\ v \in active_users
      <4>1. PICK j \in Key : Live(j) /\ db[j].user = v
        BY <3>3, SessionsAreOpen DEF Mapped, OpenIsTheSessions
      <4>2. j # n /\ Live(j)' /\ db'[j] = db[j]
        BY <2>3, <2>5, <4>1
      <4> QED BY <3>3, <4>1, <4>2, SessionsAreOpen, SessionsAreOpenNext
              DEF Mapped, OpenIsTheSessions
    <3> QED BY <3>1, <3>2, <3>3
  <2>7. openBar' = [openBar EXCEPT ![u] = NoData]
    <3>1. [openBar EXCEPT ![u] = NoData]
            = [v \in User |-> IF v = u THEN NoData ELSE openBar[v]]
      BY OpenIsFunction
    <3> QED BY <2>6, <3>1, OpenIsFunction
  <2>8. openBar[u] = NONE
    BY <1>2, SessionsAreOpen DEF Mapped, OpenIsTheSessions
  <2>9. UDB!Says("login", u, TRUE, NONE) /\ UNCHANGED savedBar
    BY <2>2, ReplyIsSays, BarsStay
  <2> QED BY <2>7, <2>8, <2>9 DEF UDB!UNext, UDB!Login, UDB!EmptyDatabase
<1> QED BY <1>1, <1>2

LEMMA logoutImplements ==
  ASSUME Mapped, Sound', NEW k, logout(k)
  PROVE  UDB!UNext
<1>1. CASE ~Live(k)
  BY <1>1, UnknownIsUnknown DEF logout, UDB!Operation
<1>2. CASE Live(k)
  <2>1. PICK u : u = db[k].user
    OBVIOUS
  <2>2. /\ k \in Key /\ u \in User /\ openBar[u] # NONE
        /\ db \in [Key -> ClientData \cup {NONE}]
    BY <1>2, <2>1, SessionIsOpen DEF Mapped, Sound, TypeOK
  <2>3. /\ db' = [db EXCEPT ![k] = NONE] /\ active_users' = active_users \ {u}
        /\ disk' = disk /\ Reply("logout", u, TRUE, NONE)
    BY <1>2, <2>1 DEF logout, RefuseUnknown
  <2>4. ASSUME NEW v \in User
        PROVE  openBar'[v] = IF v = u THEN NONE ELSE openBar[v]
    <3>1. CASE v \notin active_users \/ v = u
      BY <2>3, <3>1, SessionsAreOpen, SessionsAreOpenNext DEF Mapped, OpenIsTheSessions
    <3>2. CASE v # u /\ v \in active_users
      <4>1. PICK j \in Key : Live(j) /\ db[j].user = v
        BY <3>2, SessionsAreOpen DEF Mapped, OpenIsTheSessions
      <4>2. j # k /\ Live(j)' /\ db'[j] = db[j]
        BY <2>1, <2>2, <2>3, <3>2, <4>1 DEF Live
      <4> QED BY <3>2, <4>1, <4>2, SessionsAreOpen, SessionsAreOpenNext
              DEF Mapped, OpenIsTheSessions
    <3> QED BY <3>1, <3>2
  <2>5. openBar' = [openBar EXCEPT ![u] = NONE]
    <3>1. [openBar EXCEPT ![u] = NONE]
            = [v \in User |-> IF v = u THEN NONE ELSE openBar[v]]
      BY OpenIsFunction
    <3> QED BY <2>4, <3>1, OpenIsFunction
  <2>6. UDB!Says("logout", u, TRUE, NONE) /\ UNCHANGED savedBar
    BY <2>3, ReplyIsSays, BarsStay
  <2> QED BY <2>2, <2>5, <2>6 DEF UDB!UNext, UDB!Logout
<1> QED BY <1>1, <1>2

LEMMA add_updateImplements ==
  ASSUME Mapped, Sound', NEW k, NEW id \in Id, NEW m, NEW v \in Value,
         add_update(k, id, m, v)
  PROVE  UDB!UNext
<1>1. CASE ~Live(k)
  BY <1>1, UnknownIsUnknown DEF add_update, UDB!Operation
<1>2. CASE Live(k)
  <2> DEFINE u == db[k].user
             new == m # "UPDATE"
  <2>1. /\ k \in Key /\ u \in User /\ openBar[u] = db[k].data /\ openBar[u] # NONE
        /\ db[k] \in ClientData
    BY <1>2, SessionIsOpen, LiveSession DEF Mapped, Sound
  <2>2. UDB!Put(u, id, new, v)
    <3>1. CASE Stored(k, id) # (m = "UPDATE")
      <4>1. (openBar[u][id] = NONE) # new
        BY <2>1, <3>1 DEF Stored
      <4>2. UDB!Says("add_update", u, FALSE, NONE) /\ UDB!Same
        BY <1>2, <3>1, RefusalIsSame DEF add_update, RefuseUnknown
      <4> QED BY <4>1, <4>2 DEF UDB!Put
    <3>2. CASE Stored(k, id) = (m = "UPDATE")
      <4> DEFINE s == [db[k] EXCEPT !.data[id] = v, !.counted = TRUE]
      <4>1. (openBar[u][id] = NONE) = new
        BY <2>1, <3>2 DEF Stored
      <4>2. /\ db' = [db EXCEPT ![k] = s] /\ UNCHANGED <<active_users, disk>>
            /\ Reply("add_update", u, TRUE, NONE)
        BY <1>2, <3>2 DEF add_update, RefuseUnknown
      <4>3. s.user = u /\ s.data = [db[k].data EXCEPT ![id] = v] /\ s \in ClientData
        BY <2>1 DEF ClientData
      <4>4. openBar' = [openBar EXCEPT ![u] = s.data]
        BY <1>2, <4>2, <4>3, OpenChanges, ServerAssumption DEF Mapped
      <4>5. openBar' = [openBar EXCEPT ![u][id] = v]
        BY <2>1, <4>3, <4>4
      <4>6. UDB!Says("add_update", u, TRUE, NONE) /\ UNCHANGED savedBar
        BY <4>2, ReplyIsSays, BarsStay
      <4> QED BY <4>1, <4>5, <4>6 DEF UDB!Put
    <3> QED BY <3>1, <3>2
  <2> QED BY <2>1, <2>2 DEF UDB!UNext
<1> QED BY <1>1, <1>2

LEMMA delImplements ==
  ASSUME Mapped, Sound', NEW k, NEW id \in Id, del(k, id)
  PROVE  UDB!UNext
<1>1. CASE ~Live(k)
  BY <1>1, UnknownIsUnknown DEF del, UDB!Operation
<1>2. CASE Live(k)
  <2> DEFINE u == db[k].user
  <2>1. /\ k \in Key /\ u \in User /\ openBar[u] = db[k].data /\ openBar[u] # NONE
        /\ db[k] \in ClientData /\ db[k].data \in Data
    BY <1>2, SessionIsOpen, LiveSession DEF Mapped, Sound
  <2>2. UDB!Delete(u, id)
    <3>1. CASE ~Stored(k, id)
      <4>1. openBar[u][id] = NONE
        BY <2>1, <3>1 DEF Stored
      <4>2. UDB!Says("del", u, FALSE, NONE) /\ UNCHANGED <<openBar, savedBar>>
        BY <1>2, <3>1, RefusalIsSame DEF del, RefuseUnknown, UDB!Same
      <4>3. [openBar[u] EXCEPT ![id] = NONE] = openBar[u]
        BY <2>1, <4>1
      <4>4. [openBar EXCEPT ![u][id] = NONE] = openBar
        BY <4>3, OpenIsFunction
      <4> QED BY <4>1, <4>2, <4>4 DEF UDB!Delete
    <3>2. CASE Stored(k, id)
      <4> DEFINE s == [db[k] EXCEPT !.data[id] = NONE]
      <4>1. openBar[u][id] # NONE
        BY <2>1, <3>2 DEF Stored
      <4>2. /\ db' = [db EXCEPT ![k].data[id] = NONE] /\ UNCHANGED <<active_users, disk>>
            /\ Reply("del", u, TRUE, NONE)
        BY <1>2, <3>2 DEF del, RefuseUnknown
      <4>3. s.user = u /\ s.data = [db[k].data EXCEPT ![id] = NONE] /\ s \in ClientData
        BY <2>1 DEF ClientData
      <4>4. openBar' = [openBar EXCEPT ![u] = s.data]
        BY <1>2, <4>2, <4>3, OpenChanges, ServerAssumption DEF Mapped
      <4>5. openBar' = [openBar EXCEPT ![u][id] = NONE]
        BY <2>1, <4>3, <4>4
      <4>6. UDB!Says("del", u, TRUE, NONE) /\ UNCHANGED savedBar
        BY <4>2, ReplyIsSays, BarsStay
      <4> QED BY <4>1, <4>5, <4>6 DEF UDB!Delete
    <3> QED BY <3>1, <3>2
  <2> QED BY <2>1, <2>2 DEF UDB!UNext
<1> QED BY <1>1, <1>2

LEMMA read_entryImplements ==
  ASSUME Mapped, NEW k, NEW id \in Id, read_entry(k, id)
  PROVE  UDB!UNext
<1>1. CASE ~Live(k)
  BY <1>1, UnknownIsUnknown DEF read_entry, UDB!Operation
<1>2. CASE Live(k)
  <2> DEFINE u == db[k].user
  <2>1. u \in User /\ openBar[u] = db[k].data /\ openBar[u] # NONE
    BY <1>2, SessionIsOpen
  <2>2. CASE ~Stored(k, id)
    BY <1>2, <2>1, <2>2, RefusalIsSame
       DEF read_entry, RefuseUnknown, Stored, UDB!UNext, UDB!Read
  <2>3. CASE Stored(k, id)
    <3>1. UDB!Says("read_entry", u, TRUE, db[k].data[id]) /\ UDB!Same
      BY <1>2, <2>3, ReplyIsSays, BarsStay
         DEF read_entry, RefuseUnknown, memory, UDB!Same
    <3> QED BY <2>1, <2>3, <3>1 DEF Stored, UDB!UNext, UDB!Read
  <2> QED BY <2>2, <2>3
<1> QED BY <1>1, <1>2

LEMMA get_statsImplements ==
  ASSUME Mapped, NEW k, NEW id \in Id, get_stats(k, id)
  PROVE  UDB!UNext
<1>1. CASE ~Live(k)
  BY <1>1, UnknownIsUnknown DEF get_stats, UDB!Operation
<1>2. CASE Live(k)
  <2> DEFINE u == db[k].user
             ok == db[k].data[id] \notin {NONE, EMPTY}
  <2>1. u \in User /\ openBar[u] = db[k].data /\ openBar[u] # NONE
    BY <1>2, SessionIsOpen
  <2>2. UDB!Says("get_stats", u, ok, NONE) /\ UDB!Same
    <3>1. CASE ~ok
      BY <1>2, <3>1, RefusalIsSame DEF get_stats, RefuseUnknown
    <3>2. CASE ok
      BY <1>2, <3>2, ReplyIsSays, BarsStay
         DEF get_stats, RefuseUnknown, memory, UDB!Same
    <3> QED BY <3>1, <3>2
  <2> QED BY <2>1, <2>2 DEF UDB!UNext, UDB!Stats
<1> QED BY <1>1, <1>2

\* num_elem outlives the entries it counted: of a database without entries there
\* may be statistics, the first lapse.
LEMMA get_stats_allImplements ==
  ASSUME Mapped, NEW k, get_stats_all(k)
  PROVE  UDB!UNext \/ UDB!Lapse
<1>1. CASE ~Live(k)
  BY <1>1, UnknownIsUnknown DEF get_stats_all, UDB!Operation
<1>2. CASE Live(k)
  <2> DEFINE u == db[k].user
  <2>1. u \in User /\ openBar[u] = db[k].data /\ openBar[u] # NONE
    BY <1>2, SessionIsOpen
  <2>2. db[k].counted \in BOOLEAN /\ (openBar[u] # NoData => db[k].counted)
    BY <1>2, <2>1, LiveSession, SessionIsOpen DEF Mapped, Sound, EntriesAreCounted
  <2>3. UDB!Says("get_stats_all", u, db[k].counted, NONE) /\ UDB!Same
    <3>1. CASE ~db[k].counted
      <4>1. db[k].counted = FALSE
        BY <2>2, <3>1
      <4>2. UDB!Says("get_stats_all", u, FALSE, NONE) /\ UDB!Same
        BY <1>2, <3>1, RefusalIsSame DEF get_stats_all, RefuseUnknown
      <4> QED BY <4>1, <4>2
    <3>2. CASE db[k].counted
      BY <1>2, <2>2, <3>2, ReplyIsSays, BarsStay
         DEF get_stats_all, RefuseUnknown, memory, UDB!Same
    <3> QED BY <3>1, <3>2
  <2>4. CASE openBar[u] = NoData /\ db[k].counted
    <3>1. db[k].counted = TRUE
      BY <2>4
    <3>2. UDB!StatsOfNothing(u)
      BY <2>3, <2>4, <3>1 DEF UDB!StatsOfNothing, UDB!EmptyDatabase
    <3> QED BY <2>1, <3>2 DEF UDB!Lapse
  <2>5. CASE ~(openBar[u] = NoData /\ db[k].counted)
    <3>1. (openBar[u] # NoData) = db[k].counted
      BY <2>2, <2>5
    <3>2. UDB!StatsAll(u)
      BY <2>3, <3>1 DEF UDB!StatsAll, UDB!EmptyDatabase
    <3> QED BY <2>1, <3>2 DEF UDB!UNext
  <2> QED BY <2>4, <2>5
<1> QED BY <1>1, <1>2

LEMMA loadImplements ==
  ASSUME Mapped, Sound', NEW k, load(k)
  PROVE  UDB!UNext
<1>1. CASE ~Live(k)
  BY <1>1, UnknownIsUnknown DEF load, UDB!Operation
<1>2. CASE Live(k)
  <2> DEFINE u == db[k].user
             f == disk[u]
  <2>1. /\ k \in Key /\ u \in User /\ openBar[u] = db[k].data /\ openBar[u] # NONE
        /\ db[k] \in ClientData /\ f \in File \cup {NONE}
        /\ f # NONE /\ f.extent = "complete" => f.ents # NoData
        /\ savedBar[u] = Bar(f)
    BY <1>2, SessionIsOpen, LiveSession, SavedIsBar
       DEF Mapped, Sound, TypeOK, FilesHaveEntries
  <2>2. UDB!Load(u)
    <3>1. CASE ~(db[k].data = NoData /\ HasFile(k))
      <4>1. UDB!Says("load", u, FALSE, NONE) /\ UDB!Same
        BY <1>2, <3>1, RefusalIsSame DEF load, RefuseUnknown
      <4>2. savedBar[u] = NONE \/ savedBar[u] = DAMAGED \/ openBar[u] # NoData
        BY <2>1, <3>1 DEF HasFile, Bar
      <4> QED BY <4>1, <4>2 DEF UDB!Load, UDB!EmptyDatabase
    <3>2. CASE db[k].data = NoData /\ HasFile(k)
      <4>1. f # NONE
        BY <3>2 DEF HasFile
      <4>2. PICK d \in Loaded(f) :
               /\ db' = [db EXCEPT ![k] = [@ EXCEPT !.data = d, !.counted = TRUE]]
               /\ UNCHANGED <<key, active_users, disk>>
               /\ Reply("load", u, TRUE, NONE)
        BY <1>2, <3>2 DEF load, RefuseUnknown
      <4>3. d \in Data /\ d # NoData /\ (f.extent = "complete" => d = f.ents)
        BY <2>1, <4>1, LoadedIsData, LoadedHasEntries
      <4> DEFINE s == [db[k] EXCEPT !.data = d, !.counted = TRUE]
      <4>4. s.user = u /\ s.data = d /\ s \in ClientData
        BY <2>1, <4>3 DEF ClientData
      <4>5. db' = [db EXCEPT ![k] = s]
        BY <4>2
      <4>6a. active_users' = active_users /\ Live(k) /\ Sound /\ s # NONE
        BY <1>2, <2>1, <4>2, <4>4, ServerAssumption DEF Mapped
      <4>6. openBar' = [openBar EXCEPT ![u] = d]
        <5> HIDE DEF s
        <5>1. openBar' = [openBar EXCEPT ![u] = s.data]
          BY <4>4, <4>5, <4>6a, OpenChanges
        <5> QED BY <4>4, <5>1
      <4>7. savedBar[u] # NONE /\ (savedBar[u] # DAMAGED => d = savedBar[u])
        <5>1. f.extent = "complete" => f.ents \in Data
          BY <2>1, <4>1 DEF File
        <5> QED BY <2>1, <4>1, <4>3, <5>1, MappingAssumption DEF Bar
      <4>8. UDB!Says("load", u, TRUE, NONE) /\ UNCHANGED savedBar
        BY <4>2, ReplyIsSays, BarsStay
      <4>9. openBar[u] = UDB!EmptyDatabase /\ d \in UDB!Database \ {UDB!EmptyDatabase}
        BY <2>1, <3>2, <4>3 DEF UDB!EmptyDatabase, UDB!Database
      <4> HIDE DEF u, f, s
      <4> QED BY <4>6, <4>7, <4>8, <4>9 DEF UDB!Load
    <3> QED BY <3>1, <3>2
  <2> QED BY <2>1, <2>2 DEF UDB!UNext
<1> QED BY <1>1, <1>2

\* A store is one of the promise, or the second lapse when the database it is
\* given has entries without values.
LEMMA storeImplements ==
  ASSUME Mapped, NEW k, store(k)
  PROVE  UDB!UNext \/ UDB!Lapse
<1>1. CASE ~Live(k)
  BY <1>1, UnknownIsUnknown DEF store, UDB!Operation
<1>2. CASE Live(k)
  <2> DEFINE u == db[k].user
  <2>1. /\ u \in User /\ openBar[u] = db[k].data /\ openBar[u] # NONE
        /\ db[k].data \in Data /\ savedBar[u] = Bar(disk[u])
    BY <1>2, SessionIsOpen, SavedIsBar
  <2>2. CASE db[k].data = NoData
    <3>1. UDB!Says("store", u, FALSE, NONE) /\ UDB!Same
      BY <1>2, <2>2, RefusalIsSame DEF store, RefuseUnknown
    <3>2. UDB!Store(u)
      BY <2>1, <2>2, <3>1 DEF UDB!Store, UDB!Storable, UDB!EmptyDatabase
    <3> QED BY <2>1, <3>2 DEF UDB!UNext
  <2>3. CASE db[k].data # NoData
    <3>1. PICK f \in Left(db[k].data, disk[u]) :
             /\ disk' = [disk EXCEPT ![u] = f]
             /\ Reply("store", u, TRUE, NONE)
             /\ UNCHANGED memory
      BY <1>2, <2>3 DEF store, RefuseUnknown
    <3>2. savedBar' = [savedBar EXCEPT ![u] = Bar(f)]
      BY <2>1, <3>1, SavedChanges DEF Mapped
    <3>3. Bar(f) \in {Kept(openBar[u])} \cup
                     IF WritesFail THEN {DAMAGED, savedBar[u]} ELSE {}
      <4>1. CASE f = Image(db[k].data)
        BY <2>1, <4>1, ImageIsKept
      <4>2. CASE f # Image(db[k].data)
        <5>1. WritesFail /\ f \in PartialImages(db[k].data) \cup {disk[u]}
          BY <3>1, <4>2 DEF Left
        <5> QED BY <2>1, <5>1, PartialIsDamaged
      <4> QED BY <4>1, <4>2
    <3>4. UDB!Says("store", u, TRUE, NONE) /\ UNCHANGED openBar
      BY <3>1, ReplyIsSays, BarsStay DEF memory
    <3> HIDE DEF u
    <3>5. UDB!Saves(u, Kept(openBar[u]))
      BY <3>2, <3>3, <3>4 DEF UDB!Saves
    <3>6. CASE UDB!HasValues(openBar[u])
      <4>1. UDB!Storable(openBar[u]) /\ UDB!Saves(u, openBar[u])
        BY <2>1, <2>3, <3>5, <3>6 DEF Kept, UDB!Storable, UDB!EmptyDatabase
      <4> QED BY <2>1, <4>1 DEF UDB!Store, UDB!UNext
    <3>7. CASE ~UDB!HasValues(openBar[u])
      <4>1. UDB!StoreWithoutValues(u)
        BY <2>1, <3>5, <3>7 DEF Kept, UDB!StoreWithoutValues
      <4> QED BY <2>1, <4>1 DEF UDB!Lapse
    <3> QED BY <3>6, <3>7
  <2> QED BY <2>2, <2>3
<1> QED BY <1>1, <1>2

\* A killed server forgets the databases in use, and at worst spoils the file
\* it was writing.
LEMMA CrashImplements ==
  ASSUME Mapped, Sound', Crash \/ \E k \in AnyKey : CrashInStore(k)
  PROVE  UDB!UNext \/ UDB!Lapse
<1>1. openBar' = [u \in User |-> NONE]
  <2>1. FreshMemory
    BY DEF Crash, CrashInStore
  <2>2. \A u \in User : openBar'[u] = NONE
    BY <2>1, SessionsAreOpenNext DEF FreshMemory, OpenIsTheSessions
  <2> QED BY <2>2, OpenIsFunction
<1>2. CASE Crash
  BY <1>1, <1>2, ReplyIsSays, BarsStay DEF Crash, UDB!UNext, UDB!Restart
<1>3. ASSUME NEW k \in AnyKey, CrashInStore(k)
      PROVE  UDB!UNext \/ UDB!Lapse
  <2> DEFINE u == db[k].user
  <2>1. /\ Live(k) /\ db[k].data # NoData /\ Reply("crash", u, FALSE, NONE)
    BY <1>3 DEF CrashInStore
  <2>2. PICK f \in PartialImages(db[k].data) : disk' = [disk EXCEPT ![u] = f]
    BY <1>3 DEF CrashInStore
  <2>3. /\ u \in User /\ openBar[u] = db[k].data /\ openBar[u] \notin {NONE, NoData}
        /\ db[k].data \in Data
    BY <2>1, SessionIsOpen
  <2>4. Bar(f) \in {DAMAGED, Kept(openBar[u])}
    BY <2>2, <2>3, PartialIsDamaged
  <2>5. savedBar' = [savedBar EXCEPT ![u] = Bar(f)]
    BY <2>2, <2>3, SavedChanges DEF Mapped
  <2>6. UDB!Says("crash", u, FALSE, NONE)
    BY <2>1, ReplyIsSays
  <2> HIDE DEF u
  <2>7. UDB!KilledWith(u, Bar(f))
    BY <1>1, <2>5, <2>6 DEF UDB!KilledWith
  <2>8. CASE UDB!HasValues(openBar[u])
    <3>1. UDB!Storable(openBar[u])
      BY <2>3, <2>8 DEF UDB!Storable, UDB!EmptyDatabase
    <3>2. UDB!KilledWith(u, DAMAGED) \/ UDB!KilledWith(u, openBar[u])
      BY <2>4, <2>7, <2>8 DEF Kept
    <3>3. UDB!Restart
      BY <2>3, <3>1, <3>2 DEF UDB!Restart
    <3> QED BY <3>3 DEF UDB!UNext
  <2>9. CASE ~UDB!HasValues(openBar[u])
    <3>1. UDB!KilledWith(u, DAMAGED)
      BY <2>4, <2>7, <2>9 DEF Kept
    <3>2. UDB!StoreWithoutValues(u)
      BY <2>3, <2>9, <3>1 DEF UDB!StoreWithoutValues
    <3> QED BY <2>3, <3>2 DEF UDB!Lapse
  <2> QED BY <2>8, <2>9
<1> QED BY <1>2, <1>3

\* Whatever a store leaves when it ends or is killed, a whole file has entries.
LEMMA FilesKeepEntries ==
  ASSUME Mapped, [Next]_vars
  PROVE  FilesHaveEntries'
<1>1. CASE UNCHANGED disk
  BY <1>1 DEF Mapped, FilesHaveEntries
<1>2. ASSUME NEW k, Live(k), db[k].data # NoData,
             NEW f \in PartialImages(db[k].data) \cup {Image(db[k].data), disk[db[k].user]},
             disk' = [disk EXCEPT ![db[k].user] = f]
      PROVE  FilesHaveEntries'
  <2>1. db[k].data \in Data /\ db[k].user \in User /\ disk \in [User -> File \cup {NONE}]
    BY <1>2, LiveSession DEF Mapped, Sound, TypeOK
  <2>2. f # NONE /\ f.extent = "complete" => f.ents # NoData
    BY <1>2, <2>1, ImageIsKept, PartialIsDamaged DEF Mapped, FilesHaveEntries
  <2> QED BY <1>2, <2>1, <2>2 DEF Mapped, FilesHaveEntries
<1>3. ASSUME NEW k \in AnyKey, store(k)
      PROVE  FilesHaveEntries'
  <2>1. CASE ~Live(k) \/ db[k].data = NoData
    BY <1>1, <1>3, <2>1 DEF store, RefuseUnknown, Refuse
  <2>2. CASE Live(k) /\ db[k].data # NoData
    <3>1. PICK f \in Left(db[k].data, disk[db[k].user]) :
             disk' = [disk EXCEPT ![db[k].user] = f]
      BY <1>3, <2>2 DEF store, RefuseUnknown
    <3>2. f \in PartialImages(db[k].data) \cup {Image(db[k].data), disk[db[k].user]}
      BY <3>1 DEF Left
    <3> QED BY <1>2, <2>2, <3>1, <3>2
  <2> QED BY <2>1, <2>2
<1>4. ASSUME NEW k \in AnyKey, CrashInStore(k)
      PROVE  FilesHaveEntries'
  BY <1>2, <1>4 DEF CrashInStore
<1>5. ASSUME NEW u \in User, login(u) PROVE UNCHANGED disk
  BY <1>5 DEF login, Refuse
<1>6. ASSUME NEW k \in AnyKey, logout(k) \/ load(k) \/ get_stats_all(k)
      PROVE  UNCHANGED disk
  BY <1>6 DEF logout, load, get_stats_all, RefuseUnknown, Refuse
<1>7. ASSUME NEW k \in AnyKey, NEW id \in Id,
             \/ \E m \in {"ADD", "UPDATE"}, v \in Value : add_update(k, id, m, v)
             \/ read_entry(k, id) \/ del(k, id) \/ get_stats(k, id)
      PROVE  UNCHANGED disk
  BY <1>7 DEF add_update, read_entry, del, get_stats, RefuseUnknown, Refuse
<1>8. CASE UNCHANGED vars \/ Crash
  BY <1>1, <1>8 DEF vars, Crash
<1> QED BY <1>1, <1>3, <1>4, <1>5, <1>6, <1>7, <1>8 DEF Next

LEMMA NextImplements ==
  ASSUME Mapped, Sound', [Next]_vars
  PROVE  [UDB!UNext \/ UDB!Lapse]_(UDB!udbVars)
<1>1. CASE UNCHANGED vars
  BY <1>1, BarsStay DEF vars, UDB!udbVars, replyBar
<1>2. ASSUME NEW u \in User, login(u) PROVE UDB!UNext
  BY <1>2, loginImplements
<1>3. ASSUME NEW k \in AnyKey, logout(k) \/ load(k) \/ store(k) \/ get_stats_all(k)
      PROVE  UDB!UNext \/ UDB!Lapse
  BY <1>3, logoutImplements, loadImplements, storeImplements, get_stats_allImplements
<1>4. ASSUME NEW k \in AnyKey, NEW id \in Id,
             \/ \E m \in {"ADD", "UPDATE"}, v \in Value : add_update(k, id, m, v)
             \/ read_entry(k, id) \/ del(k, id) \/ get_stats(k, id)
      PROVE  UDB!UNext
  BY <1>4, add_updateImplements, read_entryImplements, delImplements,
     get_statsImplements
<1>5. ASSUME Crash \/ \E k \in AnyKey : CrashInStore(k)
      PROVE  UDB!UNext \/ UDB!Lapse
  BY <1>5, CrashImplements
<1> QED BY <1>1, <1>2, <1>3, <1>4, <1>5 DEF Next

LEMMA InitImplements ==
  ASSUME Init
  PROVE  UDB!UInit /\ Mapped
<1>1. Sound
  BY InitSound
<1>2. FilesHaveEntries
  BY DEF Init, FilesHaveEntries
<1>3. openBar = [u \in User |-> NONE]
  BY <1>1, SessionsAreOpen, OpenIsFunction DEF Init, OpenIsTheSessions
<1>4. savedBar = [u \in User |-> NONE]
  BY DEF Init, savedBar
<1> QED BY <1>1, <1>2, <1>3, <1>4 DEF Init, Mapped, UDB!UInit, replyBar

-----------------------------------------------------------------------------
\* Each user of the server has a database of their own that only their requests
\* change, and gets back what was saved last unless a crash or the disk spoilt
\* it: every step of every handler, and every crash, is a step of UserDatabases
\* or one of the two lapses it names.
THEOREM PromisesButTwoKept == Spec => KeepsPromisesButTwo
<1>1. Init => UDB!UInit /\ Mapped
  BY InitImplements
<1>2. Mapped /\ [Next]_vars => Mapped'
  BY NextKeepsSound, FilesKeepEntries DEF Mapped
<1>3. Mapped /\ Mapped' /\ [Next]_vars => [UDB!UNext \/ UDB!Lapse]_(UDB!udbVars)
  BY NextImplements DEF Mapped
<1> QED BY <1>1, <1>2, <1>3, PTL DEF Spec, KeepsPromisesButTwo, UDB!LapsingSpec

-----------------------------------------------------------------------------
\* The server and its clients.
HIDE DEF Data, Content, NoData, Operation

Gone(c) == pc[c] \in {"off", "segv"}

\* Whose the sessions are that a connection's requests open.
Who(c) == IF Gone(c) THEN NONE ELSE c

\* A request that waits belongs to the connection of a client, or to one of a
\* client that is gone; the last one is the call its client waits for; nothing
\* waits behind a reply; and what a login is answered with is a key.
CallsMatch ==
  \A c \in Client :
     /\ connected[c] => ~Gone(c)
     /\ chan[c] # <<>> => connected[c] \/ Gone(c)
     /\ chan[c] # <<>> /\ Waiting(c) => chan[c][Len(chan[c])].cmd.op = pc[c]
     /\ box[c] # NONE => Waiting(c) /\ chan[c] = <<>>
     /\ box[c] # NONE /\ pc[c] = "login" /\ box[c].ok => box[c].val \in Key

\* The inductive invariant for the types.
SysSound == SysTypeOK /\ Sound /\ CallsMatch

\* k is not ahead of the server's counter, and its session, if any, is who's.
Mine(k, who) == k \in Key => k <= key /\ (Live(k) => owner[k] = who)

\* Wherever a key of this server process can be found (with a client, in a
\* reply or in a request), its session is that client's.  A key of an earlier
\* process is left only with clients whose connection is broken.
\* With SysSound, the inductive invariant for RequestsReachOwnSession.
KeysOwned(c) ==
  /\ connected[c] => Mine(sess_key[c], c)
  /\ connected[c] /\ box[c] # NONE /\ pc[c] = "login" /\ box[c].ok =>
       Mine(box[c].val, c)
  /\ \A i \in DOMAIN chan[c] : Mine(chan[c][i].key, Who(c))

KeysAreOwned == \A c \in Client : KeysOwned(c)

Owned(c) == {k \in Key : Live(k) /\ owner[k] = c}
Believed(c) == IF logged_in[c] THEN {sess_key[c]} ELSE {}

\* What the answer that is on its way to c will make it believe.
Announced(c) ==
  IF pc[c] = "login" THEN IF box[c].ok THEN {box[c].val} ELSE {}
  ELSE IF pc[c] = "logout" THEN {} ELSE Believed(c)

\* When no call times out: what a connected client has between two calls, with
\* a request at the server and with an answer on its way.  With SysSound and
\* KeysAreOwned, the inductive invariant for ClientKnowsItsSession.
SessionKnown(c) ==
  /\ Gone(c) => \A k \in Key : owner[k] # c
  /\ connected[c] /\ box[c] = NONE => Owned(c) = Believed(c)
  /\ connected[c] /\ box[c] # NONE => Owned(c) = Announced(c)
  /\ connected[c] /\ pc[c] = "idle" => chan[c] = <<>>
  /\ connected[c] /\ chan[c] # <<>> =>
       /\ Len(chan[c]) = 1 /\ chan[c][1].key = sess_key[c]
       /\ pc[c] = "login" => ~logged_in[c]

SessionsAreKnown == \A c \in Client : SessionKnown(c)

-----------------------------------------------------------------------------
Request == [cmd: Command, key: AnyKey]

LEMMA SystemTypes ==
  ASSUME SysTypeOK, NEW c \in Client
  PROVE  /\ chan[c] \in Seq(Request) /\ Len(chan[c]) \in Nat
         /\ DOMAIN chan[c] = 1 .. Len(chan[c])
         /\ (chan[c] # <<>>) <=> (Len(chan[c]) > 0)
         /\ \A i \in DOMAIN chan[c] : chan[c][i].cmd \in Command /\ chan[c][i].key \in AnyKey
         /\ sess_key[c] \in AnyKey
<1>1. chan[c] \in Seq(Request) /\ sess_key[c] \in AnyKey
  BY DEF SysTypeOK, Request
<1>2. /\ Len(chan[c]) \in Nat /\ DOMAIN chan[c] = 1 .. Len(chan[c])
      /\ chan[c] \in [1 .. Len(chan[c]) -> Request]
  BY <1>1, LenProperties
<1>3. (chan[c] # <<>>) <=> (Len(chan[c]) > 0)
  BY <1>1, <1>2, EmptySeq
<1> QED BY <1>1, <1>2, <1>3 DEF Request

\* The requests that are left when the oldest has been taken off.
LEMMA TailOfCalls ==
  ASSUME SysTypeOK, NEW c \in Client, chan[c] # <<>>
  PROVE  /\ Head(chan[c]) = chan[c][1] /\ 1 \in DOMAIN chan[c]
         /\ Tail(chan[c]) \in Seq(Request)
         /\ Len(Tail(chan[c])) = Len(chan[c]) - 1
         /\ \A i \in DOMAIN Tail(chan[c]) :
              i + 1 \in DOMAIN chan[c] /\ Tail(chan[c])[i] = chan[c][i + 1]
         /\ (Tail(chan[c]) = <<>>) <=> (Len(chan[c]) = 1)
<1>1. chan[c] \in Seq(Request) /\ Len(chan[c]) \in Nat \ {0}
  BY SystemTypes
<1>2. /\ Head(chan[c]) = chan[c][1] /\ Tail(chan[c]) \in Seq(Request)
      /\ Len(Tail(chan[c])) = Len(chan[c]) - 1
      /\ \A i \in 1 .. Len(Tail(chan[c])) : Tail(chan[c])[i] = chan[c][i + 1]
  BY <1>1, HeadTailProperties
<1>3. /\ DOMAIN chan[c] = 1 .. Len(chan[c])
      /\ DOMAIN Tail(chan[c]) = 1 .. Len(Tail(chan[c]))
  BY <1>1, <1>2, LenProperties
<1>4. (Tail(chan[c]) = <<>>) <=> (Len(Tail(chan[c])) = 0)
  BY <1>2, EmptySeq
<1> QED BY <1>1, <1>2, <1>3, <1>4

-----------------------------------------------------------------------------
LEMMA KeyRange ==
  /\ Key \subseteq AnyKey
  /\ INVALID_KEY \in AnyKey \ Key
  /\ UINT_MAX \in AnyKey \ Key
BY ServerAssumption DEF Key, AnyKey, INVALID_KEY

\* What svc_run executes for a request is one of the server's own steps.
LEMMA HandleIsNext ==
  ASSUME NEW cmd \in Command, NEW k \in AnyKey, Handle(cmd, k)
  PROVE  Next
BY SystemAssumption DEF Handle, Next

\* A request opens at most one session, under the next key, and only a login
\* does; the others end sessions or leave them.
LEMMA HandleEffect ==
  ASSUME Sound, NEW cmd \in Command, NEW k \in AnyKey, Handle(cmd, k)
  PROVE  /\ Sound'
         /\ \/ key' = key
            \/ cmd.op = "login" /\ key' = key + 1 /\ key' \in Key
         /\ \A j \in Key : Live(j)' => Live(j) \/ (j = key' /\ key' # key)
         /\ cmd.op = "login" /\ resp'.ok =>
              key' = key + 1 /\ resp'.val = key' /\ key' \in Key /\ db'[key'] # NONE
<1>1. Sound'
  BY HandleIsNext, NextKeepsSound
<1>2. key \in 0 .. UINT_MAX - 1 /\ UINT_MAX \in Nat /\ db \in [Key -> ClientData \cup {NONE}]
  BY ServerAssumption DEF Sound, TypeOK
<1>3. CASE cmd.op = "login"
  <2>1. login(cmd.user) /\ cmd.user \in User
    BY <1>3, SystemAssumption DEF Handle
  <2>2. CASE cmd.user \in active_users
    BY <1>1, <1>2, <2>1, <2>2 DEF login, Refuse, Reply, memory, Live
  <2>3. CASE cmd.user \notin active_users
    <3>1. /\ key' = key + 1 /\ key' \in Key
          /\ db' = [db EXCEPT ![key'] = NewClientData(cmd.user)]
          /\ resp'.val = key'
      BY <2>1, <2>3 DEF login, Reply
    <3>2. NewClientData(cmd.user) # NONE
      <4>1. NewClientData(cmd.user) \in ClientData
        BY <2>1 DEF NewClientData, ClientData, Data, NoData
      <4> QED BY <4>1, ServerAssumption
    <3>3. db'[key'] # NONE /\ \A j \in Key \ {key'} : db'[j] = db[j]
      BY <1>2, <3>1, <3>2
    <3>4. key' # key /\ \A j \in Key : Live(j)' => Live(j) \/ j = key'
      BY <1>2, <3>1, <3>3 DEF Live
    <3> QED BY <1>1, <1>3, <3>1, <3>3, <3>4
  <2> QED BY <2>1, <2>2, <2>3
<1>4. CASE cmd.op # "login"
  <2>1. key' = key
    BY <1>4 DEF Handle, logout, add_update, read_entry, del, load, store,
                get_stats, get_stats_all, RefuseUnknown, Refuse, memory
  <2>2. ASSUME NEW j \in Key, ~Live(j)
        PROVE  ~Live(j)'
    <3>1. CASE db' = db
      BY <2>2, <3>1 DEF Live
    <3>2. ASSUME NEW s, Live(k), db' = [db EXCEPT ![k] = s]
          PROVE  ~Live(j)'
      BY <1>2, <2>2, <3>2 DEF Live
    <3> QED BY <1>4, <3>1, <3>2
            DEF Handle, logout, add_update, read_entry, del, load, store,
                get_stats, get_stats_all, RefuseUnknown, Refuse, memory
  <2> QED BY <1>1, <1>4, <2>1, <2>2
<1> QED BY <1>3, <1>4

-----------------------------------------------------------------------------
\* One lemma per step: SysSound is kept.  Steps of a client leave the server
\* as it is.
LEMMA ServerStands ==
  ASSUME Sound, UNCHANGED vars
  PROVE  Sound' /\ key' = key /\ db' = db /\ \A k : Live(k)' <=> Live(k)
BY NextKeepsSound DEF vars, Live

LEMMA InitSysSound ==
  ASSUME SysInit
  PROVE  SysSound /\ KeysAreOwned
<1>1. Sound
  BY InitSound DEF SysInit
<1>2. SysTypeOK
  BY EmptySeq, ServerAssumption DEF SysInit, SysTypeOK, AnyKey, INVALID_KEY
<1>3. CallsMatch /\ KeysAreOwned
  BY EmptySeq, LenProperties DEF SysInit, CallsMatch, KeysAreOwned, KeysOwned, Gone
<1> QED BY <1>1, <1>2, <1>3 DEF SysSound

LEMMA StartKeepsSound ==
  ASSUME SysSound, NEW c \in Client, Start(c)
  PROVE  SysSound'
<1>1. Sound' /\ UNCHANGED <<chan, box, owner>>
  BY ServerStands DEF Start, SysSound, netVars
<1>2. SysTypeOK'
  BY <1>1, SystemAssumption DEF SysSound, SysTypeOK, Start
<1>3. CallsMatch'
  BY <1>1 DEF SysSound, SysTypeOK, CallsMatch, Start, Gone, Waiting, Operation
<1> QED BY <1>1, <1>2, <1>3 DEF SysSound

LEMMA ExitKeepsSound ==
  ASSUME SysSound, NEW c \in Client, Exit(c)
  PROVE  SysSound'
<1>1. Sound'
  BY ServerStands DEF Exit, SysSound
<1>2. SysTypeOK'
  BY DEF SysSound, SysTypeOK, Exit, Disown
<1>3. CallsMatch'
  BY DEF SysSound, SysTypeOK, CallsMatch, Exit, Gone, Waiting, Operation
<1> QED BY <1>1, <1>2, <1>3 DEF SysSound

RequestOf(c, cmd) == [cmd |-> cmd, key |-> sess_key[c]]

\* A call of a connected client goes behind the requests it has at the server;
\* the others' calls are left alone.
LEMMA SendEffect ==
  ASSUME SysSound, NEW c \in Client, NEW cmd \in Command, Send(c, cmd)
  PROVE  /\ Sound' /\ key' = key /\ \A k : Live(k)' <=> Live(k)
         /\ UNCHANGED <<sess_key, logged_in, connected, box, owner>>
         /\ pc[c] = "idle" /\ pc' = [pc EXCEPT ![c] = cmd.op] /\ cmd.op \in Operation
         /\ RequestOf(c, cmd).cmd = cmd /\ RequestOf(c, cmd).key = sess_key[c]
         /\ box[c] = NONE
         /\ ~connected[c] => chan' = chan /\ chan[c] = <<>>
         /\ connected[c] =>
              /\ chan'[c] \in Seq(Request) /\ chan'[c] # <<>> /\ Len(chan[c]) \in Nat
              /\ DOMAIN chan[c] = 1 .. Len(chan[c])
              /\ Len(chan'[c]) = Len(chan[c]) + 1 /\ DOMAIN chan'[c] = 1 .. Len(chan[c]) + 1
              /\ chan'[c][Len(chan[c]) + 1] = RequestOf(c, cmd)
              /\ \A i \in DOMAIN chan[c] : chan'[c][i] = chan[c][i]
              /\ chan' = [chan EXCEPT ![c] = chan'[c]]
         /\ pc'[c] = cmd.op
         /\ \A d \in Client \ {c} : chan'[d] = chan[d] /\ pc'[d] = pc[d]
<1> DEFINE r == RequestOf(c, cmd)
<1>1. /\ Sound' /\ key' = key /\ \A k : Live(k)' <=> Live(k)
      /\ UNCHANGED <<sess_key, logged_in, connected, box, owner>>
      /\ pc[c] = "idle" /\ pc' = [pc EXCEPT ![c] = cmd.op] /\ cmd.op \in Operation
  BY ServerStands, SystemAssumption DEF Send, SysSound
<1>2. /\ pc'[c] = cmd.op /\ \A d \in Client \ {c} : pc'[d] = pc[d]
      /\ chan \in [Client -> Seq(Request)]
  BY <1>1 DEF SysSound, SysTypeOK, Request
<1>3. r.cmd = cmd /\ r.key = sess_key[c] /\ box[c] = NONE
  BY <1>1 DEF SysSound, CallsMatch, Waiting, Operation, RequestOf
<1>4. CASE ~connected[c]
  BY <1>1, <1>2, <1>3, <1>4 DEF Send, SysSound, CallsMatch, Gone
<1>5. CASE connected[c]
  <2>1. chan' = [chan EXCEPT ![c] = Append(chan[c], r)]
    BY <1>5 DEF Send, RequestOf
  <2>2. r \in Request
    BY SystemTypes DEF SysSound, Request, RequestOf
  <2>3. /\ Append(chan[c], r) \in Seq(Request) /\ Append(chan[c], r) # <<>>
        /\ Len(chan[c]) \in Nat /\ DOMAIN chan[c] = 1 .. Len(chan[c])
        /\ Len(Append(chan[c], r)) = Len(chan[c]) + 1
        /\ DOMAIN Append(chan[c], r) = 1 .. Len(chan[c]) + 1
        /\ Append(chan[c], r)[Len(chan[c]) + 1] = r
        /\ \A i \in DOMAIN chan[c] : Append(chan[c], r)[i] = chan[c][i]
    BY <1>2, <2>2, AppendProperties, LenProperties
  <2>4. chan'[c] = Append(chan[c], r) /\ \A d \in Client \ {c} : chan'[d] = chan[d]
    BY <1>2, <2>1
  <2> QED BY <1>1, <1>2, <1>3, <1>5, <2>1, <2>3, <2>4
<1> QED BY <1>4, <1>5 DEF SysSound, SysTypeOK

LEMMA SendKeepsSound ==
  ASSUME SysSound, NEW c \in Client, NEW cmd \in Command, Send(c, cmd)
  PROVE  SysSound'
<1>1. SysTypeOK'
  <2>1. chan' \in [Client -> Seq(Request)]
    BY SendEffect DEF SysSound, SysTypeOK, Request
  <2>2. pc' \in [Client -> {"off", "idle", "segv"} \cup Operation]
    BY SendEffect DEF SysSound, SysTypeOK
  <2>3. UNCHANGED <<sess_key, logged_in, connected, box, owner>>
    BY SendEffect
  <2> QED BY <2>1, <2>2, <2>3 DEF SysSound, SysTypeOK, Request
<1>2. CallsMatch'
  <2> SUFFICES ASSUME NEW d \in Client
               PROVE  /\ connected'[d] => ~Gone(d)'
                      /\ chan'[d] # <<>> => connected'[d] \/ Gone(d)'
                      /\ chan'[d] # <<>> /\ Waiting(d)' =>
                           chan'[d][Len(chan'[d])].cmd.op = pc'[d]
                      /\ box'[d] # NONE => Waiting(d)' /\ chan'[d] = <<>>
                      /\ box'[d] # NONE /\ pc'[d] = "login" /\ box'[d].ok =>
                           box'[d].val \in Key
    BY DEF CallsMatch
  <2>1. CASE d = c
    <3>1. /\ pc[c] = "idle" /\ pc'[c] = cmd.op /\ cmd.op \in Operation
          /\ connected'[c] = connected[c] /\ box'[c] = NONE
          /\ ~connected[c] => chan'[c] = <<>>
          /\ connected[c] => chan'[c] # <<>> /\ chan'[c][Len(chan'[c])].cmd = cmd
      BY SendEffect
    <3> QED BY <2>1, <3>1 DEF Gone, Waiting, Operation
  <2>2. CASE d # c
    <3>1. /\ pc'[d] = pc[d] /\ chan'[d] = chan[d]
          /\ UNCHANGED <<connected, box>>
      BY <2>2, SendEffect
    <3> QED BY <3>1 DEF SysSound, CallsMatch, Gone, Waiting
  <2> QED BY <2>1, <2>2
<1> QED BY <1>1, <1>2, SendEffect DEF SysSound

\* The client takes no key but the one a login was answered with, or none.
LEMMA ReceiveEffect ==
  ASSUME SysSound, NEW c \in Client, Receive(c)
  PROVE  /\ Sound' /\ key' = key /\ db' = db /\ \A k : Live(k)' <=> Live(k)
         /\ UNCHANGED <<connected, chan, owner>> /\ Waiting(c) /\ box[c] # NONE
         /\ pc' = [pc EXCEPT ![c] = "idle"] /\ box' = [box EXCEPT ![c] = NONE]
         /\ \/ sess_key' = sess_key
            \/ sess_key' = [sess_key EXCEPT ![c] = INVALID_KEY]
            \/ /\ pc[c] = "login" /\ box[c].ok /\ box[c].val \in Key
               /\ sess_key' = [sess_key EXCEPT ![c] = box[c].val]
         /\ \E b \in BOOLEAN : logged_in' \in {logged_in, [logged_in EXCEPT ![c] = b]}
<1>1. /\ Sound' /\ key' = key /\ db' = db /\ \A k : Live(k)' <=> Live(k)
      /\ UNCHANGED <<connected, chan, owner>> /\ Waiting(c) /\ box[c] # NONE
      /\ pc' = [pc EXCEPT ![c] = "idle"] /\ box' = [box EXCEPT ![c] = NONE]
  BY ServerStands DEF Receive, SysSound
<1>2. pc[c] = "login" /\ box[c].ok => box[c].val \in Key
  BY <1>1 DEF SysSound, CallsMatch
<1>3. \/ sess_key' = sess_key
      \/ sess_key' = [sess_key EXCEPT ![c] = INVALID_KEY]
      \/ /\ pc[c] = "login" /\ box[c].ok /\ box[c].val \in Key
         /\ sess_key' = [sess_key EXCEPT ![c] = box[c].val]
  BY <1>2 DEF Receive
<1>4. \E b \in BOOLEAN : logged_in' \in {logged_in, [logged_in EXCEPT ![c] = b]}
  BY <1>1 DEF Receive, SysSound, SysTypeOK, Answer
<1> QED BY <1>1, <1>3, <1>4

LEMMA ReceiveKeepsSound ==
  ASSUME SysSound, NEW c \in Client, Receive(c)
  PROVE  SysSound'
<1>1. SysTypeOK'
  <2>1. sess_key' \in [Client -> AnyKey]
    <3>1. sess_key \in [Client -> AnyKey] /\ INVALID_KEY \in AnyKey
      BY KeyRange DEF SysSound, SysTypeOK
    <3> QED BY <3>1, KeyRange, ReceiveEffect
  <2>2. logged_in' \in [Client -> BOOLEAN]
    BY ReceiveEffect DEF SysSound, SysTypeOK
  <2> QED BY <2>1, <2>2, ReceiveEffect DEF SysSound, SysTypeOK
<1>2. CallsMatch'
  <2>1. /\ UNCHANGED <<connected, chan>> /\ Waiting(c)
        /\ pc' = [pc EXCEPT ![c] = "idle"] /\ box' = [box EXCEPT ![c] = NONE]
    BY ReceiveEffect
  <2> QED BY <2>1 DEF SysSound, SysTypeOK, CallsMatch, Gone, Waiting, Operation
<1> QED BY <1>1, <1>2, ReceiveEffect DEF SysSound

\* A call that returns NULL leaves the client with the key it had or with one
\* that no session has.
LEMMA ReceiveNullEffect ==
  ASSUME SysSound, NEW c \in Client, ReceiveNull(c)
  PROVE  /\ Sound' /\ key' = key /\ db' = db /\ \A k : Live(k)' <=> Live(k)
         /\ chan' = chan /\ Waiting(c) /\ box' = [box EXCEPT ![c] = NONE]
         /\ sess_key' \in {sess_key, [sess_key EXCEPT ![c] = UINT_MAX]}
         /\ \E b \in BOOLEAN : logged_in' \in {logged_in, [logged_in EXCEPT ![c] = b]}
         /\ \/ /\ pc' = [pc EXCEPT ![c] = "segv"]
               /\ connected' = [connected EXCEPT ![c] = FALSE]
               /\ owner' = [k \in Key |-> IF owner[k] = c THEN NONE ELSE owner[k]]
            \/ pc' = [pc EXCEPT ![c] = "idle"] /\ UNCHANGED <<connected, owner>>
<1>1. Sound' /\ key' = key /\ db' = db /\ \A k : Live(k)' <=> Live(k)
  BY ServerStands DEF ReceiveNull, SysSound
<1>2. \E b \in BOOLEAN : logged_in' \in {logged_in, [logged_in EXCEPT ![c] = b]}
  BY DEF ReceiveNull
<1> QED BY <1>1, <1>2 DEF ReceiveNull, Disown

LEMMA ReceiveNullKeepsSound ==
  ASSUME SysSound, NEW c \in Client, ReceiveNull(c)
  PROVE  SysSound'
<1>1. SysTypeOK'
  <2>1. /\ sess_key' \in {sess_key, [sess_key EXCEPT ![c] = UINT_MAX]}
        /\ \E b \in BOOLEAN : logged_in' \in {logged_in, [logged_in EXCEPT ![c] = b]}
        /\ owner' \in {owner, [k \in Key |-> IF owner[k] = c THEN NONE ELSE owner[k]]}
    BY ReceiveNullEffect
  <2>2. sess_key' \in [Client -> AnyKey]
    BY <2>1, KeyRange DEF SysSound, SysTypeOK
  <2>3. logged_in' \in [Client -> BOOLEAN]
    BY <2>1 DEF SysSound, SysTypeOK
  <2>4. owner' \in [Key -> Client \cup {NONE}]
    BY <2>1 DEF SysSound, SysTypeOK
  <2> QED BY <2>2, <2>3, <2>4, ReceiveNullEffect DEF SysSound, SysTypeOK
<1>2. CallsMatch'
  <2>1. /\ chan' = chan /\ Waiting(c) /\ box' = [box EXCEPT ![c] = NONE]
        /\ \/ /\ pc' = [pc EXCEPT ![c] = "segv"]
              /\ connected' = [connected EXCEPT ![c] = FALSE]
           \/ pc' = [pc EXCEPT ![c] = "idle"] /\ connected' = connected
    BY ReceiveNullEffect
  <2> QED BY <2>1 DEF SysSound, SysTypeOK, CallsMatch, Gone, Waiting, Operation
<1> QED BY <1>1, <1>2, ReceiveNullEffect DEF SysSound

\* What the server does for the oldest request of c, and to whom.
LEMMA ServeEffect ==
  ASSUME SysSound, NEW c \in Client, Serve(c)
  PROVE  /\ Sound' /\ chan[c] # <<>> /\ UNCHANGED clientVars
         /\ chan' = [chan EXCEPT ![c] = Tail(chan[c])]
         /\ \/ key' = key /\ owner' = owner
            \/ /\ chan[c][1].cmd.op = "login" /\ key' = key + 1 /\ key' \in Key
               /\ owner' = [owner EXCEPT ![key'] = Who(c)]
         /\ \A j \in Key : Live(j)' => Live(j) \/ (j = key' /\ key' # key)
         /\ chan[c][1].cmd.op = "login" /\ resp'.ok =>
              /\ key' = key + 1 /\ resp'.val = key' /\ key' \in Key /\ db'[key'] # NONE
              /\ owner'[key'] = Who(c)
         /\ box' = IF Waiting(c) /\ Len(chan[c]) = 1
                    THEN [box EXCEPT ![c] = [ok |-> resp'.ok, val |-> resp'.val]]
                    ELSE box
<1> DEFINE r == chan[c][1]
<1>1. /\ chan[c] # <<>> /\ Handle(r.cmd, r.key) /\ UNCHANGED clientVars
      /\ chan' = [chan EXCEPT ![c] = Tail(chan[c])]
      /\ owner' = IF key' = key THEN owner ELSE [owner EXCEPT ![key'] = Who(c)]
      /\ box' = IF Waiting(c) /\ Len(chan[c]) = 1
                 THEN [box EXCEPT ![c] = [ok |-> resp'.ok, val |-> resp'.val]]
                 ELSE box
  BY TailOfCalls DEF Serve, SysSound, Who, Gone
<1>2. r.cmd \in Command /\ r.key \in AnyKey
  BY <1>1, SystemTypes, TailOfCalls DEF SysSound
<1>3. /\ Sound'
      /\ \/ key' = key
         \/ r.cmd.op = "login" /\ key' = key + 1 /\ key' \in Key
      /\ \A j \in Key : Live(j)' => Live(j) \/ (j = key' /\ key' # key)
      /\ r.cmd.op = "login" /\ resp'.ok =>
           key' = key + 1 /\ resp'.val = key' /\ key' \in Key /\ db'[key'] # NONE
  BY <1>1, <1>2, HandleEffect DEF SysSound
<1>4. key' = key + 1 => key' # key
  BY DEF SysSound, Sound, TypeOK
<1>5. key' # key /\ key' \in Key => owner'[key'] = Who(c)
  BY <1>1 DEF SysSound, SysTypeOK
<1>6. key' = key => owner' = owner
  BY <1>1
<1>7. key' # key => owner' = [owner EXCEPT ![key'] = Who(c)]
  BY <1>1
<1> HIDE DEF r
<1>8. \/ key' = key /\ owner' = owner
      \/ /\ r.cmd.op = "login" /\ key' = key + 1 /\ key' \in Key
         /\ owner' = [owner EXCEPT ![key'] = Who(c)]
  BY <1>3, <1>4, <1>6, <1>7
<1>9. r.cmd.op = "login" /\ resp'.ok =>
              /\ key' = key + 1 /\ resp'.val = key' /\ key' \in Key /\ db'[key'] # NONE
              /\ owner'[key'] = Who(c)
  BY <1>3, <1>4, <1>5
<1> QED BY <1>1, <1>3, <1>8, <1>9 DEF r

LEMMA ServedAnswer ==
  ASSUME SysSound, NEW c \in Client, Serve(c), Waiting(c), Len(chan[c]) = 1
  PROVE  (box'[c].ok <=> resp'.ok) /\ box'[c].val = resp'.val
<1>1. box'[c] = [ok |-> resp'.ok, val |-> resp'.val]
  BY ServeEffect DEF SysSound, SysTypeOK
<1>2. \A a, b, v : v = [ok |-> a, val |-> b] => v.ok = a /\ v.val = b
  OBVIOUS
<1> QED BY <1>1, <1>2

\* The answer a login waits for carries the key the server just issued.
LEMMA ServedLogin ==
  ASSUME SysSound, NEW c \in Client, Serve(c),
         box'[c] # NONE, pc'[c] = "login", box'[c].ok
  PROVE  /\ key' \in Key /\ box'[c].val = key' /\ key' = key + 1 /\ db'[key'] # NONE
         /\ owner'[key'] = c /\ owner' = [owner EXCEPT ![key'] = c]
<1>1. Waiting(c) /\ Len(chan[c]) = 1 /\ chan[c][1].cmd.op = "login"
  BY ServeEffect DEF SysSound, CallsMatch, clientVars
<1>2. resp'.ok /\ box'[c].val = resp'.val
  BY <1>1, ServedAnswer
<1>3. Who(c) = c /\ key \in Int
  BY <1>1 DEF Who, Gone, Waiting, Operation, SysSound, Sound, TypeOK
<1> QED BY <1>1, <1>2, <1>3, ServeEffect

LEMMA ServeKeepsSound ==
  ASSUME SysSound, NEW c \in Client, Serve(c)
  PROVE  SysSound'
<1>1. /\ Sound' /\ chan[c] # <<>> /\ UNCHANGED <<pc, sess_key, logged_in, connected>>
      /\ chan' = [chan EXCEPT ![c] = Tail(chan[c])]
      /\ Who(c) \in Client \cup {NONE}
  BY ServeEffect DEF clientVars, Who
<1>2. /\ Tail(chan[c]) \in Seq(Request) /\ Len(chan[c]) \in Nat \ {0}
      /\ Len(Tail(chan[c])) = Len(chan[c]) - 1
      /\ DOMAIN Tail(chan[c]) = 1 .. Len(chan[c]) - 1
      /\ \A i \in DOMAIN Tail(chan[c]) :
           i + 1 \in DOMAIN chan[c] /\ Tail(chan[c])[i] = chan[c][i + 1]
      /\ (Tail(chan[c]) = <<>>) <=> (Len(chan[c]) = 1)
  BY <1>1, SystemTypes, TailOfCalls, LenProperties DEF SysSound
<1>3. /\ chan'[c] = Tail(chan[c])
      /\ \A d \in Client \ {c} : chan'[d] = chan[d]
  BY <1>1 DEF SysSound, SysTypeOK
<1>4. /\ Waiting(c) /\ Len(chan[c]) = 1 =>
           box' = [box EXCEPT ![c] = [ok |-> resp'.ok, val |-> resp'.val]]
      /\ ~(Waiting(c) /\ Len(chan[c]) = 1) => box' = box
      /\ box[c] = NONE
  BY <1>1, ServeEffect DEF SysSound, CallsMatch
<1>5. SysTypeOK'
  <2>1. owner' \in [Key -> Client \cup {NONE}]
    <3>1. \/ owner' = owner
          \/ key' \in Key /\ owner' = [owner EXCEPT ![key'] = Who(c)]
      BY ServeEffect
    <3> QED BY <1>1, <3>1 DEF SysSound, SysTypeOK
  <2>2. box' \in [Client -> Answer \cup {NONE}]
    <3>1. resp'.ok \in BOOLEAN /\ resp'.val \in Content \cup Key \cup {NONE}
      BY <1>1 DEF Sound, TypeOK, Response
    <3>2. [ok |-> resp'.ok, val |-> resp'.val] \in Answer
      BY <3>1 DEF Answer
    <3> QED BY <1>4, <3>2 DEF SysSound, SysTypeOK
  <2>3. chan' \in [Client -> Seq(Request)]
    BY <1>1, <1>2 DEF SysSound, SysTypeOK, Request
  <2> QED BY <1>1, <2>1, <2>2, <2>3 DEF SysSound, SysTypeOK, Request
<1>6. CallsMatch'
  <2> SUFFICES ASSUME NEW d \in Client
               PROVE  /\ connected'[d] => ~Gone(d)'
                      /\ chan'[d] # <<>> => connected'[d] \/ Gone(d)'
                      /\ chan'[d] # <<>> /\ Waiting(d)' =>
                           chan'[d][Len(chan'[d])].cmd.op = pc'[d]
                      /\ box'[d] # NONE => Waiting(d)' /\ chan'[d] = <<>>
                      /\ box'[d] # NONE /\ pc'[d] = "login" /\ box'[d].ok =>
                           box'[d].val \in Key
    BY DEF CallsMatch
  <2>1. CASE d = c
    <3>1. chan'[c] # <<>> => chan'[c][Len(chan'[c])] = chan[c][Len(chan[c])]
      BY <1>2, <1>3
    <3>2. box'[c] # NONE => Waiting(c) /\ Len(chan[c]) = 1
      BY <1>4
    <3>3. /\ connected[c] => ~Gone(c)
          /\ connected[c] \/ Gone(c)
          /\ Waiting(c) => chan[c][Len(chan[c])].cmd.op = pc[c]
      BY <1>1 DEF SysSound, CallsMatch
    <3>4. (Gone(c)' <=> Gone(c)) /\ (Waiting(c)' <=> Waiting(c))
      BY <1>1 DEF Gone, Waiting
    <3>5. box'[c] # NONE => chan'[c] = <<>>
      BY <1>2, <1>3, <3>2
    <3>6. box'[c] # NONE /\ pc'[c] = "login" /\ box'[c].ok => box'[c].val \in Key
      BY <1>1, ServedLogin
    <3> QED BY <1>1, <2>1, <3>1, <3>2, <3>3, <3>4, <3>5, <3>6
  <2>2. CASE d # c
    <3>1. box'[d] = box[d] /\ chan'[d] = chan[d]
      BY <1>3, <1>4, <2>2 DEF SysSound, SysTypeOK
    <3> QED BY <1>1, <3>1 DEF SysSound, CallsMatch, Gone, Waiting
  <2> QED BY <2>1, <2>2
<1> QED BY <1>1, <1>5, <1>6 DEF SysSound

\* A killed server's keys are nobody's: only the answers that are already on
\* their way survive, and only to connections that are broken.
LEMMA KillServerIsNext ==
  ASSUME SysTypeOK, KillServer
  PROVE  Next
<1>1. ASSUME NEW c \in Client, chan[c] # <<>>, CrashInStore(Head(chan[c]).key)
      PROVE  Next
  BY <1>1, SystemTypes, TailOfCalls DEF Next
<1> QED BY <1>1 DEF KillServer, Next

LEMMA KillServerKeepsSound ==
  ASSUME SysSound, KillServer
  PROVE  SysSound' /\ KeysAreOwned'
<1>1. Sound'
  BY KillServerIsNext, NextKeepsSound DEF SysSound
<1>2. PICK lost \in SUBSET Client :
         /\ box' = [c \in Client |-> IF c \in lost THEN NONE ELSE box[c]]
         /\ chan' = [c \in Client |-> <<>>]
         /\ connected' = [c \in Client |-> FALSE]
         /\ owner' = [k \in Key |-> NONE]
         /\ UNCHANGED <<pc, sess_key, logged_in>>
  BY DEF KillServer
<1>3. SysTypeOK'
  BY <1>2, EmptySeq DEF SysSound, SysTypeOK
<1>4. CallsMatch'
  BY <1>2 DEF SysSound, CallsMatch, Gone, Waiting
<1>5. KeysAreOwned'
  BY <1>2, EmptySeq, LenProperties DEF KeysAreOwned, KeysOwned
<1> QED BY <1>1, <1>3, <1>4, <1>5 DEF SysSound

LEMMA SysNextKeepsSound ==
  ASSUME SysSound, [SysNext]_sysVars
  PROVE  SysSound'
<1>1. CASE UNCHANGED sysVars
  <2>1. /\ Sound' /\ UNCHANGED <<clientVars, netVars, key, db>>
    BY <1>1, ServerStands DEF sysVars, SysSound, vars
  <2>2. SysTypeOK'
    BY <2>1 DEF clientVars, netVars, SysSound, SysTypeOK
  <2>3. CallsMatch'
    BY <2>1 DEF clientVars, netVars, SysSound, CallsMatch, Gone, Waiting
  <2> QED BY <2>1, <2>2, <2>3 DEF SysSound
<1>2. ASSUME NEW c \in Client, NEW cmd \in Command, Send(c, cmd)
      PROVE  SysSound'
  BY <1>2, SendKeepsSound
<1>3. ASSUME NEW c \in Client,
             Start(c) \/ Exit(c) \/ Receive(c) \/ ReceiveNull(c) \/ Serve(c)
      PROVE  SysSound'
  BY <1>3, StartKeepsSound, ExitKeepsSound, ReceiveKeepsSound,
     ReceiveNullKeepsSound, ServeKeepsSound
<1> QED BY <1>1, <1>2, <1>3, KillServerKeepsSound DEF SysNext

-----------------------------------------------------------------------------
\* Whatever the clients do, the server of the whole system behaves as the
\* server does alone, so what is proved above holds of it too.
LEMMA SysNextIsNext ==
  ASSUME SysTypeOK, [SysNext]_sysVars
  PROVE  [Next]_vars
<1>1. ASSUME NEW c \in Client, Serve(c)
      PROVE  Next
  <2>1. /\ Handle(chan[c][1].cmd, chan[c][1].key)
        /\ chan[c][1].cmd \in Command /\ chan[c][1].key \in AnyKey
    BY <1>1, SystemTypes, TailOfCalls DEF Serve
  <2> QED BY <2>1, HandleIsNext
<1>2. ASSUME NEW c \in Client,
             \/ Start(c) \/ Exit(c) \/ Receive(c) \/ ReceiveNull(c)
             \/ \E cmd \in Command : Send(c, cmd)
      PROVE  UNCHANGED vars
  BY <1>2 DEF Start, Exit, Receive, ReceiveNull, Send
<1> QED BY <1>1, <1>2, KillServerIsNext DEF SysNext, sysVars

\* Every variable keeps its type, whatever the clients find in their keys when
\* they start.
THEOREM SystemTypeCorrect == SysSpec => []SysTypeOK
<1>1. SysInit => SysSound
  BY InitSysSound
<1>2. SysSound /\ [SysNext]_sysVars => SysSound'
  BY SysNextKeepsSound
<1>3. SysSound => SysTypeOK
  BY DEF SysSound
<1> QED BY <1>1, <1>2, <1>3, PTL DEF SysSpec

\* The clients' system implements the server's specification: sessions stay
\* unique and keys are not issued twice with clients that time out, die and
\* come back as they do with any requests.
THEOREM ServerInSystem == SysSpec => Spec
<1>1. SysInit => Init
  BY DEF SysInit
<1>2. SysTypeOK /\ [SysNext]_sysVars => [Next]_vars
  BY SysNextIsNext
<1> QED BY <1>1, <1>2, SystemTypeCorrect, PTL DEF SysSpec, Spec

\* What a user is promised holds with the clients as they are: with requests that
\* come late, or from a client that has timed out, ended or been started again,
\* each step of the whole is one of UserDatabases, one of its two lapses, or leaves
\* the users' databases,
\* their files and the reply alone.
THEOREM SystemKeepsPromisesButTwo == SysSpec => KeepsPromisesButTwo
BY ServerInSystem, PromisesButTwoKept

-----------------------------------------------------------------------------
\* One lemma per step: the keys stay those of their clients.
LEMMA OwnedIfUntouched ==
  ASSUME NEW d \in Client, KeysOwned(d),
         UNCHANGED <<connected[d], sess_key[d], box[d], pc[d], chan[d]>>,
         \A k, w : w \in {d, NONE} /\ Mine(k, w) => Mine(k, w)'
  PROVE  KeysOwned(d)'
<1>1. Who(d)' = Who(d) /\ Who(d) \in {d, NONE}
  BY DEF Who, Gone
<1>2. ASSUME NEW i \in DOMAIN chan[d]
      PROVE  Mine(chan[d][i].key, Who(d))'
  <2>1. PICK k : k = chan[d][i].key
    OBVIOUS
  <2>2. Mine(k, Who(d))
    BY <2>1 DEF KeysOwned
  <2> QED BY <1>1, <2>1, <2>2
<1>3. connected'[d] => Mine(sess_key[d], d)'
  BY DEF KeysOwned
<1>4. connected'[d] /\ box'[d] # NONE /\ pc'[d] = "login" /\ box'[d].ok =>
        Mine(box[d].val, d)'
  BY DEF KeysOwned
<1> QED BY <1>2, <1>3, <1>4 DEF KeysOwned

LEMMA StartKeepsOwned ==
  ASSUME SysSound, KeysAreOwned, UninitKeys \cap Key = {},
         NEW c \in Client, Start(c)
  PROVE  KeysAreOwned'
<1>1. key' = key /\ (\A k : Live(k)' <=> Live(k)) /\ UNCHANGED <<chan, box, owner>>
  BY ServerStands DEF Start, SysSound, netVars
<1>2. \A k, w : Mine(k, w) => Mine(k, w)'
  BY <1>1 DEF Mine
<1>3. KeysOwned(c)'
  <2>1. sess_key'[c] \notin Key /\ chan'[c] = <<>> /\ pc'[c] = "idle"
    BY <1>1 DEF SysSound, SysTypeOK, Start
  <2> QED BY <2>1, EmptySeq, LenProperties DEF KeysOwned, Mine
<1>4. ASSUME NEW d \in Client \ {c}
      PROVE  KeysOwned(d)'
  <2>1. UNCHANGED <<connected[d], sess_key[d], box[d], pc[d], chan[d]>>
    BY <1>1 DEF Start, SysSound, SysTypeOK
  <2> QED BY <1>2, <2>1, OwnedIfUntouched DEF KeysAreOwned
<1> QED BY <1>3, <1>4 DEF KeysAreOwned

\* A client process goes, and what it has at the server becomes nobody's.
LEMMA LeavingKeepsOwned ==
  ASSUME SysSound, KeysAreOwned, NEW c \in Client,
         pc'[c] \in {"off", "segv"}, ~Gone(c), ~connected'[c], chan' = chan,
         key' = key, \A k : Live(k)' <=> Live(k),
         owner' = [k \in Key |-> IF owner[k] = c THEN NONE ELSE owner[k]],
         \A d \in Client \ {c} :
            UNCHANGED <<connected[d], sess_key[d], box[d], pc[d]>>
  PROVE  KeysAreOwned'
<1>1. \A k, w : w # c /\ Mine(k, w) => Mine(k, w)'
  BY SystemAssumption DEF SysSound, SysTypeOK, Mine
<1>2. ASSUME NEW d \in Client \ {c}
      PROVE  KeysOwned(d)'
  BY <1>1, OwnedIfUntouched, SystemAssumption DEF KeysAreOwned
<1>3. KeysOwned(c)'
  <2>1. Who(c) = c /\ Who(c)' = NONE
    BY DEF Who, Gone
  <2>2. ASSUME NEW i \in DOMAIN chan[c]
        PROVE  Mine(chan[c][i].key, Who(c))'
    <3>1. PICK k : k = chan[c][i].key
      OBVIOUS
    <3>2. Mine(k, c)
      BY <2>1, <3>1 DEF KeysAreOwned, KeysOwned
    <3>3. Mine(k, NONE)'
      BY <3>2 DEF Mine
    <3> QED BY <2>1, <3>1, <3>3
  <2> QED BY <2>2 DEF KeysOwned
<1> QED BY <1>2, <1>3 DEF KeysAreOwned

LEMMA ExitKeepsOwned ==
  ASSUME SysSound, KeysAreOwned, NEW c \in Client, Exit(c)
  PROVE  KeysAreOwned'
<1>1. key' = key /\ \A k : Live(k)' <=> Live(k)
  BY ServerStands DEF Exit, SysSound
<1>2. /\ pc'[c] = "off" /\ ~Gone(c) /\ ~connected'[c] /\ chan' = chan
      /\ owner' = [k \in Key |-> IF owner[k] = c THEN NONE ELSE owner[k]]
      /\ \A d \in Client \ {c} :
            UNCHANGED <<connected[d], sess_key[d], box[d], pc[d]>>
  BY DEF Exit, Disown, Gone, SysSound, SysTypeOK
<1> QED BY <1>1, <1>2, LeavingKeepsOwned

LEMMA SendKeepsOwned ==
  ASSUME SysSound, KeysAreOwned, NEW c \in Client, NEW cmd \in Command, Send(c, cmd)
  PROVE  KeysAreOwned'
<1>1. /\ key' = key /\ (\A k : Live(k)' <=> Live(k))
      /\ UNCHANGED <<sess_key, connected, box, owner>>
      /\ pc[c] = "idle" /\ pc'[c] = cmd.op /\ cmd.op \in Operation /\ box[c] = NONE
      /\ \A d \in Client \ {c} : chan'[d] = chan[d] /\ pc'[d] = pc[d]
  BY SendEffect
<1>2. \A k, w : Mine(k, w) => Mine(k, w)'
  BY <1>1 DEF Mine
<1>3. ASSUME NEW d \in Client \ {c}
      PROVE  KeysOwned(d)'
  BY <1>1, <1>2, OwnedIfUntouched DEF KeysAreOwned
<1>4. Who(c) = c /\ Who(c)' = c
  BY <1>1 DEF Who, Gone, Operation
<1>5. ASSUME NEW i \in DOMAIN chan'[c]
      PROVE  Mine(chan[c][i].key, Who(c))'
  <2>1. PICK k : k = chan'[c][i].key
    OBVIOUS
  <2>2. CASE ~connected[c]
    <3>1. chan'[c] = <<>>
      BY <2>2, SendEffect
    <3> QED BY <3>1, EmptySeq, LenProperties
  <2>3. CASE connected[c]
    <3>1. /\ DOMAIN chan[c] = 1 .. Len(chan[c]) /\ DOMAIN chan'[c] = 1 .. Len(chan[c]) + 1
          /\ Len(chan[c]) \in Nat /\ chan'[c][Len(chan[c]) + 1].key = sess_key[c]
          /\ \A j \in DOMAIN chan[c] : chan'[c][j] = chan[c][j]
      BY <2>3, SendEffect
    <3>2. Mine(k, c)
      BY <1>4, <2>1, <2>3, <3>1 DEF KeysAreOwned, KeysOwned
    <3> QED BY <1>2, <1>4, <2>1, <3>2
  <2> QED BY <2>2, <2>3
<1>6. KeysOwned(c)'
  BY <1>1, <1>2, <1>5 DEF KeysAreOwned, KeysOwned
<1> QED BY <1>3, <1>6 DEF KeysAreOwned

LEMMA ReceiveKeepsOwned ==
  ASSUME SysSound, KeysAreOwned, NEW c \in Client, Receive(c)
  PROVE  KeysAreOwned'
<1>1. /\ key' = key /\ (\A k : Live(k)' <=> Live(k))
      /\ UNCHANGED <<connected, chan, owner>> /\ Waiting(c) /\ box[c] # NONE
      /\ pc' = [pc EXCEPT ![c] = "idle"] /\ box' = [box EXCEPT ![c] = NONE]
      /\ \/ sess_key' = sess_key
         \/ sess_key' = [sess_key EXCEPT ![c] = INVALID_KEY]
         \/ /\ pc[c] = "login" /\ box[c].ok
            /\ sess_key' = [sess_key EXCEPT ![c] = box[c].val]
  BY ReceiveEffect
<1>2. \A k, w : Mine(k, w) => Mine(k, w)'
  BY <1>1 DEF Mine
<1>3. ASSUME NEW d \in Client \ {c}
      PROVE  KeysOwned(d)'
  <2>1. UNCHANGED <<connected[d], sess_key[d], box[d], pc[d], chan[d]>>
    BY <1>1 DEF SysSound, SysTypeOK
  <2> QED BY <1>2, <2>1, OwnedIfUntouched DEF KeysAreOwned
<1>4. KeysOwned(c)'
  <2>1. Who(c)' = Who(c) /\ box'[c] = NONE
    BY <1>1 DEF Who, Gone, Waiting, Operation, SysSound, SysTypeOK
  <2>2. chan'[c] = <<>>
    BY <1>1 DEF SysSound, CallsMatch
  <2>3. connected[c] => Mine(sess_key'[c], c)
    <3>1. \/ sess_key'[c] \in {sess_key[c], INVALID_KEY}
          \/ pc[c] = "login" /\ box[c].ok /\ sess_key'[c] = box[c].val
      BY <1>1 DEF SysSound, SysTypeOK
    <3>2. Mine(INVALID_KEY, c)
      BY KeyRange DEF Mine
    <3> QED BY <1>1, <3>1, <3>2 DEF KeysAreOwned, KeysOwned
  <2> QED BY <1>1, <1>2, <2>1, <2>2, <2>3, EmptySeq, LenProperties DEF KeysOwned
<1> QED BY <1>3, <1>4 DEF KeysAreOwned

LEMMA ReceiveNullKeepsOwned ==
  ASSUME SysSound, KeysAreOwned, NEW c \in Client, ReceiveNull(c)
  PROVE  KeysAreOwned'
<1>1. /\ key' = key /\ (\A k : Live(k)' <=> Live(k))
      /\ chan' = chan /\ Waiting(c) /\ box' = [box EXCEPT ![c] = NONE]
      /\ sess_key' \in {sess_key, [sess_key EXCEPT ![c] = UINT_MAX]}
  BY ReceiveNullEffect
<1>2. CASE /\ pc' = [pc EXCEPT ![c] = "segv"]
           /\ connected' = [connected EXCEPT ![c] = FALSE]
           /\ owner' = [k \in Key |-> IF owner[k] = c THEN NONE ELSE owner[k]]
  <2>1. /\ pc'[c] = "segv" /\ ~Gone(c) /\ ~connected'[c]
        /\ \A d \in Client \ {c} :
              UNCHANGED <<connected[d], sess_key[d], box[d], pc[d]>>
    BY <1>1, <1>2 DEF Gone, Waiting, Operation, SysSound, SysTypeOK
  <2> QED BY <1>1, <1>2, <2>1, LeavingKeepsOwned
<1>3. CASE pc' = [pc EXCEPT ![c] = "idle"] /\ UNCHANGED <<connected, owner>>
  <2>1. \A k, w : Mine(k, w) => Mine(k, w)'
    BY <1>1, <1>3 DEF Mine
  <2>2. ASSUME NEW d \in Client \ {c}
        PROVE  KeysOwned(d)'
    <3>1. UNCHANGED <<connected[d], sess_key[d], box[d], pc[d], chan[d]>>
      BY <1>1, <1>3 DEF SysSound, SysTypeOK
    <3> QED BY <2>1, <3>1, OwnedIfUntouched DEF KeysAreOwned
  <2>3. Who(c)' = Who(c) /\ box'[c] = NONE
    BY <1>1, <1>3 DEF Who, Gone, Waiting, Operation, SysSound, SysTypeOK
  <2>4. connected[c] => Mine(sess_key'[c], c)
    BY <1>1, KeyRange DEF SysSound, SysTypeOK, KeysAreOwned, KeysOwned, Mine
  <2>5. ASSUME NEW i \in DOMAIN chan[c]
        PROVE  Mine(chan[c][i].key, Who(c))'
    <3>1. PICK k : k = chan[c][i].key
      OBVIOUS
    <3> QED BY <1>1, <2>1, <2>3, <3>1 DEF KeysAreOwned, KeysOwned
  <2>6. KeysOwned(c)'
    BY <1>1, <1>3, <2>1, <2>3, <2>4, <2>5 DEF KeysOwned
  <2> QED BY <2>2, <2>6 DEF KeysAreOwned
<1> QED BY <1>2, <1>3, ReceiveNullEffect

LEMMA ServeKeepsOwned ==
  ASSUME SysSound, KeysAreOwned, NEW c \in Client, Serve(c)
  PROVE  KeysAreOwned'
<1>1. /\ chan[c] # <<>> /\ UNCHANGED <<pc, sess_key, logged_in, connected>>
      /\ chan' = [chan EXCEPT ![c] = Tail(chan[c])]
  BY ServeEffect DEF clientVars
<1>2. ASSUME NEW k, NEW w, Mine(k, w)
      PROVE  Mine(k, w)'
  <2> SUFFICES ASSUME k \in Key
               PROVE  k <= key' /\ (Live(k)' => owner'[k] = w)
    BY DEF Mine
  <2>1. key \in Nat /\ owner \in [Key -> Client \cup {NONE}]
    BY DEF SysSound, SysTypeOK, Sound, TypeOK
  <2>2. key' = key \/ key' = key + 1
    BY ServeEffect
  <2>3. k \in Int /\ k <= key /\ (Live(k) => owner[k] = w)
    BY <1>2 DEF Mine, Key
  <2>4. k <= key' /\ (key' # key => k # key')
    BY <2>1, <2>2, <2>3
  <2>5. Live(k)' => Live(k)
    BY <2>4, ServeEffect
  <2>6. owner'[k] = owner[k]
    BY <2>1, <2>4, ServeEffect
  <2> QED BY <2>3, <2>4, <2>5, <2>6
<1>3. ASSUME NEW d \in Client \ {c}
      PROVE  KeysOwned(d)'
  <2>1. UNCHANGED <<connected[d], sess_key[d], box[d], pc[d], chan[d]>>
    BY <1>1, ServeEffect DEF SysSound, SysTypeOK
  <2> QED BY <1>2, <2>1, OwnedIfUntouched DEF KeysAreOwned
<1>4. KeysOwned(c)'
  <2>1. Who(c)' = Who(c)
    BY <1>1 DEF Who, Gone
  <2>2. ASSUME NEW i \in DOMAIN chan'[c]
        PROVE  Mine(chan[c][i].key, Who(c))'
    <3>1. PICK k : k = chan'[c][i].key
      OBVIOUS
    <3>2. chan'[c] = Tail(chan[c])
      BY <1>1 DEF SysSound, SysTypeOK
    <3>3. i + 1 \in DOMAIN chan[c] /\ chan'[c][i] = chan[c][i + 1]
      BY <1>1, <3>2, TailOfCalls DEF SysSound
    <3>4. Mine(k, Who(c))
      BY <3>1, <3>3 DEF KeysAreOwned, KeysOwned
    <3> QED BY <1>2, <2>1, <3>1, <3>4
  <2>3. box'[c] # NONE /\ pc'[c] = "login" /\ box'[c].ok => Mine(box[c].val, c)'
    <3> SUFFICES ASSUME box'[c] # NONE, pc'[c] = "login", box'[c].ok
                 PROVE  Mine(box[c].val, c)'
      OBVIOUS
    <3>1. key' \in Key /\ box'[c].val = key' /\ owner'[key'] = c
      BY ServedLogin
    <3> QED BY <3>1 DEF Mine, Key
  <2>4. connected'[c] => Mine(sess_key[c], c)'
    BY <1>1, <1>2 DEF KeysAreOwned, KeysOwned
  <2> QED BY <2>2, <2>3, <2>4 DEF KeysOwned
<1> QED BY <1>3, <1>4 DEF KeysAreOwned

LEMMA SysNextKeepsOwned ==
  ASSUME SysSound, KeysAreOwned, UninitKeys \cap Key = {}, [SysNext]_sysVars
  PROVE  KeysAreOwned'
<1>1. CASE UNCHANGED sysVars
  <2>1. UNCHANGED <<key, db, pc, sess_key, connected, chan, box, owner>>
    BY <1>1 DEF sysVars, vars, clientVars, netVars
  <2> QED BY <2>1 DEF KeysAreOwned, KeysOwned, Mine, Who, Gone, Live
<1>2. ASSUME NEW c \in Client, NEW cmd \in Command, Send(c, cmd)
      PROVE  KeysAreOwned'
  BY <1>2, SendKeepsOwned
<1>3. ASSUME NEW c \in Client,
             Start(c) \/ Exit(c) \/ Receive(c) \/ ReceiveNull(c) \/ Serve(c)
      PROVE  KeysAreOwned'
  BY <1>3, StartKeepsOwned, ExitKeepsOwned, ReceiveKeepsOwned,
     ReceiveNullKeepsOwned, ServeKeepsOwned
<1> QED BY <1>1, <1>2, <1>3, KillServerKeepsSound DEF SysNext

\* A request that finds a session finds its sender's: a key that timed out, was
\* executed late or survived a restart is never another client's, as long as
\* what a client has before its first login names no session.
THEOREM OwnSessionOnly ==
  ASSUME UninitKeys \cap Key = {}
  PROVE  SysSpec => []RequestsReachOwnSession
<1>1. SysInit => SysSound /\ KeysAreOwned
  BY InitSysSound
<1>2. SysSound /\ KeysAreOwned /\ [SysNext]_sysVars => (SysSound /\ KeysAreOwned)'
  BY SysNextKeepsSound, SysNextKeepsOwned
<1>3. SysSound /\ KeysAreOwned => RequestsReachOwnSession
  BY DEF RequestsReachOwnSession, KeysAreOwned, KeysOwned, Mine, Who, Gone, Live
<1> QED BY <1>1, <1>2, <1>3, PTL DEF SysSpec

-----------------------------------------------------------------------------
\* When no call times out, a client's connection has one request at most, and
\* only that request changes which sessions are the client's.

\* A session ends by a logout with its key, and a login that fails opens none.
LEMMA HandleEnds ==
  ASSUME Sound, NEW cmd \in Command, NEW k \in AnyKey, Handle(cmd, k)
  PROVE  /\ \A j \in Key : Live(j) => Live(j)' \/ (cmd.op = "logout" /\ j = k)
         /\ cmd.op = "logout" => ~Live(k)'
         /\ cmd.op = "login" /\ ~resp'.ok => key' = key
<1>1. db \in [Key -> ClientData \cup {NONE}] /\ db' \in [Key -> ClientData \cup {NONE}]
  BY HandleEffect DEF Sound, TypeOK
<1>2. CASE cmd.op = "login"
  <2>1. login(cmd.user) /\ cmd.user \in User
    BY <1>2, SystemAssumption DEF Handle
  <2>2. CASE cmd.user \in active_users
    BY <1>2, <2>1, <2>2 DEF login, Refuse, memory, Live
  <2>3. CASE cmd.user \notin active_users
    <3>1. NewClientData(cmd.user) # NONE
      <4>1. NewClientData(cmd.user) \in ClientData
        BY <2>1 DEF NewClientData, ClientData, Data, NoData
      <4> QED BY <4>1, ServerAssumption
    <3>2. db' = [db EXCEPT ![key + 1] = NewClientData(cmd.user)] /\ resp'.ok
      BY <2>1, <2>3 DEF login, Reply
    <3> QED BY <1>1, <1>2, <3>1, <3>2 DEF Live
  <2> QED BY <2>1, <2>2, <2>3
<1>3. CASE cmd.op = "logout"
  <2>1. logout(k)
    BY <1>3 DEF Handle
  <2>2. \/ ~Live(k) /\ db' = db
        \/ Live(k) /\ db' = [db EXCEPT ![k] = NONE]
    BY <2>1 DEF logout, RefuseUnknown, Refuse, memory
  <2> QED BY <1>1, <1>3, <2>2 DEF Live
<1>4. CASE cmd.op \notin {"login", "logout"}
  <2>1. active_users' = active_users
    BY <1>4 DEF Handle, add_update, read_entry, del, load, store, get_stats,
                get_stats_all, RefuseUnknown, Refuse, memory
  <2>2. db' = db \/ (Live(k) /\ \E s : db' = [db EXCEPT ![k] = s])
    BY <1>4 DEF Handle, add_update, read_entry, del, load, store, get_stats,
                get_stats_all, RefuseUnknown, Refuse, memory
  <2>3. \A j \in Key \ {k} : db'[j] = db[j]
    BY <1>1, <2>2 DEF Live
  \* k's user is still marked as logged in, so some session is theirs.
  <2>4. Live(k) => Live(k)'
    <3> SUFFICES ASSUME Live(k)
                 PROVE  Live(k)'
      OBVIOUS
    <3>1. k \in Key /\ db[k].user \in active_users
      BY LiveSession DEF Sound, SessionsMatchUsers
    <3>2. PICK j \in Key : Live(j)' /\ db'[j].user = db[k].user
      BY <2>1, <3>1, HandleEffect DEF Sound, SessionsMatchUsers
    <3>3. j # k => Live(j) /\ db[j].user = db[k].user
      BY <2>3, <3>2 DEF Live
    <3> QED BY <3>1, <3>2, <3>3 DEF Sound, SessionsMatchUsers
  <2> QED BY <1>4, <2>3, <2>4 DEF Live
<1> QED BY <1>2, <1>3, <1>4

LEMMA KnownIfUntouched ==
  ASSUME NEW d \in Client, SessionKnown(d),
         UNCHANGED <<connected[d], sess_key[d], logged_in[d], box[d], pc[d], chan[d]>>,
         Owned(d)' = Owned(d), \A k \in Key : owner'[k] = d => owner[k] = d
  PROVE  SessionKnown(d)'
BY DEF SessionKnown, Announced, Believed, Gone

\* What a client has does not change with the server and the owners as they are.
LEMMA OwnedStays ==
  ASSUME NEW d, owner' = owner, \A k : Live(k)' <=> Live(k)
  PROVE  Owned(d)' = Owned(d)
BY DEF Owned

LEMMA InitSessionsAreKnown ==
  ASSUME SysInit
  PROVE  SessionsAreKnown
BY SystemAssumption DEF SysInit, SessionsAreKnown, SessionKnown, Gone

LEMMA StartKeepsKnown ==
  ASSUME SysSound, SessionsAreKnown, NEW c \in Client, Start(c)
  PROVE  SessionsAreKnown'
<1>1. (\A k : Live(k)' <=> Live(k)) /\ UNCHANGED <<chan, box, owner>>
  BY ServerStands DEF Start, SysSound, netVars
<1>2. \A d \in Client : Owned(d)' = Owned(d)
  BY <1>1, OwnedStays
<1>3. ASSUME NEW d \in Client \ {c}
      PROVE  SessionKnown(d)'
  <2>1. UNCHANGED <<connected[d], sess_key[d], logged_in[d], box[d], pc[d], chan[d]>>
    BY <1>1 DEF Start, SysSound, SysTypeOK
  <2> QED BY <1>1, <1>2, <2>1, KnownIfUntouched DEF SessionsAreKnown
<1>4. SessionKnown(c)'
  <2>1. Gone(c) /\ box[c] = NONE
    BY DEF Start, SysSound, CallsMatch, Gone, Waiting, Operation
  <2>2. Owned(c) = {}
    BY <2>1 DEF SessionsAreKnown, SessionKnown, Owned
  <2>3. pc'[c] = "idle" /\ ~logged_in'[c] /\ chan'[c] = <<>> /\ box'[c] = NONE
    BY <1>1, <2>1 DEF Start, SysSound, SysTypeOK
  <2> QED BY <1>2, <2>2, <2>3 DEF SessionKnown, Believed, Gone
<1> QED BY <1>3, <1>4 DEF SessionsAreKnown

LEMMA LeavingKeepsKnown ==
  ASSUME SysSound, SessionsAreKnown, NEW c \in Client,
         ~connected'[c], chan' = chan, \A k : Live(k)' <=> Live(k),
         owner' = [k \in Key |-> IF owner[k] = c THEN NONE ELSE owner[k]],
         \A d \in Client \ {c} :
            UNCHANGED <<connected[d], sess_key[d], logged_in[d], box[d], pc[d]>>
  PROVE  SessionsAreKnown'
<1>1. ASSUME NEW d \in Client \ {c}
      PROVE  SessionKnown(d)'
  <2>1. \A k \in Key : (owner'[k] = d) <=> (owner[k] = d)
    BY SystemAssumption DEF SysSound, SysTypeOK
  <2>2. Owned(d)' = Owned(d)
    BY <2>1 DEF Owned
  <2> QED BY <2>1, <2>2, KnownIfUntouched DEF SessionsAreKnown
<1>2. SessionKnown(c)'
  BY SystemAssumption DEF SessionKnown
<1> QED BY <1>1, <1>2 DEF SessionsAreKnown

LEMMA ExitKeepsKnown ==
  ASSUME SysSound, SessionsAreKnown, NEW c \in Client, Exit(c)
  PROVE  SessionsAreKnown'
<1>1. \A k : Live(k)' <=> Live(k)
  BY ServerStands DEF Exit, SysSound
<1>2. /\ ~connected'[c] /\ chan' = chan
      /\ owner' = [k \in Key |-> IF owner[k] = c THEN NONE ELSE owner[k]]
      /\ \A d \in Client \ {c} :
            UNCHANGED <<connected[d], sess_key[d], logged_in[d], box[d], pc[d]>>
  BY DEF Exit, Disown, SysSound, SysTypeOK
<1> QED BY <1>1, <1>2, LeavingKeepsKnown

LEMMA SendKeepsKnown ==
  ASSUME SysSound, SessionsAreKnown, NEW c \in Client, NEW cmd \in Command, Send(c, cmd)
  PROVE  SessionsAreKnown'
<1>1. /\ (\A k : Live(k)' <=> Live(k))
      /\ UNCHANGED <<sess_key, logged_in, connected, box, owner>>
      /\ pc[c] = "idle" /\ pc'[c] = cmd.op /\ cmd.op \in Operation /\ box[c] = NONE
      /\ \A d \in Client \ {c} : chan'[d] = chan[d] /\ pc'[d] = pc[d]
  BY SendEffect
<1>2. \A d \in Client : Owned(d)' = Owned(d)
  BY <1>1, OwnedStays
<1>3. ASSUME NEW d \in Client \ {c}
      PROVE  SessionKnown(d)'
  BY <1>1, <1>2, KnownIfUntouched DEF SessionsAreKnown
<1>4. SessionKnown(c)'
  <2>1. ~Gone(c)' /\ pc'[c] # "idle" /\ box'[c] = NONE
    BY <1>1 DEF Gone, Operation
  <2>2. connected[c] => Owned(c)' = Believed(c)'
    BY <1>1, <1>2 DEF SessionsAreKnown, SessionKnown, Believed
  <2>3. connected[c] =>
          /\ Len(chan'[c]) = 1 /\ chan'[c][1].key = sess_key[c]
          /\ cmd.op = "login" => ~logged_in[c]
    <3> SUFFICES ASSUME connected[c]
                 PROVE  /\ Len(chan'[c]) = 1 /\ chan'[c][1].key = sess_key[c]
                        /\ cmd.op = "login" => ~logged_in[c]
      OBVIOUS
    <3>1. chan[c] = <<>> /\ Len(chan[c]) = 0
      BY <1>1, SystemTypes DEF SessionsAreKnown, SessionKnown, SysSound
    <3>2. /\ Len(chan'[c]) = Len(chan[c]) + 1
          /\ chan'[c][Len(chan[c]) + 1].key = sess_key[c]
      BY SendEffect
    <3> QED BY <3>1, <3>2 DEF Send, RefusedLocally
  <2> QED BY <1>1, <2>1, <2>2, <2>3 DEF SessionKnown
<1> QED BY <1>3, <1>4 DEF SessionsAreKnown

LEMMA ReceiveKeepsKnown ==
  ASSUME SysSound, SessionsAreKnown, NEW c \in Client, Receive(c)
  PROVE  SessionsAreKnown'
<1>1. /\ (\A k : Live(k)' <=> Live(k))
      /\ UNCHANGED <<connected, chan, owner>> /\ Waiting(c) /\ box[c] # NONE
      /\ pc' = [pc EXCEPT ![c] = "idle"] /\ box' = [box EXCEPT ![c] = NONE]
  BY ReceiveEffect
<1>2. \A d \in Client : Owned(d)' = Owned(d)
  BY <1>1, OwnedStays
<1>3. /\ sess_key' = IF pc[c] = "login"
                       THEN [sess_key EXCEPT ![c] = IF box[c].ok THEN box[c].val
                                                    ELSE INVALID_KEY]
                       ELSE sess_key
      /\ pc[c] = "login" => logged_in' = [logged_in EXCEPT ![c] = box[c].ok]
      /\ pc[c] = "logout" => logged_in' = [logged_in EXCEPT ![c] = FALSE]
      /\ pc[c] \notin {"login", "logout"} => logged_in' = logged_in
  BY DEF Receive
<1>4. ASSUME NEW d \in Client \ {c}
      PROVE  SessionKnown(d)'
  <2>1. UNCHANGED <<connected[d], sess_key[d], logged_in[d], box[d], pc[d], chan[d]>>
    BY <1>1, <1>3 DEF SysSound, SysTypeOK
  <2> QED BY <1>1, <1>2, <2>1, KnownIfUntouched DEF SessionsAreKnown
<1>5. SessionKnown(c)'
  <2>1. pc'[c] = "idle" /\ box'[c] = NONE /\ chan'[c] = <<>>
    BY <1>1 DEF SysSound, SysTypeOK, CallsMatch
  <2>2. Believed(c)' = Announced(c)
    <3>1. CASE pc[c] = "login"
      <4>1. /\ logged_in'[c] <=> box[c].ok
            /\ box[c].ok => sess_key'[c] = box[c].val
        BY <1>3, <3>1 DEF SysSound, SysTypeOK
      <4> QED BY <3>1, <4>1 DEF Believed, Announced
    <3>2. CASE pc[c] = "logout"
      BY <1>3, <3>2 DEF SysSound, SysTypeOK, Believed, Announced
    <3>3. CASE pc[c] \notin {"login", "logout"}
      BY <1>3, <3>3 DEF Believed, Announced
    <3> QED BY <3>1, <3>2, <3>3
  <2> QED BY <1>1, <1>2, <2>1, <2>2 DEF SessionsAreKnown, SessionKnown, Gone
<1> QED BY <1>4, <1>5 DEF SessionsAreKnown

\* Without timeouts a call returns NULL only on a broken connection.
LEMMA ReceiveNullKeepsKnown ==
  ASSUME SysSound, SessionsAreKnown, ~Timeouts, NEW c \in Client, ReceiveNull(c)
  PROVE  SessionsAreKnown'
<1>1. (\A k : Live(k)' <=> Live(k)) /\ ~connected[c] /\ chan' = chan
  BY ServerStands DEF ReceiveNull, SysSound
<1>2. \A d \in Client \ {c} :
         UNCHANGED <<connected[d], sess_key[d], logged_in[d], box[d], pc[d]>>
  <2>1. /\ \E b \in BOOLEAN : logged_in' \in {logged_in, [logged_in EXCEPT ![c] = b]}
        /\ sess_key' \in {sess_key, [sess_key EXCEPT ![c] = UINT_MAX]}
        /\ box' = [box EXCEPT ![c] = NONE]
    BY ReceiveNullEffect
  <2>2. /\ \E p : pc' = [pc EXCEPT ![c] = p]
        /\ connected' \in {connected, [connected EXCEPT ![c] = FALSE]}
    BY DEF ReceiveNull
  <2> QED BY <2>1, <2>2 DEF SysSound, SysTypeOK
<1>3. CASE pc'[c] = "segv"
  <2>1. /\ ~connected'[c]
        /\ owner' = [k \in Key |-> IF owner[k] = c THEN NONE ELSE owner[k]]
    BY <1>3 DEF ReceiveNull, Disown, SysSound, SysTypeOK
  <2> QED BY <1>1, <1>2, <2>1, LeavingKeepsKnown
<1>4. CASE pc'[c] # "segv"
  <2>1. pc'[c] = "idle" /\ UNCHANGED <<connected, owner>>
    BY <1>4 DEF ReceiveNull, SysSound, SysTypeOK
  <2>2. \A d \in Client : Owned(d)' = Owned(d)
    BY <1>1, <2>1, OwnedStays
  <2>3. ASSUME NEW d \in Client \ {c}
        PROVE  SessionKnown(d)'
    BY <1>1, <1>2, <2>1, <2>2, KnownIfUntouched DEF SessionsAreKnown
  <2>4. SessionKnown(c)'
    BY <1>1, <2>1 DEF SessionKnown, Gone
  <2> QED BY <2>3, <2>4 DEF SessionsAreKnown
<1> QED BY <1>3, <1>4

\* A request ends or opens no session but its sender's.
LEMMA OthersKeepTheirs ==
  ASSUME SysSound, KeysAreOwned, NEW c \in Client, Serve(c), NEW d \in Client \ {c}
  PROVE  Owned(d)' = Owned(d) /\ \A k \in Key : owner'[k] = d => owner[k] = d
<1> DEFINE r == chan[c][1]
<1>1. Who(c) # d /\ owner \in [Key -> Client \cup {NONE}]
  BY SystemAssumption DEF Who, SysSound, SysTypeOK
<1>2. /\ Handle(r.cmd, r.key) /\ r.cmd \in Command /\ r.key \in AnyKey
      /\ Live(r.key) => owner[r.key] = Who(c)
  <2>1. Handle(r.cmd, r.key) /\ 1 \in DOMAIN chan[c]
    BY TailOfCalls DEF Serve, SysSound
  <2> QED BY <2>1, SystemTypes DEF SysSound, KeysAreOwned, KeysOwned, Mine, Live
<1>3. \/ owner' = owner
      \/ key' \in Key /\ key' # key /\ owner' = [owner EXCEPT ![key'] = Who(c)]
  BY ServeEffect DEF SysSound, Sound, TypeOK
<1>4. ASSUME NEW k \in Key
      PROVE  (owner'[k] = d => owner[k] = d) /\ (owner'[k] = owner[k] \/ k = key')
  BY <1>1, <1>3
<1>5. ASSUME NEW k \in Key, Live(k), owner[k] = d
      PROVE  Live(k)' /\ owner'[k] = d
  <2>1. Live(k)'
    BY <1>1, <1>2, <1>5, HandleEnds DEF SysSound
  <2>2. k <= key
    BY <1>5 DEF SysSound, Sound, NextKeyIsFree
  <2>3. key' # key => key' = key + 1
    BY ServeEffect
  <2>4. key' # key => k # key'
    BY <2>2, <2>3 DEF SysSound, Sound, TypeOK, Key
  <2> QED BY <1>3, <1>4, <1>5, <2>1, <2>4
<1>6. ASSUME NEW k \in Key, Live(k)', owner'[k] = d
      PROVE  Live(k) /\ owner[k] = d
  <2>1. Live(k) \/ (k = key' /\ key' # key)
    BY <1>6, ServeEffect
  <2>2. k = key' /\ key' # key => owner'[k] = Who(c)
    BY <1>1, <1>3, ServeEffect
  <2> QED BY <1>1, <1>4, <1>6, <2>1, <2>2
<1> QED BY <1>4, <1>5, <1>6 DEF Owned

\* The one request of a connected client is the call it waits for; what it then
\* has is what the answer will make it believe.
LEMMA AnswerTellsTheTruth ==
  ASSUME SysSound, KeysAreOwned, NEW c \in Client, SessionKnown(c), Serve(c), connected[c]
  PROVE  Owned(c)' = Announced(c)' /\ chan'[c] = <<>> /\ box'[c] # NONE
<1> DEFINE r == chan[c][1]
<1>1. chan[c] # <<>> /\ UNCHANGED <<pc, sess_key, logged_in, connected>>
  BY ServeEffect DEF clientVars
<1>2. /\ Len(chan[c]) = 1 /\ r.key = sess_key[c] /\ (pc[c] = "login" => ~logged_in[c])
      /\ Waiting(c) /\ r.cmd.op = pc[c] /\ Who(c) = c
      /\ Owned(c) = Believed(c)
  BY <1>1 DEF SysSound, SysTypeOK, CallsMatch, SessionKnown, Waiting, Gone, Who
<1>3. /\ Handle(r.cmd, r.key) /\ r.cmd \in Command /\ r.key \in AnyKey
      /\ Live(r.key) => owner[r.key] = c
  <2>1. Handle(r.cmd, r.key) /\ 1 \in DOMAIN chan[c]
    BY TailOfCalls DEF Serve, SysSound
  <2> QED BY <1>2, <2>1, SystemTypes DEF SysSound, KeysAreOwned, KeysOwned, Mine, Live
<1>4. chan'[c] = <<>>
  <2>1. chan'[c] = Tail(chan[c])
    BY ServeEffect DEF SysSound, SysTypeOK
  <2> QED BY <1>1, <1>2, <2>1, TailOfCalls DEF SysSound
<1>5. (box'[c].ok <=> resp'.ok) /\ box'[c].val = resp'.val
  BY <1>2, ServedAnswer
<1>6. box'[c] # NONE
  <2>1. box' = [box EXCEPT ![c] = [ok |-> resp'.ok, val |-> resp'.val]]
    BY <1>2, ServeEffect
  <2>2. Sound' /\ box'[c] = [ok |-> resp'.ok, val |-> resp'.val]
    BY <2>1, ServeEffect DEF SysSound, SysTypeOK
  <2>3. [ok |-> resp'.ok, val |-> resp'.val] \in Answer
    BY <2>2 DEF Sound, TypeOK, Response, Answer
  <2> QED BY <2>2, <2>3, SystemAssumption
<1>7. Owned(c)' = Announced(c)'
  <2>1. CASE pc[c] = "login"
    <3>1. Owned(c) = {}
      BY <1>2, <2>1 DEF Believed
    <3>2. CASE resp'.ok
      <4>1. key' = key + 1 /\ resp'.val = key' /\ key' \in Key /\ db'[key'] # NONE
            /\ owner'[key'] = c
        BY <1>2, <2>1, <3>2, ServeEffect
      <4>2. \A k \in Key : Live(k)' /\ k # key' => Live(k) /\ owner'[k] = owner[k]
        BY ServeEffect DEF SysSound, SysTypeOK
      <4>3. Owned(c)' = {key'}
        BY <3>1, <4>1, <4>2 DEF Owned, Live
      <4> QED BY <1>1, <1>5, <2>1, <3>2, <4>1, <4>3 DEF Announced
    <3>3. CASE ~resp'.ok
      <4>1. key' = key
        BY <1>2, <1>3, <2>1, <3>3, HandleEnds DEF SysSound
      <4>2. owner' = owner /\ \A k \in Key : Live(k)' => Live(k)
        BY <4>1, ServeEffect DEF SysSound, Sound, TypeOK
      <4>3. Owned(c)' = {}
        BY <3>1, <4>2 DEF Owned
      <4> QED BY <1>1, <1>5, <2>1, <3>3, <4>3 DEF Announced
    <3> QED BY <3>2, <3>3
  <2>2. CASE pc[c] # "login"
    <3>1. key' = key /\ owner' = owner /\ \A k \in Key : Live(k)' => Live(k)
      BY <1>2, <2>2, ServeEffect DEF SysSound, Sound, TypeOK
    <3>2. CASE pc[c] = "logout"
      <4>1. PICK k : k = sess_key[c]
        OBVIOUS
      <4>2. ~Live(k)'
        BY <1>2, <1>3, <3>2, <4>1, HandleEnds DEF SysSound
      <4>3. Owned(c)' = {}
        BY <1>2, <3>1, <4>1, <4>2 DEF Owned, Believed
      <4> QED BY <1>1, <3>2, <4>3 DEF Announced
    <3>3. CASE pc[c] # "logout"
      <4>1. \A k \in Key : Live(k)' <=> Live(k)
        BY <1>2, <1>3, <3>1, <3>3, HandleEnds DEF SysSound
      <4>2. Owned(c)' = Owned(c)
        BY <3>1, <4>1 DEF Owned
      <4> QED BY <1>1, <1>2, <2>2, <3>3, <4>2 DEF Announced, Believed
    <3> QED BY <3>2, <3>3
  <2> QED BY <2>1, <2>2
<1> QED BY <1>4, <1>6, <1>7

LEMMA ServeKeepsKnown ==
  ASSUME SysSound, KeysAreOwned, SessionsAreKnown, NEW c \in Client, Serve(c)
  PROVE  SessionsAreKnown'
<1>1. UNCHANGED <<pc, sess_key, logged_in, connected>> /\ chan[c] # <<>>
  BY ServeEffect DEF clientVars
<1>2. ASSUME NEW d \in Client \ {c}
      PROVE  SessionKnown(d)'
  <2>1. UNCHANGED <<connected[d], sess_key[d], logged_in[d], box[d], pc[d], chan[d]>>
    BY <1>1, ServeEffect DEF SysSound, SysTypeOK
  <2> QED BY <2>1, OthersKeepTheirs, KnownIfUntouched DEF SessionsAreKnown
<1>3. SessionKnown(c)'
  <2>1. Gone(c)' => \A k \in Key : owner'[k] # c
    <3> SUFFICES ASSUME Gone(c)
                 PROVE  \A k \in Key : owner'[k] # c
      BY <1>1 DEF Gone
    <3>1. Who(c) = NONE /\ NONE # c
      BY SystemAssumption DEF Who
    <3> QED BY <3>1, ServeEffect DEF SessionsAreKnown, SessionKnown, SysSound, SysTypeOK
  <2>2. connected[c] => Owned(c)' = Announced(c)' /\ chan'[c] = <<>> /\ box'[c] # NONE
    BY AnswerTellsTheTruth DEF SessionsAreKnown
  <2> QED BY <1>1, <2>1, <2>2 DEF SessionKnown
<1> QED BY <1>2, <1>3 DEF SessionsAreKnown

LEMMA SysNextKeepsKnown ==
  ASSUME SysSound, KeysAreOwned, SessionsAreKnown, ~Timeouts, [SysNext]_sysVars
  PROVE  SessionsAreKnown'
<1>1. CASE UNCHANGED sysVars
  <2>1. UNCHANGED <<db, pc, sess_key, logged_in, connected, chan, box, owner>>
    BY <1>1 DEF sysVars, vars, clientVars, netVars
  <2> QED BY <2>1 DEF SessionsAreKnown, SessionKnown, Announced, Believed, Owned,
                      Gone, Live
<1>2. ASSUME NEW c \in Client, NEW cmd \in Command, Send(c, cmd)
      PROVE  SessionsAreKnown'
  BY <1>2, SendKeepsKnown
<1>3. ASSUME NEW c \in Client,
             Start(c) \/ Exit(c) \/ Receive(c) \/ ReceiveNull(c) \/ Serve(c)
      PROVE  SessionsAreKnown'
  BY <1>3, StartKeepsKnown, ExitKeepsKnown, ReceiveKeepsKnown,
     ReceiveNullKeepsKnown, ServeKeepsKnown
<1>4. CASE KillServer
  <2>1. connected' = [c \in Client |-> FALSE] /\ owner' = [k \in Key |-> NONE]
    BY <1>4 DEF KillServer
  <2> QED BY <2>1, SystemAssumption DEF SessionsAreKnown, SessionKnown
<1> QED BY <1>1, <1>2, <1>3, <1>4 DEF SysNext

\* As long as no call times out, a client takes itself to be logged in exactly
\* when it has a session, and its key names it: no crash, restart or command of
\* another client makes the two disagree while the connection lives.
THEOREM ClientsKnowTheirSessions ==
  ASSUME UninitKeys \cap Key = {}, ~Timeouts
  PROVE  SysSpec => []ClientKnowsItsSession
<1> DEFINE Known == SysSound /\ KeysAreOwned /\ SessionsAreKnown
<1>1. SysInit => Known
  BY InitSysSound, InitSessionsAreKnown
<1>2. Known /\ [SysNext]_sysVars => Known'
  BY SysNextKeepsSound, SysNextKeepsOwned, SysNextKeepsKnown
<1>3. Known => ClientKnowsItsSession
  BY DEF SysSound, CallsMatch, SessionsAreKnown, SessionKnown, Owned, Believed,
         Waiting, Operation, ClientKnowsItsSession
<1> QED BY <1>1, <1>2, <1>3, PTL DEF SysSpec
=============================================================================
