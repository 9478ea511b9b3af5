--------------------------- MODULE MeteoApiProofs ---------------------------
(***************************************************************************)
(* What holds of the API for any tables, requests and number of threads:   *)
(* what is answered with success is saved and stays, and a request that is *)
(* alone is atomic.                                                        *)
(***************************************************************************)
EXTENDS MeteoApi, FiniteSetTheorems, TLAPS

Labels == {"idle", "execute", "fetchall", "rowcount", "commit", "last id", "fetchone"}

Typed ==
  /\ now \in Tables /\ committed \in Tables
  /\ nextId \in [Table -> Nat \ {0}]
  /\ pc \in [Thread -> Labels]
  /\ req \in [Thread -> Request \cup {NONE}]
  /\ before \in [Thread -> Tables \cup {NONE}]
  /\ DOMAIN wrote = Thread

\* Where a handler is tells its request; a request is alone while no other began.
Handles(t) ==
  /\ pc[t] # "idle" => req[t] \in Request /\ ~Refused(req[t])
  /\ pc[t] = "fetchall" => req[t].method = "GET"
  /\ pc[t] = "rowcount" => req[t].method \in {"PUT", "DELETE"}
  /\ pc[t] = "commit" => req[t].method \in {"PUT", "DELETE", "POST"}
  /\ pc[t] \in {"last id", "fetchone"} => req[t].method = "POST"
  /\ before[t] # NONE => pc[t] # "idle" /\ Others(t) = {} /\ before[t] \in Tables
Handling == \A t \in Thread : Handles(t)

Sound == Typed /\ Handling

\* The ids are below the next one, and no constraint is broken, in the tables
\* that the connection sees too: those are what a commit makes of the others.
WholeTables(ts) ==
  \A t \in Table, i \in Id :
    ts[t][i] # NONE => i < nextId[t] /\ ~Conflicts(ts, t, i, ts[t][i])
BothWhole == WholeTables(now) /\ WholeTables(committed)

\* What a request wrote is as it left it in the tables that the connection sees,
\* while it lives, and in the committed ones once the request has committed; a
\* request that has executed nothing wrote nothing.
\* With Sound, the inductive invariant for SuccessIsKept.
HasWritten(ts, w) == ts[w.place[1]][w.place[2]] = w.row
KeptOf(t) ==
  /\ pc[t] \in {"idle", "execute", "fetchall"} => wrote[t] = {}
  /\ \A w \in wrote[t] :
       /\ w.place \in Table \X Id
       /\ connected /\ pc[t] \in {"rowcount", "commit"} => HasWritten(now, w)
       /\ pc[t] \in {"last id", "fetchone"} => HasWritten(now, w) /\ HasWritten(committed, w)
EachKept == \A t \in Thread : KeptOf(t)

\* What a request that is alone has done so far is what will be answered.
\* With Sound and BothWhole, the inductive invariant for AloneIsAtomic.
Done(t, status, content) == Outcome(status, content, now) \in Outcomes(before[t], req[t])
Alone(t) ==
  connected /\ before[t] # NONE =>
    /\ pc[t] \in {"execute", "fetchall"} => now = before[t]
    /\ pc[t] = "fetchall" => cr.result /\ cr.rows = Selected(now, req[t])
    /\ pc[t] = "rowcount" => Done(t, IF cr.rowcount = 0 THEN 404 ELSE 200, {})
    /\ pc[t] = "commit" =>
         IF req[t].method = "POST" THEN Done(t, 201, {lastId}) ELSE Done(t, 200, {})
    /\ pc[t] \in {"last id", "fetchone"} => committed = now /\ Done(t, 201, {lastId})
    /\ pc[t] = "fetchone" => cr.rows = {[table |-> NONE, id |-> lastId, row |-> NONE]}
EachAlone == \A t \in Thread : Alone(t)

-----------------------------------------------------------------------------
\* The tables, and what a statement does to them.

\* The ids are numbers.
LEMMA IdFacts ==
  /\ \A i \in Id : i \in Nat \ {0} /\ \A n \in Nat \ {0} : n <= i => n \in Id
  /\ \A t \in Table : MaxId[t] \in Id
<1>1. Cardinality(Id) \in Nat /\ Id = 1 .. Cardinality(Id)
  BY TablesAssumption, FS_CardinalityType
<1>2. \A i \in Id : i \in Nat \ {0} /\ \A n \in Nat \ {0} : n <= i => n \in Id
  <2> DEFINE c == Cardinality(Id)
  <2>1. c \in Nat /\ Id = 1 .. c
    BY <1>1
  <2> HIDE DEF c
  <2> QED BY <2>1
<1> QED BY <1>2, TablesAssumption

\* The parents form a chain that ends.
LEMMA ParentFacts ==
  /\ Parent["Tari"] = NONE /\ Parent["Orase"] = "Tari" /\ Parent["Temperaturi"] = "Orase"
  /\ \A t \in Table : Parent[t] # NONE => Parent[t] \in Table /\ Parent[t] # t
  /\ NONE \notin {"Tari", "Orase", "Temperaturi"}
<1>1. /\ Parent["Tari"] = NONE /\ Parent["Orase"] = "Tari"
      /\ Parent["Temperaturi"] = "Orase"
  BY DEF Parent, Table
<1> QED BY <1>1, TablesAssumption DEF Table

\* The rows of a table whose parents are in S; Below satisfies its equation.
Hanging(ts, t, S) == {i \in Id : ts[t][i] # NONE /\ ts[t][i].up \in S}
IsBelow(B, ts, table, id) ==
  /\ B["Tari"] = IF table = "Tari" THEN {id} ELSE {}
  /\ B["Orase"] = IF table = "Orase" THEN {id} ELSE Hanging(ts, "Orase", B["Tari"])
  /\ B["Temperaturi"] = IF table = "Temperaturi" THEN {id}
                        ELSE Hanging(ts, "Temperaturi", B["Orase"])
LEMMA BelowFacts ==
  ASSUME NEW ts, NEW table \in Table, NEW id
  PROVE  IsBelow(Below(ts, table, id), ts, table, id)
<1> DEFINE B == Below(ts, table, id)
           Step(f, t) == IF t = table THEN {id}
                         ELSE IF Parent[t] = NONE THEN {} ELSE Hanging(ts, t, f[Parent[t]])
           Eq(f) == f = [t \in Table |-> Step(f, t)]
           tari == IF table = "Tari" THEN {id} ELSE {}
           orase == IF table = "Orase" THEN {id} ELSE Hanging(ts, "Orase", tari)
           temp == IF table = "Temperaturi" THEN {id} ELSE Hanging(ts, "Temperaturi", orase)
           h == [t \in Table |-> IF t = "Tari" THEN tari ELSE IF t = "Orase" THEN orase ELSE temp]
<1>1. h["Tari"] = tari /\ h["Orase"] = orase /\ h["Temperaturi"] = temp
  BY DEF Table
<1>2. h = [t \in Table |-> h[t]]
  OBVIOUS
<1> HIDE DEF h
<1>3. \A t \in Table : h[t] = Step(h, t)
  <2>1. h["Tari"] = Step(h, "Tari") /\ h["Orase"] = Step(h, "Orase")
    BY <1>1, ParentFacts
  <2>2. h["Temperaturi"] = Step(h, "Temperaturi")
    BY <1>1, ParentFacts
  <2> QED BY <2>1, <2>2 DEF Table
<1> HIDE DEF Step
<1>4. Eq(h)
  BY <1>2, <1>3
<1>5. Eq(CHOOSE f : Eq(f))
  BY <1>4
<1>6. B = CHOOSE f : Eq(f)
  BY DEF Below, Hanging, Step
<1>7. Eq(B)
  BY <1>5, <1>6
<1> HIDE DEF B
<1>8. \A t \in Table : B[t] = Step(B, t)
  BY <1>7
<1>9. "Tari" \in Table /\ "Orase" \in Table /\ "Temperaturi" \in Table
  BY DEF Table
<1>10. B["Tari"] = Step(B, "Tari") /\ B["Orase"] = Step(B, "Orase")
       /\ B["Temperaturi"] = Step(B, "Temperaturi")
  BY <1>8, <1>9
<1> QED BY <1>10, ParentFacts DEF B, Step, IsBelow

\* A DELETE that finds nothing changes nothing: the rows have their parents.
LEMMA NothingIsDeleted ==
  ASSUME NEW ts \in Tables, WholeTables(ts), NEW table \in Table, NEW id \in Id,
         ts[table][id] = NONE
  PROVE  Deleted(ts, table, id) = ts
<1> DEFINE B == Below(ts, table, id)
<1>1. IsBelow(B, ts, table, id)
  BY BelowFacts
<1> HIDE DEF B
<1>2. \A t \in Table, i \in Id : ts[t][i] # NONE /\ Parent[t] # NONE =>
        ts[t][i].up \in Id /\ ts[Parent[t]][ts[t][i].up] # NONE
  BY DEF WholeTables, Conflicts
<1>3. \A t \in Table : Parent[t] = table => Hanging(ts, t, {id}) = {}
  BY <1>2, TablesAssumption DEF Hanging
<1>4. Hanging(ts, "Orase", {}) = {} /\ Hanging(ts, "Temperaturi", {}) = {}
  BY DEF Hanging
<1>5. \A t \in Table : B[t] \subseteq IF t = table THEN {id} ELSE {}
  BY <1>1, <1>3, <1>4, ParentFacts DEF Table, IsBelow
<1>6. \A t \in Table, i \in Id : i \in B[t] => ts[t][i] = NONE
  BY <1>5
<1>7. ts = [t \in Table |-> [i \in Id |-> ts[t][i]]]
  BY DEF Tables
<1>8. Deleted(ts, table, id) =
        [t \in Table |-> [i \in Id |-> IF i \in B[t] THEN NONE ELSE ts[t][i]]]
  BY DEF Deleted, B
<1> QED BY <1>6, <1>7, <1>8

\* A DELETE leaves no row without its parent.
LEMMA DeletedIsWhole ==
  ASSUME NEW ts \in Tables, WholeTables(ts), NEW table \in Table, NEW id \in Id
  PROVE  Deleted(ts, table, id) \in Tables /\ WholeTables(Deleted(ts, table, id))
<1> DEFINE B == Below(ts, table, id)
           D == Deleted(ts, table, id)
<1>1. IsBelow(B, ts, table, id)
  BY BelowFacts
<1>2. D = [t \in Table |-> [i \in Id |-> IF i \in B[t] THEN NONE ELSE ts[t][i]]]
  BY DEF Deleted
<1> HIDE DEF B, D
<1>3. /\ B[table] = {id}
      /\ Parent[table] # NONE => B[Parent[table]] = {}
  BY <1>1, ParentFacts DEF Table, Hanging, IsBelow
<1>4. \A t \in Table \ {table} : Parent[t] # NONE => B[t] = Hanging(ts, t, B[Parent[t]])
  BY <1>1, ParentFacts DEF Table, IsBelow
<1>5. D \in Tables
  BY <1>2 DEF Tables
<1>6. \A t \in Table, i \in Id : D[t][i] = IF i \in B[t] THEN NONE ELSE ts[t][i]
  BY <1>2
<1>7. ASSUME NEW t \in Table, NEW i \in Id, D[t][i] # NONE
      PROVE  i < nextId[t] /\ ~Conflicts(D, t, i, D[t][i])
  <2>1. i \notin B[t] /\ D[t][i] = ts[t][i] /\ ts[t][i] # NONE
    BY <1>6, <1>7
  <2>2. i < nextId[t] /\ ~Conflicts(ts, t, i, ts[t][i])
    BY <2>1 DEF WholeTables
  <2>3. ASSUME Parent[t] # NONE
        PROVE  D[t][i].up \in {j \in Id : D[Parent[t]][j] # NONE}
    <3>1. Parent[t] \in Table
      BY <2>3, ParentFacts
    <3>2. ts[t][i].up \in Id /\ ts[Parent[t]][ts[t][i].up] # NONE
      BY <2>2, <2>3 DEF Conflicts
    <3>3. ts[t][i].up \notin B[Parent[t]]
      <4>1. CASE t = table
        BY <1>3, <2>3, <4>1
      <4>2. CASE t # table
        <5>1. B[t] = Hanging(ts, t, B[Parent[t]])
          BY <1>4, <2>3, <4>2
        <5> QED BY <2>1, <5>1 DEF Hanging
      <4> QED BY <4>1, <4>2
    <3> QED BY <1>6, <2>1, <3>1, <3>2, <3>3
  <2>4. \A j \in Id \ {i} : D[t][j] # NONE =>
          ~(D[t][j].up = D[t][i].up /\ D[t][j].key = D[t][i].key)
    BY <1>6, <2>1, <2>2 DEF Conflicts
  <2> QED BY <2>2, <2>3, <2>4 DEF Conflicts
<1> QED BY <1>5, <1>7 DEF WholeTables, D

LEMMA WrittenIsTables ==
  ASSUME NEW ts \in Tables, NEW table \in Table, NEW id \in Id, NEW row \in Row
  PROVE  Written(ts, table, id, row) \in Tables
BY DEF Written, Tables

\* A row that breaks no constraint leaves the tables whole.
LEMMA WrittenIsWhole ==
  ASSUME NEW ts \in Tables, WholeTables(ts), NEW table \in Table, NEW id \in Id,
         NEW row \in Row, ~Conflicts(ts, table, id, row),
         nextId' \in [Table -> Nat \ {0}],
         \A t \in Table : nextId[t] <= nextId'[t],
         nextId \in [Table -> Nat \ {0}], id < nextId'[table]
  PROVE  /\ Written(ts, table, id, row) \in Tables
         /\ \A t \in Table, i \in Id : Written(ts, table, id, row)[t][i] # NONE =>
              /\ i < nextId'[t]
              /\ ~Conflicts(Written(ts, table, id, row), t, i,
                            Written(ts, table, id, row)[t][i])
<1> DEFINE W == Written(ts, table, id, row)
<1>1. W = [ts EXCEPT ![table][id] = row]
  BY DEF Written
<1> HIDE DEF W
<1>2. W \in Tables /\ row # NONE
  BY <1>1, TablesAssumption DEF Tables
<1>3. W[table][id] = row /\ \A t \in Table, i \in Id : t # table \/ i # id => W[t][i] = ts[t][i]
  BY <1>1 DEF Tables
<1>4. ASSUME NEW t \in Table, NEW i \in Id, W[t][i] # NONE
      PROVE  i < nextId'[t] /\ ~Conflicts(W, t, i, W[t][i])
  <2>1. i < nextId'[t]
    <3>1. CASE t = table /\ i = id
      BY <3>1
    <3>2. CASE t # table \/ i # id
      <4>1. i < nextId[t]
        BY <1>3, <1>4, <3>2 DEF WholeTables
      <4>2. i \in Int /\ nextId[t] \in Int /\ nextId'[t] \in Int /\ nextId[t] <= nextId'[t]
        BY IdFacts
      <4> QED BY <4>1, <4>2
    <3> QED BY <3>1, <3>2
  <2>2. ~Conflicts(ts, t, i, W[t][i])
    BY <1>3, <1>4 DEF WholeTables
  <2>3. \A j \in Id \ {i} : W[t][j] # NONE =>
          ~(W[t][j].up = W[t][i].up /\ W[t][j].key = W[t][i].key)
    <3> SUFFICES ASSUME NEW j \in Id \ {i}, W[t][j] # NONE,
                        W[t][j].up = W[t][i].up, W[t][j].key = W[t][i].key
                 PROVE  FALSE
      OBVIOUS
    <3>1. CASE t # table \/ j # id
      BY <1>3, <2>2, <3>1 DEF Conflicts
    <3>2. CASE t = table /\ j = id
      BY <1>3, <1>4, <3>2 DEF Conflicts
    <3> QED BY <3>1, <3>2
  <2>4. ASSUME Parent[t] # NONE
        PROVE  W[t][i].up \in {j \in Id : W[Parent[t]][j] # NONE}
    <3>1. W[t][i].up \in Id /\ ts[Parent[t]][W[t][i].up] # NONE
      BY <2>2, <2>4 DEF Conflicts
    <3> QED BY <1>2, <1>3, <2>4, <3>1, ParentFacts
  <2> QED BY <2>1, <2>3, <2>4 DEF Conflicts
<1> QED BY <1>2, <1>4 DEF W

\* What a request that is not refused holds, and the rows that it writes.
LEMMA RequestFacts ==
  ASSUME NEW r \in Request, ~Refused(r)
  PROVE  /\ r.table \in Table /\ r.method \in {"GET", "POST", "PUT", "DELETE"}
         /\ r.method \in {"PUT", "DELETE"} => r.id \in Id
         /\ r.method \in {"POST", "PUT"} => r.body \in Row
BY RequestAssumption DEF Refused

LEMMA NewRowsAreRows ==
  ASSUME NEW r, r.body \in Row
  PROVE  NewRows(r) \subseteq Row /\ \A old \in Row : PutRow(r, old) \in Row
<1>1. \A k \in Column \cup Second : [r.body EXCEPT !.key = k] \in Row
  BY DEF Row
<1>2. \A old \in Row : old.key \in Column \cup Second
  BY DEF Row
<1> QED BY <1>1, <1>2 DEF NewRows, PutRow

-----------------------------------------------------------------------------
\* The types, and where the handlers are.

LEMMA ExecuteFacts ==
  ASSUME NEW t, NEW ts, Execute(t, ts)
  PROVE  now' = ts /\ DOMAIN wrote' = Thread
BY DEF Execute

LEMMA InitSound == Init => Sound
<1> SUFFICES ASSUME Init PROVE Sound
  OBVIOUS
<1>1. Empty \in Tables
  BY DEF Empty, Tables
<1>2. Typed
  BY <1>1 DEF Init, Typed, Labels
<1>3. Handling
  BY DEF Init, Handling, Handles
<1> QED BY <1>2, <1>3 DEF Sound

LEMMA NextTyped == Sound /\ [Next]_vars => Typed'
<1> SUFFICES ASSUME Sound, [Next]_vars PROVE Typed'
  OBVIOUS
<1> USE DEF Sound, Typed
<1>1. \A t \in Thread, label \in Labels : GoTo(t, label) =>
        /\ pc' \in [Thread -> Labels] /\ req' \in [Thread -> Request \cup {NONE}]
        /\ before' \in [Thread -> Tables \cup {NONE}]
  BY DEF GoTo
<1>2. \A t \in Thread : \A status, content : Answer(t, status, content) =>
        /\ pc' \in [Thread -> Labels] /\ req' \in [Thread -> Request \cup {NONE}]
        /\ before' \in [Thread -> Tables \cup {NONE}] /\ DOMAIN wrote' = Thread
  BY DEF Answer, Labels
<1>3. \A t \in Thread : pc[t] # "idle" => req[t] \in Request /\ ~Refused(req[t])
  BY DEF Handling, Handles
<1>4. ASSUME NEW t \in Thread, NEW r \in Request, Refuse(t, r) PROVE Typed'
  BY <1>4 DEF Refuse, database, threads
<1>5. ASSUME NEW t \in Thread, NEW r \in Request, Start(t, r) PROVE Typed'
  BY <1>5 DEF Start, database, Labels
<1>6. ASSUME NEW t \in Thread, Select(t) PROVE Typed'
  BY <1>1, <1>6 DEF Select, database, Labels
<1>7. ASSUME NEW t \in Thread, Insert(t) PROVE Typed'
  <2> DEFINE r == req[t]
             id == nextId[r.table]
  <2>1. r.table \in Table /\ r.body \in Row
    BY <1>3, <1>7, RequestFacts DEF Insert
  <2>2. nextId' \in [Table -> Nat \ {0}] /\ committed' \in Tables
    BY <1>7, <2>1 DEF Insert
  <2>3. id \in Id
    BY <1>7, <2>1, IdFacts DEF Insert
  <2>4. PICK row \in NewRows(r) :
          \/ Answer(t, 409, {}) /\ now' = now
          \/ /\ now' = Written(now, r.table, id, row) /\ GoTo(t, "commit")
             /\ DOMAIN wrote' = Thread
    BY <1>7, ExecuteFacts DEF Insert
  <2>5. row \in Row
    BY <2>1, NewRowsAreRows
  <2>6. now' \in Tables
    BY <2>1, <2>3, <2>4, <2>5, WrittenIsTables
  <2>7. /\ pc' \in [Thread -> Labels] /\ req' \in [Thread -> Request \cup {NONE}]
        /\ before' \in [Thread -> Tables \cup {NONE}] /\ DOMAIN wrote' = Thread
    BY <1>1, <1>2, <2>4 DEF Labels
  <2> QED BY <2>2, <2>6, <2>7
<1>8. ASSUME NEW t \in Thread, Update(t) PROVE Typed'
  <2> DEFINE r == req[t]
             old == now[r.table][r.id]
             row == PutRow(r, old)
  <2>1. r.table \in Table /\ r.body \in Row /\ r.id \in Id
    BY <1>3, <1>8, RequestFacts DEF Update
  <2>2. /\ \/ now' = now
           \/ old # NONE /\ now' = Written(now, r.table, r.id, row)
        /\ \/ Answer(t, 409, {})
           \/ GoTo(t, "rowcount") /\ (DOMAIN wrote' = Thread \/ wrote' = wrote)
        /\ UNCHANGED <<committed, nextId>>
    BY <1>8, ExecuteFacts DEF Update
  <2>3. old \in Row \cup {NONE}
    BY <2>1 DEF Tables
  <2>4. old # NONE => row \in Row
    BY <2>1, <2>3, NewRowsAreRows
  <2> HIDE DEF row, old, r
  <2>5. now' \in Tables
    BY <2>1, <2>2, <2>4, WrittenIsTables
  <2> QED BY <1>1, <1>2, <2>2, <2>5 DEF Labels
<1>9. ASSUME NEW t \in Thread, Delete(t) PROVE Typed'
  <2>1. now' \in Tables
    BY <1>9, ExecuteFacts DEF Delete, Deleted, Tables
  <2> QED BY <1>1, <1>9, <2>1, ExecuteFacts DEF Delete, Labels
<1>10. ASSUME NEW t \in Thread, CheckRowcount(t) PROVE Typed'
  BY <1>1, <1>2, <1>10 DEF CheckRowcount, database, Labels
<1>11. ASSUME NEW t \in Thread, Commit(t) PROVE Typed'
  BY <1>1, <1>2, <1>11 DEF Commit, Labels
<1>12. ASSUME NEW t \in Thread, SelectLastId(t) PROVE Typed'
  BY <1>1, <1>12 DEF SelectLastId, database, Labels
<1>13. ASSUME NEW t \in Thread, FetchOne(t) PROVE Typed'
  <2>1. \E content : Answer(t, 500, content) \/ Answer(t, 201, content)
    BY <1>13 DEF FetchOne
  <2> QED BY <1>2, <1>13, <2>1 DEF FetchOne, database
<1>14. ASSUME NEW t \in Thread, FetchAll(t) PROVE Typed'
  BY <1>2, <1>14 DEF FetchAll, database
<1>15. ASSUME NEW t \in Thread, Fail(t) PROVE Typed'
  <2>1. \E status : Answer(t, status, {})
    BY <1>15 DEF Fail, CommitFails
  <2> QED BY <1>2, <1>15, <2>1 DEF Fail, database
<1>16. ASSUME LoseConnection PROVE Typed'
  BY <1>16 DEF LoseConnection, threads
<1>17. ASSUME Kill PROVE Typed'
  BY <1>17 DEF Kill, Labels
<1>18. ASSUME UNCHANGED vars PROVE Typed'
  BY <1>18 DEF vars, database, threads
<1>19. ASSUME NEW t \in Thread, CommitUnheard(t) PROVE Typed'
  <2>1. /\ \E status : Answer(t, status, {})
        /\ committed' = now /\ UNCHANGED <<now, nextId>>
    BY <1>19 DEF CommitUnheard, CommitFails
  <2> QED BY <1>2, <2>1
<1> QED BY <1>4, <1>5, <1>6, <1>7, <1>8, <1>9, <1>10, <1>11, <1>12, <1>13, <1>14,
           <1>15, <1>16, <1>17, <1>18, <1>19 DEF Next

\* Nobody else is alone while a thread handles a request.
LEMMA OnlyOneAlone ==
  ASSUME Sound, NEW t \in Thread, pc[t] # "idle", NEW u \in Thread \ {t}
  PROVE  before[u] = NONE
BY DEF Sound, Handling, Handles, Others

\* A handler that goes on, and one that answers.
LEMMA GoToHandles ==
  ASSUME Sound, NEW t \in Thread, NEW label \in Labels \ {"idle", "execute"},
         pc[t] # "idle", GoTo(t, label),
         label = "fetchall" => req[t].method = "GET",
         label = "rowcount" => req[t].method \in {"PUT", "DELETE"},
         label = "commit" => req[t].method \in {"PUT", "DELETE", "POST"},
         label \in {"last id", "fetchone"} => req[t].method = "POST"
  PROVE  Handling'
<1>1. /\ pc' = [pc EXCEPT ![t] = label] /\ req' = req /\ before' = before
      /\ pc \in [Thread -> Labels]
  BY DEF GoTo, Sound, Typed
<1>2. \A u \in Thread \ {t} : before[u] = NONE
  BY OnlyOneAlone
<1>3. ASSUME NEW u \in Thread \ {t} PROVE Handles(u)'
  BY <1>1, <1>2 DEF Sound, Handling, Handles
<1>4. Others(t)' = Others(t)
  BY <1>1 DEF Others
<1>5. Handles(t)'
  <2>1. pc'[t] = label /\ Handles(t)
    BY <1>1 DEF Sound, Handling
  <2> QED BY <1>1, <1>4, <2>1 DEF Handles, Labels
<1> QED BY <1>3, <1>5 DEF Handling

LEMMA AnswerHandles ==
  ASSUME Sound, NEW t \in Thread, NEW status, NEW content,
         pc[t] # "idle", Answer(t, status, content)
  PROVE  Handling'
<1>1. /\ pc' = [pc EXCEPT ![t] = "idle"] /\ req' = [req EXCEPT ![t] = NONE]
      /\ before' = [before EXCEPT ![t] = NONE] /\ pc \in [Thread -> Labels]
      /\ req \in [Thread -> Request \cup {NONE}] /\ before \in [Thread -> Tables \cup {NONE}]
  BY DEF Answer, Sound, Typed
<1>2. \A u \in Thread \ {t} : before[u] = NONE
  BY OnlyOneAlone
<1>3. ASSUME NEW u \in Thread \ {t} PROVE Handles(u)'
  BY <1>1, <1>2 DEF Sound, Handling, Handles
<1>4. Handles(t)'
  BY <1>1 DEF Handles
<1> QED BY <1>3, <1>4 DEF Handling

LEMMA NextHandling == Sound /\ [Next]_vars => Handling'
<1> SUFFICES ASSUME Sound, [Next]_vars PROVE Handling'
  OBVIOUS
<1>1. /\ pc \in [Thread -> Labels] /\ req \in [Thread -> Request \cup {NONE}]
      /\ before \in [Thread -> Tables \cup {NONE}]
      /\ \A u \in Thread : Handles(u)
  BY DEF Sound, Typed, Handling
<1>2. ASSUME NEW t \in Thread, NEW r \in Request, Refuse(t, r) PROVE Handling'
  BY <1>1, <1>2 DEF Refuse, threads, Handling, Handles, Others
<1>3. ASSUME NEW t \in Thread, NEW r \in Request, Start(t, r) PROVE Handling'
  <2>1. /\ pc' = [pc EXCEPT ![t] = "execute"] /\ req' = [req EXCEPT ![t] = r]
        /\ before' = [u \in Thread |-> IF u = t /\ Others(t) = {} THEN now ELSE NONE]
        /\ ~Refused(r)
    BY <1>3 DEF Start
  <2>2. Others(t)' = Others(t)
    BY <1>1, <2>1 DEF Others
  <2>3. ASSUME NEW u \in Thread \ {t} PROVE Handles(u)'
    BY <1>1, <2>1 DEF Handles
  <2>4. Handles(t)'
    BY <1>1, <2>1, <2>2 DEF Handles, Sound, Typed
  <2> QED BY <2>3, <2>4 DEF Handling
<1>4. ASSUME NEW t \in Thread, Select(t) PROVE Handling'
  BY <1>1, <1>4, GoToHandles DEF Select, Handles, Labels
<1>5. ASSUME NEW t \in Thread, Insert(t) PROVE Handling'
  <2>1. /\ pc[t] = "execute" /\ req[t].method = "POST"
        /\ \/ Answer(t, 409, {})
           \/ GoTo(t, "commit")
    BY <1>5 DEF Insert
  <2> QED BY <2>1, GoToHandles, AnswerHandles DEF Labels
<1>6. ASSUME NEW t \in Thread, Update(t) PROVE Handling'
  <2>1. /\ pc[t] = "execute" /\ req[t].method = "PUT"
        /\ \/ Answer(t, 409, {})
           \/ GoTo(t, "rowcount")
    BY <1>6 DEF Update
  <2> QED BY <2>1, GoToHandles, AnswerHandles DEF Labels
<1>7. ASSUME NEW t \in Thread, Delete(t) PROVE Handling'
  <2>1. /\ pc[t] = "execute" /\ req[t].method = "DELETE"
        /\ GoTo(t, "rowcount")
    BY <1>7 DEF Delete
  <2> QED BY <2>1, GoToHandles DEF Labels
<1>8. ASSUME NEW t \in Thread, CheckRowcount(t) PROVE Handling'
  <2>1. /\ pc[t] = "rowcount"
        /\ Answer(t, 404, {}) \/ GoTo(t, "commit")
    BY <1>8 DEF CheckRowcount
  <2>2. req[t].method \in {"PUT", "DELETE"}
    BY <1>1, <2>1 DEF Handles
  <2> QED BY <2>1, <2>2, GoToHandles, AnswerHandles DEF Labels
<1>9. ASSUME NEW t \in Thread, Commit(t) PROVE Handling'
  <2>1. /\ pc[t] = "commit"
        /\ \/ req[t].method = "POST" /\ GoTo(t, "last id")
           \/ Answer(t, 200, {})
    BY <1>9 DEF Commit
  <2> QED BY <2>1, GoToHandles, AnswerHandles DEF Labels
<1>10. ASSUME NEW t \in Thread, SelectLastId(t) PROVE Handling'
  <2>1. pc[t] = "last id" /\ GoTo(t, "fetchone")
    BY <1>10 DEF SelectLastId
  <2>2. req[t].method = "POST"
    BY <1>1, <2>1 DEF Handles
  <2> QED BY <2>1, <2>2, GoToHandles DEF Labels
<1>11. ASSUME NEW t \in Thread, FetchOne(t) PROVE Handling'
  <2>1. /\ pc[t] = "fetchone"
        /\ \E content : Answer(t, 500, content) \/ Answer(t, 201, content)
    BY <1>11 DEF FetchOne
  <2> QED BY <2>1, AnswerHandles
<1>12. ASSUME NEW t \in Thread, FetchAll(t) PROVE Handling'
  <2>1. /\ pc[t] = "fetchall"
        /\ Answer(t, 200, cr.rows) \/ Answer(t, 500, {})
    BY <1>12 DEF FetchAll
  <2> QED BY <2>1, AnswerHandles
<1>13. ASSUME NEW t \in Thread, Fail(t) PROVE Handling'
  <2>1. /\ pc[t] # "idle"
        /\ \E status : Answer(t, status, {})
    BY <1>13 DEF Fail, CommitFails
  <2> QED BY <2>1, AnswerHandles
<1>14. ASSUME LoseConnection PROVE Handling'
  BY <1>1, <1>14 DEF LoseConnection, threads, Handling, Handles, Others
<1>15. ASSUME Kill PROVE Handling'
  BY <1>1, <1>15 DEF Kill, Handling, Handles
<1>16. ASSUME UNCHANGED vars PROVE Handling'
  BY <1>1, <1>16 DEF vars, threads, Handling, Handles, Others
<1>17. ASSUME NEW t \in Thread, CommitUnheard(t) PROVE Handling'
  <2>1. pc[t] # "idle" /\ \E status : Answer(t, status, {})
    BY <1>17 DEF CommitUnheard, CommitFails
  <2> QED BY <2>1, AnswerHandles
<1> QED BY <1>2, <1>3, <1>4, <1>5, <1>6, <1>7, <1>8, <1>9, <1>10, <1>11, <1>12, <1>13,
           <1>14, <1>15, <1>16, <1>17 DEF Next

LEMMA SoundInvariant == Spec => []Sound
<1>1. Sound /\ [Next]_vars => Sound'
  BY NextTyped, NextHandling DEF Sound
<1> QED BY InitSound, <1>1, PTL DEF Spec

-----------------------------------------------------------------------------
\* What a success leaves is kept.

\* No statement changes a row and leaves it to the request that wrote it before.
LEMMA ExecuteKeeps ==
  ASSUME Sound, EachKept, NEW t \in Thread, NEW ts \in Tables, Execute(t, ts),
         NEW label \in {"rowcount", "commit"}, GoTo(t, label),
         committed' = committed, connected' = connected
  PROVE  EachKept'
<1> DEFINE changed == {p \in Table \X Id : ts[p[1]][p[2]] # now[p[1]][p[2]]}
<1>1. /\ pc' = [pc EXCEPT ![t] = label] /\ pc \in [Thread -> Labels] /\ now' = ts
      /\ wrote' = [u \in Thread |->
                    IF u = t THEN {[place |-> p, row |-> ts[p[1]][p[2]]] : p \in changed}
                             ELSE {w \in wrote[u] : w.place \notin changed}]
  BY DEF GoTo, Sound, Typed, Execute
<1>2. ASSUME NEW u \in Thread \ {t} PROVE KeptOf(u)'
  <2>1. pc'[u] = pc[u] /\ wrote'[u] = {w \in wrote[u] : w.place \notin changed} /\ KeptOf(u)
    BY <1>1 DEF EachKept
  <2>2. ASSUME NEW w \in wrote'[u]
        PROVE  w \in wrote[u] /\ w.place \in Table \X Id
               /\ ts[w.place[1]][w.place[2]] = now[w.place[1]][w.place[2]]
    BY <2>1, <2>2 DEF KeptOf
  <2> QED BY <1>1, <2>1, <2>2 DEF KeptOf, HasWritten
<1>3. KeptOf(t)'
  <2>1. pc'[t] = label /\ wrote'[t] = {[place |-> p, row |-> ts[p[1]][p[2]]] : p \in changed}
    BY <1>1
  <2>2. \A w \in wrote'[t] : /\ w.place \in Table \X Id
                             /\ ts[w.place[1]][w.place[2]] = w.row
    BY <2>1
  <2> QED BY <1>1, <2>1, <2>2 DEF KeptOf, HasWritten
<1> QED BY <1>2, <1>3 DEF EachKept

\* A handler that answers, and one that goes on without a statement.
LEMMA QuietKeeps ==
  ASSUME Sound, EachKept, NEW t \in Thread, NEW label, pc' = [pc EXCEPT ![t] = label],
         wrote' = wrote \/ wrote' = [wrote EXCEPT ![t] = {}],
         now' = now, connected' => connected, committed' \in {committed, now},
         \/ wrote'[t] = {}
         \/ pc[t] = "rowcount" /\ label = "commit"
         \/ pc[t] = "last id" /\ label = "fetchone"
         \/ pc[t] = "commit" /\ label = "last id" /\ connected /\ committed' = now
  PROVE  EachKept'
<1>1. pc \in [Thread -> Labels] /\ DOMAIN wrote = Thread /\ \A u \in Thread : KeptOf(u)
  BY DEF Sound, Typed, EachKept
<1>2. ASSUME NEW u \in Thread \ {t} PROVE KeptOf(u)'
  <2>1. pc'[u] = pc[u] /\ wrote'[u] = wrote[u] /\ KeptOf(u)
    BY <1>1
  <2> QED BY <2>1 DEF KeptOf, HasWritten
<1>3. KeptOf(t)'
  <2>1. CASE wrote'[t] = {}
    BY <2>1 DEF KeptOf
  <2>2. CASE wrote'[t] # {}
    <3>1. wrote'[t] = wrote[t] /\ KeptOf(t) /\ pc'[t] = label
      BY <1>1, <2>2
    <3> QED BY <2>2, <3>1 DEF KeptOf, HasWritten
  <2> QED BY <2>1, <2>2
<1> QED BY <1>2, <1>3 DEF EachKept

LEMMA NextKept ==
  Sound /\ EachKept /\ SuccessIsKept /\ [Next]_vars => EachKept' /\ SuccessIsKept'
<1> SUFFICES ASSUME Sound, EachKept, SuccessIsKept, [Next]_vars
             PROVE  EachKept' /\ SuccessIsKept'
  OBVIOUS
<1>1. /\ now \in Tables /\ pc \in [Thread -> Labels] /\ DOMAIN wrote = Thread
      /\ \A t \in Thread : Handles(t) /\ KeptOf(t)
  BY DEF Sound, Typed, Handling, EachKept
<1>2. \A t \in Thread, label \in Labels : GoTo(t, label) =>
        pc' = [pc EXCEPT ![t] = label] /\ SuccessIsKept'
  BY <1>1 DEF GoTo, SuccessIsKept
<1>3. \A t \in Thread : \A status, content : Answer(t, status, content) =>
        /\ pc' = [pc EXCEPT ![t] = "idle"]
        /\ wrote' = [wrote EXCEPT ![t] = {}] /\ wrote'[t] = {}
        /\ reply'.status = status /\ reply'.wrote = wrote[t]
  BY <1>1 DEF Answer
<1>4. ASSUME NEW t \in Thread, NEW r \in Request, Refuse(t, r)
      PROVE  EachKept' /\ SuccessIsKept'
  <2>1. /\ UNCHANGED <<now, committed, connected, pc, wrote>>
        /\ reply'.wrote = {}
    BY <1>4 DEF Refuse, database, connection, threads
  <2>2. \A u \in Thread : KeptOf(u)'
    BY <1>1, <2>1 DEF KeptOf, HasWritten
  <2> QED BY <2>1, <2>2 DEF EachKept, SuccessIsKept
<1>5. ASSUME NEW t \in Thread, NEW r \in Request, Start(t, r)
      PROVE  EachKept' /\ SuccessIsKept'
  <2>1. /\ UNCHANGED <<now, committed, connected, wrote>> /\ reply' = NONE
        /\ pc' = [pc EXCEPT ![t] = "execute"] /\ pc[t] = "idle"
    BY <1>1, <1>5 DEF Start, database, connection
  <2>2. wrote'[t] = {}
    BY <1>1, <2>1 DEF KeptOf
  <2> QED BY <2>1, <2>2, QuietKeeps DEF SuccessIsKept
<1>6. ASSUME NEW t \in Thread, Select(t) PROVE EachKept' /\ SuccessIsKept'
  <2>1. /\ UNCHANGED <<now, committed, connected, wrote>>
        /\ pc[t] = "execute" /\ GoTo(t, "fetchall")
    BY <1>6 DEF Select, database
  <2>2. wrote'[t] = {}
    BY <1>1, <2>1 DEF KeptOf
  <2> QED BY <1>2, <2>1, <2>2, QuietKeeps DEF Labels
<1>7. ASSUME NEW t \in Thread, NEW status \in {404, 409, 500}, Answer(t, status, {}),
             now' = now, connected' => connected, committed' \in {committed, now}
      PROVE  EachKept' /\ SuccessIsKept'
  <2>1. /\ pc' = [pc EXCEPT ![t] = "idle"] /\ wrote' = [wrote EXCEPT ![t] = {}]
        /\ wrote'[t] = {} /\ reply'.status = status
    BY <1>3, <1>7
  <2>2. EachKept'
    BY <1>7, <2>1, QuietKeeps
  <2> QED BY <2>1, <2>2 DEF SuccessIsKept
<1>8. now' \in Tables
  BY NextTyped DEF Typed
<1>9. ASSUME NEW t \in Thread, NEW label \in {"rowcount", "commit"}, NEW ts,
             GoTo(t, label), Execute(t, ts), committed' = committed, connected' = connected
      PROVE  EachKept' /\ SuccessIsKept'
  <2>1. ts \in Tables
    BY <1>8, <1>9, ExecuteFacts
  <2>2. EachKept'
    BY <1>9, <2>1, ExecuteKeeps
  <2> QED BY <1>2, <1>9, <2>2 DEF Labels
<1>10. ASSUME NEW t \in Thread, Insert(t) PROVE EachKept' /\ SuccessIsKept'
  <2>1. /\ committed' = committed /\ connected' = connected
        /\ \/ Answer(t, 409, {}) /\ now' = now
           \/ GoTo(t, "commit") /\ \E ts : Execute(t, ts)
    BY <1>10 DEF Insert
  <2> QED BY <1>7, <1>9, <2>1
<1>11. ASSUME NEW t \in Thread, Update(t) PROVE EachKept' /\ SuccessIsKept'
  <2>1. /\ committed' = committed /\ connected' = connected /\ pc[t] = "execute"
        /\ \/ Answer(t, 409, {}) /\ now' = now
           \/ GoTo(t, "rowcount") /\ \E ts : Execute(t, ts)
           \/ GoTo(t, "rowcount") /\ now' = now /\ wrote' = wrote
    BY <1>11 DEF Update
  <2>2. ASSUME GoTo(t, "rowcount"), now' = now, wrote' = wrote
        PROVE  EachKept' /\ SuccessIsKept'
    <3>1. wrote'[t] = {}
      BY <1>1, <2>1, <2>2 DEF KeptOf
    <3> QED BY <1>2, <2>1, <2>2, <3>1, QuietKeeps DEF Labels
  <2> QED BY <1>7, <1>9, <2>1, <2>2
<1>12. ASSUME NEW t \in Thread, Delete(t) PROVE EachKept' /\ SuccessIsKept'
  <2>1. /\ committed' = committed /\ connected' = connected
        /\ GoTo(t, "rowcount") /\ \E ts : Execute(t, ts)
    BY <1>12 DEF Delete
  <2> QED BY <1>9, <2>1
<1>13. ASSUME NEW t \in Thread, CheckRowcount(t) PROVE EachKept' /\ SuccessIsKept'
  <2>1. /\ UNCHANGED <<now, committed, connected>> /\ pc[t] = "rowcount"
        /\ Answer(t, 404, {}) \/ (GoTo(t, "commit") /\ wrote' = wrote)
    BY <1>13 DEF CheckRowcount, database, connection
  <2>2. CASE GoTo(t, "commit") /\ wrote' = wrote
    <3>1. pc' = [pc EXCEPT ![t] = "commit"] /\ SuccessIsKept'
      BY <1>2, <2>2 DEF Labels
    <3> QED BY <2>1, <2>2, <3>1, QuietKeeps
  <2> QED BY <1>7, <2>1, <2>2
<1>14. ASSUME NEW t \in Thread, Commit(t) PROVE EachKept' /\ SuccessIsKept'
  <2>1. /\ now' = now /\ committed' = now /\ connected /\ connected' /\ pc[t] = "commit"
        /\ Answer(t, 200, {}) \/ (GoTo(t, "last id") /\ wrote' = wrote)
    BY <1>14 DEF Commit, connection
  <2>2. CASE GoTo(t, "last id") /\ wrote' = wrote
    BY <1>2, <2>1, <2>2, QuietKeeps DEF Labels
  <2>3. CASE Answer(t, 200, {})
    <3>1. \A w \in wrote[t] : now[w.place[1]][w.place[2]] = w.row
      BY <1>1, <2>1 DEF KeptOf, HasWritten
    <3>2. SuccessIsKept'
      <4>1. reply'.wrote = wrote[t]
        BY <1>3, <2>3
      <4> QED BY <2>1, <3>1, <4>1 DEF SuccessIsKept
    <3>3. /\ pc' = [pc EXCEPT ![t] = "idle"] /\ wrote' = [wrote EXCEPT ![t] = {}]
          /\ wrote'[t] = {}
      BY <1>3, <2>3
    <3> QED BY <2>1, <3>2, <3>3, QuietKeeps
  <2> QED BY <2>1, <2>2, <2>3
<1>15. ASSUME NEW t \in Thread, SelectLastId(t) PROVE EachKept' /\ SuccessIsKept'
  <2>1. /\ UNCHANGED <<now, committed, connected, wrote>>
        /\ pc[t] = "last id" /\ GoTo(t, "fetchone")
    BY <1>15 DEF SelectLastId, database
  <2> QED BY <1>2, <2>1, QuietKeeps DEF Labels
<1>16. ASSUME NEW t \in Thread, FetchOne(t) \/ FetchAll(t) PROVE EachKept' /\ SuccessIsKept'
  <2>1. /\ UNCHANGED <<now, committed, connected>> /\ pc[t] \in {"fetchone", "fetchall"}
        /\ \E status, content : Answer(t, status, content)
    BY <1>16 DEF FetchOne, FetchAll, database
  <2>2. PICK status, content : Answer(t, status, content)
    BY <2>1
  <2>3. \A w \in wrote[t] : committed[w.place[1]][w.place[2]] = w.row
    BY <1>1, <2>1 DEF KeptOf, HasWritten
  <2>4. SuccessIsKept'
    BY <1>3, <2>1, <2>2, <2>3 DEF SuccessIsKept
  <2> QED BY <1>3, <2>1, <2>2, <2>4, QuietKeeps
<1>17. ASSUME NEW t \in Thread, Fail(t) \/ CommitUnheard(t) PROVE EachKept' /\ SuccessIsKept'
  <2>1. now' = now /\ committed' \in {committed, now} /\ (connected' => connected)
    <3>1. CASE Fail(t)
      BY <3>1 DEF Fail, database
    <3>2. CASE CommitUnheard(t)
      BY <3>2 DEF CommitUnheard
    <3> QED BY <1>17, <3>1, <3>2
  <2>2. \E status \in {409, 500} : Answer(t, status, {})
    BY <1>17 DEF Fail, CommitUnheard, CommitFails
  <2> QED BY <1>7, <2>1, <2>2
<1>18. ASSUME LoseConnection PROVE EachKept' /\ SuccessIsKept'
  <2>1. /\ now' = committed /\ committed' = committed /\ ~connected' /\ reply' = NONE
        /\ pc' = pc /\ wrote' = wrote
    BY <1>18 DEF LoseConnection, threads
  <2>2. \A u \in Thread : KeptOf(u)'
    BY <1>1, <2>1 DEF KeptOf, HasWritten
  <2> QED BY <2>1, <2>2 DEF EachKept, SuccessIsKept
<1>19. ASSUME Kill PROVE EachKept' /\ SuccessIsKept'
  BY <1>19 DEF Kill, EachKept, KeptOf, SuccessIsKept
<1>20. ASSUME UNCHANGED vars PROVE EachKept' /\ SuccessIsKept'
  <2>1. UNCHANGED <<now, committed, connected, pc, wrote, reply>>
    BY <1>20 DEF vars, database, connection, threads
  <2>2. \A u \in Thread : KeptOf(u)'
    BY <1>1, <2>1 DEF KeptOf, HasWritten
  <2> QED BY <2>1, <2>2 DEF EachKept, SuccessIsKept
<1> QED BY <1>4, <1>5, <1>6, <1>10, <1>11, <1>12, <1>13, <1>14, <1>15, <1>16, <1>17,
           <1>18, <1>19, <1>20 DEF Next

\* SuccessIsKept: get_post and del_put (server_utils.py) answer a change with
\* success only after a commit that had the rows as they left them, and neither
\* an error nor the end of another's request takes them back.
THEOREM SuccessStaysKept == Spec => []SuccessIsKept
<1>1. Init => EachKept /\ SuccessIsKept
  BY DEF Init, EachKept, KeptOf, SuccessIsKept
<1> QED BY <1>1, NextKept, SoundInvariant, PTL DEF Spec

-----------------------------------------------------------------------------
\* The tables stay whole.

\* Tables are whole whatever ids were given out in vain.
LEMMA WholeWithMoreIds ==
  ASSUME NEW ts, WholeTables(ts), nextId \in [Table -> Nat \ {0}],
         nextId' \in [Table -> Nat \ {0}], \A t \in Table : nextId[t] <= nextId'[t]
  PROVE  \A t \in Table, i \in Id : ts[t][i] # NONE =>
           i < nextId'[t] /\ ~Conflicts(ts, t, i, ts[t][i])
<1> SUFFICES ASSUME NEW t \in Table, NEW i \in Id, ts[t][i] # NONE
             PROVE  i < nextId'[t] /\ ~Conflicts(ts, t, i, ts[t][i])
  OBVIOUS
<1>1. i < nextId[t] /\ ~Conflicts(ts, t, i, ts[t][i])
  BY DEF WholeTables
<1>2. i \in Int /\ nextId[t] \in Int /\ nextId'[t] \in Int /\ nextId[t] <= nextId'[t]
  BY IdFacts
<1> QED BY <1>1, <1>2

LEMMA NextWhole == Sound /\ BothWhole /\ [Next]_vars => BothWhole'
<1> SUFFICES ASSUME Sound, BothWhole, [Next]_vars PROVE BothWhole'
  OBVIOUS
<1>1. /\ now \in Tables /\ committed \in Tables /\ nextId \in [Table -> Nat \ {0}]
      /\ WholeTables(now) /\ WholeTables(committed)
      /\ \A t \in Thread : pc[t] # "idle" => req[t] \in Request /\ ~Refused(req[t])
  BY DEF Sound, Typed, Handling, Handles, BothWhole
<1>2. ASSUME now' \in {now, committed}, committed' \in {now, committed}, nextId' = nextId
      PROVE  BothWhole'
  BY <1>1, <1>2 DEF BothWhole, WholeTables
<1>3. ASSUME NEW t \in Thread, Insert(t) PROVE BothWhole'
  <2>1. PICK r \in Request : r = req[t] /\ r.table \in Table /\ r.body \in Row
    BY <1>1, <1>3, RequestFacts DEF Insert
  <2>2. PICK id \in Id : id = nextId[r.table]
    BY <1>1, <1>3, <2>1, IdFacts DEF Insert
  <2>3. /\ nextId' = [nextId EXCEPT ![r.table] = id + 1] /\ id \in Nat
        /\ nextId' \in [Table -> Nat \ {0}] /\ committed' = committed
    BY <1>1, <1>3, <2>1, <2>2, IdFacts DEF Insert
  <2>4. /\ \A u \in Table : nextId[u] <= nextId'[u]
        /\ id < nextId'[r.table]
    BY <1>1, <2>1, <2>2, <2>3
  <2>5. WholeTables(committed)'
    <3>1. PICK c : c = committed
      OBVIOUS
    <3>2. \A u \in Table, i \in Id : c[u][i] # NONE =>
            i < nextId'[u] /\ ~Conflicts(c, u, i, c[u][i])
      BY <1>1, <2>3, <2>4, <3>1, WholeWithMoreIds
    <3> QED BY <2>3, <3>1, <3>2 DEF WholeTables
  <2>6. PICK row \in Row :
          \/ now' = now
          \/ /\ ~Conflicts(now, r.table, id, row)
             /\ now' = Written(now, r.table, id, row)
    <3>1. \E row \in NewRows(r) :
            \/ now' = now
            \/ /\ ~Conflicts(now, r.table, id, row)
               /\ now' = Written(now, r.table, id, row)
      BY <1>3, <2>1, <2>2, ExecuteFacts DEF Insert
    <3> QED BY <2>1, <3>1, NewRowsAreRows
  <2>7. WholeTables(now)'
    <3>1. PICK n : n = now
      OBVIOUS
    <3>2. CASE now' = now
      <4>1. \A u \in Table, i \in Id : n[u][i] # NONE =>
              i < nextId'[u] /\ ~Conflicts(n, u, i, n[u][i])
        BY <1>1, <2>3, <2>4, <3>1, WholeWithMoreIds
      <4> QED BY <3>1, <3>2, <4>1 DEF WholeTables
    <3>3. CASE /\ ~Conflicts(now, r.table, id, row)
               /\ now' = Written(now, r.table, id, row)
      <4>1. PICK w : w = Written(n, r.table, id, row)
        OBVIOUS
      <4>2. \A u \in Table, i \in Id : w[u][i] # NONE =>
              i < nextId'[u] /\ ~Conflicts(w, u, i, w[u][i])
        BY <1>1, <2>1, <2>3, <2>4, <3>1, <3>3, <4>1, WrittenIsWhole
      <4> QED BY <3>1, <3>3, <4>1, <4>2 DEF WholeTables
    <3> QED BY <2>6, <3>2, <3>3
  <2> QED BY <2>5, <2>7 DEF BothWhole
<1>4. ASSUME NEW t \in Thread, Update(t) PROVE BothWhole'
  <2>1. PICK r \in Request :
          r = req[t] /\ r.table \in Table /\ r.id \in Id /\ r.body \in Row
    BY <1>1, <1>4, RequestFacts DEF Update
  <2>2. PICK n : n = now
    OBVIOUS
  <2>3. PICK old : old = n[r.table][r.id]
    OBVIOUS
  <2>4. /\ \/ now' = now
           \/ /\ old # NONE /\ ~Conflicts(n, r.table, r.id, PutRow(r, old))
              /\ now' = Written(n, r.table, r.id, PutRow(r, old))
        /\ nextId' = nextId /\ committed' = committed
    BY <1>4, <2>1, <2>2, <2>3, ExecuteFacts DEF Update
  <2>5. CASE now' = now
    BY <1>2, <2>4, <2>5
  <2>6. CASE /\ old # NONE /\ ~Conflicts(n, r.table, r.id, PutRow(r, old))
             /\ now' = Written(n, r.table, r.id, PutRow(r, old))
    <3>1. old \in Row
      BY <1>1, <2>1, <2>2, <2>3, <2>6 DEF Tables
    <3>2. PICK row \in Row : row = PutRow(r, old)
      BY <2>1, <3>1, NewRowsAreRows
    <3>3. r.id < nextId'[r.table] /\ \A u \in Table : nextId[u] <= nextId'[u]
      BY <1>1, <2>1, <2>2, <2>3, <2>4, <2>6 DEF WholeTables
    <3>4. PICK w : w = Written(n, r.table, r.id, row)
      OBVIOUS
    <3>5. \A u \in Table, i \in Id : w[u][i] # NONE =>
            i < nextId'[u] /\ ~Conflicts(w, u, i, w[u][i])
      BY <1>1, <2>1, <2>2, <2>4, <2>6, <3>2, <3>3, <3>4, WrittenIsWhole
    <3> QED BY <1>1, <2>4, <2>6, <3>2, <3>4, <3>5 DEF BothWhole, WholeTables
  <2> QED BY <2>4, <2>5, <2>6
<1>5. ASSUME NEW t \in Thread, Delete(t) PROVE BothWhole'
  <2>1. PICK r \in Request : r = req[t] /\ r.table \in Table /\ r.id \in Id
    BY <1>1, <1>5, RequestFacts DEF Delete
  <2>2. PICK d : d = Deleted(now, r.table, r.id)
    OBVIOUS
  <2>3. now' = d /\ nextId' = nextId /\ committed' = committed
    BY <1>5, <2>1, <2>2, ExecuteFacts DEF Delete
  <2>4. WholeTables(d)
    BY <1>1, <2>1, <2>2, DeletedIsWhole
  <2> QED BY <1>1, <2>3, <2>4 DEF BothWhole, WholeTables
<1>6. ASSUME NEW t \in Thread, Commit(t) \/ CommitUnheard(t) PROVE BothWhole'
  BY <1>2, <1>6 DEF Commit, CommitUnheard
<1>7. ASSUME UNCHANGED database PROVE BothWhole'
  BY <1>2, <1>7 DEF database
<1>8. ASSUME LoseConnection \/ Kill PROVE BothWhole'
  BY <1>2, <1>8 DEF LoseConnection, Kill
<1> QED BY <1>3, <1>4, <1>5, <1>6, <1>7, <1>8 DEF Next, vars, Refuse, Start, Select,
           CheckRowcount, SelectLastId, FetchOne, FetchAll, Fail

LEMMA WholeInvariant == Spec => [](Sound /\ BothWhole)
<1>1. Init => BothWhole
  BY DEF Init, BothWhole, WholeTables, Empty
<1> QED BY <1>1, NextWhole, SoundInvariant, PTL DEF Spec

-----------------------------------------------------------------------------
\* A request that is alone is atomic.

\* What Outcomes has for each method.
LEMMA OutcomesOf ==
  ASSUME NEW ts, NEW r, ~Refused(r)
  PROVE  /\ r.method = "GET" => Outcome(200, Selected(ts, r), ts) \in Outcomes(ts, r)
         /\ r.method = "DELETE" =>
              IF ts[r.table][r.id] = NONE
                THEN Outcome(404, {}, ts) \in Outcomes(ts, r)
                ELSE Outcome(200, {}, Deleted(ts, r.table, r.id)) \in Outcomes(ts, r)
         /\ r.method = "PUT" =>
              LET old == ts[r.table][r.id]
                  row == PutRow(r, old) IN
              IF old = NONE \/ row = old THEN Outcome(404, {}, ts) \in Outcomes(ts, r)
              ELSE IF Conflicts(ts, r.table, r.id, row)
                THEN Outcome(409, {}, ts) \in Outcomes(ts, r)
                ELSE Outcome(200, {}, Written(ts, r.table, r.id, row)) \in Outcomes(ts, r)
<1>1. CASE r.method = "GET"
  BY <1>1 DEF Outcomes
<1>2. CASE r.method = "DELETE"
  BY <1>2 DEF Outcomes
<1>3. CASE r.method = "PUT"
  BY <1>3 DEF Outcomes
<1> QED BY <1>1, <1>2, <1>3

LEMMA OutcomesOfPost ==
  ASSUME NEW ts, NEW r, ~Refused(r), r.method = "POST", NEW n \in NewRows(r), NEW i \in Id,
         \A j \in Id : j >= i => ts[r.table][j] = NONE
  PROVE  IF Conflicts(ts, r.table, i, n)
           THEN Outcome(409, {}, ts) \in Outcomes(ts, r)
           ELSE Outcome(201, {i}, Written(ts, r.table, i, n)) \in Outcomes(ts, r)
<1> DEFINE new == {k \in Id : \A j \in Id : j >= k => ts[r.table][j] = NONE}
           After(k, row) == IF Conflicts(ts, r.table, k, row) THEN Outcome(409, {}, ts)
                            ELSE Outcome(201, {k}, Written(ts, r.table, k, row))
<1>1. Outcomes(ts, r) = {After(k, row) : k \in new, row \in NewRows(r)}
  BY DEF Outcomes
<1>2. i \in new
  OBVIOUS
<1> HIDE DEF After, new
<1>3. After(i, n) \in Outcomes(ts, r)
  BY <1>1, <1>2
<1> QED BY <1>3 DEF After

\* The rows of a result have the columns of their table.
LEMMA SelectedFits ==
  ASSUME NEW ts, NEW r, r.table \in Table
  PROVE  \A rec \in Selected(ts, r) : Columns(rec.table) >= Columns(r.table)
<1>1. Columns(r.table) \in Nat
  BY DEF Columns, Table
<1>2. \A rec \in Selected(ts, r) : rec.table = r.table
  BY DEF Selected
<1> QED
  <2> SUFFICES ASSUME NEW rec \in Selected(ts, r) PROVE Columns(rec.table) >= Columns(r.table)
    OBVIOUS
  <2>1. Columns(rec.table) = Columns(r.table)
    BY <1>2
  <2> QED BY <1>1, <2>1

\* What a handler that goes on, or answers, must have done.
LEMMA GoToAlone ==
  ASSUME Sound, NEW t \in Thread, NEW label \in Labels \ {"idle", "execute"},
         pc[t] # "idle", GoTo(t, label),
         connected' /\ before[t] # NONE =>
           /\ label = "fetchall" =>
                now' = before[t] /\ cr'.result /\ cr'.rows = Selected(now', req[t])
           /\ label = "rowcount" =>
                Outcome(IF cr'.rowcount = 0 THEN 404 ELSE 200, {}, now')
                  \in Outcomes(before[t], req[t])
           /\ label = "commit" =>
                IF req[t].method = "POST"
                  THEN Outcome(201, {lastId'}, now') \in Outcomes(before[t], req[t])
                  ELSE Outcome(200, {}, now') \in Outcomes(before[t], req[t])
           /\ label \in {"last id", "fetchone"} =>
                /\ committed' = now'
                /\ Outcome(201, {lastId'}, now') \in Outcomes(before[t], req[t])
           /\ label = "fetchone" =>
                cr'.rows = {[table |-> NONE, id |-> lastId', row |-> NONE]}
  PROVE  EachAlone' /\ AloneIsAtomic'
<1>1. /\ pc' = [pc EXCEPT ![t] = label] /\ req' = req /\ before' = before
      /\ pc \in [Thread -> Labels] /\ reply' = NONE
  BY DEF GoTo, Sound, Typed
<1>2. \A u \in Thread \ {t} : before[u] = NONE
  BY OnlyOneAlone
<1>3. ASSUME NEW u \in Thread \ {t} PROVE Alone(u)'
  BY <1>1, <1>2 DEF Alone
<1>4. Alone(t)'
  <2>1. pc'[t] = label
    BY <1>1
  <2> SUFFICES ASSUME connected', before'[t] # NONE
               PROVE  Alone(t)'
    BY DEF Alone
  <2>2. before'[t] = before[t] /\ req'[t] = req[t] /\ before[t] # NONE
    BY <1>1
  <2>3. CASE label = "rowcount"
    <3>1. Outcome(IF cr'.rowcount = 0 THEN 404 ELSE 200, {}, now')
            \in Outcomes(before'[t], req'[t])
      BY <2>2, <2>3
    <3> QED BY <2>1, <2>3, <3>1 DEF Alone, Done
  <2>4. CASE label = "commit"
    BY <2>1, <2>2, <2>4 DEF Alone, Done
  <2>5. CASE label \in {"fetchall", "last id", "fetchone"}
    BY <2>1, <2>2, <2>5 DEF Alone, Done
  <2> QED BY <2>3, <2>4, <2>5 DEF Labels
<1> QED BY <1>1, <1>3, <1>4 DEF EachAlone, AloneIsAtomic

LEMMA AnswerAlone ==
  ASSUME Sound, NEW t \in Thread, NEW status, NEW content,
         pc[t] # "idle", Answer(t, status, content),
         connected' /\ before[t] # NONE =>
           /\ Outcome(status, content, now') \in Outcomes(before[t], req[t])
           /\ req[t].method # "GET" /\ status \in {200, 201} => committed' = now'
  PROVE  EachAlone' /\ AloneIsAtomic'
<1>1. /\ before' = [before EXCEPT ![t] = NONE] /\ before \in [Thread -> Tables \cup {NONE}]
      /\ reply' = [req |-> req[t], before |-> before[t], wrote |-> wrote[t],
                   status |-> status, content |-> content]
  BY DEF Answer, Sound, Typed
<1>2. \A u \in Thread : before'[u] = NONE
  BY <1>1, OnlyOneAlone
<1>3. EachAlone'
  BY <1>2 DEF EachAlone, Alone
<1>4. AloneIsAtomic'
  BY <1>1 DEF AloneIsAtomic
<1> QED BY <1>3, <1>4

LEMMA NextAlone ==
  Sound /\ BothWhole /\ EachAlone /\ AloneIsAtomic /\ [Next]_vars
    => EachAlone' /\ AloneIsAtomic'
<1> SUFFICES ASSUME Sound, BothWhole, EachAlone, AloneIsAtomic, [Next]_vars
             PROVE  EachAlone' /\ AloneIsAtomic'
  OBVIOUS
<1>1. /\ now \in Tables /\ nextId \in [Table -> Nat \ {0}] /\ WholeTables(now)
      /\ pc \in [Thread -> Labels] /\ before \in [Thread -> Tables \cup {NONE}]
      /\ \A t \in Thread : Handles(t) /\ Alone(t)
  BY DEF Sound, Typed, Handling, BothWhole, EachAlone
<1>2. ASSUME NEW t \in Thread, NEW r \in Request, Refuse(t, r)
      PROVE  EachAlone' /\ AloneIsAtomic'
  <2>1. EachAlone'
    <3>1. /\ now' = now /\ committed' = committed /\ cr' = cr /\ lastId' = lastId
          /\ connected' = connected /\ pc' = pc /\ req' = req /\ before' = before
      BY <1>2 DEF Refuse, database, connection, threads
    <3>2. ASSUME NEW u \in Thread PROVE Alone(u)'
      <4>1. Alone(u)
        BY <1>1
      <4> QED BY <3>1, <4>1, ZenonT(60) DEF Alone, Done
    <3> QED BY <3>2 DEF EachAlone
  <2>2. AloneIsAtomic'
    <3> DEFINE status == IF r.id # BAD THEN 400 ELSE IF r.method = "GET" THEN 200 ELSE 404
    <3>1. /\ reply' = [req |-> r, before |-> now, wrote |-> {}, content |-> {},
                       status |-> status]
          /\ Refused(r) /\ now' = now
      BY <1>2 DEF Refuse, database
    <3>2. Outcome(status, {}, now) \in Outcomes(now, r)
      BY <3>1 DEF Outcomes
    <3>3. r.method # "GET" => status \notin {200, 201}
      OBVIOUS
    <3> QED BY <3>1, <3>2, <3>3 DEF AloneIsAtomic
  <2> QED BY <2>1, <2>2
<1>3. ASSUME NEW t \in Thread, NEW r \in Request, Start(t, r)
      PROVE  EachAlone' /\ AloneIsAtomic'
  <2>1. /\ pc' = [pc EXCEPT ![t] = "execute"] /\ now' = now /\ reply' = NONE
        /\ before' = [u \in Thread |-> IF u = t /\ Others(t) = {} THEN now ELSE NONE]
    BY <1>3 DEF Start, database
  <2> QED BY <1>1, <2>1 DEF EachAlone, Alone, AloneIsAtomic
<1>4. ASSUME NEW t \in Thread, Select(t) PROVE EachAlone' /\ AloneIsAtomic'
  <2>1. /\ pc[t] = "execute" /\ connected /\ now' = now
        /\ cr'.result /\ cr'.rows = Selected(now, req[t]) /\ GoTo(t, "fetchall")
    BY <1>4 DEF Select, Result, database
  <2>2. before[t] # NONE => now = before[t]
    BY <1>1, <2>1 DEF Alone
  <2> QED BY <2>1, <2>2, GoToAlone DEF Labels
<1>5. ASSUME NEW t \in Thread, Insert(t) PROVE EachAlone' /\ AloneIsAtomic'
  <2>1. PICK r \in Request : /\ r = req[t] /\ ~Refused(r) /\ r.method = "POST"
                             /\ r.table \in Table /\ pc[t] = "execute" /\ connected
    BY <1>1, <1>5, RequestFacts DEF Insert, Handles
  <2>2. PICK id \in Id : id = nextId[r.table]
    BY <1>1, <1>5, <2>1, IdFacts DEF Insert
  <2>3. \A j \in Id : j >= id => now[r.table][j] = NONE
    <3> SUFFICES ASSUME NEW j \in Id, j >= id, now[r.table][j] # NONE PROVE FALSE
      OBVIOUS
    <3>1. j < id
      BY <1>1, <2>1, <2>2 DEF WholeTables
    <3>2. j \in Nat /\ id \in Nat
      BY IdFacts
    <3> QED BY <3>1, <3>2
  <2>4. PICK row \in NewRows(r) :
          \/ /\ Conflicts(now, r.table, id, row)
             /\ Answer(t, 409, {}) /\ now' = now
          \/ /\ ~Conflicts(now, r.table, id, row)
             /\ now' = Written(now, r.table, id, row)
             /\ lastId' = id /\ GoTo(t, "commit")
    BY <1>5, <2>1, <2>2, ExecuteFacts DEF Insert
  <2>5. before[t] # NONE => now = before[t]
    BY <1>1, <2>1 DEF Alone
  <2>6. IF Conflicts(now, r.table, id, row)
          THEN Outcome(409, {}, now) \in Outcomes(now, r)
          ELSE Outcome(201, {id}, Written(now, r.table, id, row)) \in Outcomes(now, r)
    BY <2>1, <2>3, OutcomesOfPost
  <2>7. CASE Conflicts(now, r.table, id, row)
    <3>1. Answer(t, 409, {}) /\ now' = now /\ Outcome(409, {}, now) \in Outcomes(now, r)
      BY <2>4, <2>6, <2>7
    <3> QED BY <2>1, <2>5, <3>1, AnswerAlone
  <2>8. CASE ~Conflicts(now, r.table, id, row)
    <3>1. /\ lastId' = id /\ GoTo(t, "commit")
          /\ Outcome(201, {id}, now') \in Outcomes(now, r)
      BY <2>4, <2>6, <2>8
    <3> QED BY <2>1, <2>5, <3>1, GoToAlone DEF Labels
  <2> QED BY <2>7, <2>8
<1>6. ASSUME NEW t \in Thread, Update(t) PROVE EachAlone' /\ AloneIsAtomic'
  <2>1. PICK r \in Request : /\ r = req[t] /\ ~Refused(r) /\ r.method = "PUT"
                             /\ r.table \in Table /\ r.id \in Id
                             /\ pc[t] = "execute" /\ connected
    BY <1>1, <1>6, RequestFacts DEF Update, Handles
  <2>2. PICK old : old = now[r.table][r.id]
    OBVIOUS
  <2>3. PICK row : row = PutRow(r, old)
    OBVIOUS
  <2>4. \/ /\ old # NONE /\ Conflicts(now, r.table, r.id, row)
           /\ Answer(t, 409, {}) /\ now' = now
        \/ /\ old # NONE /\ ~Conflicts(now, r.table, r.id, row)
           /\ now' = Written(now, r.table, r.id, row)
           /\ cr'.rowcount = IF row = old THEN 0 ELSE 1
           /\ GoTo(t, "rowcount")
        \/ /\ old = NONE /\ cr'.rowcount = 0 /\ GoTo(t, "rowcount") /\ now' = now
    BY <1>6, <2>1, <2>2, <2>3, ExecuteFacts DEF Update, Result
  <2>5. before[t] # NONE => now = before[t]
    BY <1>1, <2>1 DEF Alone
  <2>6. IF old = NONE \/ row = old THEN Outcome(404, {}, now) \in Outcomes(now, r)
        ELSE IF Conflicts(now, r.table, r.id, row)
          THEN Outcome(409, {}, now) \in Outcomes(now, r)
          ELSE Outcome(200, {}, Written(now, r.table, r.id, row)) \in Outcomes(now, r)
    BY <2>1, <2>2, <2>3, OutcomesOf
  <2>7. old # NONE => ~Conflicts(now, r.table, r.id, old)
    BY <1>1, <2>1, <2>2 DEF WholeTables
  <2>8. CASE old # NONE /\ Conflicts(now, r.table, r.id, row)
    <3>1. Answer(t, 409, {}) /\ now' = now /\ Outcome(409, {}, now) \in Outcomes(now, r)
      BY <2>4, <2>6, <2>7, <2>8
    <3> QED BY <2>1, <2>5, <3>1, AnswerAlone
  <2>9. CASE old # NONE /\ ~Conflicts(now, r.table, r.id, row)
    <3>1. /\ GoTo(t, "rowcount") /\ now' = Written(now, r.table, r.id, row)
          /\ cr'.rowcount = IF row = old THEN 0 ELSE 1
      BY <2>4, <2>9
    <3>2. row = old => now' = now
      BY <1>1, <2>1, <2>2, <3>1 DEF Written, Tables
    <3>3. Outcome(IF cr'.rowcount = 0 THEN 404 ELSE 200, {}, now') \in Outcomes(now, r)
      BY <2>6, <2>9, <3>1, <3>2
    <3> QED BY <2>1, <2>5, <3>1, <3>3, GoToAlone DEF Labels
  <2>10. CASE old = NONE
    <3>1. GoTo(t, "rowcount") /\ now' = now /\ cr'.rowcount = 0
      BY <2>4, <2>10
    <3>2. Outcome(IF cr'.rowcount = 0 THEN 404 ELSE 200, {}, now') \in Outcomes(now, r)
      BY <2>6, <2>10, <3>1
    <3> QED BY <2>1, <2>5, <3>1, <3>2, GoToAlone DEF Labels
  <2> QED BY <2>8, <2>9, <2>10
<1>7. ASSUME NEW t \in Thread, Delete(t) PROVE EachAlone' /\ AloneIsAtomic'
  <2>1. PICK r \in Request : /\ r = req[t] /\ ~Refused(r) /\ r.method = "DELETE"
                             /\ r.table \in Table /\ r.id \in Id
                             /\ pc[t] = "execute" /\ connected
    BY <1>1, <1>7, RequestFacts DEF Delete, Handles
  <2>2. PICK old : old = now[r.table][r.id]
    OBVIOUS
  <2>3. /\ GoTo(t, "rowcount") /\ now' = Deleted(now, r.table, r.id)
        /\ cr'.rowcount = IF old # NONE THEN 1 ELSE 0
    BY <1>7, <2>1, <2>2, ExecuteFacts DEF Delete, Result
  <2>4. before[t] # NONE => now = before[t]
    BY <1>1, <2>1 DEF Alone
  <2>5. old = NONE => now' = now
    BY <1>1, <2>1, <2>2, <2>3, NothingIsDeleted
  <2>6. IF old = NONE THEN Outcome(404, {}, now) \in Outcomes(now, r)
        ELSE Outcome(200, {}, Deleted(now, r.table, r.id)) \in Outcomes(now, r)
    BY <2>1, <2>2, OutcomesOf
  <2>7. Outcome(IF cr'.rowcount = 0 THEN 404 ELSE 200, {}, now') \in Outcomes(now, r)
    BY <2>3, <2>5, <2>6
  <2> QED BY <2>1, <2>3, <2>4, <2>7, GoToAlone DEF Labels
<1>8. ASSUME NEW t \in Thread, CheckRowcount(t) PROVE EachAlone' /\ AloneIsAtomic'
  <2>1. /\ pc[t] = "rowcount" /\ now' = now /\ connected' = connected
        /\ IF cr.rowcount = 0 THEN Answer(t, 404, {}) ELSE GoTo(t, "commit")
    BY <1>8 DEF CheckRowcount, database, connection
  <2>2. req[t].method # "POST"
    BY <1>1, <2>1 DEF Handles
  <2>3. connected /\ before[t] # NONE =>
          Outcome(IF cr.rowcount = 0 THEN 404 ELSE 200, {}, now) \in Outcomes(before[t], req[t])
    BY <1>1, <2>1 DEF Alone, Done
  <2>4. CASE cr.rowcount = 0
    BY <2>1, <2>3, <2>4, AnswerAlone
  <2>5. CASE cr.rowcount # 0
    BY <2>1, <2>2, <2>3, <2>5, GoToAlone DEF Labels
  <2> QED BY <2>4, <2>5
<1>9. ASSUME NEW t \in Thread, Commit(t) PROVE EachAlone' /\ AloneIsAtomic'
  <2>1. /\ pc[t] = "commit" /\ now' = now /\ committed' = now /\ connected
        /\ lastId' = lastId
        /\ IF req[t].method = "POST" THEN GoTo(t, "last id") ELSE Answer(t, 200, {})
    BY <1>9 DEF Commit, connection
  <2>2. before[t] # NONE =>
          IF req[t].method = "POST"
            THEN Outcome(201, {lastId}, now) \in Outcomes(before[t], req[t])
            ELSE Outcome(200, {}, now) \in Outcomes(before[t], req[t])
    BY <1>1, <2>1 DEF Alone, Done
  <2>3. CASE req[t].method = "POST"
    BY <2>1, <2>2, <2>3, GoToAlone DEF Labels
  <2>4. CASE req[t].method # "POST"
    BY <2>1, <2>2, <2>4, AnswerAlone
  <2> QED BY <2>3, <2>4
<1>10. ASSUME NEW t \in Thread, SelectLastId(t) PROVE EachAlone' /\ AloneIsAtomic'
  <2>1. /\ pc[t] = "last id" /\ connected /\ now' = now /\ committed' = committed
        /\ lastId' = lastId /\ GoTo(t, "fetchone")
        /\ cr'.rows = {[table |-> NONE, id |-> lastId, row |-> NONE]}
    BY <1>10 DEF SelectLastId, Result, database
  <2>2. before[t] # NONE =>
          committed = now /\ Outcome(201, {lastId}, now) \in Outcomes(before[t], req[t])
    BY <1>1, <2>1 DEF Alone, Done
  <2> QED BY <2>1, <2>2, GoToAlone DEF Labels
<1>11. ASSUME NEW t \in Thread, FetchOne(t) PROVE EachAlone' /\ AloneIsAtomic'
  <2>1. /\ pc[t] = "fetchone" /\ now' = now /\ committed' = committed
        /\ connected' = connected
        /\ \/ cr.rows = {} /\ Answer(t, 500, {})
           \/ \E rec \in cr.rows : Answer(t, 201, {rec.id})
    BY <1>11 DEF FetchOne, database
  <2>2. connected /\ before[t] # NONE =>
          /\ committed = now /\ Outcome(201, {lastId}, now) \in Outcomes(before[t], req[t])
          /\ cr.rows = {[table |-> NONE, id |-> lastId, row |-> NONE]}
    BY <1>1, <2>1 DEF Alone, Done
  <2>3. CASE connected /\ before[t] # NONE
    <3>1. Answer(t, 201, {lastId})
      <4>1. PICK rec \in cr.rows : Answer(t, 201, {rec.id})
        BY <2>1, <2>2, <2>3
      <4>2. rec.id = lastId
        BY <2>2, <2>3
      <4> QED BY <4>1, <4>2
    <3> QED BY <2>1, <2>2, <2>3, <3>1, AnswerAlone
  <2>4. CASE ~(connected /\ before[t] # NONE)
    <3>1. PICK status, content : Answer(t, status, content)
      BY <2>1
    <3> QED BY <2>1, <2>4, <3>1, AnswerAlone
  <2> QED BY <2>3, <2>4
<1>12. ASSUME NEW t \in Thread, FetchAll(t) PROVE EachAlone' /\ AloneIsAtomic'
  <2>1. /\ pc[t] = "fetchall" /\ now' = now /\ connected' = connected
        /\ IF cr.result /\ \A rec \in cr.rows : Columns(rec.table) >= Columns(req[t].table)
             THEN Answer(t, 200, cr.rows) ELSE Answer(t, 500, {})
    BY <1>12 DEF FetchAll, database
  <2>2. PICK r \in Request : /\ r = req[t] /\ ~Refused(r) /\ r.method = "GET"
                             /\ r.table \in Table
    BY <1>1, <2>1, RequestFacts DEF Handles
  <2>3. connected /\ before[t] # NONE =>
          now = before[t] /\ cr.result /\ cr.rows = Selected(now, r)
    BY <1>1, <2>1, <2>2 DEF Alone
  <2>4. CASE connected /\ before[t] # NONE
    <3>1. cr.rows = Selected(now, r)
      BY <2>3, <2>4
    <3>2. \A rec \in cr.rows : Columns(rec.table) >= Columns(r.table)
      BY <2>2, <3>1, SelectedFits
    <3>3. Answer(t, 200, Selected(now, r))
      BY <2>1, <2>2, <2>3, <2>4, <3>1, <3>2
    <3>4. Outcome(200, Selected(now, r), now) \in Outcomes(now, r)
      BY <2>2, OutcomesOf
    <3> QED BY <2>1, <2>2, <2>3, <2>4, <3>3, <3>4, AnswerAlone
  <2>5. CASE ~(connected /\ before[t] # NONE)
    <3>1. PICK status, content : Answer(t, status, content)
      BY <2>1
    <3> QED BY <2>1, <2>5, <3>1, AnswerAlone
  <2> QED BY <2>4, <2>5
<1>13. ASSUME NEW t \in Thread, Fail(t) PROVE EachAlone' /\ AloneIsAtomic'
  <2>1. /\ pc[t] # "idle" /\ connected' = connected
        /\ ~connected \/ Others(t) # {}
    BY <1>13 DEF Fail, CommitFails
  <2>2. PICK status : Answer(t, status, {})
    BY <1>13 DEF Fail, CommitFails
  <2>3. ~(connected /\ before[t] # NONE)
    BY <1>1, <2>1 DEF Handles
  <2> QED BY <2>1, <2>2, <2>3, AnswerAlone
<1>14. ASSUME LoseConnection PROVE EachAlone' /\ AloneIsAtomic'
  BY <1>14 DEF LoseConnection, EachAlone, Alone, AloneIsAtomic
<1>15. ASSUME Kill PROVE EachAlone' /\ AloneIsAtomic'
  BY <1>15 DEF Kill, EachAlone, Alone, AloneIsAtomic
<1>16. ASSUME UNCHANGED vars PROVE EachAlone' /\ AloneIsAtomic'
  <2>1. /\ now' = now /\ committed' = committed /\ cr' = cr /\ lastId' = lastId
        /\ connected' = connected /\ pc' = pc /\ req' = req /\ before' = before
        /\ reply' = reply
    BY <1>16 DEF vars, database, connection, threads
  <2>2. ASSUME NEW t \in Thread PROVE Alone(t)'
    <3>1. Alone(t)
      BY DEF EachAlone
    <3> QED BY <2>1, <3>1 DEF Alone, Done
  <2>3. AloneIsAtomic'
    BY <2>1 DEF AloneIsAtomic
  <2> QED BY <2>2, <2>3 DEF EachAlone
<1>17. ASSUME NEW t \in Thread, CommitUnheard(t) PROVE EachAlone' /\ AloneIsAtomic'
  <2>1. /\ pc[t] # "idle" /\ ~connected'
        /\ \E status : Answer(t, status, {})
    BY <1>17 DEF CommitUnheard, CommitFails
  <2> QED BY <2>1, AnswerAlone
<1> QED BY <1>2, <1>3, <1>4, <1>5, <1>6, <1>7, <1>8, <1>9, <1>10, <1>11, <1>12, <1>13,
           <1>14, <1>15, <1>16, <1>17 DEF Next

\* AloneIsAtomic: the calls of one handler after another (get_post, del_put and
\* the GETs of *_api.py) do what the request asks and answer so, from any tables,
\* cursor and ids that the overlaps, errors and restarts before can have left.
THEOREM AloneStaysAtomic == Spec => []AloneIsAtomic
<1>1. Init => EachAlone /\ AloneIsAtomic
  BY DEF Init, EachAlone, Alone, AloneIsAtomic
<1> QED BY <1>1, NextAlone, WholeInvariant, PTL DEF Spec

=============================================================================
