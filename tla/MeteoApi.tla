------------------------------ MODULE MeteoApi ------------------------------
(***************************************************************************)
(* The meteorology API of Teme/Tema2: Flask serves each request in a       *)
(* thread, and all the threads share one connection to the database, with  *)
(* its transaction, and one cursor, with the result of the last statement. *)
(* Between any two calls of a handler those of another may come.           *)
(*                                                                         *)
(* Statements that overlap on the connection are executed in some order,   *)
(* or raise an error, or end the process (Kill).                           *)
(***************************************************************************)
EXTENDS MeteoTables

CONSTANTS
  Thread,
  Request,  \* records [method, table, of, id, body]
  BAD       \* a body the handler refuses, or an id that is no number

ASSUME RequestAssumption ==
  \A r \in Request :
    /\ r.method \in {"GET", "POST", "PUT", "DELETE"}
    /\ r.table \in Table /\ r.of \in Table \cup {NONE}
    /\ r.id \in Id \cup {NONE, BAD}
    /\ r.method \in {"PUT", "DELETE"} \/ r.of # NONE => r.id # NONE
    /\ r.method \in {"POST", "PUT"} => r.body \in Row \cup {BAD}

VARIABLES
  now,        \* the tables as the connection sees them
  committed,  \* the tables as they survive it
  nextId,     \* AUTO_INCREMENT
  cr,         \* the cursor: has it a result, its rows not fetched yet, and rowcount
  lastId,     \* LAST_INSERT_ID()
  connected,  \* is the connection of the process alive?
  pc,         \* what the thread's handler calls next
  req,        \* its request
  before,     \* history: the tables its request found, while it is alone
  wrote,      \* history: the rows its request left that no other wrote since
  reply       \* the reply given by the last step, or NONE

database == <<now, committed, nextId>>
connection == <<cr, lastId, connected>>
threads == <<pc, req, before, wrote>>
vars == <<database, connection, threads, reply>>

\* The columns of a row of a result; a row knows the table it is from.
Columns(table) == CASE table = "Tari" -> 4 [] table = "Orase" -> 5
                    [] table = "Temperaturi" -> 3 [] OTHER -> 1
Selected(ts, r) ==
  {[table |-> r.table, id |-> i, row |-> ts[r.table][i]] :
     i \in {j \in Id : /\ ts[r.table][j] # NONE
                       /\ r.of = NONE \/ j \in Below(ts, r.of, r.id)[r.table]}}

\* The columns an INSERT and an UPDATE write: a temperature gets its time
\* from the database, and keeps it.
NewRows(r) == IF r.table = "Temperaturi"
                THEN {[r.body EXCEPT !.key = s] : s \in Second} ELSE {r.body}
PutRow(r, old) == IF r.table = "Temperaturi"
                    THEN [r.body EXCEPT !.key = old.key] ELSE r.body

\* The cursor after a statement that failed, and after one that did not.
NoResult == [result |-> FALSE, rows |-> {}, rowcount |-> 0]
Result(rows, rowcount) == [result |-> TRUE, rows |-> rows, rowcount |-> rowcount]

-----------------------------------------------------------------------------
Init ==
  /\ now = Empty /\ committed = Empty
  /\ nextId = [t \in Table |-> 1]
  /\ cr = NoResult /\ lastId = 0 /\ connected = TRUE
  /\ pc = [t \in Thread |-> "idle"]
  /\ req = [t \in Thread |-> NONE]
  /\ before = [t \in Thread |-> NONE]
  /\ wrote = [t \in Thread |-> {}]
  /\ reply = NONE

GoTo(t, label) == /\ pc' = [pc EXCEPT ![t] = label]
                  /\ reply' = NONE
                  /\ UNCHANGED <<req, before>>

Answer(t, status, content) ==
  /\ pc' = [pc EXCEPT ![t] = "idle"]
  /\ req' = [req EXCEPT ![t] = NONE]
  /\ before' = [before EXCEPT ![t] = NONE]
  /\ wrote' = [wrote EXCEPT ![t] = {}]
  /\ reply' = [req |-> req[t], before |-> before[t], wrote |-> wrote[t],
               status |-> status, content |-> content]

\* A statement of t makes the tables ts.
Execute(t, ts) ==
  LET changed == {p \in Table \X Id : ts[p[1]][p[2]] # now[p[1]][p[2]]} IN
  /\ now' = ts
  /\ wrote' = [u \in Thread |->
                 IF u = t THEN {[place |-> p, row |-> ts[p[1]][p[2]]] : p \in changed}
                          ELSE {w \in wrote[u] : w.place \notin changed}]

Others(t) == {u \in Thread \ {t} : pc[u] # "idle"}

Refused(r) == r.id = BAD \/ r.body = BAD

\* int(id) raises ValueError, or _verify_req_body or the ids' comparison fails:
\* the answer needs no database.
Refuse(t, r) ==
  /\ pc[t] = "idle" /\ Refused(r)
  /\ reply' = [req |-> r, before |-> now, wrote |-> {}, content |-> {},
               status |-> IF r.id # BAD THEN 400 ELSE IF r.method = "GET" THEN 200 ELSE 404]
  /\ UNCHANGED <<database, connection, threads>>

\* A request arrives.  Nobody is alone any more who was.
Start(t, r) ==
  /\ pc[t] = "idle" /\ ~Refused(r)
  /\ r.method = "POST" => nextId[r.table] <= MaxId[r.table]
  /\ pc' = [pc EXCEPT ![t] = "execute"]
  /\ req' = [req EXCEPT ![t] = r]
  /\ before' = [u \in Thread |-> IF u = t /\ Others(t) = {} THEN now ELSE NONE]
  /\ reply' = NONE
  /\ UNCHANGED <<database, connection, wrote>>

\* SELECT: the rows are in the cursor until somebody fetches them.
Select(t) ==
  /\ pc[t] = "execute" /\ req[t].method = "GET" /\ connected
  /\ cr' = Result(Selected(now, req[t]), Cardinality(Selected(now, req[t])))
  /\ GoTo(t, "fetchall")
  /\ UNCHANGED <<database, lastId, connected, wrote>>

\* A fault: a conflict is rolled back.
InsertRollingBack(t) ==
  /\ pc[t] = "execute" /\ req[t].method = "POST" /\ connected
  /\ LET r == req[t]
         id == nextId[r.table] IN
       /\ id <= MaxId[r.table]
       /\ nextId' = [nextId EXCEPT ![r.table] = @ + 1]
       /\ \E row \in NewRows(r) :
            \/ /\ Conflicts(now, r.table, id, row)
               /\ now' = committed
               /\ cr' = NoResult
               /\ Answer(t, 409, {})
               /\ UNCHANGED lastId
            \/ /\ ~Conflicts(now, r.table, id, row)
               /\ Execute(t, Written(now, r.table, id, row))
               /\ cr' = Result({}, 1)
               /\ lastId' = id
               /\ GoTo(t, "commit")
  /\ UNCHANGED <<committed, connected>>

\* INSERT: an id that was refused is not given out again.
Insert(t) ==
  /\ pc[t] = "execute" /\ req[t].method = "POST" /\ connected
  /\ LET r == req[t]
         id == nextId[r.table] IN
       /\ id <= MaxId[r.table]
       /\ nextId' = [nextId EXCEPT ![r.table] = @ + 1]
       /\ \E row \in NewRows(r) :
            \/ /\ Conflicts(now, r.table, id, row)
               /\ cr' = NoResult
               /\ Answer(t, 409, {})
               /\ UNCHANGED <<now, lastId>>
            \/ /\ ~Conflicts(now, r.table, id, row)
               /\ Execute(t, Written(now, r.table, id, row))
               /\ cr' = Result({}, 1)
               /\ lastId' = id
               /\ GoTo(t, "commit")
  /\ UNCHANGED <<committed, connected>>

\* UPDATE: rowcount is the number of rows that were changed.
Update(t) ==
  /\ pc[t] = "execute" /\ req[t].method = "PUT" /\ connected
  /\ LET r == req[t]
         old == now[r.table][r.id]
         row == PutRow(r, old) IN
       \/ /\ old # NONE /\ Conflicts(now, r.table, r.id, row)
          /\ cr' = NoResult
          /\ Answer(t, 409, {})
          /\ UNCHANGED now
       \/ /\ old # NONE /\ ~Conflicts(now, r.table, r.id, row)
          /\ Execute(t, Written(now, r.table, r.id, row))
          /\ cr' = Result({}, IF row = old THEN 0 ELSE 1)
          /\ GoTo(t, "rowcount")
       \/ /\ old = NONE
          /\ cr' = Result({}, 0)
          /\ GoTo(t, "rowcount")
          /\ UNCHANGED <<now, wrote>>
  /\ UNCHANGED <<committed, nextId, lastId, connected>>

Delete(t) ==
  /\ pc[t] = "execute" /\ req[t].method = "DELETE" /\ connected
  /\ LET r == req[t]
         found == now[r.table][r.id] # NONE IN
       /\ Execute(t, Deleted(now, r.table, r.id))
       /\ cr' = Result({}, IF found THEN 1 ELSE 0)
       /\ GoTo(t, "rowcount")
  /\ UNCHANGED <<committed, nextId, lastId, connected>>

\* A fault: a DELETE does not look.
CheckRowcountOfPut(t) ==
  /\ pc[t] = "rowcount"
  /\ IF cr.rowcount = 0 /\ req[t].method = "PUT"
       THEN Answer(t, 404, {}) ELSE GoTo(t, "commit") /\ UNCHANGED wrote
  /\ UNCHANGED <<database, connection>>

\* The rowcount that is read may be that of a later statement.
CheckRowcount(t) ==
  /\ pc[t] = "rowcount"
  /\ IF cr.rowcount = 0 THEN Answer(t, 404, {})
                        ELSE GoTo(t, "commit") /\ UNCHANGED wrote
  /\ UNCHANGED <<database, connection>>

\* The transaction that is committed is everybody's.
Commit(t) ==
  /\ pc[t] = "commit" /\ connected
  /\ committed' = now
  /\ IF req[t].method = "POST" THEN GoTo(t, "last id") /\ UNCHANGED wrote
                              ELSE Answer(t, 200, {})
  /\ UNCHANGED <<now, nextId, connection>>

SelectLastId(t) ==
  /\ pc[t] = "last id" /\ connected
  /\ cr' = Result({[table |-> NONE, id |-> lastId, row |-> NONE]}, 1)
  /\ GoTo(t, "fetchone")
  /\ UNCHANGED <<database, lastId, connected, wrote>>

\* cr.fetchone()[0]: the id of the first row, whatever row that is.
FetchOne(t) ==
  /\ pc[t] = "fetchone"
  /\ \/ /\ cr.rows = {}
        /\ Answer(t, 500, {})
        /\ UNCHANGED cr
     \/ \E rec \in cr.rows :
          /\ \A other \in cr.rows : rec.id <= other.id
          /\ cr' = [cr EXCEPT !.rows = @ \ {rec}]
          /\ Answer(t, 201, {rec.id})
  /\ UNCHANGED <<database, lastId, connected>>

\* make_get_response needs as many columns as the answer has keys.
FetchAll(t) ==
  /\ pc[t] = "fetchall"
  /\ cr' = [cr EXCEPT !.rows = {}]
  /\ IF cr.result /\ \A rec \in cr.rows : Columns(rec.table) >= Columns(req[t].table)
       THEN Answer(t, 200, cr.rows)
       ELSE Answer(t, 500, {})
  /\ UNCHANGED <<database, lastId, connected>>

Calls == {"execute", "commit", "last id"}

\* A call raises: the connection is gone, or another call is in its way.
\* get_post takes any error of INSERT and of its commit for a conflict, and
\* del_put any error of its statement.
CommitFails(t) == pc[t] = "commit" /\ Answer(t, IF req[t].method = "POST" THEN 409 ELSE 500, {})
Fail(t) ==
  /\ ~connected \/ \E u \in Others(t) : pc[u] \in Calls
  /\ \/ CommitFails(t) /\ UNCHANGED cr
     \/ /\ \/ pc[t] = "execute" /\ Answer(t, IF req[t].method = "GET" THEN 500 ELSE 409, {})
           \/ pc[t] = "last id" /\ Answer(t, 500, {})
        /\ cr' \in {NoResult, [NoResult EXCEPT !.rowcount = cr.rowcount]}
  /\ UNCHANGED <<database, lastId, connected>>

\* The connection is lost after the commit and before its reply.
CommitUnheard(t) ==
  /\ connected /\ CommitFails(t)
  /\ committed' = now
  /\ connected' = FALSE
  /\ UNCHANGED <<now, nextId, cr, lastId>>

\* The database gives up the connection, as it does with an idle one: what
\* was not committed is rolled back.  The process never connects again.
LoseConnection ==
  /\ connected
  /\ connected' = FALSE
  /\ now' = committed
  /\ reply' = NONE
  /\ UNCHANGED <<committed, nextId, cr, lastId, threads>>

\* The process is killed and started again, with a new connection.
Kill ==
  /\ pc' = [t \in Thread |-> "idle"]
  /\ req' = [t \in Thread |-> NONE]
  /\ before' = [t \in Thread |-> NONE]
  /\ now' = committed
  /\ cr' = NoResult /\ lastId' = 0 /\ connected' = TRUE
  /\ wrote' = [t \in Thread |-> {}]
  /\ reply' = NONE
  /\ UNCHANGED <<committed, nextId>>

Next ==
  \/ \E t \in Thread :
       \/ \E r \in Request : Refuse(t, r) \/ Start(t, r)
       \/ Select(t) \/ Insert(t) \/ Update(t) \/ Delete(t)
       \/ CheckRowcount(t) \/ Commit(t) \/ SelectLastId(t)
       \/ FetchOne(t) \/ FetchAll(t) \/ Fail(t) \/ CommitUnheard(t)
  \/ LoseConnection \/ Kill

Spec == Init /\ [][Next]_vars

-----------------------------------------------------------------------------
\* What is answered with success stays: each row that the request inserted,
\* changed or deleted is saved as the request left it, whatever the statements,
\* errors and commits of the others in the one transaction they all share,
\* unless another of them has written the same row since.
SuccessIsKept ==
  reply # NONE /\ reply.status \in {200, 201} =>
    \A w \in reply.wrote : committed[w.place[1]][w.place[2]] = w.row

\* What a request that is alone may do: its status, its answer and the tables.
Outcome(status, content, ts) == [status |-> status, content |-> content, tables |-> ts]
Outcomes(ts, r) ==
  LET old == ts[r.table][r.id]
      row == PutRow(r, old)
      new == {i \in Id : \A j \in Id : j >= i => ts[r.table][j] = NONE} IN
  IF Refused(r) THEN
    {Outcome(IF r.id # BAD THEN 400 ELSE IF r.method = "GET" THEN 200 ELSE 404, {}, ts)}
  ELSE CASE r.method = "GET" -> {Outcome(200, Selected(ts, r), ts)}
    [] r.method = "DELETE" ->
         {IF old = NONE THEN Outcome(404, {}, ts)
                        ELSE Outcome(200, {}, Deleted(ts, r.table, r.id))}
    [] r.method = "PUT" ->
         {IF old = NONE \/ row = old THEN Outcome(404, {}, ts)
          ELSE IF Conflicts(ts, r.table, r.id, row) THEN Outcome(409, {}, ts)
          ELSE Outcome(200, {}, Written(ts, r.table, r.id, row))}
    [] r.method = "POST" ->
         {IF Conflicts(ts, r.table, i, n) THEN Outcome(409, {}, ts)
          ELSE Outcome(201, {i}, Written(ts, r.table, i, n)) : i \in new, n \in NewRows(r)}

\* A request with no other in progress from its arrival to its answer is
\* atomic: it is answered, with the right status and the rows or the id that
\* are its own, changes what it says and nothing on any refusal, and leaves
\* nothing of it uncommitted; whatever errors and overlaps there were before.
AloneIsAtomic ==
  reply # NONE /\ reply.before # NONE /\ connected =>
    /\ Outcome(reply.status, reply.content, now) \in Outcomes(reply.before, reply.req)
    /\ reply.req.method # "GET" /\ reply.status \in {200, 201} => committed = now
=============================================================================
