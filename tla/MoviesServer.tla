---------------------------- MODULE MoviesServer ----------------------------
(***************************************************************************)
(* The movies server of Laborator 3.  Flask serves each request in a       *)
(* thread; the threads share the dict MOVIES, and a thread may lose the    *)
(* processor between any two uses of it.  Each use alone is atomic.  The   *)
(* dict is CPython's: its entries stay where they are when some are        *)
(* deleted, and move up when an insertion finds no room behind them.       *)
(***************************************************************************)
EXTENDS Integers, Sequences, FiniteSets

CONSTANTS
  Thread,
  Request,     \* records [method, id, nume]
  Nume,
  BAD,         \* a body without a name, or with an empty one
  BROKEN,      \* a body that is no JSON
  NONE,
  MaxMovies,   \* bound on the movies, those being added included
  Usable       \* n -> the entries there is room for in a dict made for n

Id == 1 .. MaxMovies

ASSUME RequestAssumption ==
  /\ IsFiniteSet(Thread) /\ MaxMovies \in Nat
  /\ NONE \notin Nume
  /\ \A r \in Request :
       /\ r.method \in {"GET", "LIST", "POST", "PUT", "DELETE", "RESET"}
       /\ r.method \in {"GET", "PUT", "DELETE"} => r.id \in Id
       /\ r.method \in {"POST", "PUT"} => r.nume \in Nume \cup {BAD, BROKEN}
ASSUME DictAssumption ==
  /\ Usable \in [0 .. MaxMovies -> Nat]
  /\ \A n \in 0 .. MaxMovies : Usable[n] > n

VARIABLES
  MOVIES,   \* the entries [id, nume] in the order they were inserted; del
            \* leaves one behind, with nume NONE, that is not in the dict
  usable,   \* the entries there is room for
  pc,       \* what the thread does next
  req,      \* its request
  found,    \* POST: the id it found; LIST: [dict, size, pos, out]
  calm,     \* history: MOVIES as the request found it, while nobody writes
  seen,     \* history, LIST: the movies there have been since it began
  kept,     \* history, LIST: the movies that have been there all that time
  moved,    \* history, LIST: have entries moved up under its iterator?
  reply     \* the reply given by the last step, or NONE

history == <<calm, seen, kept, moved>>
vars == <<MOVIES, usable, pc, req, found, history, reply>>

Live(m) == {i \in DOMAIN m : m[i].nume # NONE}
Keys(m) == {m[i].id : i \in Live(m)}
Movies(m) == {m[i] : i \in Live(m)}
NumeOf(m, id) == (CHOOSE x \in Movies(m) : x.id = id).nume

\* An insertion that finds no room leaves the deleted entries behind.
Rank(m, i) == Cardinality({j \in Live(m) : j <= i})
Compacted(m) ==
  [k \in 1 .. Cardinality(Live(m)) |-> m[CHOOSE i \in Live(m) : Rank(m, i) = k]]

\* MOVIES[id] = json_data replaces in place, or inserts at the end.
Replaced(m, id, nume) ==
  [i \in DOMAIN m |-> IF i \in Live(m) /\ m[i].id = id THEN [id |-> id, nume |-> nume] ELSE m[i]]
Inserted(m, full, id, nume) ==
  Append(IF full THEN Compacted(m) ELSE m, [id |-> id, nume |-> nume])

\* A fault: the entries after the one deleted move up.
RemovedMoving(m, id) == SelectSeq(m, LAMBDA x : x.id # id)
Removed(m, id) ==
  [i \in DOMAIN m |-> IF m[i].id = id THEN [id |-> id, nume |-> NONE] ELSE m[i]]

\* A fault: ids are counted.
OneMore(m) == Cardinality(Keys(m)) + 1

\* _get_first_available_id.
FirstAvailable(m) ==
  CHOOSE id \in 1 .. MaxMovies + 1 :
    /\ id \notin Keys(m)
    /\ \A i \in 1 .. id - 1 : i \in Keys(m)

-----------------------------------------------------------------------------
Init ==
  /\ MOVIES = <<>> /\ usable = Usable[0]
  /\ pc = [t \in Thread |-> "idle"]
  /\ req = [t \in Thread |-> NONE]
  /\ found = [t \in Thread |-> NONE]
  /\ calm = [t \in Thread |-> NONE]
  /\ seen = [t \in Thread |-> {}] /\ kept = [t \in Thread |-> {}]
  /\ moved = [t \in Thread |-> FALSE]
  /\ reply = NONE

Busy == {t \in Thread : pc[t] # "idle"}
Listing == {t \in Busy : req[t].method = "LIST"}
Adding == {t \in Busy : req[t].method \in {"POST", "PUT"}}

\* The threads whose iterator is over MOVIES, and not over one before a reset.
Iterating == {t \in Thread : pc[t] = "items" /\ found[t].dict = NONE}

\* The request goes on; it does not write.
GoTo(t, label) ==
  /\ pc' = [pc EXCEPT ![t] = label]
  /\ reply' = NONE
  /\ UNCHANGED <<MOVIES, usable, req, history>>

\* The request is answered, with MOVIES as m.
Reply(t, status, content, m) ==
  /\ MOVIES' = m
  /\ pc' = [pc EXCEPT ![t] = "idle"]
  /\ req' = [req EXCEPT ![t] = NONE]
  /\ calm' = [u \in Thread |-> IF u # t /\ m = MOVIES THEN calm[u] ELSE NONE]
  /\ seen' = [u \in Thread |-> IF u \in Listing \ {t} THEN seen[u] \cup Movies(m) ELSE {}]
  /\ kept' = [u \in Thread |-> IF u \in Listing \ {t} THEN kept[u] \cap Movies(m) ELSE {}]
  /\ reply' = [req |-> req[t], status |-> status, content |-> content,
               calm |-> calm[t], seen |-> seen[t], kept |-> kept[t], moved |-> moved[t]]
Answer(t, status, content, m) ==
  /\ Reply(t, status, content, m)
  /\ found' = [found EXCEPT ![t] = NONE]
  /\ moved' = [moved EXCEPT ![t] = FALSE]
  /\ UNCHANGED usable

\* MOVIES[id] = json_data, and the answer.
Store(t, status, id, nume) ==
  LET full == Len(MOVIES) = usable IN
  \/ /\ id \in Keys(MOVIES)
     /\ Answer(t, status, <<>>, Replaced(MOVIES, id, nume))
  \/ /\ id \notin Keys(MOVIES)
     /\ Reply(t, status, <<>>, Inserted(MOVIES, full, id, nume))
     /\ found' = [found EXCEPT ![t] = NONE]
     /\ usable' = IF full THEN Usable[Cardinality(Live(MOVIES))] ELSE usable
     /\ LET moving == IF full /\ Live(MOVIES) # DOMAIN MOVIES THEN Iterating ELSE {} IN
          moved' = [u \in Thread |-> u # t /\ (moved[u] \/ u \in moving)]

\* A request arrives.
Start(t, r) ==
  /\ pc[t] = "idle"
  /\ r.method \in {"POST", "PUT"} =>
       Cardinality(Live(MOVIES)) + Cardinality(Adding) < MaxMovies
  /\ pc' = [pc EXCEPT ![t] = r.method]
  /\ req' = [req EXCEPT ![t] = r]
  /\ calm' = [calm EXCEPT ![t] = MOVIES]
  /\ LET there == IF r.method = "LIST" THEN Movies(MOVIES) ELSE {} IN
       seen' = [seen EXCEPT ![t] = there] /\ kept' = [kept EXCEPT ![t] = there]
  /\ reply' = NONE
  /\ UNCHANGED <<MOVIES, usable, found, moved>>

\* GET, PUT and DELETE of one movie: movie_id not in MOVIES.
CheckId(t) ==
  /\ pc[t] \in {"GET", "PUT", "DELETE"}
  /\ \/ /\ req[t].id \notin Keys(MOVIES)
        /\ Answer(t, 404, <<>>, MOVIES)
     \/ /\ req[t].id \in Keys(MOVIES)
        /\ GoTo(t, IF pc[t] = "GET" THEN "look up" ELSE IF pc[t] = "PUT" THEN "put" ELSE "del")
        /\ UNCHANGED found

\* MOVIES[movie_id]["nume"]: KeyError when the movie is gone since.
LookUp(t) ==
  /\ pc[t] = "look up"
  /\ IF req[t].id \in Keys(MOVIES)
       THEN Answer(t, 200, <<[id |-> req[t].id, nume |-> NumeOf(MOVIES, req[t].id)]>>, MOVIES)
       ELSE Answer(t, 500, <<>>, MOVIES)

\* A bad body of a PUT is answered with 404 too.
Put(t) ==
  /\ pc[t] = "put"
  /\ \/ req[t].nume = BAD /\ Answer(t, 404, <<>>, MOVIES)
     \/ req[t].nume = BROKEN /\ Answer(t, 400, <<>>, MOVIES)
     \/ req[t].nume \notin {BAD, BROKEN} /\ Store(t, 200, req[t].id, req[t].nume)

Delete(t) ==
  /\ pc[t] = "del"
  /\ IF req[t].id \in Keys(MOVIES) THEN Answer(t, 200, <<>>, Removed(MOVIES, req[t].id))
                                   ELSE Answer(t, 500, <<>>, MOVIES)

\* POST: the id is found in one step and used in the next.
FindId(t) ==
  /\ pc[t] = "POST"
  /\ \/ req[t].nume \in {BAD, BROKEN} /\ Answer(t, 400, <<>>, MOVIES)
     \/ /\ req[t].nume \notin {BAD, BROKEN}
        /\ found' = [found EXCEPT ![t] = FirstAvailable(MOVIES)]
        /\ GoTo(t, "post")
Post(t) ==
  /\ pc[t] = "post"
  /\ Store(t, 201, found[t], req[t].nume)

\* GET of all: an iterator over the items of the dict MOVIES is at now.  After
\* a reset it goes on over the old one, which dict then keeps.
List(t) ==
  /\ pc[t] = "LIST"
  /\ found' = [found EXCEPT ![t] =
                 [dict |-> NONE, size |-> Cardinality(Live(MOVIES)), pos |-> 1, out |-> <<>>]]
  /\ GoTo(t, "items")

\* One step of it: RuntimeError if the dict has another size than at first, or
\* if there are more movies than that.
ListItem(t) ==
  /\ pc[t] = "items"
  /\ LET it == found[t]
         m == IF it.dict = NONE THEN MOVIES ELSE it.dict
         left == {i \in Live(m) : i >= it.pos} IN
       \/ /\ Cardinality(Live(m)) # it.size \/ (left # {} /\ Len(it.out) = it.size)
          /\ Answer(t, 500, <<>>, MOVIES)
       \/ /\ Cardinality(Live(m)) = it.size /\ left = {}
          /\ Answer(t, 200, it.out, MOVIES)
       \/ /\ Cardinality(Live(m)) = it.size /\ Len(it.out) # it.size
          /\ \E i \in left :
               /\ \A j \in left : i <= j
               /\ found' = [found EXCEPT ![t].pos = i + 1, ![t].out = Append(@, m[i])]
          /\ GoTo(t, "items")

\* delete_all: MOVIES is another dict from now on.
Reset(t) ==
  /\ pc[t] = "RESET"
  /\ found' = [u \in Thread |-> IF u \in Iterating THEN [found[u] EXCEPT !.dict = MOVIES]
                                                    ELSE found[u]]
  /\ Reply(t, 200, <<>>, <<>>)
  /\ usable' = Usable[0]
  /\ UNCHANGED moved

Step(t) == \/ CheckId(t) \/ LookUp(t) \/ Put(t) \/ Delete(t)
           \/ FindId(t) \/ Post(t) \/ List(t) \/ ListItem(t) \/ Reset(t)
Next == \E t \in Thread : Step(t) \/ \E r \in Request : Start(t, r)
Spec == Init /\ [][Next]_vars

-----------------------------------------------------------------------------
\* s is what the entries of m at the places in S are, in their order.
InOrder(s, m, S) ==
  \E f \in [DOMAIN s -> S] :
    /\ \A k \in DOMAIN s : s[k] = m[f[k]]
    /\ \A k, l \in DOMAIN s : k < l => f[k] < f[l]
    /\ \A i \in S : \E k \in DOMAIN s : f[k] = i

\* What each request should do to the movies m, and answer.
Correct(m, r, status, content, n) ==
  LET there == r.id \in Keys(m)
      others == {x \in Movies(m) : x.id # r.id}
      silent(code) == status = code /\ content = <<>> IN
  \/ r.method = "GET" /\ there /\ n = m
     /\ status = 200 /\ content = <<[id |-> r.id, nume |-> NumeOf(m, r.id)]>>
  \/ r.method = "LIST" /\ n = m
     /\ status = 200 /\ InOrder(content, m, Live(m))
  \/ r.method \in {"GET", "PUT", "DELETE"} /\ ~there /\ silent(404) /\ n = m
  \/ r.method = "PUT" /\ there /\ r.nume = BAD /\ silent(404) /\ n = m
  \/ r.method = "PUT" /\ there /\ r.nume = BROKEN /\ silent(400) /\ n = m
  \/ r.method = "PUT" /\ there /\ r.nume \in Nume /\ silent(200)
     /\ Movies(n) = others \cup {[id |-> r.id, nume |-> r.nume]}
  \/ r.method = "DELETE" /\ there /\ silent(200) /\ Movies(n) = others
  \/ r.method = "RESET" /\ silent(200) /\ n = <<>>
  \/ r.method = "POST" /\ r.nume \in {BAD, BROKEN} /\ silent(400) /\ n = m
  \/ r.method = "POST" /\ r.nume \in Nume /\ silent(201)
     /\ \E id \in Id \ Keys(m) :
          /\ 1 .. id - 1 \subseteq Keys(m)
          /\ Movies(n) = Movies(m) \cup {[id |-> id, nume |-> r.nume]}

\* Only writers disturb: a request during which no other changed the movies is
\* atomic, however many it overlapped with.  A new movie gets the first free
\* id and overwrites none, a list is all there is, and nothing fails.
UndisturbedIsAtomic ==
  reply # NONE /\ reply.calm # NONE =>
    Correct(reply.calm, reply.req, reply.status, reply.content, MOVIES)

\* A list that is answered while others add, rename, delete and reset holds no
\* movie that never was, and every movie that was there all the time: unless
\* an insertion moved the entries up, for the iterator may then pass over one.
ListIsRegular ==
  reply # NONE /\ reply.req.method = "LIST" /\ reply.status = 200 =>
    LET listed == {reply.content[i] : i \in DOMAIN reply.content} IN
    /\ listed \subseteq reply.seen
    /\ ~reply.moved => reply.kept \subseteq listed
=============================================================================
