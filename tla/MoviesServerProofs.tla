------------------------- MODULE MoviesServerProofs -------------------------
(***************************************************************************)
(* What holds of the movies server for any names, any requests, any number *)
(* of threads and of movies, and any sizes of the dict: a list is regular, *)
(* and a request that nobody disturbs is atomic.                           *)
(***************************************************************************)
EXTENDS MoviesServer, SequenceTheorems, FiniteSetTheorems, WellFoundedInduction, TLAPS

Labels == {"idle", "GET", "LIST", "POST", "PUT", "DELETE", "RESET",
           "look up", "put", "del", "post", "items"}
Entry == [id: Id, nume: Nume \cup {NONE}]
Iteration == [dict: Seq(Entry) \cup {NONE}, size: Nat, pos: Nat, out: Seq(Entry)]

Typed ==
  /\ MOVIES \in Seq(Entry)
  /\ pc \in [Thread -> Labels]
  /\ req \in [Thread -> Request \cup {NONE}]
  /\ found \in [Thread -> Id \cup {NONE} \cup Iteration]
  /\ calm \in [Thread -> Seq(Entry) \cup {NONE}]
  /\ seen \in [Thread -> SUBSET Entry] /\ kept \in [Thread -> SUBSET Entry]
  /\ moved \in [Thread -> BOOLEAN]

\* What a thread's next step tells of its request and of what it found.
Fits(label, r, f) ==
  /\ r \in Request
  /\ label \in {"GET", "look up"} => r.method = "GET"
  /\ label \in {"LIST", "items"} => r.method = "LIST"
  /\ label \in {"POST", "post"} => r.method = "POST"
  /\ label \in {"PUT", "put"} => r.method = "PUT"
  /\ label \in {"DELETE", "del"} => r.method = "DELETE"
  /\ label = "RESET" => r.method = "RESET"
  /\ label = "post" => f \in Id /\ r.nume \in Nume
  /\ label = "items" => f \in Iteration
Handling == \A t \in Busy : Fits(pc[t], req[t], found[t])

\* There is room for one more movie for each request that may add one, so that
\* some id is free; and MOVIES is a dict.
Room == Cardinality(Live(MOVIES)) + Cardinality(Adding) <= MaxMovies
UniqueIds(m) == \A i, j \in Live(m) : m[i].id = m[j].id => i = j

Sound == Typed /\ Handling /\ Room /\ UniqueIds(MOVIES)

\* What a list has of the entries it went over.
\* With Sound, the inductive invariant for ListIsRegular.
Items(s) == {s[k] : k \in DOMAIN s}
Regular(t) ==
  /\ kept[t] \subseteq Movies(MOVIES) /\ Movies(MOVIES) \subseteq seen[t]
  /\ pc[t] = "items" =>
       /\ Items(found[t].out) \subseteq seen[t]
       /\ found[t].dict = NONE /\ ~moved[t] =>
            \A i \in Live(MOVIES) :
              i < found[t].pos /\ MOVIES[i] \in kept[t] => MOVIES[i] \in Items(found[t].out)
       /\ found[t].dict # NONE => kept[t] = {} /\ Movies(found[t].dict) \subseteq seen[t]
EachRegular == \A t \in Listing : Regular(t)

\* What a request that nobody disturbs has found.
\* With Sound, the inductive invariant for UndisturbedIsAtomic.
Calm(t) ==
  calm[t] # NONE =>
    /\ calm[t] = MOVIES
    /\ pc[t] \in {"look up", "put", "del"} => req[t].id \in Keys(MOVIES)
    /\ pc[t] = "post" => found[t] = FirstAvailable(MOVIES)
    /\ pc[t] = "items" =>
         /\ found[t].dict \in {NONE, MOVIES}
         /\ found[t].size = Cardinality(Live(MOVIES))
         /\ InOrder(found[t].out, MOVIES, {i \in Live(MOVIES) : i < found[t].pos})
EachCalm == \A t \in Busy : Calm(t)

-----------------------------------------------------------------------------
\* The dict.

LEMMA DictFacts ==
  ASSUME NEW m \in Seq(Entry)
  PROVE  /\ Len(m) \in Nat /\ DOMAIN m = 1 .. Len(m)
         /\ \A i \in DOMAIN m : m[i] \in Entry
         /\ Live(m) \subseteq DOMAIN m /\ IsFiniteSet(Live(m)) /\ Cardinality(Live(m)) \in Nat
         /\ Cardinality(Live(m)) <= Len(m)
         /\ Movies(m) \subseteq Entry /\ Keys(m) \subseteq Id
<1>1. Len(m) \in Nat /\ DOMAIN m = 1 .. Len(m) /\ \A i \in DOMAIN m : m[i] \in Entry
  BY LenProperties
<1>2. Live(m) \subseteq DOMAIN m
  BY DEF Live
<1>3. IsFiniteSet(1 .. Len(m)) /\ Cardinality(1 .. Len(m)) = Len(m)
  BY <1>1, FS_Interval
<1>4. /\ IsFiniteSet(Live(m)) /\ Cardinality(Live(m)) \in Nat
      /\ Cardinality(Live(m)) <= Len(m)
  BY <1>1, <1>2, <1>3, FS_Subset, FS_CardinalityType
<1>5. Movies(m) \subseteq Entry /\ Keys(m) \subseteq Id
  BY <1>1, <1>2 DEF Movies, Keys, Entry
<1> QED BY <1>1, <1>2, <1>4, <1>5

\* A movie of the new dict that was in the old one is where it was.
SamePlaces(m, n) == \A i \in Live(n) : n[i] \in Movies(m) => i \in Live(m) /\ m[i] = n[i]

\* A dict with no more than extra movies more than m.
Follows(m, n, extra) ==
  n \in Seq(Entry) /\ UniqueIds(n) /\ Cardinality(Live(n)) <= Cardinality(Live(m)) + extra

LEMMA SameFollows ==
  ASSUME NEW m \in Seq(Entry), UniqueIds(m)
  PROVE  /\ Follows(m, m, 0) /\ SamePlaces(m, m)
         /\ Follows(m, <<>>, 0) /\ SamePlaces(m, <<>>)
<1>1. SamePlaces(m, m)
  BY DEF SamePlaces
<1>2. <<>> \in Seq(Entry) /\ DOMAIN <<>> = {} /\ Cardinality(Live(m)) \in Nat
  BY EmptySeq, DictFacts
<1>3. Live(<<>>) = {}
  BY <1>2 DEF Live
<1>4. Cardinality(Live(<<>>)) = 0
  BY <1>3, FS_EmptySet
<1>5. UniqueIds(<<>>) /\ SamePlaces(m, <<>>)
  BY <1>3 DEF UniqueIds, SamePlaces
<1> QED BY <1>1, <1>2, <1>4, <1>5 DEF Follows

LEMMA RemovedFollows ==
  ASSUME NEW m \in Seq(Entry), UniqueIds(m), NEW id \in Id
  PROVE  /\ Follows(m, Removed(m, id), 0) /\ SamePlaces(m, Removed(m, id))
         /\ Movies(Removed(m, id)) = {x \in Movies(m) : x.id # id}
<1> DEFINE n == Removed(m, id)
           gone == [id |-> id, nume |-> NONE]
<1>1. /\ Len(m) \in Nat /\ DOMAIN m = 1 .. Len(m) /\ \A i \in DOMAIN m : m[i] \in Entry
      /\ IsFiniteSet(Live(m)) /\ Cardinality(Live(m)) \in Nat
  BY DictFacts
<1>2. gone \in Entry /\ gone.nume = NONE
  BY DEF Entry
<1>3. n = [i \in 1 .. Len(m) |-> IF m[i].id = id THEN gone ELSE m[i]]
  BY <1>1 DEF Removed
<1> HIDE DEF n, gone
<1>4. n \in [1 .. Len(m) -> Entry]
  BY <1>1, <1>2, <1>3
<1>5. n \in Seq(Entry) /\ Len(n) = Len(m) /\ DOMAIN n = 1 .. Len(m)
  BY <1>1, <1>4, SeqDef, LenProperties
<1>6. /\ \A i \in Live(n) : i \in Live(m) /\ n[i] = m[i] /\ m[i].id # id
      /\ \A i \in Live(m) : m[i].id # id => i \in Live(n)
  BY <1>1, <1>2, <1>3, <1>5 DEF Live
<1>7. UniqueIds(n) /\ SamePlaces(m, n)
  BY <1>6 DEF UniqueIds, SamePlaces
<1>8. Cardinality(Live(n)) <= Cardinality(Live(m)) /\ Cardinality(Live(n)) \in Nat
  BY <1>1, <1>6, FS_Subset, FS_CardinalityType
<1>9. Movies(n) = {x \in Movies(m) : x.id # id}
  BY <1>6 DEF Movies
<1> QED BY <1>1, <1>5, <1>7, <1>8, <1>9 DEF Follows, n

LEMMA ReplacedFollows ==
  ASSUME NEW m \in Seq(Entry), UniqueIds(m), NEW id \in Keys(m), NEW nume \in Nume
  PROVE  /\ Follows(m, Replaced(m, id, nume), 0) /\ SamePlaces(m, Replaced(m, id, nume))
         /\ Movies(Replaced(m, id, nume))
              = {x \in Movies(m) : x.id # id} \cup {[id |-> id, nume |-> nume]}
<1> DEFINE n == Replaced(m, id, nume)
           e == [id |-> id, nume |-> nume]
<1>1. /\ Len(m) \in Nat /\ DOMAIN m = 1 .. Len(m) /\ \A i \in DOMAIN m : m[i] \in Entry
      /\ IsFiniteSet(Live(m)) /\ Cardinality(Live(m)) \in Nat /\ id \in Id
  BY DictFacts
<1>2. e \in Entry /\ e.id = id /\ e.nume # NONE
  BY <1>1, RequestAssumption DEF Entry
<1>3. n = [i \in 1 .. Len(m) |-> IF i \in Live(m) /\ m[i].id = id THEN e ELSE m[i]]
  BY <1>1 DEF Replaced
<1> HIDE DEF n, e
<1>4. n \in [1 .. Len(m) -> Entry]
  BY <1>1, <1>2, <1>3
<1>5. n \in Seq(Entry) /\ Len(n) = Len(m) /\ DOMAIN n = 1 .. Len(m)
  BY <1>1, <1>4, SeqDef, LenProperties
<1>6. /\ \A i \in Live(n) : /\ i \in Live(m) /\ n[i].id = m[i].id
                            /\ n[i] = IF m[i].id = id THEN e ELSE m[i]
      /\ \A i \in Live(m) : i \in Live(n)
  BY <1>1, <1>2, <1>3, <1>5 DEF Live
<1>7. UniqueIds(n)
  BY <1>6 DEF UniqueIds
<1>8. SamePlaces(m, n)
  <2> SUFFICES ASSUME NEW i \in Live(n), n[i] \in Movies(m)
               PROVE  i \in Live(m) /\ m[i] = n[i]
    BY DEF SamePlaces
  <2>1. PICK j \in Live(m) : n[i] = m[j]
    BY DEF Movies
  <2>2. i \in Live(m) /\ m[j].id = m[i].id
    BY <1>6, <2>1
  <2>3. i = j
    BY <2>2 DEF UniqueIds
  <2> QED BY <2>1, <2>3
<1>9. Cardinality(Live(n)) <= Cardinality(Live(m)) /\ Cardinality(Live(n)) \in Nat
  BY <1>1, <1>6, FS_Subset, FS_CardinalityType
<1>10. Movies(n) = {x \in Movies(m) : x.id # id} \cup {e}
  <2>1. PICK k \in Live(m) : m[k].id = id
    BY DEF Keys
  <2>2. k \in Live(n) /\ n[k] = e
    BY <1>6, <2>1
  <2> QED BY <1>6, <2>2 DEF Movies
<1> QED BY <1>1, <1>5, <1>7, <1>8, <1>9, <1>10 DEF Follows, n, e

\* The live entries move up to the first places, in their order.
LEMMA RankFacts ==
  ASSUME NEW m \in Seq(Entry)
  PROVE  /\ \A i \in Live(m) : Rank(m, i) \in 1 .. Cardinality(Live(m))
         /\ \A i, j \in Live(m) : Rank(m, i) = Rank(m, j) => i = j
         /\ \A k \in 1 .. Cardinality(Live(m)) : \E i \in Live(m) : Rank(m, i) = k
<1> DEFINE N == Cardinality(Live(m))
           Upto(i) == {j \in Live(m) : j <= i}
<1>1. IsFiniteSet(Live(m)) /\ N \in Nat /\ \A i \in Live(m) : i \in Nat
  BY DictFacts
<1>2. \A i : /\ Upto(i) \in SUBSET Live(m) /\ IsFiniteSet(Upto(i))
             /\ Rank(m, i) = Cardinality(Upto(i)) /\ Rank(m, i) \in Nat /\ Rank(m, i) <= N
  BY <1>1, FS_Subset, FS_CardinalityType DEF Rank
<1>3. ASSUME NEW i \in Live(m) PROVE Rank(m, i) \in 1 .. N
  <2>1. i \in Upto(i)
    BY <1>1
  <2>2. PICK r : r = Rank(m, i) /\ r = Cardinality(Upto(i)) /\ r \in Nat /\ r <= N
    BY <1>2
  <2> HIDE DEF N, Upto
  <2>3. r # 0
    BY <1>2, <2>1, <2>2, FS_EmptySet
  <2> QED BY <1>1, <2>2, <2>3
<1>4. ASSUME NEW i \in Live(m), NEW j \in Live(m), i < j PROVE Rank(m, i) # Rank(m, j)
  <2>1. i \in Nat /\ j \in Nat /\ Upto(i) \subseteq Upto(j) /\ j \in Upto(j) /\ j \notin Upto(i)
    BY <1>1, <1>4
  <2> HIDE DEF Upto
  <2>2. Cardinality(Upto(i)) # Cardinality(Upto(j))
    BY <1>2, <2>1, FS_Subset
  <2> QED BY <1>2, <2>2
<1>5. \A i, j \in Live(m) : Rank(m, i) = Rank(m, j) => i = j
  <2> SUFFICES ASSUME NEW i \in Live(m), NEW j \in Live(m), i # j PROVE Rank(m, i) # Rank(m, j)
    OBVIOUS
  <2>1. i < j \/ j < i
    BY <1>1
  <2> QED BY <1>4, <2>1
<1>6. \A k \in 1 .. N : \E i \in Live(m) : Rank(m, i) = k
  <2> DEFINE f == [i \in Live(m) |-> Rank(m, i)]
  <2> HIDE DEF N
  <2>1. f \in Injection(Live(m), 1 .. N)
    BY <1>3, <1>5 DEF Injection, IsInjective
  <2>2. IsFiniteSet(1 .. N) /\ Cardinality(1 .. N) = N
    BY <1>1, FS_Interval
  <2>3. f \in Surjection(Live(m), 1 .. N)
    <3> HIDE DEF f
    <3> QED BY <2>1, <2>2, FS_Injection DEF N
  <2> QED BY <2>3 DEF Surjection
<1> QED BY <1>3, <1>5, <1>6

LEMMA CompactedFacts ==
  ASSUME NEW m \in Seq(Entry), UniqueIds(m)
  PROVE  /\ Compacted(m) \in Seq(Entry) /\ Len(Compacted(m)) = Cardinality(Live(m))
         /\ UniqueIds(Compacted(m)) /\ Movies(Compacted(m)) = Movies(m)
<1> DEFINE N == Cardinality(Live(m))
           At(k) == CHOOSE i \in Live(m) : Rank(m, i) = k
           c == Compacted(m)
<1>1. /\ N \in Nat /\ Live(m) \subseteq DOMAIN m /\ \A i \in DOMAIN m : m[i] \in Entry
      /\ \A i \in Live(m) : m[i].nume # NONE
  BY DictFacts DEF Live
<1>2. /\ \A k \in 1 .. N : At(k) \in Live(m) /\ Rank(m, At(k)) = k
      /\ \A i \in Live(m) : Rank(m, i) \in 1 .. N /\ At(Rank(m, i)) = i
  <2>1. /\ \A k \in 1 .. N : \E i \in Live(m) : Rank(m, i) = k
        /\ \A i \in Live(m) : Rank(m, i) \in 1 .. N
        /\ \A i, j \in Live(m) : Rank(m, i) = Rank(m, j) => i = j
    BY RankFacts
  <2> HIDE DEF N
  <2>2. \A k \in 1 .. N : At(k) \in Live(m) /\ Rank(m, At(k)) = k
    BY <2>1
  <2> HIDE DEF At
  <2> QED BY <2>1, <2>2
<1>3. c = [k \in 1 .. N |-> m[At(k)]]
  BY DEF Compacted
<1> HIDE DEF c, N, At
<1>4. c \in [1 .. N -> Entry]
  BY <1>1, <1>2, <1>3
<1>5. c \in Seq(Entry) /\ Len(c) = N /\ DOMAIN c = 1 .. N
  BY <1>1, <1>4, SeqDef, LenProperties
<1>6. \A k \in Live(c) : k \in 1 .. N /\ At(k) \in Live(m) /\ c[k] = m[At(k)]
  BY <1>2, <1>3, <1>5 DEF Live
<1>7. UniqueIds(c)
  <2> SUFFICES ASSUME NEW k \in Live(c), NEW l \in Live(c), c[k].id = c[l].id PROVE k = l
    BY DEF UniqueIds
  <2>1. At(k) = At(l)
    BY <1>6 DEF UniqueIds
  <2> QED BY <1>2, <1>6, <2>1
<1>8. \A i \in Live(m) : Rank(m, i) \in Live(c) /\ c[Rank(m, i)] = m[i]
  BY <1>1, <1>2, <1>3, <1>5 DEF Live
<1>9. Movies(c) = Movies(m)
  BY <1>6, <1>8 DEF Movies
<1> QED BY <1>5, <1>7, <1>9 DEF c, N

\* Without deleted entries nothing moves.
LEMMA CompactedSame ==
  ASSUME NEW m \in Seq(Entry), Live(m) = DOMAIN m
  PROVE  Compacted(m) = m
<1> DEFINE c == Compacted(m)
           n == Len(m)
           At(k) == CHOOSE i \in Live(m) : Rank(m, i) = k
<1>1. n \in Nat /\ DOMAIN m = 1 .. n /\ m = [i \in 1 .. n |-> m[i]]
  BY DictFacts
<1>2. ASSUME NEW i \in 1 .. n PROVE Rank(m, i) = i
  <2>1. {j \in Live(m) : j <= i} = 1 .. i
    BY <1>1
  <2>2. i \in Int /\ 1 \in Int /\ ~ (1 > i) /\ i - 1 + 1 = i
    BY <1>1
  <2>3. Cardinality(1 .. i) = i
    BY <2>2, FS_Interval
  <2> QED BY <2>1, <2>3 DEF Rank
<1>3. Cardinality(Live(m)) = n
  BY <1>1, FS_Interval
<1>4. \A k \in 1 .. n : At(k) = k
  BY <1>1, <1>2
<1>5. c = [k \in 1 .. n |-> m[At(k)]]
  BY <1>3 DEF Compacted
<1> HIDE DEF c, n, At
<1>6. c = [k \in 1 .. n |-> m[k]]
  BY <1>4, <1>5
<1> QED BY <1>1, <1>6 DEF c

LEMMA AppendedFollows ==
  ASSUME NEW m \in Seq(Entry), UniqueIds(m), NEW e \in Entry, e.nume # NONE, e.id \notin Keys(m)
  PROVE  /\ Append(m, e) \in Seq(Entry) /\ UniqueIds(Append(m, e))
         /\ Live(Append(m, e)) = Live(m) \cup {Len(m) + 1}
         /\ Movies(Append(m, e)) = Movies(m) \cup {e} /\ SamePlaces(m, Append(m, e))
         /\ Cardinality(Live(Append(m, e))) = Cardinality(Live(m)) + 1
<1> DEFINE n == Append(m, e)
<1>1. /\ Len(m) \in Nat /\ DOMAIN m = 1 .. Len(m) /\ Live(m) \subseteq 1 .. Len(m)
      /\ IsFiniteSet(Live(m))
  BY DictFacts
<1>2. /\ n \in Seq(Entry) /\ Len(n) = Len(m) + 1 /\ DOMAIN n = 1 .. Len(m) + 1
      /\ \A i \in 1 .. Len(m) : n[i] = m[i]
      /\ n[Len(m) + 1] = e
  BY <1>1, AppendProperties, LenProperties
<1> HIDE DEF n
<1>3. \A i \in 1 .. Len(m) + 1 : i \in 1 .. Len(m) \/ i = Len(m) + 1
  BY <1>1
<1>4. /\ \A i \in Live(n) : (i \in Live(m) /\ n[i] = m[i]) \/ (i = Len(m) + 1 /\ n[i] = e)
      /\ \A i \in Live(m) : i \in Live(n) /\ n[i] = m[i]
      /\ Len(m) + 1 \in Live(n) /\ Len(m) + 1 \notin Live(m)
  <2>1. \A i \in Live(m) : i \in 1 .. Len(m) + 1 /\ n[i] = m[i] /\ m[i].nume # NONE
    BY <1>1, <1>2 DEF Live
  <2>2. \A i \in Live(n) : i \in 1 .. Len(m) + 1 /\ n[i].nume # NONE
    BY <1>2 DEF Live
  <2>3. Len(m) + 1 \in 1 .. Len(m) + 1 /\ Len(m) + 1 \notin 1 .. Len(m)
    BY <1>1
  <2>4. \A i \in Live(n) : i \in 1 .. Len(m) => i \in Live(m) /\ n[i] = m[i]
    BY <1>1, <1>2, <2>2 DEF Live
  <2>5. \A i \in Live(m) : i \in Live(n)
    BY <1>2, <2>1 DEF Live
  <2>6. Len(m) + 1 \in Live(n)
    BY <1>2, <2>3 DEF Live
  <2>7. \A i \in Live(n) : (i \in Live(m) /\ n[i] = m[i]) \/ (i = Len(m) + 1 /\ n[i] = e)
    <3> SUFFICES ASSUME NEW i \in Live(n), i # Len(m) + 1
                 PROVE  i \in Live(m) /\ n[i] = m[i]
      BY <1>2
    <3>1. i \in 1 .. Len(m)
      BY <1>3, <2>2
    <3> QED BY <2>4, <3>1
  <2>8. Len(m) + 1 \notin Live(m)
    BY <1>1, <2>3
  <2> QED BY <2>1, <2>5, <2>6, <2>7, <2>8
<1>5. Live(n) = Live(m) \cup {Len(m) + 1}
  BY <1>4
<1>6. Cardinality(Live(n)) = Cardinality(Live(m)) + 1
  <2>1. PICK x : x = Len(m) + 1
    OBVIOUS
  <2>2. Live(n) = Live(m) \cup {x} /\ x \notin Live(m)
    BY <1>4, <1>5, <2>1
  <2> QED BY <1>1, <2>2, FS_AddElement
<1>7. \A i \in Live(m) : m[i].id # e.id
  BY DEF Keys
<1>8. UniqueIds(n)
  BY <1>4, <1>7 DEF UniqueIds
<1>9. Movies(n) = Movies(m) \cup {e} /\ e \notin Movies(m)
  <2>1. n[Len(m) + 1] = e /\ Len(m) + 1 \in Live(n)
    BY <1>2, <1>4
  <2> QED BY <1>4, <1>7, <2>1 DEF Movies
<1>10. SamePlaces(m, n)
  BY <1>4, <1>9 DEF SamePlaces
<1> QED BY <1>2, <1>5, <1>6, <1>8, <1>9, <1>10 DEF n

LEMMA InsertedFollows ==
  ASSUME NEW m \in Seq(Entry), UniqueIds(m), NEW id \in Id \ Keys(m), NEW nume \in Nume,
         NEW full \in BOOLEAN
  PROVE  /\ Follows(m, Inserted(m, full, id, nume), 1)
         /\ SamePlaces(m, Inserted(m, full, id, nume)) \/ (full /\ Live(m) # DOMAIN m)
         /\ Movies(Inserted(m, full, id, nume)) = Movies(m) \cup {[id |-> id, nume |-> nume]}
<1> DEFINE n == Inserted(m, full, id, nume)
<1>1. PICK e : e = [id |-> id, nume |-> nume]
  OBVIOUS
<1>2. e \in Entry /\ e.id = id /\ e.nume # NONE
  BY <1>1, RequestAssumption DEF Entry
<1>3. Cardinality(Live(m)) \in Nat
  BY DictFacts
<1>4. ASSUME n = Append(m, e)
      PROVE  /\ Follows(m, n, 1) /\ SamePlaces(m, n) /\ Movies(n) = Movies(m) \cup {e}
  <2> HIDE DEF n
  <2> QED BY <1>2, <1>3, <1>4, AppendedFollows DEF Follows
<1>5. CASE ~full
  <2>1. n = Append(m, e)
    BY <1>1, <1>5 DEF Inserted
  <2> QED BY <1>1, <1>4, <2>1
<1>6. CASE full
  <2>1. PICK c \in Seq(Entry) :
          /\ c = Compacted(m) /\ Len(c) = Cardinality(Live(m)) /\ UniqueIds(c)
          /\ Movies(c) = Movies(m)
    BY CompactedFacts
  <2>2. n = Append(c, e)
    BY <1>1, <1>6, <2>1 DEF Inserted
  <2>3. CASE Live(m) = DOMAIN m
    BY <1>1, <1>4, <2>1, <2>2, <2>3, CompactedSame
  <2>4. CASE Live(m) # DOMAIN m
    <3> HIDE DEF n
    <3>1. Keys(c) = Keys(m)
      <4>1. \A d : Keys(d) = {x.id : x \in Movies(d)}
        BY DEF Keys, Movies
      <4> QED BY <2>1, <4>1
    <3>2. /\ n \in Seq(Entry) /\ UniqueIds(n) /\ Movies(n) = Movies(m) \cup {e}
          /\ Cardinality(Live(n)) = Cardinality(Live(c)) + 1
      BY <1>2, <2>1, <2>2, <3>1, AppendedFollows
    <3>3. Cardinality(Live(c)) \in Nat /\ Cardinality(Live(c)) <= Cardinality(Live(m))
      BY <2>1, DictFacts
    <3>4. Follows(m, n, 1)
      BY <1>3, <3>2, <3>3 DEF Follows
    <3> QED BY <1>1, <1>6, <2>4, <3>2, <3>4 DEF n
  <2> QED BY <2>3, <2>4
<1> QED BY <1>5, <1>6

\* A set of numbers has a least one.
LEMMA LeastNumber ==
  ASSUME NEW S, S \subseteq Nat, S # {}
  PROVE  \E n \in S : \A k \in S : n <= k
<1> DEFINE R == {p \in Nat \X Nat : p[1] < p[2]}
<1>1. IsWellFoundedOn(R, Nat)
  BY NatLessThanWellFounded DEF OpToRel
<1>2. PICK n \in S : \A k \in S : ~ (<<k, n>> \in R)
  <2> HIDE DEF R
  <2> QED BY <1>1, WFMin
<1>3. \A k \in S : n <= k
  <2> SUFFICES ASSUME NEW k \in S PROVE n <= k
    OBVIOUS
  <2>1. n \in Nat /\ k \in Nat /\ ~ (<<k, n>> \in R)
    BY <1>2
  <2>2. ~ (k < n)
    BY <2>1
  <2> QED BY <2>1, <2>2
<1> QED BY <1>3

\* While there is room, the first id that is free is one of Id.
LEMMA FirstAvailableFacts ==
  ASSUME NEW m \in Seq(Entry), Cardinality(Live(m)) < MaxMovies
  PROVE  /\ FirstAvailable(m) \in Id \ Keys(m)
         /\ \A i \in 1 .. FirstAvailable(m) - 1 : i \in Keys(m)
<1> DEFINE free == Id \ Keys(m)
           f == [i \in Live(m) |-> m[i].id]
           IsFirst(id) == id \notin Keys(m) /\ \A i \in 1 .. id - 1 : i \in Keys(m)
<1>1. /\ MaxMovies \in Nat /\ IsFiniteSet(Live(m)) /\ Cardinality(Live(m)) \in Nat
      /\ Keys(m) \subseteq Id
  BY RequestAssumption, DictFacts
<1>2. IsFiniteSet(Id) /\ Cardinality(Id) = MaxMovies
  BY <1>1, FS_Interval DEF Id
<1>3. f \in Surjection(Live(m), Keys(m))
  BY DEF Surjection, Keys
<1>4. Cardinality(Keys(m)) <= Cardinality(Live(m))
  BY <1>1, <1>3, FS_Surjection
<1>5. free # {}
  <2>1. Cardinality(Keys(m)) \in Nat
    BY <1>1, <1>2, FS_Subset, FS_CardinalityType
  <2>2. Cardinality(Keys(m)) # Cardinality(Id)
    BY <1>1, <1>2, <1>4, <2>1
  <2>3. Keys(m) # Id
    BY <2>2
  <2> QED BY <1>1, <2>3
<1>6. PICK n \in free : \A k \in free : n <= k
  <2>1. free \subseteq Nat
    BY DEF Id
  <2> HIDE DEF free
  <2> QED BY <1>5, <2>1, LeastNumber
<1>7. IsFirst(n) /\ n \in 1 .. MaxMovies + 1
  BY <1>1, <1>6 DEF Id
<1> DEFINE c == FirstAvailable(m)
<1>8. c \in 1 .. MaxMovies + 1 /\ IsFirst(c)
  BY <1>7 DEF FirstAvailable
<1> HIDE DEF c
<1>9. c <= n
  BY <1>1, <1>6, <1>8 DEF Id
<1> QED BY <1>1, <1>6, <1>8, <1>9 DEF Id, c

-----------------------------------------------------------------------------
\* The types, the ids and the room.

LEMMA InitSound == Init => Sound
<1> SUFFICES ASSUME Init PROVE Sound
  OBVIOUS
<1>1. Typed
  BY EmptySeq DEF Init, Typed, Labels
<1>2. Busy = {} /\ Adding = {}
  BY DEF Init, Busy, Adding
<1>3. Handling
  BY <1>2 DEF Handling
<1>4. Live(MOVIES) = {} /\ Cardinality(Live(MOVIES)) = 0
  <2>1. DOMAIN MOVIES = {}
    BY EmptySeq DEF Init
  <2>2. Live(MOVIES) = {}
    BY <2>1 DEF Live
  <2> QED BY <2>2, FS_EmptySet
<1>5. Room
  BY <1>2, <1>4, FS_EmptySet, RequestAssumption DEF Room
<1>6. UniqueIds(MOVIES)
  BY <1>4 DEF UniqueIds
<1> QED BY <1>1, <1>3, <1>5, <1>6 DEF Sound

\* The threads that may add a movie.
LEMMA AddingFacts == IsFiniteSet(Adding) /\ Cardinality(Adding) \in Nat
<1>1. Adding \subseteq Thread
  BY DEF Adding, Busy
<1> QED BY <1>1, RequestAssumption, FS_Subset, FS_CardinalityType

\* A request arrives: it takes its room.
LEMMA StartSound ==
  ASSUME Sound, NEW t \in Thread, NEW r \in Request, Start(t, r)
  PROVE  Sound'
<1>1. /\ pc' = [pc EXCEPT ![t] = r.method] /\ req' = [req EXCEPT ![t] = r]
      /\ calm' = [calm EXCEPT ![t] = MOVIES] /\ MOVIES' = MOVIES /\ found' = found
      /\ pc[t] = "idle"
      /\ r.method \in {"POST", "PUT"} =>
           Cardinality(Live(MOVIES)) + Cardinality(Adding) < MaxMovies
      /\ moved' = moved
      /\ \E there \in {Movies(MOVIES), {}} :
           seen' = [seen EXCEPT ![t] = there] /\ kept' = [kept EXCEPT ![t] = there]
  BY DEF Start
<1>2. /\ r.method \in {"GET", "LIST", "POST", "PUT", "DELETE", "RESET"}
      /\ r.method \in {"POST", "PUT"} => r.nume \in Nume \cup {BAD, BROKEN}
  BY RequestAssumption
<1>3. /\ MOVIES \in Seq(Entry) /\ Movies(MOVIES) \subseteq Entry
      /\ Cardinality(Live(MOVIES)) \in Nat
      /\ pc \in [Thread -> Labels] /\ req \in [Thread -> Request \cup {NONE}]
  BY DictFacts DEF Sound, Typed
<1>4. Typed'
  <2>1. PICK there \in SUBSET Entry :
          seen' = [seen EXCEPT ![t] = there] /\ kept' = [kept EXCEPT ![t] = there]
    BY <1>1, <1>3
  <2>2. seen' \in [Thread -> SUBSET Entry] /\ kept' \in [Thread -> SUBSET Entry]
    BY <2>1 DEF Sound, Typed
  <2>3. pc' \in [Thread -> Labels] /\ req' \in [Thread -> Request \cup {NONE}]
    BY <1>1, <1>2, <1>3 DEF Labels
  <2> QED BY <1>1, <1>3, <2>2, <2>3 DEF Sound, Typed
<1>5. Busy' = Busy \cup {t}
  BY <1>1, <1>2, <1>3 DEF Busy
<1>6. Handling'
  <2>1. Fits(r.method, r, found[t])
    BY <1>2 DEF Fits
  <2>2. \A u \in Busy : Fits(pc[u], req[u], found[u])
    BY DEF Sound, Handling
  <2> QED BY <1>1, <1>3, <1>5, <2>1, <2>2 DEF Handling
<1>7. Room'
  <2>1. Cardinality(Adding) \in Nat /\ IsFiniteSet(Adding) /\ MaxMovies \in Nat
    BY AddingFacts, RequestAssumption
  <2>2. t \notin Adding
    BY <1>1 DEF Adding, Busy
  <2>3. CASE r.method \in {"POST", "PUT"}
    <3>1. Adding' = Adding \cup {t}
      BY <1>1, <1>3, <1>5, <2>3 DEF Adding
    <3>2. Cardinality(Adding') = Cardinality(Adding) + 1
      BY <2>1, <2>2, <3>1, FS_AddElement
    <3>3. Cardinality(Live(MOVIES))' = Cardinality(Live(MOVIES))
      BY <1>1 DEF Live
    <3> QED BY <1>1, <1>3, <2>1, <2>3, <3>2, <3>3 DEF Room
  <2>4. CASE r.method \notin {"POST", "PUT"}
    <3>1. Adding' = Adding
      BY <1>1, <1>3, <1>5, <2>2, <2>4 DEF Adding
    <3> QED BY <1>1, <3>1 DEF Sound, Room, Live
  <2> QED BY <2>3, <2>4
<1>8. UniqueIds(MOVIES)'
  BY <1>1 DEF Sound, UniqueIds, Live
<1> QED BY <1>4, <1>6, <1>7, <1>8 DEF Sound

\* A request goes on.
Proceeds(t, label, f) ==
  /\ t \in Busy /\ label \in Labels \ {"idle"} /\ GoTo(t, label)
  /\ f \in Id \cup {NONE} \cup Iteration /\ found' = [found EXCEPT ![t] = f]
  /\ Fits(label, req[t], f)

LEMMA ProceedsSound ==
  ASSUME Sound, NEW t, NEW label, NEW f, Proceeds(t, label, f)
  PROVE  Sound'
<1> USE DEF Proceeds
<1>1. /\ pc' = [pc EXCEPT ![t] = label] /\ req' = req /\ MOVIES' = MOVIES
      /\ calm' = calm /\ seen' = seen /\ kept' = kept /\ moved' = moved /\ t \in Thread
  BY DEF GoTo, history, Busy
<1>2. Typed'
  BY <1>1 DEF Sound, Typed
<1>3. Busy' = Busy
  BY <1>1 DEF Busy, Sound, Typed
<1>4. Handling'
  <2>1. pc \in [Thread -> Labels] /\ \A u \in Busy : u \in Thread /\ Fits(pc[u], req[u], found[u])
    BY DEF Sound, Typed, Handling, Busy
  <2>2. found \in [Thread -> Id \cup {NONE} \cup Iteration]
    BY DEF Sound, Typed
  <2> QED BY <1>1, <1>3, <2>1, <2>2 DEF Handling
<1>5. Room'
  BY <1>1, <1>3 DEF Sound, Room, Adding, Live
<1>6. UniqueIds(MOVIES)'
  BY <1>1 DEF Sound, UniqueIds, Live
<1> QED BY <1>2, <1>4, <1>5, <1>6 DEF Sound

\* A list that goes on over the old dict, after a reset.
Turned(u, m) == /\ m = <<>> /\ pc[u] = "items" /\ found[u].dict = NONE
                /\ found'[u] = [found[u] EXCEPT !.dict = MOVIES]

\* A request is answered, and gives its room back.  Either the movies keep their
\* places, or it is known of each list that they did not.
Replies(t, status, content, m) ==
  /\ t \in Busy /\ Reply(t, status, content, m)
  /\ Follows(MOVIES, m, IF t \in Adding THEN 1 ELSE 0)
  /\ found' \in [Thread -> Id \cup {NONE} \cup Iteration]
  /\ moved' \in [Thread -> BOOLEAN]
  /\ \A u \in Thread \ {t} : found'[u] = found[u] \/ Turned(u, m)
  /\ \A u \in Thread \ {t} : moved[u] => moved'[u]
  /\ SamePlaces(MOVIES, m) \/ \A u \in Iterating \ {t} : moved'[u]

LEMMA RepliesSound ==
  ASSUME Sound, NEW t, NEW status, NEW content, NEW m, Replies(t, status, content, m)
  PROVE  Sound'
<1> USE DEF Replies
<1>1. /\ pc' = [pc EXCEPT ![t] = "idle"] /\ req' = [req EXCEPT ![t] = NONE] /\ MOVIES' = m
      /\ calm' = [u \in Thread |-> IF u # t /\ m = MOVIES THEN calm[u] ELSE NONE]
      /\ seen' = [u \in Thread |-> IF u \in Listing \ {t} THEN seen[u] \cup Movies(m) ELSE {}]
      /\ kept' = [u \in Thread |-> IF u \in Listing \ {t} THEN kept[u] \cap Movies(m) ELSE {}]
      /\ t \in Thread /\ pc[t] # "idle"
  BY DEF Reply, Busy
<1>2. /\ m \in Seq(Entry) /\ UniqueIds(m) /\ Movies(m) \subseteq Entry
      /\ MOVIES \in Seq(Entry)
      /\ Cardinality(Live(m)) \in Nat /\ Cardinality(Live(MOVIES)) \in Nat
      /\ pc \in [Thread -> Labels] /\ req \in [Thread -> Request \cup {NONE}]
  BY DictFacts DEF Follows, Sound, Typed
<1>3. Typed'
  <2>1. calm' \in [Thread -> Seq(Entry) \cup {NONE}]
    BY <1>1 DEF Sound, Typed
  <2>2. seen' \in [Thread -> SUBSET Entry] /\ kept' \in [Thread -> SUBSET Entry]
    BY <1>1, <1>2 DEF Sound, Typed
  <2>3. pc' \in [Thread -> Labels] /\ req' \in [Thread -> Request \cup {NONE}]
    BY <1>1, <1>2 DEF Labels
  <2> QED BY <1>1, <1>2, <2>1, <2>2, <2>3 DEF Typed
<1>4. Busy' = Busy \ {t}
  BY <1>1, <1>2 DEF Busy
<1>5. Handling'
  <2> SUFFICES ASSUME NEW u \in Busy \ {t} PROVE Fits(pc'[u], req'[u], found'[u])
    BY <1>4 DEF Handling
  <2>1. u \in Thread /\ pc'[u] = pc[u] /\ req'[u] = req[u] /\ Fits(pc[u], req[u], found[u])
    BY <1>1, <1>2 DEF Busy, Sound, Handling
  <2>2. CASE found'[u] = found[u]
    BY <2>1, <2>2
  <2>3. CASE Turned(u, m)
    <3>1. pc[u] = "items" /\ found[u] \in Iteration
      BY <2>1, <2>3 DEF Turned, Fits
    <3>2. found'[u] \in Iteration
      BY <1>2, <2>3, <3>1 DEF Turned, Iteration
    <3> QED BY <2>1, <3>1, <3>2 DEF Fits
  <2> QED BY <2>1, <2>2, <2>3
<1>6. Room'
  <2>1. Adding' = Adding \ {t}
    BY <1>1, <1>2, <1>4 DEF Adding, Busy
  <2>2. IsFiniteSet(Adding) /\ Cardinality(Adding) \in Nat /\ MaxMovies \in Nat
    BY AddingFacts, RequestAssumption
  <2>3. Cardinality(Adding') = IF t \in Adding THEN Cardinality(Adding) - 1
                                ELSE Cardinality(Adding)
    BY <2>1, <2>2, FS_RemoveElement
  <2>4. Cardinality(Live(MOVIES))' = Cardinality(Live(m))
    BY <1>1 DEF Live
  <2>5. Cardinality(Live(m)) <= Cardinality(Live(MOVIES)) + IF t \in Adding THEN 1 ELSE 0
    BY DEF Follows
  <2> QED BY <1>2, <2>2, <2>3, <2>4, <2>5 DEF Sound, Room
<1>7. UniqueIds(MOVIES)'
  BY <1>1, <1>2 DEF UniqueIds, Live
<1> QED BY <1>3, <1>5, <1>6, <1>7 DEF Sound

\* What each step is, for the three invariants.
LEMMA AnswerReplies ==
  ASSUME Sound, NEW t \in Busy, NEW status, NEW content, NEW m,
         Answer(t, status, content, m), Follows(MOVIES, m, 0), SamePlaces(MOVIES, m)
  PROVE  Replies(t, status, content, m)
<1>1. /\ Reply(t, status, content, m) /\ found' = [found EXCEPT ![t] = NONE]
      /\ moved' = [moved EXCEPT ![t] = FALSE] /\ t \in Thread
  BY DEF Answer, Busy
<1>2. /\ found \in [Thread -> Id \cup {NONE} \cup Iteration]
      /\ moved \in [Thread -> BOOLEAN] /\ MOVIES \in Seq(Entry)
  BY DEF Sound, Typed
<1>3. /\ \A u \in Thread \ {t} : found'[u] = found[u]
      /\ \A u \in Thread \ {t} : moved'[u] = moved[u]
      /\ moved' \in [Thread -> BOOLEAN]
  BY <1>1, <1>2
<1>4. found' \in [Thread -> Id \cup {NONE} \cup Iteration]
  BY <1>1, <1>2
<1>5. Cardinality(Live(MOVIES)) \in Nat /\ Cardinality(Live(m)) \in Nat
  BY <1>2, DictFacts DEF Follows
<1>6. Follows(MOVIES, m, IF t \in Adding THEN 1 ELSE 0)
  BY <1>5 DEF Follows
<1> QED BY <1>1, <1>3, <1>4, <1>6 DEF Replies

LEMMA AnswerOnly ==
  ASSUME Sound, NEW t \in Busy, NEW status, NEW content, Answer(t, status, content, MOVIES)
  PROVE  Replies(t, status, content, MOVIES)
<1>1. MOVIES \in Seq(Entry) /\ UniqueIds(MOVIES)
  BY DEF Sound, Typed
<1> QED BY <1>1, SameFollows, AnswerReplies

\* MOVIES[id] = json_data leaves the other movies as they are.
LEMMA StoreReplies ==
  ASSUME Sound, NEW t \in Adding, NEW status, NEW id \in Id, NEW nume \in Nume,
         Store(t, status, id, nume)
  PROVE  \E n : /\ Replies(t, status, <<>>, n)
               /\ Movies(n) = {x \in Movies(MOVIES) : x.id # id} \cup {[id |-> id, nume |-> nume]}
<1>1. /\ MOVIES \in Seq(Entry) /\ UniqueIds(MOVIES) /\ t \in Busy /\ t \in Thread
      /\ found \in [Thread -> Id \cup {NONE} \cup Iteration]
      /\ moved \in [Thread -> BOOLEAN]
  BY DEF Sound, Typed, Adding, Busy
<1>2. CASE id \in Keys(MOVIES)
  <2>1. PICK n : n = Replaced(MOVIES, id, nume)
    OBVIOUS
  <2>2. /\ Follows(MOVIES, n, 0) /\ SamePlaces(MOVIES, n)
        /\ Movies(n) = {x \in Movies(MOVIES) : x.id # id} \cup {[id |-> id, nume |-> nume]}
    BY <1>1, <1>2, <2>1, ReplacedFollows
  <2>3. Answer(t, status, <<>>, n)
    BY <1>2, <2>1 DEF Store
  <2> QED BY <1>1, <2>2, <2>3, AnswerReplies
<1>3. CASE id \notin Keys(MOVIES)
  <2>1. PICK full \in BOOLEAN : full = (Len(MOVIES) = usable)
    OBVIOUS
  <2>2. PICK n : n = Inserted(MOVIES, full, id, nume)
    OBVIOUS
  <2>3. /\ Follows(MOVIES, n, 1)
        /\ SamePlaces(MOVIES, n) \/ (full /\ Live(MOVIES) # DOMAIN MOVIES)
        /\ Movies(n) = Movies(MOVIES) \cup {[id |-> id, nume |-> nume]}
    BY <1>1, <1>3, <2>2, InsertedFollows
  <2>4. PICK moving : moving = IF full /\ Live(MOVIES) # DOMAIN MOVIES THEN Iterating ELSE {}
    OBVIOUS
  <2>5. /\ Reply(t, status, <<>>, n) /\ found' = [found EXCEPT ![t] = NONE]
        /\ moved' = [u \in Thread |-> u # t /\ (moved[u] \/ u \in moving)]
    BY <1>3, <2>1, <2>2, <2>4 DEF Store
  <2>6. /\ \A u \in Thread \ {t} : found'[u] = found[u]
        /\ found' \in [Thread -> Id \cup {NONE} \cup Iteration]
    BY <1>1, <2>5
  <2>7. /\ \A u \in Thread \ {t} : moved[u] => moved'[u]
        /\ \A u \in Thread \ {t} : u \in moving => moved'[u]
        /\ moved' \in [Thread -> BOOLEAN]
    BY <1>1, <2>5, Zenon
  <2>8. SamePlaces(MOVIES, n) \/ \A u \in Iterating \ {t} : moved'[u]
    <3>1. Iterating \subseteq Thread
      BY DEF Iterating
    <3> QED BY <2>3, <2>4, <2>7, <3>1
  <2>9. Replies(t, status, <<>>, n)
    BY <1>1, <2>3, <2>5, <2>6, <2>7, <2>8 DEF Replies
  <2>10. {x \in Movies(MOVIES) : x.id # id} = Movies(MOVIES)
    BY <1>3 DEF Keys, Movies
  <2> QED BY <2>3, <2>9, <2>10
<1> QED BY <1>2, <1>3

LEMMA BusyFacts ==
  ASSUME Sound, NEW t \in Thread, pc[t] # "idle"
  PROVE  /\ t \in Busy /\ req[t] \in Request /\ Fits(pc[t], req[t], found[t])
         /\ MOVIES \in Seq(Entry) /\ UniqueIds(MOVIES)
         /\ req[t].method \in {"GET", "PUT", "DELETE"} => req[t].id \in Id
         /\ req[t].method \in {"POST", "PUT"} => req[t].nume \in Nume \cup {BAD, BROKEN}
         /\ found \in [Thread -> Id \cup {NONE} \cup Iteration]
         /\ found = [found EXCEPT ![t] = found[t]]
<1>1. t \in Busy /\ Fits(pc[t], req[t], found[t])
  BY DEF Busy, Sound, Handling
<1>2. req[t] \in Request
  BY <1>1 DEF Fits
<1> QED BY <1>1, <1>2, RequestAssumption DEF Sound, Typed

LEMMA CheckIdIs ==
  ASSUME Sound, NEW t \in Thread, CheckId(t)
  PROVE  /\ req[t].method \in {"GET", "PUT", "DELETE"}
         /\ \/ req[t].id \notin Keys(MOVIES) /\ Replies(t, 404, <<>>, MOVIES)
            \/ /\ req[t].id \in Keys(MOVIES)
               /\ \E label \in {"look up", "put", "del"} : Proceeds(t, label, found[t])
<1>1. pc[t] \in {"GET", "PUT", "DELETE"}
  BY DEF CheckId
<1>2. t \in Busy /\ Fits(pc[t], req[t], found[t]) /\ found = [found EXCEPT ![t] = found[t]]
  BY <1>1, BusyFacts
<1>3. req[t].method \in {"GET", "PUT", "DELETE"} /\ req[t].method = pc[t] /\ req[t] \in Request
  BY <1>1, <1>2 DEF Fits
<1>4. CASE Answer(t, 404, <<>>, MOVIES) /\ req[t].id \notin Keys(MOVIES)
  BY <1>2, <1>3, <1>4, AnswerOnly
<1>5. ASSUME req[t].id \in Keys(MOVIES), found' = found,
             GoTo(t, IF pc[t] = "GET" THEN "look up" ELSE IF pc[t] = "PUT" THEN "put" ELSE "del")
      PROVE  \E label \in {"look up", "put", "del"} : Proceeds(t, label, found[t])
  <2>1. found[t] \in Id \cup {NONE} \cup Iteration
    BY DEF Sound, Typed
  <2>2. CASE pc[t] = "GET"
    <3>1. Fits("look up", req[t], found[t]) /\ GoTo(t, "look up")
      BY <1>3, <1>5, <2>2 DEF Fits
    <3> QED BY <1>2, <1>5, <2>1, <3>1 DEF Proceeds, Labels
  <2>3. CASE pc[t] = "PUT"
    <3>1. Fits("put", req[t], found[t]) /\ GoTo(t, "put")
      BY <1>3, <1>5, <2>3 DEF Fits
    <3> QED BY <1>2, <1>5, <2>1, <3>1 DEF Proceeds, Labels
  <2>4. CASE pc[t] = "DELETE"
    <3>1. Fits("del", req[t], found[t]) /\ GoTo(t, "del")
      BY <1>3, <1>5, <2>4 DEF Fits
    <3> QED BY <1>2, <1>5, <2>1, <3>1 DEF Proceeds, Labels
  <2> QED BY <1>1, <2>2, <2>3, <2>4
<1> QED BY <1>3, <1>4, <1>5 DEF CheckId

LEMMA LookUpIs ==
  ASSUME Sound, NEW t \in Thread, LookUp(t)
  PROVE  /\ pc[t] = "look up" /\ req[t].method = "GET"
         /\ IF req[t].id \in Keys(MOVIES)
              THEN Replies(t, 200, <<[id |-> req[t].id, nume |-> NumeOf(MOVIES, req[t].id)]>>,
                           MOVIES)
              ELSE Replies(t, 500, <<>>, MOVIES)
<1>1. pc[t] = "look up"
  BY DEF LookUp
<1>2. t \in Busy /\ Fits(pc[t], req[t], found[t])
  BY <1>1, BusyFacts
<1>3. req[t].method = "GET"
  BY <1>1, <1>2 DEF Fits
<1> QED BY <1>1, <1>2, <1>3, AnswerOnly DEF LookUp

LEMMA PutIs ==
  ASSUME Sound, NEW t \in Thread, Put(t)
  PROVE  /\ pc[t] = "put" /\ req[t].method = "PUT"
         /\ \/ req[t].nume = BAD /\ Replies(t, 404, <<>>, MOVIES)
            \/ req[t].nume = BROKEN /\ Replies(t, 400, <<>>, MOVIES)
            \/ /\ req[t].nume \in Nume
               /\ \E n : /\ Replies(t, 200, <<>>, n)
                        /\ Movies(n) = {x \in Movies(MOVIES) : x.id # req[t].id}
                                        \cup {[id |-> req[t].id, nume |-> req[t].nume]}
<1>1. pc[t] = "put"
  BY DEF Put
<1>2. /\ t \in Busy /\ Fits(pc[t], req[t], found[t])
      /\ MOVIES \in Seq(Entry) /\ UniqueIds(MOVIES)
  BY <1>1, BusyFacts
<1>3. req[t].method = "PUT" /\ req[t].id \in Id /\ req[t].nume \in Nume \cup {BAD, BROKEN}
  BY <1>1, <1>2, BusyFacts DEF Fits
<1>4. CASE Answer(t, 404, <<>>, MOVIES) /\ req[t].nume = BAD
  BY <1>1, <1>2, <1>3, <1>4, AnswerOnly
<1>5. CASE Answer(t, 400, <<>>, MOVIES) /\ req[t].nume = BROKEN
  BY <1>1, <1>2, <1>3, <1>5, AnswerOnly
<1>6. CASE /\ req[t].nume \notin {BAD, BROKEN}
           /\ Store(t, 200, req[t].id, req[t].nume)
  <2>1. t \in Adding
    BY <1>2, <1>3 DEF Adding
  <2> QED BY <1>1, <1>3, <1>6, <2>1, StoreReplies
<1> QED BY <1>4, <1>5, <1>6 DEF Put

LEMMA DeleteIs ==
  ASSUME Sound, NEW t \in Thread, Delete(t)
  PROVE  /\ pc[t] = "del" /\ req[t].method = "DELETE"
         /\ IF req[t].id \in Keys(MOVIES)
              THEN \E n : /\ Replies(t, 200, <<>>, n)
                         /\ Movies(n) = {x \in Movies(MOVIES) : x.id # req[t].id}
              ELSE Replies(t, 500, <<>>, MOVIES)
<1>1. pc[t] = "del"
  BY DEF Delete
<1>2. /\ t \in Busy /\ Fits(pc[t], req[t], found[t])
      /\ MOVIES \in Seq(Entry) /\ UniqueIds(MOVIES)
  BY <1>1, BusyFacts
<1>3. req[t].method = "DELETE" /\ req[t].id \in Id
  BY <1>1, <1>2, BusyFacts DEF Fits
<1>4. CASE req[t].id \in Keys(MOVIES)
  <2>1. PICK n : n = Removed(MOVIES, req[t].id)
    OBVIOUS
  <2>2. /\ Follows(MOVIES, n, 0) /\ SamePlaces(MOVIES, n)
        /\ Movies(n) = {x \in Movies(MOVIES) : x.id # req[t].id}
    BY <1>2, <1>3, <2>1, RemovedFollows
  <2>3. Answer(t, 200, <<>>, n)
    BY <1>4, <2>1 DEF Delete
  <2>4. Replies(t, 200, <<>>, n)
    BY <1>2, <2>2, <2>3, AnswerReplies
  <2> QED BY <1>1, <1>3, <1>4, <2>2, <2>4
<1>5. CASE req[t].id \notin Keys(MOVIES)
  BY <1>1, <1>2, <1>3, <1>5, AnswerOnly DEF Delete
<1> QED BY <1>4, <1>5

LEMMA FindIdIs ==
  ASSUME Sound, NEW t \in Thread, FindId(t)
  PROVE  /\ req[t].method = "POST"
         /\ \/ req[t].nume \in {BAD, BROKEN} /\ Replies(t, 400, <<>>, MOVIES)
            \/ req[t].nume \in Nume /\ Proceeds(t, "post", FirstAvailable(MOVIES))
<1>1. pc[t] = "POST"
  BY DEF FindId
<1>2. /\ t \in Busy /\ Fits(pc[t], req[t], found[t])
      /\ MOVIES \in Seq(Entry) /\ UniqueIds(MOVIES)
  BY <1>1, BusyFacts
<1>3. req[t] \in Request /\ req[t].method = "POST" /\ req[t].nume \in Nume \cup {BAD, BROKEN}
  BY <1>1, <1>2, BusyFacts DEF Fits
<1>4. Cardinality(Live(MOVIES)) < MaxMovies
  <2>1. t \in Adding
    BY <1>2, <1>3 DEF Adding
  <2>2. IsFiniteSet(Adding) /\ Cardinality(Adding) \in Nat /\ Cardinality(Adding) # 0
    BY <2>1, AddingFacts, FS_EmptySet
  <2>3. Cardinality(Live(MOVIES)) \in Nat /\ MaxMovies \in Nat
    BY <1>2, DictFacts, RequestAssumption
  <2> QED BY <2>2, <2>3 DEF Sound, Room
<1>5. CASE Answer(t, 400, <<>>, MOVIES) /\ req[t].nume \in {BAD, BROKEN}
  BY <1>2, <1>3, <1>4, <1>5, AnswerOnly
<1>6. CASE /\ req[t].nume \notin {BAD, BROKEN} /\ GoTo(t, "post")
           /\ found' = [found EXCEPT ![t] = FirstAvailable(MOVIES)]
  <2>1. FirstAvailable(MOVIES) \in Id
    BY <1>2, <1>4, FirstAvailableFacts
  <2>2. Fits("post", req[t], FirstAvailable(MOVIES))
    BY <1>3, <1>6, <2>1 DEF Fits
  <2> QED BY <1>2, <1>3, <1>4, <1>6, <2>1, <2>2 DEF Proceeds, Labels
<1> QED BY <1>5, <1>6 DEF FindId

LEMMA PostIs ==
  ASSUME Sound, NEW t \in Thread, Post(t)
  PROVE  /\ pc[t] = "post" /\ req[t].method = "POST" /\ req[t].nume \in Nume
         /\ Cardinality(Live(MOVIES)) < MaxMovies
         /\ \E n : /\ Replies(t, 201, <<>>, n)
                  /\ Movies(n) = {x \in Movies(MOVIES) : x.id # found[t]}
                                  \cup {[id |-> found[t], nume |-> req[t].nume]}
<1>1. pc[t] = "post"
  BY DEF Post
<1>2. /\ t \in Busy /\ Fits(pc[t], req[t], found[t])
      /\ MOVIES \in Seq(Entry) /\ UniqueIds(MOVIES)
  BY <1>1, BusyFacts
<1>3. req[t].method = "POST" /\ req[t].nume \in Nume /\ found[t] \in Id
  BY <1>1, <1>2 DEF Fits
<1>4. t \in Adding
  BY <1>2, <1>3 DEF Adding
<1>5. Cardinality(Live(MOVIES)) < MaxMovies
  <2>1. IsFiniteSet(Adding) /\ Cardinality(Adding) \in Nat /\ Cardinality(Adding) # 0
    BY <1>4, AddingFacts, FS_EmptySet
  <2>2. Cardinality(Live(MOVIES)) \in Nat /\ MaxMovies \in Nat
    BY <1>2, DictFacts, RequestAssumption
  <2> QED BY <2>1, <2>2 DEF Sound, Room
<1> QED BY <1>1, <1>3, <1>4, <1>5, StoreReplies DEF Post

LEMMA ListIs ==
  ASSUME Sound, NEW t \in Thread, List(t)
  PROVE  /\ pc[t] = "LIST" /\ req[t].method = "LIST"
         /\ Proceeds(t, "items", [dict |-> NONE, size |-> Cardinality(Live(MOVIES)),
                                  pos |-> 1, out |-> <<>>])
<1> DEFINE f == [dict |-> NONE, size |-> Cardinality(Live(MOVIES)), pos |-> 1, out |-> <<>>]
<1>1. pc[t] = "LIST"
  BY DEF List
<1>2. t \in Busy /\ Fits(pc[t], req[t], found[t]) /\ MOVIES \in Seq(Entry)
  BY <1>1, BusyFacts
<1>3. req[t] \in Request /\ req[t].method = "LIST"
  BY <1>1, <1>2 DEF Fits
<1>4. f \in Iteration
  BY <1>2, DictFacts, EmptySeq DEF Iteration
<1>5. found' = [found EXCEPT ![t] = f] /\ GoTo(t, "items")
  BY DEF List
<1> HIDE DEF f
<1>6. Fits("items", req[t], f)
  BY <1>3, <1>4 DEF Fits
<1>7. Proceeds(t, "items", f)
  BY <1>2, <1>4, <1>5, <1>6 DEF Proceeds, Labels
<1> QED BY <1>1, <1>3, <1>7 DEF f

LEMMA ResetIs ==
  ASSUME Sound, NEW t \in Thread, Reset(t)
  PROVE  /\ pc[t] = "RESET" /\ req[t].method = "RESET"
         /\ Replies(t, 200, <<>>, <<>>)
<1>1. pc[t] = "RESET"
  BY DEF Reset
<1>2. /\ t \in Busy /\ Fits(pc[t], req[t], found[t])
      /\ MOVIES \in Seq(Entry) /\ UniqueIds(MOVIES)
      /\ found \in [Thread -> Id \cup {NONE} \cup Iteration]
  BY <1>1, BusyFacts
<1>3. req[t].method = "RESET"
  BY <1>1, <1>2 DEF Fits
<1>4. /\ found' = [u \in Thread |-> IF u \in Iterating THEN [found[u] EXCEPT !.dict = MOVIES]
                                                      ELSE found[u]]
      /\ Reply(t, 200, <<>>, <<>>) /\ moved' = moved /\ moved \in [Thread -> BOOLEAN]
  BY DEF Reset, Sound, Typed
<1>5. \A u \in Thread : pc[u] = "items" => found[u] \in Iteration
  BY DEF Sound, Handling, Fits, Busy
<1>6. \A u \in Thread : found'[u] = found[u] \/ Turned(u, <<>>)
  BY <1>4 DEF Turned, Iterating
<1>7. \A u \in Thread : found'[u] \in Id \cup {NONE} \cup Iteration
  <2> SUFFICES ASSUME NEW u \in Thread PROVE found'[u] \in Id \cup {NONE} \cup Iteration
    OBVIOUS
  <2>1. CASE found'[u] = found[u]
    BY <1>2, <2>1
  <2>2. CASE Turned(u, <<>>)
    BY <1>2, <1>5, <2>2 DEF Turned, Iteration
  <2> QED BY <1>6, <2>1, <2>2
<1>8. /\ Follows(MOVIES, <<>>, 0) /\ SamePlaces(MOVIES, <<>>) /\ t \notin Adding
      /\ found' \in [Thread -> Id \cup {NONE} \cup Iteration]
  BY <1>2, <1>3, <1>4, <1>7, SameFollows DEF Adding
<1> QED BY <1>1, <1>2, <1>3, <1>4, <1>6, <1>8 DEF Replies

\* The dict that a list goes over.
Over(it) == IF it.dict = NONE THEN MOVIES ELSE it.dict
LEMMA ListItemIs ==
  ASSUME Sound, NEW t \in Thread, ListItem(t)
  PROVE  /\ pc[t] = "items" /\ req[t].method = "LIST" /\ found[t] \in Iteration
         /\ Over(found[t]) \in Seq(Entry)
         /\ \/ /\ \/ Cardinality(Live(Over(found[t]))) # found[t].size
                  \/ /\ Len(found[t].out) = found[t].size
                     /\ \E i \in Live(Over(found[t])) : i >= found[t].pos
               /\ Replies(t, 500, <<>>, MOVIES)
            \/ /\ \A i \in Live(Over(found[t])) : i < found[t].pos
               /\ Replies(t, 200, found[t].out, MOVIES)
            \/ \E i \in Live(Over(found[t])) :
                 /\ i >= found[t].pos
                 /\ \A j \in Live(Over(found[t])) : j >= found[t].pos => i <= j
                 /\ Proceeds(t, "items",
                             [found[t] EXCEPT !.pos = i + 1,
                                              !.out = Append(@, Over(found[t])[i])])
<1>1. pc[t] = "items"
  BY DEF ListItem
<1>2. /\ t \in Busy /\ Fits(pc[t], req[t], found[t]) /\ MOVIES \in Seq(Entry)
      /\ found \in [Thread -> Id \cup {NONE} \cup Iteration]
  BY <1>1, BusyFacts
<1>3. req[t] \in Request /\ req[t].method = "LIST" /\ found[t] \in Iteration
  BY <1>1, <1>2 DEF Fits
<1>4. PICK it \in Iteration : it = found[t]
  BY <1>3
<1>5. PICK m \in Seq(Entry) : m = Over(it)
  BY <1>2 DEF Over, Iteration
<1>6. PICK left : left = {i \in Live(m) : i >= it.pos}
  OBVIOUS
<1>7. \/ /\ Cardinality(Live(m)) # it.size \/ (left # {} /\ Len(it.out) = it.size)
         /\ Answer(t, 500, <<>>, MOVIES)
      \/ /\ left = {}
         /\ Answer(t, 200, it.out, MOVIES)
      \/ /\ \E i \in left :
              /\ \A j \in left : i <= j
              /\ found' = [found EXCEPT ![t].pos = i + 1, ![t].out = Append(@, m[i])]
         /\ GoTo(t, "items")
  BY <1>4, <1>5, <1>6 DEF ListItem, Over
<1>8. \A i \in Live(m) : i \in Nat /\ m[i] \in Entry
  BY DictFacts
<1>9. it.pos \in Nat /\ it.out \in Seq(Entry)
  BY DEF Iteration
<1>10. CASE /\ Cardinality(Live(m)) # it.size \/ (left # {} /\ Len(it.out) = it.size)
            /\ Answer(t, 500, <<>>, MOVIES)
  <2>1. Replies(t, 500, <<>>, MOVIES)
    BY <1>2, <1>10, AnswerOnly
  <2>2. \/ Cardinality(Live(m)) # it.size
        \/ Len(it.out) = it.size /\ \E i \in Live(m) : i >= it.pos
    BY <1>6, <1>10
  <2> QED BY <1>1, <1>3, <1>4, <1>5, <2>1, <2>2
<1>11. CASE left = {} /\ Answer(t, 200, it.out, MOVIES)
  <2>1. \A i \in Live(m) : i < it.pos
    BY <1>6, <1>8, <1>9, <1>11
  <2>2. Replies(t, 200, it.out, MOVIES)
    BY <1>2, <1>11, AnswerOnly
  <2> QED BY <1>1, <1>3, <1>4, <1>5, <2>1, <2>2
<1>12. ASSUME NEW i \in left, \A j \in left : i <= j, GoTo(t, "items"),
              found' = [found EXCEPT ![t].pos = i + 1, ![t].out = Append(@, m[i])]
       PROVE  /\ i \in Live(m) /\ i >= it.pos
              /\ \A j \in Live(m) : j >= it.pos => i <= j
              /\ Proceeds(t, "items", [it EXCEPT !.pos = i + 1, !.out = Append(@, m[i])])
  <2>1. i \in Live(m) /\ i >= it.pos /\ \A j \in Live(m) : j >= it.pos => i <= j
    BY <1>6, <1>12
  <2>2. PICK f : f = [it EXCEPT !.pos = i + 1, !.out = Append(@, m[i])]
    OBVIOUS
  <2>3. Append(it.out, m[i]) \in Seq(Entry) /\ i + 1 \in Nat
    BY <1>8, <1>9, <2>1, AppendProperties
  <2>4. f \in Iteration
    BY <2>2, <2>3 DEF Iteration
  <2>5. found' = [found EXCEPT ![t] = f]
    BY <1>2, <1>4, <1>12, <2>2
  <2>6. Fits("items", req[t], f)
    BY <1>3, <2>4 DEF Fits
  <2>7. Proceeds(t, "items", f)
    BY <1>2, <1>12, <2>4, <2>5, <2>6 DEF Proceeds, Labels
  <2> QED BY <2>1, <2>2, <2>7
<1> QED BY <1>1, <1>3, <1>4, <1>5, <1>7, <1>10, <1>11, <1>12

LEMMA SoundInvariant == Spec => []Sound
<1>1. Sound /\ [Next]_vars => Sound'
  <2> SUFFICES ASSUME Sound, [Next]_vars PROVE Sound'
    OBVIOUS
  <2>1. ASSUME NEW t \in Thread, Step(t) PROVE Sound'
    <3>1. CASE CheckId(t)
      <4>1. Replies(t, 404, <<>>, MOVIES) \/ \E label : Proceeds(t, label, found[t])
        BY <3>1, CheckIdIs
      <4> QED BY <4>1, ProceedsSound, RepliesSound
    <3>2. CASE LookUp(t)
      BY <3>2, LookUpIs, RepliesSound
    <3>3. CASE Put(t)
      BY <3>3, PutIs, RepliesSound
    <3>4. CASE Delete(t)
      BY <3>4, DeleteIs, RepliesSound
    <3>5. CASE FindId(t)
      BY <3>5, FindIdIs, ProceedsSound, RepliesSound
    <3>6. CASE Post(t)
      BY <3>6, PostIs, RepliesSound
    <3>7. CASE List(t)
      BY <3>7, ListIs, ProceedsSound
    <3>8. CASE ListItem(t)
      <4>1. \/ \E status, content : Replies(t, status, content, MOVIES)
            \/ \E f : Proceeds(t, "items", f)
        BY <3>8, ListItemIs
      <4> QED BY <4>1, ProceedsSound, RepliesSound
    <3>9. CASE Reset(t)
      BY <3>9, ResetIs, RepliesSound
    <3> QED BY <2>1, <3>1, <3>2, <3>3, <3>4, <3>5, <3>6, <3>7, <3>8, <3>9 DEF Step
  <2>2. CASE UNCHANGED vars
    <3>1. UNCHANGED <<MOVIES, pc, req, found, calm, seen, kept, moved>>
      BY <2>2 DEF vars, history
    <3>2. Busy' = Busy /\ Adding' = Adding
      BY <3>1 DEF Busy, Adding
    <3> QED BY <3>1, <3>2 DEF Sound, Typed, Handling, Room, UniqueIds, Live
  <2> QED BY <2>1, <2>2, StartSound DEF Next
<1> QED BY InitSound, <1>1, PTL DEF Spec

-----------------------------------------------------------------------------
\* Lists are regular.

LEMMA ItemsFacts ==
  ASSUME NEW T, NEW s \in Seq(T), NEW x \in T
  PROVE  Items(Append(s, x)) = Items(s) \cup {x}
<1>1. /\ Len(s) \in Nat /\ DOMAIN s = 1 .. Len(s)
      /\ DOMAIN Append(s, x) = 1 .. Len(s) + 1
      /\ \A i \in 1 .. Len(s) : Append(s, x)[i] = s[i]
      /\ Append(s, x)[Len(s) + 1] = x
  BY AppendProperties, LenProperties
<1>2. Items(Append(s, x)) \subseteq Items(s) \cup {x}
  <2> SUFFICES ASSUME NEW k \in 1 .. Len(s) + 1
               PROVE  Append(s, x)[k] \in Items(s) \cup {x}
    BY <1>1 DEF Items
  <2>1. CASE k \in 1 .. Len(s)
    BY <1>1, <2>1 DEF Items
  <2>2. CASE k = Len(s) + 1
    BY <1>1, <2>2
  <2> QED BY <1>1, <2>1, <2>2
<1>3. Items(s) \subseteq Items(Append(s, x))
  <2> SUFFICES ASSUME NEW k \in 1 .. Len(s) PROVE s[k] \in Items(Append(s, x))
    BY <1>1 DEF Items
  <2>1. k \in 1 .. Len(s) + 1 /\ Append(s, x)[k] = s[k]
    BY <1>1
  <2> QED BY <1>1, <2>1 DEF Items
<1>4. x \in Items(Append(s, x))
  <2>1. Len(s) + 1 \in 1 .. Len(s) + 1
    BY <1>1
  <2> QED BY <1>1, <2>1 DEF Items
<1> QED BY <1>2, <1>3, <1>4

\* What a list has while it goes on.
HasSoFar(t, f) ==
  /\ Items(f.out) \subseteq seen[t]
  /\ f.dict = NONE /\ ~moved[t] =>
       \A i \in Live(MOVIES) :
         i < f.pos /\ MOVIES[i] \in kept[t] => MOVIES[i] \in Items(f.out)
  /\ f.dict # NONE => kept[t] = {} /\ Movies(f.dict) \subseteq seen[t]

LEMMA ProceedsRegular ==
  ASSUME Sound, EachRegular, NEW t, NEW label, NEW f, Proceeds(t, label, f),
         label = "items" => HasSoFar(t, f)
  PROVE  EachRegular' /\ ListIsRegular'
<1>1. /\ pc' = [pc EXCEPT ![t] = label] /\ req' = req /\ MOVIES' = MOVIES
      /\ seen' = seen /\ kept' = kept /\ moved' = moved /\ reply' = NONE
      /\ t \in Thread /\ label # "idle"
      /\ found' = [found EXCEPT ![t] = f] /\ pc[t] # "idle"
      /\ pc \in [Thread -> Labels] /\ found \in [Thread -> Id \cup {NONE} \cup Iteration]
  BY DEF Proceeds, GoTo, history, Busy, Sound, Typed
<1>2. Listing' = Listing
  BY <1>1 DEF Listing, Busy
<1>3. ASSUME NEW u \in Listing PROVE Regular(u)'
  <2>1. Regular(u) /\ u \in Thread
    BY DEF EachRegular, Listing, Busy
  <2>2. CASE u = t
    BY <1>1, <2>1, <2>2 DEF Regular, HasSoFar, Live, Movies
  <2>3. CASE u # t
    BY <1>1, <2>1, <2>3 DEF Regular, Live, Movies
  <2> QED BY <2>2, <2>3
<1> QED BY <1>1, <1>2, <1>3 DEF EachRegular, ListIsRegular

LEMMA RepliesRegular ==
  ASSUME Sound, EachRegular, NEW t, NEW status, NEW content, NEW m,
         Replies(t, status, content, m),
         req[t].method = "LIST" /\ status = 200 =>
           /\ Items(content) \subseteq seen[t]
           /\ ~moved[t] => kept[t] \subseteq Items(content)
  PROVE  EachRegular' /\ ListIsRegular'
<1>1. /\ pc' = [pc EXCEPT ![t] = "idle"] /\ req' = [req EXCEPT ![t] = NONE] /\ MOVIES' = m
      /\ seen' = [u \in Thread |-> IF u \in Listing \ {t} THEN seen[u] \cup Movies(m) ELSE {}]
      /\ kept' = [u \in Thread |-> IF u \in Listing \ {t} THEN kept[u] \cap Movies(m) ELSE {}]
      /\ reply' = [req |-> req[t], status |-> status, content |-> content,
                   calm |-> calm[t], seen |-> seen[t], kept |-> kept[t], moved |-> moved[t]]
      /\ t \in Thread
      /\ SamePlaces(MOVIES, m) \/ \A u \in Iterating \ {t} : moved'[u]
      /\ \A u \in Thread \ {t} : moved[u] => moved'[u]
      /\ moved \in [Thread -> BOOLEAN] /\ moved' \in [Thread -> BOOLEAN]
      /\ \A u \in Thread \ {t} : found'[u] = found[u] \/ Turned(u, m)
      /\ pc \in [Thread -> Labels] /\ req \in [Thread -> Request \cup {NONE}]
  BY DEF Replies, Reply, Busy, Sound, Typed
<1>2. Listing' = Listing \ {t}
  BY <1>1 DEF Listing, Busy
<1>3. ASSUME NEW u \in Listing \ {t} PROVE Regular(u)'
  <2>1. /\ Regular(u) /\ u \in Thread /\ pc'[u] = pc[u]
        /\ seen'[u] = seen[u] \cup Movies(m) /\ kept'[u] = kept[u] \cap Movies(m)
    BY <1>1 DEF EachRegular, Listing, Busy
  <2>2. CASE pc[u] # "items"
    BY <1>1, <2>1, <2>2 DEF Regular
  <2>3. CASE pc[u] = "items" /\ found'[u] = found[u]
    <3>1. Items(found'[u].out) \subseteq seen'[u]
      BY <2>1, <2>3 DEF Regular
    <3>2. ASSUME found[u].dict = NONE, ~moved'[u], NEW i \in Live(m), i < found[u].pos,
                 m[i] \in kept'[u]
          PROVE  m[i] \in Items(found[u].out)
      <4>0. SamePlaces(MOVIES, m) /\ ~moved[u]
        <5>1. u \in Iterating \ {t}
          BY <1>3, <2>1, <2>3, <3>2 DEF Iterating
        <5> QED BY <1>1, <2>1, <3>2, <5>1
      <4>1. m[i] \in kept[u] /\ m[i] \in Movies(MOVIES)
        BY <2>1, <3>2 DEF Regular
      <4>2. i \in Live(MOVIES) /\ MOVIES[i] = m[i]
        BY <3>2, <4>0, <4>1 DEF SamePlaces
      <4> QED BY <2>1, <2>3, <3>2, <4>0, <4>1, <4>2 DEF Regular
    <3>3. found[u].dict # NONE => kept'[u] = {} /\ Movies(found[u].dict) \subseteq seen'[u]
      BY <2>1, <2>3 DEF Regular
    <3> QED BY <1>1, <2>1, <2>3, <3>1, <3>2, <3>3 DEF Regular
  <2>4. CASE pc[u] = "items" /\ Turned(u, m)
    <3>1. m = <<>> /\ found[u].dict = NONE /\ found[u] \in Iteration
      BY <2>4 DEF Turned, Sound, Handling, Fits, Listing
    <3>2. found'[u].out = found[u].out /\ found'[u].dict = MOVIES
      BY <2>4, <3>1 DEF Turned, Iteration
    <3>3. Live(m) = {} /\ kept'[u] = {}
      BY <2>1, <3>1 DEF Live, Movies
    <3>4. Items(found'[u].out) \subseteq seen'[u] /\ Movies(found'[u].dict) \subseteq seen'[u]
      BY <2>1, <2>4, <3>2 DEF Regular
    <3> QED BY <1>1, <2>1, <3>3, <3>4 DEF Regular
  <2> QED BY <1>1, <2>1, <2>2, <2>3, <2>4
<1>4. ListIsRegular'
  BY <1>1 DEF ListIsRegular, Items
<1> QED BY <1>2, <1>3, <1>4 DEF EachRegular

LEMMA StartRegular ==
  ASSUME Sound, EachRegular, NEW t \in Thread, NEW r \in Request, Start(t, r)
  PROVE  EachRegular' /\ ListIsRegular'
<1>1. /\ pc' = [pc EXCEPT ![t] = r.method] /\ req' = [req EXCEPT ![t] = r]
      /\ MOVIES' = MOVIES /\ found' = found /\ moved' = moved /\ reply' = NONE
      /\ pc[t] = "idle"
      /\ seen' = [seen EXCEPT ![t] = IF r.method = "LIST" THEN Movies(MOVIES) ELSE {}]
      /\ kept' = [kept EXCEPT ![t] = IF r.method = "LIST" THEN Movies(MOVIES) ELSE {}]
      /\ pc \in [Thread -> Labels] /\ req \in [Thread -> Request \cup {NONE}]
      /\ seen \in [Thread -> SUBSET Entry] /\ kept \in [Thread -> SUBSET Entry]
  BY DEF Start, Sound, Typed
<1>2. ASSUME NEW u \in Listing', u # t PROVE Regular(u)'
  <2>1. u \in Listing /\ Regular(u)
    BY <1>1, <1>2 DEF EachRegular, Listing, Busy
  <2> QED BY <1>1, <1>2, <2>1 DEF Regular, Listing, Busy, Movies, Live
<1>3. ASSUME t \in Listing' PROVE Regular(t)'
  <2>1. r.method = "LIST"
    BY <1>1, <1>3 DEF Listing, Busy
  <2> QED BY <1>1, <2>1 DEF Regular, Movies, Live
<1> QED BY <1>1, <1>2, <1>3 DEF EachRegular, ListIsRegular

LEMMA ListProceeds ==
  ASSUME Sound, EachRegular, NEW t \in Thread, List(t)
  PROVE  EachRegular' /\ ListIsRegular'
<1> DEFINE f == [dict |-> NONE, size |-> Cardinality(Live(MOVIES)), pos |-> 1, out |-> <<>>]
<1>1. Proceeds(t, "items", f)
  BY ListIs
<1>2. MOVIES \in Seq(Entry) /\ Len(MOVIES) \in Nat /\ Live(MOVIES) \subseteq 1 .. Len(MOVIES)
  BY DictFacts DEF Sound, Typed
<1>3. \A i \in Live(MOVIES) : ~ (i < 1)
  BY <1>2
<1>4. Items(<<>>) = {}
  BY EmptySeq DEF Items
<1>5. HasSoFar(t, f)
  BY <1>3, <1>4 DEF HasSoFar
<1> HIDE DEF f
<1> QED BY <1>1, <1>5, ProceedsRegular

LEMMA ListItemRegular ==
  ASSUME Sound, EachRegular, NEW t \in Thread, ListItem(t)
  PROVE  EachRegular' /\ ListIsRegular'
<1>1. pc[t] = "items" /\ req[t].method = "LIST"
  BY ListItemIs
<1>2. PICK it \in Iteration : it = found[t]
  BY ListItemIs
<1>3. PICK m \in Seq(Entry) : m = Over(it)
  BY <1>2, ListItemIs
<1>4. /\ kept[t] \subseteq Movies(MOVIES) /\ Movies(MOVIES) \subseteq seen[t]
      /\ HasSoFar(t, it)
  <2>1. Regular(t)
    BY <1>1 DEF EachRegular, Listing, Busy
  <2> QED BY <1>1, <1>2, <2>1 DEF Regular, HasSoFar
<1>5. \/ Replies(t, 500, <<>>, MOVIES)
      \/ /\ \A i \in Live(m) : i < it.pos
         /\ Replies(t, 200, it.out, MOVIES)
      \/ \E i \in Live(m) :
           /\ i >= it.pos
           /\ \A j \in Live(m) : j >= it.pos => i <= j
           /\ Proceeds(t, "items", [it EXCEPT !.pos = i + 1, !.out = Append(@, m[i])])
  BY <1>2, <1>3, ListItemIs
<1>6. CASE Replies(t, 500, <<>>, MOVIES)
  BY <1>6, RepliesRegular
<1>7. CASE (\A i \in Live(m) : i < it.pos) /\ Replies(t, 200, it.out, MOVIES)
  <2>1. ~moved[t] => kept[t] \subseteq Items(it.out)
    <3>1. CASE it.dict = NONE
      <4>1. m = MOVIES
        BY <1>3, <3>1 DEF Over
      <4> QED BY <1>4, <1>7, <3>1, <4>1 DEF HasSoFar, Movies
    <3>2. CASE it.dict # NONE
      BY <1>4, <3>2 DEF HasSoFar
    <3> QED BY <3>1, <3>2
  <2>2. Items(it.out) \subseteq seen[t]
    BY <1>4 DEF HasSoFar
  <2> QED BY <1>7, <2>1, <2>2, RepliesRegular
<1>8. ASSUME NEW i \in Live(m), i >= it.pos, \A j \in Live(m) : j >= it.pos => i <= j,
             Proceeds(t, "items", [it EXCEPT !.pos = i + 1, !.out = Append(@, m[i])])
      PROVE  EachRegular' /\ ListIsRegular'
  <2>1. PICK f : f = [it EXCEPT !.pos = i + 1, !.out = Append(@, m[i])]
    OBVIOUS
  <2>2. f.dict = it.dict /\ f.pos = i + 1 /\ f.out = Append(it.out, m[i])
    BY <2>1 DEF Iteration
  <2>3. /\ m[i] \in Entry /\ it.out \in Seq(Entry) /\ it.pos \in Nat
        /\ \A j \in Live(m) : j \in Nat
    BY DictFacts DEF Iteration
  <2>4. Items(f.out) = Items(it.out) \cup {m[i]}
    BY <2>2, <2>3, ItemsFacts
  <2>5. m[i] \in Movies(m) /\ Movies(m) \subseteq seen[t]
    BY <1>3, <1>4 DEF Over, HasSoFar, Movies
  <2>6. ASSUME it.dict = NONE, ~moved[t], NEW j \in Live(MOVIES), j < i + 1, MOVIES[j] \in kept[t]
        PROVE  MOVIES[j] \in Items(f.out)
    <3>1. m = MOVIES
      BY <1>3, <2>6 DEF Over
    <3>2. CASE j < it.pos
      BY <1>4, <2>4, <2>6, <3>2 DEF HasSoFar
    <3>3. CASE ~ (j < it.pos)
      <4>1. j \in Nat /\ i \in Nat /\ it.pos \in Nat
        BY <2>3, <3>1
      <4>2. j = i
        BY <1>8, <2>6, <3>1, <3>3, <4>1
      <4> QED BY <2>4, <3>1, <4>2
    <3> QED BY <3>2, <3>3
  <2>7. HasSoFar(t, f)
    BY <1>4, <2>2, <2>4, <2>5, <2>6 DEF HasSoFar
  <2>8. Proceeds(t, "items", f)
    BY <1>8, <2>1
  <2> QED BY <2>7, <2>8, ProceedsRegular
<1> QED BY <1>5, <1>6, <1>7, <1>8

\* ListIsRegular: a GET of all the movies (handle_request), whose iterator over
\* MOVIES.items() other threads overtake, holds every movie that was there all
\* the time, and none that never was; unless an insertion moved up the entries
\* of the dict it was at, when it may miss some.
THEOREM ListsStayRegular == Spec => []ListIsRegular
<1>1. Init => EachRegular /\ ListIsRegular
  BY DEF Init, EachRegular, ListIsRegular, Listing, Busy
<1>2. Sound /\ EachRegular /\ ListIsRegular /\ [Next]_vars => EachRegular' /\ ListIsRegular'
  <2> SUFFICES ASSUME Sound, EachRegular, ListIsRegular, [Next]_vars
               PROVE  EachRegular' /\ ListIsRegular'
    OBVIOUS
  <2>1. ASSUME NEW t \in Thread, Step(t) PROVE EachRegular' /\ ListIsRegular'
    <3>1. CASE CheckId(t)
      <4>1. /\ req[t].method # "LIST"
            /\ \/ Replies(t, 404, <<>>, MOVIES)
               \/ \E label \in {"look up", "put", "del"} : Proceeds(t, label, found[t])
        BY <3>1, CheckIdIs
      <4> QED BY <4>1, ProceedsRegular, RepliesRegular
    <3>2. CASE LookUp(t)
      BY <3>2, LookUpIs, RepliesRegular
    <3>3. CASE Put(t)
      BY <3>3, PutIs, RepliesRegular
    <3>4. CASE Delete(t)
      BY <3>4, DeleteIs, RepliesRegular
    <3>5. CASE FindId(t)
      BY <3>5, FindIdIs, ProceedsRegular, RepliesRegular
    <3>6. CASE Post(t)
      BY <3>6, PostIs, RepliesRegular
    <3>7. CASE List(t)
      BY <3>7, ListProceeds
    <3>8. CASE ListItem(t)
      BY <3>8, ListItemRegular
    <3>9. CASE Reset(t)
      BY <3>9, ResetIs, RepliesRegular
    <3> QED BY <2>1, <3>1, <3>2, <3>3, <3>4, <3>5, <3>6, <3>7, <3>8, <3>9 DEF Step
  <2>2. CASE UNCHANGED vars
    <3>1. UNCHANGED <<MOVIES, pc, req, found, seen, kept, moved, reply>>
      BY <2>2 DEF vars, history
    <3>2. Listing' = Listing
      BY <3>1 DEF Listing, Busy
    <3>3. ASSUME NEW u \in Listing PROVE Regular(u)'
      <4>1. Regular(u)
        BY DEF EachRegular
      <4> QED BY <3>1, <4>1 DEF Regular, Live, Movies
    <3> QED BY <3>1, <3>2, <3>3 DEF EachRegular, ListIsRegular
  <2> QED BY <2>1, <2>2, StartRegular DEF Next
<1> QED BY <1>1, <1>2, SoundInvariant, PTL DEF Spec

-----------------------------------------------------------------------------
\* A request that nobody disturbs is atomic.

\* What a request has found, while it is calm.
HasFound(t, label, f) ==
  /\ label \in {"look up", "put", "del"} => req[t].id \in Keys(MOVIES)
  /\ label = "post" => f = FirstAvailable(MOVIES)
  /\ label = "items" =>
       /\ f.dict \in {NONE, MOVIES} /\ f.size = Cardinality(Live(MOVIES))
       /\ InOrder(f.out, MOVIES, {i \in Live(MOVIES) : i < f.pos})

LEMMA ProceedsCalm ==
  ASSUME Sound, EachCalm, NEW t, NEW label, NEW f, Proceeds(t, label, f),
         calm[t] # NONE => HasFound(t, label, f)
  PROVE  EachCalm' /\ UndisturbedIsAtomic'
<1>1. /\ pc' = [pc EXCEPT ![t] = label] /\ req' = req /\ MOVIES' = MOVIES
      /\ calm' = calm /\ reply' = NONE /\ t \in Thread /\ label # "idle"
      /\ found' = [found EXCEPT ![t] = f] /\ pc[t] # "idle"
      /\ pc \in [Thread -> Labels] /\ found \in [Thread -> Id \cup {NONE} \cup Iteration]
  BY DEF Proceeds, GoTo, history, Busy, Sound, Typed
<1>2. Busy' = Busy
  BY <1>1 DEF Busy
<1>3. ASSUME NEW u \in Busy PROVE Calm(u)'
  <2>1. Calm(u) /\ u \in Thread
    BY DEF EachCalm, Busy
  <2>2. CASE u = t
    <3>1. pc'[t] = label /\ found'[t] = f /\ Calm(t)
      BY <1>1, <2>1, <2>2
    <3> QED BY <1>1, <2>2, <3>1 DEF Calm, HasFound, Keys, Live
  <2>3. CASE u # t
    <3>1. pc'[u] = pc[u] /\ found'[u] = found[u]
      BY <1>1, <2>1, <2>3
    <3> QED BY <1>1, <2>1, <3>1 DEF Calm, Keys, Live
  <2> QED BY <2>2, <2>3
<1> QED BY <1>1, <1>2, <1>3 DEF EachCalm, UndisturbedIsAtomic

LEMMA RepliesCalm ==
  ASSUME Sound, EachCalm, NEW t, NEW status, NEW content, NEW m,
         Replies(t, status, content, m),
         calm[t] # NONE => Correct(MOVIES, req[t], status, content, m)
  PROVE  EachCalm' /\ UndisturbedIsAtomic'
<1>1. /\ pc' = [pc EXCEPT ![t] = "idle"] /\ req' = [req EXCEPT ![t] = NONE] /\ MOVIES' = m
      /\ calm' = [u \in Thread |-> IF u # t /\ m = MOVIES THEN calm[u] ELSE NONE]
      /\ reply' = [req |-> req[t], status |-> status, content |-> content,
                   calm |-> calm[t], seen |-> seen[t], kept |-> kept[t], moved |-> moved[t]]
      /\ t \in Busy
      /\ \A u \in Thread \ {t} : found'[u] = found[u] \/ Turned(u, m)
      /\ pc \in [Thread -> Labels] /\ req \in [Thread -> Request \cup {NONE}]
  BY DEF Replies, Reply, Sound, Typed
<1>2. Busy' = Busy \ {t}
  BY <1>1 DEF Busy
<1>3. ASSUME NEW u \in Busy \ {t} PROVE Calm(u)'
  <2> SUFFICES ASSUME calm'[u] # NONE PROVE Calm(u)'
    BY DEF Calm
  <2>1. /\ Calm(u) /\ u \in Thread /\ pc'[u] = pc[u] /\ req'[u] = req[u]
        /\ calm'[u] = calm[u] /\ calm[u] # NONE /\ MOVIES' = MOVIES
    BY <1>1 DEF EachCalm, Busy
  <2>2. CASE found'[u] = found[u]
    BY <2>1, <2>2 DEF Calm, Keys, Live
  <2>3. CASE Turned(u, m)
    <3>1. pc[u] = "items" /\ found[u] \in Iteration
      BY <2>1, <2>3 DEF Turned, Sound, Handling, Fits
    <3>2. /\ found'[u].dict = MOVIES /\ found'[u].size = found[u].size
          /\ found'[u].pos = found[u].pos /\ found'[u].out = found[u].out
      BY <2>3, <3>1 DEF Turned, Iteration
    <3> QED BY <2>1, <3>1, <3>2 DEF Calm, Keys, Live
  <2> QED BY <1>1, <2>1, <2>2, <2>3
<1>4. UndisturbedIsAtomic'
  <2>1. calm[t] # NONE => calm[t] = MOVIES
    BY <1>1 DEF EachCalm, Calm
  <2> QED BY <1>1, <2>1 DEF UndisturbedIsAtomic
<1> QED BY <1>2, <1>3, <1>4 DEF EachCalm

LEMMA StartCalm ==
  ASSUME Sound, EachCalm, NEW t \in Thread, NEW r \in Request, Start(t, r)
  PROVE  EachCalm' /\ UndisturbedIsAtomic'
<1>1. /\ pc' = [pc EXCEPT ![t] = r.method] /\ req' = [req EXCEPT ![t] = r]
      /\ MOVIES' = MOVIES /\ found' = found /\ reply' = NONE
      /\ calm' = [calm EXCEPT ![t] = MOVIES]
      /\ pc \in [Thread -> Labels] /\ req \in [Thread -> Request \cup {NONE}]
      /\ calm \in [Thread -> Seq(Entry) \cup {NONE}]
      /\ r.method \in {"GET", "LIST", "POST", "PUT", "DELETE", "RESET"}
  BY RequestAssumption DEF Start, Sound, Typed
<1>2. ASSUME NEW u \in Busy', u # t PROVE Calm(u)'
  <2>1. /\ u \in Busy /\ Calm(u) /\ u \in Thread /\ pc'[u] = pc[u] /\ req'[u] = req[u]
        /\ calm'[u] = calm[u]
    BY <1>1, <1>2 DEF EachCalm, Busy
  <2> QED BY <1>1, <2>1 DEF Calm, Keys, Live
<1>3. Calm(t)'
  <2>1. pc'[t] = r.method /\ calm'[t] = MOVIES
    BY <1>1
  <2> QED BY <1>1, <2>1 DEF Calm
<1> QED BY <1>1, <1>2, <1>3 DEF EachCalm, UndisturbedIsAtomic

\* A function from the places of s that shows it to be in order.
LEMMA InOrderBy ==
  ASSUME NEW D, NEW s, DOMAIN s = D, NEW m, NEW S, NEW f \in [D -> S],
         \A k \in D : s[k] = m[f[k]],
         \A k, l \in D : k < l => f[k] < f[l],
         \A j \in S : \E k \in D : f[k] = j
  PROVE  InOrder(s, m, S)
BY SMT DEF InOrder

\* A list that takes the next entry has what it had, in order, and that one.
LEMMA InOrderAppend ==
  ASSUME NEW m \in Seq(Entry), NEW s \in Seq(Entry), NEW S, S \subseteq DOMAIN m,
         NEW i \in DOMAIN m, \A j \in S : j < i, InOrder(s, m, S)
  PROVE  InOrder(Append(s, m[i]), m, S \cup {i})
<1>0. PICK f \in [DOMAIN s -> S] :
        /\ \A k \in DOMAIN s : s[k] = m[f[k]]
        /\ \A k, l \in DOMAIN s : k < l => f[k] < f[l]
        /\ \A j \in S : \E k \in DOMAIN s : f[k] = j
  BY Zenon DEF InOrder
<1> DEFINE a == Append(s, m[i])
           n == Len(s)
<1>1. /\ n \in Nat /\ DOMAIN s = 1 .. n /\ m[i] \in Entry /\ i \in Nat
      /\ \A j \in S : j \in Nat
  BY DictFacts
<1>2. /\ DOMAIN a = 1 .. n + 1 /\ \A k \in 1 .. n : a[k] = s[k]
      /\ a[n + 1] = m[i]
  BY <1>1, AppendProperties, LenProperties
<1> HIDE DEF a, n
<1>3. /\ f \in [1 .. n -> S]
      /\ \A k \in 1 .. n : s[k] = m[f[k]]
      /\ \A k, l \in 1 .. n : k < l => f[k] < f[l]
      /\ \A j \in S : \E k \in 1 .. n : f[k] = j
  BY <1>0, <1>1
<1>4. PICK g : g = [k \in 1 .. n + 1 |-> IF k \in 1 .. n THEN f[k] ELSE i]
  OBVIOUS
<1>5. /\ g \in [1 .. n + 1 -> S \cup {i}]
      /\ \A k \in 1 .. n : k \in 1 .. n + 1 /\ g[k] = f[k]
      /\ n + 1 \in 1 .. n + 1 /\ g[n + 1] = i
  BY <1>1, <1>3, <1>4
<1>6. \A k \in 1 .. n + 1 : k \in 1 .. n \/ k = n + 1
  BY <1>1
<1>7. \A k \in 1 .. n + 1 : a[k] = m[g[k]]
  BY <1>2, <1>3, <1>5, <1>6
<1>8. \A k, l \in 1 .. n + 1 : k < l => g[k] < g[l]
  <2> SUFFICES ASSUME NEW k \in 1 .. n + 1, NEW l \in 1 .. n + 1, k < l PROVE g[k] < g[l]
    OBVIOUS
  <2>1. k \in 1 .. n
    BY <1>1
  <2>2. CASE l \in 1 .. n
    BY <1>3, <1>5, <2>1, <2>2
  <2>3. CASE l = n + 1
    BY <1>3, <1>5, <2>1, <2>3
  <2> QED BY <1>6, <2>2, <2>3
<1>9. \A j \in S \cup {i} : \E k \in 1 .. n + 1 : g[k] = j
  BY <1>3, <1>5
<1>10. InOrder(a, m, S \cup {i})
  BY <1>2, <1>5, <1>7, <1>8, <1>9, InOrderBy
<1> QED BY <1>10 DEF a

\* It has one item for each.
LEMMA InOrderLength ==
  ASSUME NEW m, NEW s \in Seq(Entry), NEW S, IsFiniteSet(S), S \subseteq Nat, InOrder(s, m, S)
  PROVE  Len(s) = Cardinality(S)
<1>0. PICK f \in [DOMAIN s -> S] :
        /\ \A k, l \in DOMAIN s : k < l => f[k] < f[l]
        /\ \A j \in S : \E k \in DOMAIN s : f[k] = j
  BY Zenon DEF InOrder
<1>1. Len(s) \in Nat /\ DOMAIN s = 1 .. Len(s)
  BY LenProperties
<1>2. IsFiniteSet(DOMAIN s) /\ Cardinality(DOMAIN s) = Len(s)
  <2>1. PICK n \in Nat : n = Len(s) /\ DOMAIN s = 1 .. n
    BY <1>1
  <2>2. n \in Int /\ 1 \in Int /\ (IF 1 > n THEN 0 ELSE n - 1 + 1) = n
    OBVIOUS
  <2>3. IsFiniteSet(1 .. n) /\ Cardinality(1 .. n) = n
    BY <2>2, FS_Interval
  <2> QED BY <2>1, <2>3
<1>3. f \in Surjection(DOMAIN s, S)
  BY <1>0 DEF Surjection
<1>4. f \in Injection(DOMAIN s, S)
  <2>1. ASSUME NEW k \in DOMAIN s, NEW l \in DOMAIN s, f[k] = f[l] PROVE k = l
    <3>1. f[k] \in S /\ f[k] \in Nat
      BY <1>0
    <3>2. ~ (f[k] < f[k])
      BY <3>1
    <3>3. ~ (k < l) /\ ~ (l < k)
      BY <1>0, <2>1, <3>2
    <3> QED BY <1>1, <3>3
  <2> QED BY <2>1 DEF Injection, IsInjective
<1>5. Cardinality(S) = Cardinality(DOMAIN s)
  BY <1>2, <1>3, <1>4, FS_Surjection
<1> QED BY <1>2, <1>5

LEMMA ListCalm ==
  ASSUME Sound, EachCalm, NEW t \in Thread, List(t)
  PROVE  EachCalm' /\ UndisturbedIsAtomic'
<1> DEFINE f == [dict |-> NONE, size |-> Cardinality(Live(MOVIES)), pos |-> 1, out |-> <<>>]
<1>1. Proceeds(t, "items", f)
  BY ListIs
<1>2. MOVIES \in Seq(Entry) /\ Len(MOVIES) \in Nat /\ Live(MOVIES) \subseteq 1 .. Len(MOVIES)
  BY DictFacts DEF Sound, Typed
<1>3. {i \in Live(MOVIES) : i < 1} = {}
  BY <1>2
<1>4. InOrder(<<>>, MOVIES, {})
  <2>1. DOMAIN <<>> = {}
    BY EmptySeq
  <2>2. <<>> \in [DOMAIN <<>> -> {}]
    BY <2>1
  <2> QED BY <2>1, <2>2 DEF InOrder
<1>5. HasFound(t, "items", f)
  BY <1>3, <1>4 DEF HasFound
<1> HIDE DEF f
<1> QED BY <1>1, <1>5, ProceedsCalm

LEMMA ListItemCalm ==
  ASSUME Sound, EachCalm, NEW t \in Thread, ListItem(t)
  PROVE  EachCalm' /\ UndisturbedIsAtomic'
<1>1. /\ pc[t] = "items" /\ req[t].method = "LIST" /\ MOVIES \in Seq(Entry)
      /\ DOMAIN MOVIES = 1 .. Len(MOVIES) /\ Live(MOVIES) \subseteq DOMAIN MOVIES
      /\ Len(MOVIES) \in Nat
  BY ListItemIs, DictFacts DEF Sound, Typed
<1>2. PICK it \in Iteration : it = found[t]
  BY ListItemIs
<1>3. PICK m \in Seq(Entry) : m = Over(it)
  BY <1>2, ListItemIs
<1>4. PICK had : had = {i \in Live(MOVIES) : i < it.pos}
  OBVIOUS
<1>5. calm[t] # NONE =>
        /\ m = MOVIES /\ it.dict \in {NONE, MOVIES}
        /\ it.size = Cardinality(Live(MOVIES)) /\ InOrder(it.out, MOVIES, had)
  BY <1>1, <1>2, <1>3, <1>4 DEF EachCalm, Calm, Busy, Over
<1>6. \/ /\ \/ Cardinality(Live(m)) # it.size
            \/ Len(it.out) = it.size /\ \E i \in Live(m) : i >= it.pos
         /\ Replies(t, 500, <<>>, MOVIES)
      \/ /\ \A i \in Live(m) : i < it.pos
         /\ Replies(t, 200, it.out, MOVIES)
      \/ \E i \in Live(m) :
           /\ i >= it.pos
           /\ \A j \in Live(m) : j >= it.pos => i <= j
           /\ Proceeds(t, "items", [it EXCEPT !.pos = i + 1, !.out = Append(@, m[i])])
  BY <1>2, <1>3, ListItemIs
<1>7. CASE /\ \/ Cardinality(Live(m)) # it.size
              \/ Len(it.out) = it.size /\ \E i \in Live(m) : i >= it.pos
           /\ Replies(t, 500, <<>>, MOVIES)
  <2>1. ASSUME calm[t] # NONE PROVE FALSE
    <3>1. /\ m = MOVIES /\ it.size = Cardinality(Live(MOVIES))
          /\ Len(it.out) = it.size /\ \E i \in Live(MOVIES) : i >= it.pos
      BY <1>5, <1>7, <2>1
    <3>2. PICK i \in Live(MOVIES) : i >= it.pos
      BY <3>1
    <3>3. it.out \in Seq(Entry) /\ it.pos \in Nat /\ i \in Nat
      BY <1>1 DEF Iteration
    <3>4. had \in SUBSET Live(MOVIES) /\ i \notin had
      BY <1>4, <3>2, <3>3
    <3>5. IsFiniteSet(Live(MOVIES)) /\ IsFiniteSet(had)
      BY <1>1, <3>4, DictFacts, FS_Subset
    <3>6. Len(it.out) = Cardinality(had)
      <4>1. had \subseteq Nat
        BY <1>1, <3>4
      <4> QED BY <4>1, <1>5, <2>1, <3>3, <3>5, InOrderLength
    <3> QED BY <3>1, <3>4, <3>5, <3>6, FS_Subset
  <2> QED BY <1>7, <2>1, RepliesCalm
<1>8. CASE (\A i \in Live(m) : i < it.pos) /\ Replies(t, 200, it.out, MOVIES)
  <2>1. calm[t] # NONE => InOrder(it.out, MOVIES, Live(MOVIES))
    <3> SUFFICES ASSUME calm[t] # NONE PROVE InOrder(it.out, MOVIES, Live(MOVIES))
      OBVIOUS
    <3>1. had = Live(MOVIES)
      BY <1>4, <1>5, <1>8
    <3> QED BY <1>5, <3>1
  <2>2. calm[t] # NONE => Correct(MOVIES, req[t], 200, it.out, MOVIES)
    BY <1>1, <2>1 DEF Correct
  <2> QED BY <1>8, <2>2, RepliesCalm
<1>9. ASSUME NEW i \in Live(m), i >= it.pos, \A j \in Live(m) : j >= it.pos => i <= j,
             Proceeds(t, "items", [it EXCEPT !.pos = i + 1, !.out = Append(@, m[i])])
      PROVE  EachCalm' /\ UndisturbedIsAtomic'
  <2>1. PICK f : f = [it EXCEPT !.pos = i + 1, !.out = Append(@, m[i])]
    OBVIOUS
  <2>2. /\ f.dict = it.dict /\ f.size = it.size /\ f.pos = i + 1
        /\ f.out = Append(it.out, m[i]) /\ it.out \in Seq(Entry) /\ it.pos \in Nat
    BY <2>1 DEF Iteration
  <2>3. ASSUME calm[t] # NONE PROVE HasFound(t, "items", f)
    <3>1. m = MOVIES /\ i \in Live(MOVIES) /\ i \in DOMAIN MOVIES /\ i \in Nat
      BY <1>1, <1>5, <2>3
    <3>2. \A j \in had : j < i
      <4> SUFFICES ASSUME NEW j \in had PROVE j < i
        OBVIOUS
      <4>1. j \in Nat /\ j < it.pos
        BY <1>1, <1>4
      <4> QED BY <1>9, <2>2, <3>1, <4>1
    <3>3. {j \in Live(MOVIES) : j < i + 1} = had \cup {i}
      <4>1. ASSUME NEW j \in Live(MOVIES) PROVE j < i + 1 <=> j \in had \/ j = i
        <5>1. j \in Nat /\ (j \in had <=> j < it.pos) /\ (j >= it.pos => i <= j)
          BY <1>1, <1>4, <1>9, <3>1
        <5> QED BY <1>9, <2>2, <3>1, <5>1
      <4> QED BY <1>4, <3>1, <4>1
    <3>4. had \subseteq DOMAIN MOVIES
      BY <1>1, <1>4
    <3>5. InOrder(Append(it.out, MOVIES[i]), MOVIES, had \cup {i})
      BY <1>1, <1>5, <2>2, <2>3, <3>1, <3>2, <3>4, InOrderAppend
    <3> QED BY <1>5, <2>2, <2>3, <3>1, <3>3, <3>5 DEF HasFound
  <2>4. Proceeds(t, "items", f)
    BY <1>9, <2>1
  <2> QED BY <2>3, <2>4, ProceedsCalm
<1> QED BY <1>6, <1>7, <1>8, <1>9

LEMMA PostCalm ==
  ASSUME Sound, EachCalm, NEW t \in Thread, Post(t)
  PROVE  EachCalm' /\ UndisturbedIsAtomic'
<1>1. /\ pc[t] = "post" /\ req[t].method = "POST" /\ req[t].nume \in Nume
      /\ Cardinality(Live(MOVIES)) < MaxMovies /\ MOVIES \in Seq(Entry)
  BY PostIs DEF Sound, Typed
<1>2. PICK n : /\ Replies(t, 201, <<>>, n)
               /\ Movies(n) = {x \in Movies(MOVIES) : x.id # found[t]}
                               \cup {[id |-> found[t], nume |-> req[t].nume]}
  BY PostIs
<1>3. ASSUME calm[t] # NONE PROVE Correct(MOVIES, req[t], 201, <<>>, n)
  <2>1. PICK id : id = FirstAvailable(MOVIES)
    OBVIOUS
  <2>2. found[t] = id
    BY <1>1, <1>2, <1>3, <2>1 DEF EachCalm, Calm, Replies
  <2>3. id \in Id \ Keys(MOVIES) /\ 1 .. id - 1 \subseteq Keys(MOVIES)
    BY <1>1, <2>1, FirstAvailableFacts
  <2>4. {x \in Movies(MOVIES) : x.id # id} = Movies(MOVIES)
    BY <2>3 DEF Keys, Movies
  <2>5. Movies(n) = Movies(MOVIES) \cup {[id |-> id, nume |-> req[t].nume]}
    BY <1>2, <2>2, <2>4
  <2> QED BY <1>1, <2>3, <2>5 DEF Correct
<1> QED BY <1>2, <1>3, RepliesCalm

\* UndisturbedIsAtomic: handle_request and delete_all do what the request asks
\* and answer so, unless the dict changes between two of their uses of it.
THEOREM UndisturbedStaysAtomic == Spec => []UndisturbedIsAtomic
<1>1. Init => EachCalm /\ UndisturbedIsAtomic
  BY DEF Init, EachCalm, UndisturbedIsAtomic, Busy
<1>2. Sound /\ EachCalm /\ UndisturbedIsAtomic /\ [Next]_vars
        => EachCalm' /\ UndisturbedIsAtomic'
  <2> SUFFICES ASSUME Sound, EachCalm, UndisturbedIsAtomic, [Next]_vars
               PROVE  EachCalm' /\ UndisturbedIsAtomic'
    OBVIOUS
  <2>1. ASSUME NEW t \in Thread, pc[t] \in {"look up", "put", "del"}, calm[t] # NONE
        PROVE  req[t].id \in Keys(MOVIES)
    BY <2>1 DEF EachCalm, Calm, Busy
  <2>2. ASSUME NEW t \in Thread, Step(t) PROVE EachCalm' /\ UndisturbedIsAtomic'
    <3>1. CASE CheckId(t)
      <4>1. /\ req[t].method \in {"GET", "PUT", "DELETE"}
            /\ \/ req[t].id \notin Keys(MOVIES) /\ Replies(t, 404, <<>>, MOVIES)
               \/ /\ req[t].id \in Keys(MOVIES)
                  /\ \E label \in {"look up", "put", "del"} : Proceeds(t, label, found[t])
        BY <3>1, CheckIdIs
      <4>2. ASSUME NEW label \in {"look up", "put", "del"}, req[t].id \in Keys(MOVIES)
            PROVE  HasFound(t, label, found[t])
        BY <4>2 DEF HasFound
      <4>3. req[t].id \notin Keys(MOVIES) => Correct(MOVIES, req[t], 404, <<>>, MOVIES)
        BY <4>1 DEF Correct
      <4> QED BY <4>1, <4>2, <4>3, ProceedsCalm, RepliesCalm
    <3>2. CASE LookUp(t)
      <4>1. PICK content :
              content = <<[id |-> req[t].id, nume |-> NumeOf(MOVIES, req[t].id)]>>
        OBVIOUS
      <4>2. /\ pc[t] = "look up" /\ req[t].method = "GET"
            /\ IF req[t].id \in Keys(MOVIES) THEN Replies(t, 200, content, MOVIES)
                                             ELSE Replies(t, 500, <<>>, MOVIES)
        BY <3>2, <4>1, LookUpIs
      <4>3. req[t].id \in Keys(MOVIES) => Correct(MOVIES, req[t], 200, content, MOVIES)
        BY <4>1, <4>2 DEF Correct
      <4> QED BY <2>1, <4>2, <4>3, RepliesCalm
    <3>3. CASE Put(t)
      <4>1. pc[t] = "put" /\ req[t].method = "PUT"
        BY <3>3, PutIs
      <4>2. CASE req[t].nume = BAD /\ Replies(t, 404, <<>>, MOVIES)
        <5>1. calm[t] # NONE => Correct(MOVIES, req[t], 404, <<>>, MOVIES)
          BY <2>1, <4>1, <4>2 DEF Correct
        <5> QED BY <4>2, <5>1, RepliesCalm
      <4>3. CASE req[t].nume = BROKEN /\ Replies(t, 400, <<>>, MOVIES)
        <5>1. ASSUME calm[t] # NONE PROVE Correct(MOVIES, req[t], 400, <<>>, MOVIES)
          <6>1. req[t].id \in Keys(MOVIES)
            BY <2>1, <4>1, <5>1
          <6> QED BY <4>1, <4>3, <6>1 DEF Correct
        <5> QED BY <4>3, <5>1, RepliesCalm
      <4>4. ASSUME req[t].nume \in Nume, NEW n, Replies(t, 200, <<>>, n),
                   Movies(n) = {x \in Movies(MOVIES) : x.id # req[t].id}
                                 \cup {[id |-> req[t].id, nume |-> req[t].nume]}
            PROVE  EachCalm' /\ UndisturbedIsAtomic'
        <5>1. calm[t] # NONE => Correct(MOVIES, req[t], 200, <<>>, n)
          BY <2>1, <4>1, <4>4 DEF Correct
        <5> QED BY <4>4, <5>1, RepliesCalm
      <4> QED BY <3>3, <4>2, <4>3, <4>4, PutIs
    <3>4. CASE Delete(t)
      <4>1. pc[t] = "del" /\ req[t].method = "DELETE"
        BY <3>4, DeleteIs
      <4>2. CASE req[t].id \in Keys(MOVIES)
        <5>1. PICK n : /\ Replies(t, 200, <<>>, n)
                       /\ Movies(n) = {x \in Movies(MOVIES) : x.id # req[t].id}
          BY <3>4, <4>2, DeleteIs
        <5>2. Correct(MOVIES, req[t], 200, <<>>, n)
          BY <4>1, <4>2, <5>1 DEF Correct
        <5> QED BY <5>1, <5>2, RepliesCalm
      <4>3. CASE req[t].id \notin Keys(MOVIES)
        <5>1. Replies(t, 500, <<>>, MOVIES) /\ ~ (calm[t] # NONE)
          BY <2>1, <3>4, <4>1, <4>3, DeleteIs
        <5> QED BY <5>1, RepliesCalm
      <4> QED BY <4>2, <4>3
    <3>5. CASE FindId(t)
      <4>1. /\ req[t].method = "POST"
            /\ \/ req[t].nume \in {BAD, BROKEN} /\ Replies(t, 400, <<>>, MOVIES)
               \/ Proceeds(t, "post", FirstAvailable(MOVIES))
        BY <3>5, FindIdIs
      <4>2. HasFound(t, "post", FirstAvailable(MOVIES))
        BY DEF HasFound
      <4>3. req[t].nume \in {BAD, BROKEN} => Correct(MOVIES, req[t], 400, <<>>, MOVIES)
        BY <4>1 DEF Correct
      <4> QED BY <4>1, <4>2, <4>3, ProceedsCalm, RepliesCalm
    <3>6. CASE Post(t)
      BY <3>6, PostCalm
    <3>7. CASE List(t)
      BY <3>7, ListCalm
    <3>8. CASE ListItem(t)
      BY <3>8, ListItemCalm
    <3>9. CASE Reset(t)
      <4>1. req[t].method = "RESET" /\ Replies(t, 200, <<>>, <<>>)
        BY <3>9, ResetIs
      <4>2. Correct(MOVIES, req[t], 200, <<>>, <<>>)
        BY <4>1 DEF Correct
      <4> QED BY <4>1, <4>2, RepliesCalm
    <3> QED BY <2>2, <3>1, <3>2, <3>3, <3>4, <3>5, <3>6, <3>7, <3>8, <3>9 DEF Step
  <2>3. CASE UNCHANGED vars
    <3>1. UNCHANGED <<MOVIES, pc, req, found, calm, reply>>
      BY <2>3 DEF vars, history
    <3>2. Busy' = Busy
      BY <3>1 DEF Busy
    <3>3. ASSUME NEW u \in Busy PROVE Calm(u)'
      <4>1. Calm(u)
        BY DEF EachCalm
      <4> QED BY <3>1, <4>1 DEF Calm, Keys, Live
    <3> QED BY <3>1, <3>2, <3>3 DEF EachCalm, UndisturbedIsAtomic
  <2> QED BY <2>2, <2>3, StartCalm DEF Next
<1> QED BY <1>1, <1>2, SoundInvariant, PTL DEF Spec

=============================================================================
