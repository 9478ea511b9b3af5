----------------------------- MODULE RpcDbStats -----------------------------
(***************************************************************************)
(* The statistics the server of Teme/Tema1 keeps for one user: computed    *)
(* once for an entry, and carried from one write to the next for the whole *)
(* database, whose average is weighted by num_elem.                        *)
(*                                                                         *)
(* The values are integers and the arithmetic is exact: averages are       *)
(* rationals in lowest terms and medians are kept doubled.  Rounding is    *)
(* not modelled.  Only the handlers that write statistics are here, for a  *)
(* session whose files are whole; refusals, damaged files and other users  *)
(* are in RpcDbServer.                                                     *)
(***************************************************************************)
EXTENDS Integers, SequencesExt

CONSTANTS
  NumIds,
  Array,      \* the arrays of an add or an update, none of them empty
  INFINITY,
  NONE,
  MaxWrites   \* bound on the adds and updates of a behaviour

Id == 1 .. NumIds
Value == -INFINITY + 1 .. INFINITY - 1

Entry == [values: Seq(Int), min: Int, max: Int, avg: Int \X Int, med2: Int]

ASSUME StatsAssumption ==
  /\ NumIds \in Nat \ {0}
  /\ MaxWrites \in Nat
  /\ INFINITY \in Int
  /\ \A a \in Array : a \in Seq(Value) /\ a # <<>>
  /\ NONE \notin Entry

VARIABLES
  session,   \* the user's ClientData, or NONE
  file,      \* the ClientData last stored, or NONE
  last,      \* history: the last handler
  writes     \* adds and updates so far

vars == <<session, file, last, writes>>

-----------------------------------------------------------------------------
\* Rationals <<numerator, denominator>>; NAN has no value.
NAN == <<0, 0>>
Lowest(n, d) ==
  LET g == Max({f \in 1 .. d : n % f = 0 /\ d % f = 0}) IN <<n \div g, d \div g>>
AtMost(p, q) == p[1] * q[2] <= q[1] * p[2]
Whole(n) == <<n, 1>>

Total(s) == FoldLeft(+, 0, s)
Least(x, y) == IF x > y THEN y ELSE x
Greatest(x, y) == IF x < y THEN y ELSE x

\* The values of s in order: as many come before one as are smaller, or equal
\* and earlier in s.
Sorted(s) ==
  LET Before(i) == {j \in DOMAIN s : s[j] < s[i] \/ (s[j] = s[i] /\ j < i)}
  IN  [k \in DOMAIN s |->
         s[CHOOSE i \in DOMAIN s : Cardinality(Before(i)) = k - 1]]

\* A fault: the median of an even number of values is the upper of the two
\* in the middle.
UpperMedian2(s) == 2 * Sorted(s)[Len(s) \div 2 + 1]

(***************************************************************************)
(* The median by std::nth_element: the element at Len \div 2 is in its     *)
(* sorted place and none before it is larger.  Twice the median.           *)
(***************************************************************************)
Median2(s) ==
  LET placed == Sorted(s)
      half == Len(s) \div 2
  IN  IF Len(s) % 2 = 1
        THEN 2 * placed[half + 1]
        ELSE placed[half + 1] + Max({placed[i] : i \in 1 .. half})

\* A fault: the minimum starts at 0.
DataEntryFromZero(v) ==
  [values |-> v, min |-> FoldLeft(Least, 0, v),
   max |-> FoldLeft(Greatest, -INFINITY, v), avg |-> Lowest(Total(v), Len(v)),
   med2 |-> Median2(v)]

DataEntry(v) ==
  [values |-> v,
   min    |-> FoldLeft(Least, INFINITY, v),
   max    |-> FoldLeft(Greatest, -INFINITY, v),
   avg    |-> Lowest(Total(v), Len(v)),
   med2   |-> Median2(v)]

AllVals(data) ==
  FlattenSeq([i \in Id |-> IF data[i] = NONE THEN <<>> ELSE data[i].values])
NumEntries(data) == Cardinality({i \in Id : data[i] # NONE})

(***************************************************************************)
(* ClientData, with a history field drift: what is known to be off.        *)
(*   "none"   num_elem and the statistics are those of the data            *)
(*   "count"  num_elem is the number of entries, since a load put it there *)
(*   "all"    values that are gone have left their mark                    *)
(***************************************************************************)
NewClientData ==
  [data |-> [i \in Id |-> NONE], num_elem |-> 0, min |-> INFINITY,
   max |-> -INFINITY, avg |-> NAN, med2 |-> NONE, drift |-> "none"]

\* Two faults: an average weighted by one value more than there are, and an
\* average of averages.
UpdateStatsHeavy(s, d, e) ==
  LET len == Len(e.values)
      num == s.num_elem + len
      avg == IF s.avg = NAN THEN Whole(0) ELSE s.avg
  IN  [s EXCEPT
         !.data = d, !.num_elem = num,
         !.min = Least(@, e.min), !.max = Greatest(@, e.max),
         !.avg = Lowest(avg[1] * s.num_elem * e.avg[2] + e.avg[1] * len * avg[2],
                        avg[2] * e.avg[2] * (num + 1)),
         !.med2 = Median2(AllVals(d))]
UpdateStatsUnweighted(s, d, e) ==
  [s EXCEPT
     !.data = d, !.num_elem = @ + Len(e.values),
     !.min = Least(@, e.min), !.max = Greatest(@, e.max),
     !.avg = IF @ = NAN THEN e.avg
             ELSE Lowest(@[1] * e.avg[2] + e.avg[1] * @[2], 2 * @[2] * e.avg[2]),
     !.med2 = Median2(AllVals(d))]

\* update_stats, once entry e is in the database, whose data is now d.
UpdateStats(s, d, e) ==
  LET len == Len(e.values)
      num == s.num_elem + len
      avg == IF s.avg = NAN THEN Whole(0) ELSE s.avg
  IN  [s EXCEPT
         !.data = d,
         !.num_elem = num,
         !.min = Least(@, e.min),
         !.max = Greatest(@, e.max),
         !.avg = Lowest(avg[1] * s.num_elem * e.avg[2] + e.avg[1] * len * avg[2],
                        avg[2] * e.avg[2] * num),
         !.med2 = Median2(AllVals(d))]

-----------------------------------------------------------------------------
Init == session = NONE /\ file = NONE /\ last = "start" /\ writes = 0

login ==
  /\ session = NONE
  /\ session' = NewClientData
  /\ last' = "login"
  /\ UNCHANGED <<file, writes>>

logout ==
  /\ session # NONE
  /\ session' = NONE
  /\ last' = "logout"
  /\ UNCHANGED <<file, writes>>

add_update(id, v) ==
  /\ session # NONE /\ writes < MaxWrites
  /\ LET adds == session.data[id] = NONE
         e == DataEntry(v)
         s == UpdateStats(session, [session.data EXCEPT ![id] = e], e)
     IN  session' = [s EXCEPT !.drift = IF adds /\ @ = "none" THEN "none"
                                        ELSE "all"]
  /\ last' = "add_update"
  /\ writes' = writes + 1
  /\ UNCHANGED file

\* del leaves the statistics alone.
del(id) ==
  /\ session # NONE /\ session.data[id] # NONE
  /\ session' = [session EXCEPT !.data[id] = NONE, !.drift = "all"]
  /\ last' = "del"
  /\ UNCHANGED <<file, writes>>

\* The file starts with the number of entries, and load reads num_elem there.
load ==
  /\ session # NONE /\ NumEntries(session.data) = 0 /\ file # NONE
  /\ session' = [file EXCEPT
                   !.num_elem = NumEntries(file.data),
                   !.drift = IF @ = "none" THEN "count" ELSE @]
  /\ last' = "load"
  /\ UNCHANGED <<file, writes>>

store ==
  /\ session # NONE /\ NumEntries(session.data) # 0
  /\ file' = session
  /\ last' = "store"
  /\ UNCHANGED <<session, writes>>

Next ==
  \/ login \/ logout \/ load \/ store
  \/ \E id \in Id : del(id) \/ \E v \in Array : add_update(id, v)

Spec == Init /\ [][Next]_vars

-----------------------------------------------------------------------------
\* References: what the statistics of the values s should be.
Mean(s) == Lowest(Total(s), Len(s))
LowerMedian(s) ==
  Min({x \in ToSet(s) : 2 * Cardinality({i \in DOMAIN s : s[i] <= x}) >= Len(s)})
UpperMedian(s) ==
  Max({x \in ToSet(s) : 2 * Cardinality({i \in DOMAIN s : s[i] >= x}) >= Len(s)})
TrueMedian2(s) == LowerMedian(s) + UpperMedian(s)

HasEntries == session # NONE /\ NumEntries(session.data) # 0

\* The statistics of an entry, which get_stats returns and store and load
\* carry along, are those of its values.
EntryStatsAreExact ==
  \A i \in Id : session # NONE /\ session.data[i] # NONE =>
     LET e == session.data[i]
     IN  /\ e.min = Min(ToSet(e.values)) /\ e.max = Max(ToSet(e.values))
         /\ e.avg = Mean(e.values) /\ e.med2 = TrueMedian2(e.values)

\* After any add or update the database's median is that of all its values,
\* whatever was deleted, updated or loaded before.
MedianIsRecalculated ==
  last = "add_update" => session.med2 = TrueMedian2(AllVals(session.data))

\* However far the average and the median have drifted from the data, they
\* stay between min and max, which bound every value there is, updated or
\* loaded.
StatsAreOrdered ==
  HasEntries =>
    /\ AtMost(Whole(session.min), session.avg)
    /\ AtMost(session.avg, Whole(session.max))
    /\ 2 * session.min <= session.med2 /\ session.med2 <= 2 * session.max
    /\ \A x \in ToSet(AllVals(session.data)) :
         session.min <= x /\ x <= session.max

\* The statistics of a database are exact until an entry is updated or
\* deleted or one is added to what a load brought back.
ExactUntilDrift ==
  HasEntries /\ session.drift # "all" =>
    LET s == AllVals(session.data)
    IN  /\ session.min = Min(ToSet(s)) /\ session.max = Max(ToSet(s))
        /\ session.avg = Mean(s) /\ session.med2 = TrueMedian2(s)
        /\ session.num_elem = IF session.drift = "none"
                                THEN Len(s) ELSE NumEntries(session.data)
=============================================================================
