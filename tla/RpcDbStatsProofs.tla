-------------------------- MODULE RpcDbStatsProofs --------------------------
(***************************************************************************)
(* What holds of the statistics of one user for any arrays and any number  *)
(* of ids and writes: those of an entry are exact, the median is that of   *)
(* the data after every write, min and max bound whatever the average and  *)
(* the median have become, and all are exact until the data drifts.        *)
(***************************************************************************)
EXTENDS RpcDbStats, FiniteSetTheorems, SequenceTheorems, TLAPS

-----------------------------------------------------------------------------
\* Induction, with a set for what is to be shown.

LEMMA LeastNumber ==
  ASSUME NEW S, S \subseteq Nat, S # {}
  PROVE  \E n \in S : \A k \in S : n <= k
<1> DEFINE R == {p \in Nat \X Nat : p[1] < p[2]}
<1>1. IsWellFoundedOn(R, Nat)
  BY NatLessThanWellFounded DEF OpToRel
<1>2. PICK n \in S : \A k \in S : ~ (<<k, n>> \in R)
  <2> HIDE DEF R
  <2> QED BY <1>1, WFMin
<1>3. \A k \in S : n <= k
  <2> SUFFICES ASSUME NEW k \in S PROVE n <= k
    OBVIOUS
  <2>1. n \in Nat /\ k \in Nat /\ ~ (<<k, n>> \in R)
    BY <1>2
  <2>2. ~ (k < n)
    BY <2>1
  <2> QED BY <2>1, <2>2
<1> QED BY <1>3

\* A set of numbers that has 0, and every k up to n if it has k - 1.
LEMMA Counting ==
  ASSUME NEW n \in Nat, NEW A, 0 \in A,
         \A k \in 1 .. n : k - 1 \in A => k \in A
  PROVE  0 .. n \subseteq A
<1> DEFINE Missing == (0 .. n) \ A
<1>1. SUFFICES ASSUME Missing # {} PROVE FALSE
  OBVIOUS
<1>2. PICK m \in Missing : \A k \in Missing : m <= k
  <2> Missing \subseteq Nat
    OBVIOUS
  <2> HIDE DEF Missing
  <2> QED BY <1>1, LeastNumber
<1>3. m \in 1 .. n /\ m \notin A
  BY SMT
<1>4. m - 1 \notin Missing
  BY <1>2, <1>3
<1> QED BY <1>3, <1>4

\* A finite set of integers that is not empty has a least and a greatest.
LEMMA FiniteHasMin ==
  ASSUME NEW S, S \subseteq Int, S # {}, NEW b \in Int, \A x \in S : b <= x
  PROVE  Min(S) \in S /\ \A x \in S : Min(S) <= x
<1> DEFINE D == {x - b : x \in S}
<1>1. D \subseteq Nat /\ D # {}
  <2>1. \A x \in S : x \in Int /\ b <= x /\ x - b \in Nat
    OBVIOUS
  <2> QED BY <2>1
<1>2. PICK d \in D : \A e \in D : d <= e
  <2> HIDE DEF D
  <2> QED BY <1>1, LeastNumber
<1>3. PICK x \in S : d = x - b
  OBVIOUS
<1>4. \A y \in S : x <= y
  <2> SUFFICES ASSUME NEW y \in S PROVE x <= y
    OBVIOUS
  <2>1. d <= y - b
    BY <1>2
  <2> QED BY <1>3, <2>1
<1> QED BY <1>4 DEF Min

LEMMA FiniteHasMax ==
  ASSUME NEW S, S \subseteq Int, S # {}, NEW b \in Int, \A x \in S : x <= b
  PROVE  Max(S) \in S /\ \A x \in S : x <= Max(S)
<1> DEFINE D == {b - x : x \in S}
<1>1. D \subseteq Nat /\ D # {}
  <2>1. \A x \in S : x \in Int /\ x <= b /\ b - x \in Nat
    OBVIOUS
  <2> QED BY <2>1
<1>2. PICK d \in D : \A e \in D : d <= e
  <2> HIDE DEF D
  <2> QED BY <1>1, LeastNumber
<1>3. PICK x \in S : d = b - x
  OBVIOUS
<1>4. \A y \in S : y <= x
  <2> SUFFICES ASSUME NEW y \in S PROVE y <= x
    OBVIOUS
  <2>1. d <= b - y
    BY <1>2
  <2> QED BY <1>3, <2>1
<1> QED BY <1>4 DEF Max

LEMMA LeastIsMin ==
  ASSUME NEW S, S \subseteq Int, NEW m \in S, \A x \in S : m <= x
  PROVE  Min(S) = m
<1>1. PICK c : c = Min(S)
  OBVIOUS
<1>2. c \in S /\ c <= m
  BY <1>1 DEF Min
<1>3. c \in Int /\ m \in Int /\ m <= c
  BY <1>2
<1> QED BY <1>1, <1>2, <1>3

LEMMA GreatestIsMax ==
  ASSUME NEW S, S \subseteq Int, NEW m \in S, \A x \in S : x <= m
  PROVE  Max(S) = m
<1>1. PICK c : c = Max(S)
  OBVIOUS
<1>2. c \in S /\ c >= m
  BY <1>1 DEF Max
<1>3. c \in Int /\ m \in Int /\ c <= m
  BY <1>2
<1> QED BY <1>1, <1>2, <1>3

-----------------------------------------------------------------------------
\* Folds.

\* What a fold of step over the set U gives, by the element that c chooses.
Folded(f, base, c, step, U) ==
  f[U] = IF U = {} THEN base ELSE step[c[U]][f[U \ {c[U]}]]

\* A fold over the subsets of a finite set is a function.
LEMMA FoldExists ==
  ASSUME NEW S, IsFiniteSet(S), NEW T, NEW base \in T,
         NEW c, \A U \in SUBSET S : U # {} => c[U] \in U,
         NEW step \in [S -> [T -> T]]
  PROVE  \E f \in [SUBSET S -> T] :
            \A U \in SUBSET S : Folded(f, base, c, step, U)
<1> DEFINE UpTo(h, m) == \A U \in SUBSET S :
                           Cardinality(U) <= m => Folded(h, base, c, step, U)
           A == {m \in Nat : \E h \in [SUBSET S -> T] : UpTo(h, m)}
<1>1. \A U \in SUBSET S : IsFiniteSet(U) /\ Cardinality(U) \in Nat
                          /\ Cardinality(U) <= Cardinality(S)
  BY FS_Subset, FS_CardinalityType
<1>2. 0 \in A
  <2> DEFINE g == [U \in SUBSET S |-> base]
  <2>1. \A U \in SUBSET S : Cardinality(U) <= 0 => U = {}
    BY <1>1, FS_EmptySet
  <2>2. UpTo(g, 0)
    BY <2>1 DEF Folded
  <2>3. g \in [SUBSET S -> T]
    OBVIOUS
  <2> HIDE DEF g
  <2> QED BY <2>2, <2>3
<1>3. ASSUME NEW k \in 1 .. Cardinality(S), k - 1 \in A
      PROVE  k \in A
  <2>1. PICK f \in [SUBSET S -> T] : UpTo(f, k - 1)
    BY <1>3
  <2> DEFINE Next1(U) == IF U = {} THEN base ELSE step[c[U]][f[U \ {c[U]}]]
             g == [U \in SUBSET S |-> Next1(U)]
  <2>2. \A U \in SUBSET S : U # {} => c[U] \in U /\ U \ {c[U]} \in SUBSET S
    OBVIOUS
  <2>3. \A U \in SUBSET S : Next1(U) \in T
    BY <2>2
  <2>4. g \in [SUBSET S -> T] /\ \A U \in SUBSET S : g[U] = Next1(U)
    <3> HIDE DEF Next1
    <3> QED BY <2>3
  <2>5. ASSUME NEW U \in SUBSET S, Cardinality(U) <= k - 1
        PROVE  g[U] = f[U]
    <3>1. f[U] = Next1(U)
      BY <2>1, <2>5 DEF Folded
    <3> HIDE DEF g, Next1
    <3> QED BY <3>1, <2>4
  <2> HIDE DEF g
  <2>6. ASSUME NEW U \in SUBSET S, Cardinality(U) <= k
        PROVE  Folded(g, base, c, step, U)
    <3>1. CASE U = {}
      BY <3>1, <2>4 DEF Folded
    <3>2. CASE U # {}
      <4>1. PICK V \in SUBSET S : V = U \ {c[U]}
        BY <2>2, <3>2
      <4>2. Cardinality(V) = Cardinality(U) - 1
        BY <1>1, <3>2, <2>2, <4>1, FS_RemoveElement
      <4>3. Cardinality(V) <= k - 1
        BY <4>2, <2>6, <1>1, FS_CardinalityType
      <4>4. g[V] = f[V]
        BY <4>3, <2>5
      <4>5. g[U] = step[c[U]][f[V]]
        BY <3>2, <2>4, <4>1
      <4> QED BY <3>2, <4>1, <4>4, <4>5 DEF Folded
    <3> QED BY <3>1, <3>2
  <2>7. UpTo(g, k)
    BY <2>6
  <2> HIDE DEF UpTo
  <2> QED BY <2>4, <2>7
<1>4. Cardinality(S) \in Nat
  BY <1>1
<1>5. Cardinality(S) \in A
  <2> HIDE DEF A
  <2>1. 0 .. Cardinality(S) \subseteq A
    BY <1>2, <1>3, <1>4, Counting
  <2> QED BY <2>1, <1>4
<1>6. PICK f \in [SUBSET S -> T] : UpTo(f, Cardinality(S))
  BY <1>5
<1>7. \A U \in SUBSET S : Folded(f, base, c, step, U)
  BY <1>6, <1>1
<1> QED BY <1>7

\* The segments 1 .. k, over which a fold of a sequence goes.
LEMMA Segments ==
  ASSUME NEW n \in Nat
  PROVE  /\ IsFiniteSet(1 .. n)
         /\ \A U \in SUBSET (1 .. n) : U # {} => Max(U) \in U
         /\ 1 .. 0 = {}
         /\ \A k \in 1 .. n : /\ 1 .. k \in SUBSET (1 .. n) /\ 1 .. k # {}
                              /\ Max(1 .. k) = k /\ (1 .. k) \ {k} = 1 .. k - 1
<1>1. ASSUME NEW U \in SUBSET (1 .. n), U # {}
      PROVE  Max(U) \in U /\ \A x \in U : x <= Max(U)
  <2>1. U \subseteq Int /\ n \in Int /\ \A x \in U : x <= n
    OBVIOUS
  <2> HIDE DEF Max
  <2> QED BY <1>1, <2>1, FiniteHasMax
<1>2. ASSUME NEW k \in 1 .. n
      PROVE  /\ 1 .. k \in SUBSET (1 .. n) /\ 1 .. k # {}
             /\ Max(1 .. k) = k /\ (1 .. k) \ {k} = 1 .. k - 1
  <2>1. 1 .. k \in SUBSET (1 .. n) /\ k \in 1 .. k
    OBVIOUS
  <2>2. PICK m : m = Max(1 .. k)
    OBVIOUS
  <2>3. m \in 1 .. k /\ k <= m
    BY <1>1, <2>1, <2>2
  <2>4. m = k
    BY <2>3
  <2> QED BY <2>1, <2>2, <2>4
<1>3. IsFiniteSet(1 .. n)
  BY FS_Interval
<1> QED BY <1>1, <1>2, <1>3

\* Total adds the values up one by one.
LEMMA TotalRun ==
  ASSUME NEW s \in Seq(Int)
  PROVE  \E f \in [0 .. Len(s) -> Int] :
            /\ f[0] = 0
            /\ \A k \in 1 .. Len(s) : f[k] = f[k - 1] + s[k]
            /\ Total(s) = f[Len(s)]
<1> DEFINE n == Len(s)
           c == [U \in SUBSET (1 .. n) |-> Max(U)]
           step == [i \in 1 .. n |-> [t \in Int |-> t + s[i]]]
           Eq(h) == h = [U \in SUBSET (1 .. n) |->
                           IF U = {} THEN 0 ELSE h[U \ {Max(U)}] + s[Max(U)]]
<1>1. n \in Nat /\ DOMAIN s = 1 .. n /\ \A i \in 1 .. n : s[i] \in Int
  OBVIOUS
<1>2. \E h : Eq(h)
  <2>1. step \in [1 .. n -> [Int -> Int]]
    BY <1>1
  <2>2. \A U \in SUBSET (1 .. n) : U # {} => c[U] \in U
    BY <1>1, Segments
  <2>3. PICK h \in [SUBSET (1 .. n) -> Int] :
           \A U \in SUBSET (1 .. n) : Folded(h, 0, c, step, U)
    <3>1. IsFiniteSet(1 .. n) /\ 0 \in Int
      BY <1>1, Segments
    <3> HIDE DEF c, step, n
    <3> QED BY <2>1, <2>2, <3>1, FoldExists
  <2>4. ASSUME NEW U \in SUBSET (1 .. n), U # {}
        PROVE  h[U] = h[U \ {Max(U)}] + s[Max(U)]
    BY <2>2, <2>3, <2>4 DEF Folded
  <2>5. h[{}] = 0
    BY <2>3 DEF Folded
  <2> QED BY <2>3, <2>4, <2>5
<1>3. PICK iter : Eq(iter) /\ Total(s) = iter[1 .. n]
  BY <1>1, <1>2 DEF Total, FoldLeft, MapThenFoldSet
<1> DEFINE f == [k \in 0 .. n |-> iter[1 .. k]]
<1>4. f[0] = 0 /\ Total(s) = f[n]
  <2>1. 1 .. 0 = {} /\ 0 \in 0 .. n /\ n \in 0 .. n
    BY <1>1
  <2>2. f[0] = iter[{}] /\ f[n] = iter[1 .. n]
    BY <2>1
  <2>3. iter[{}] = 0
    BY <1>3
  <2> QED BY <1>3, <2>2, <2>3
<1>5. ASSUME NEW k \in 1 .. n PROVE f[k] = f[k - 1] + s[k]
  <2>1. \A U \in SUBSET (1 .. n) :
           U # {} => iter[U] = iter[U \ {Max(U)}] + s[Max(U)]
    BY <1>3
  <2>2. iter[1 .. k] = iter[1 .. k - 1] + s[k]
    BY <2>1, <1>1, Segments
  <2> QED BY <2>2
<1>6. 0 .. n \subseteq {k \in 0 .. n : f[k] \in Int}
  <2> DEFINE A == {k \in 0 .. n : f[k] \in Int}
  <2> HIDE DEF f, n
  <2>1. 0 \in A /\ \A k \in 1 .. n : k - 1 \in A => k \in A
    BY <1>1, <1>4, <1>5
  <2>2. 0 .. n \subseteq A
    <3> HIDE DEF A
    <3> QED BY <2>1, <1>1, Counting
  <2> QED BY <2>2
<1>7. f \in [0 .. n -> Int]
  BY <1>6
<1> QED BY <1>4, <1>5, <1>7

LEMMA LeastAndGreatest ==
  ASSUME NEW x \in Int, NEW y \in Int
  PROVE  /\ Least(x, y) \in {x, y} /\ Least(x, y) \in Int
         /\ Least(x, y) <= x /\ Least(x, y) <= y
         /\ Greatest(x, y) \in {x, y} /\ Greatest(x, y) \in Int
         /\ x <= Greatest(x, y) /\ y <= Greatest(x, y)
BY DEF Least, Greatest

\* The fold of the minima, and that of the maxima.
LEMMA LeastRun ==
  ASSUME NEW s \in Seq(Int), NEW b \in Int
  PROVE  \E f \in [0 .. Len(s) -> Int] :
            /\ f[0] = b
            /\ \A k \in 1 .. Len(s) : f[k] = Least(f[k - 1], s[k])
            /\ FoldLeft(Least, b, s) = f[Len(s)]
<1> DEFINE n == Len(s)
           c == [U \in SUBSET (1 .. n) |-> Max(U)]
           step == [i \in 1 .. n |-> [t \in Int |-> Least(t, s[i])]]
           Eq(h) == h = [U \in SUBSET (1 .. n) |->
                           IF U = {} THEN b
                           ELSE Least(h[U \ {Max(U)}], s[Max(U)])]
<1>1. n \in Nat /\ DOMAIN s = 1 .. n /\ \A i \in 1 .. n : s[i] \in Int
  OBVIOUS
<1>2. \E h : Eq(h)
  <2>1. step \in [1 .. n -> [Int -> Int]]
    BY <1>1 DEF Least
  <2>2. \A U \in SUBSET (1 .. n) : U # {} => c[U] \in U
    BY <1>1, Segments
  <2>3. PICK h \in [SUBSET (1 .. n) -> Int] :
           \A U \in SUBSET (1 .. n) : Folded(h, b, c, step, U)
    <3>1. IsFiniteSet(1 .. n) /\ b \in Int
      BY <1>1, Segments
    <3> HIDE DEF c, step, n
    <3> QED BY <2>1, <2>2, <3>1, FoldExists
  <2>4. ASSUME NEW U \in SUBSET (1 .. n), U # {}
        PROVE  h[U] = Least(h[U \ {Max(U)}], s[Max(U)])
    BY <2>2, <2>3, <2>4 DEF Folded
  <2>5. h[{}] = b
    BY <2>3 DEF Folded
  <2> QED BY <2>3, <2>4, <2>5
<1>3. PICK iter : Eq(iter) /\ FoldLeft(Least, b, s) = iter[1 .. n]
  BY <1>1, <1>2 DEF FoldLeft, MapThenFoldSet
<1> DEFINE f == [k \in 0 .. n |-> iter[1 .. k]]
<1>4. f[0] = b
  BY <1>1, <1>3, Segments
<1>5. ASSUME NEW k \in 1 .. n PROVE f[k] = Least(f[k - 1], s[k])
  <2>1. \A U \in SUBSET (1 .. n) :
           U # {} => iter[U] = Least(iter[U \ {Max(U)}], s[Max(U)])
    BY <1>3
  <2>2. iter[1 .. k] = Least(iter[1 .. k - 1], s[k])
    BY <2>1, <1>1, Segments
  <2> QED BY <2>2
<1>6. 0 .. n \subseteq {k \in 0 .. n : f[k] \in Int}
  <2> DEFINE A == {k \in 0 .. n : f[k] \in Int}
  <2> HIDE DEF f, n
  <2>1. ASSUME NEW k \in 1 .. n, k - 1 \in A PROVE k \in A
    <3>1. f[k - 1] \in Int /\ s[k] \in Int
      BY <1>1, <2>1
    <3>2. f[k] \in Int
      BY <1>5, <3>1, LeastAndGreatest
    <3> QED BY <3>2
  <2>3. 0 \in A
    BY <1>1, <1>4
  <2>2. 0 .. n \subseteq A
    <3> HIDE DEF A
    <3> QED BY <2>1, <2>3, <1>1, Counting
  <2> QED BY <2>2
<1>7. f \in [0 .. n -> Int]
  BY <1>6
<1>8. FoldLeft(Least, b, s) = f[n]
  BY <1>1, <1>3
<1> QED BY <1>4, <1>5, <1>7, <1>8

LEMMA GreatestRun ==
  ASSUME NEW s \in Seq(Int), NEW b \in Int
  PROVE  \E f \in [0 .. Len(s) -> Int] :
            /\ f[0] = b
            /\ \A k \in 1 .. Len(s) : f[k] = Greatest(f[k - 1], s[k])
            /\ FoldLeft(Greatest, b, s) = f[Len(s)]
<1> DEFINE n == Len(s)
           c == [U \in SUBSET (1 .. n) |-> Max(U)]
           step == [i \in 1 .. n |-> [t \in Int |-> Greatest(t, s[i])]]
           Eq(h) == h = [U \in SUBSET (1 .. n) |->
                           IF U = {} THEN b
                           ELSE Greatest(h[U \ {Max(U)}], s[Max(U)])]
<1>1. n \in Nat /\ DOMAIN s = 1 .. n /\ \A i \in 1 .. n : s[i] \in Int
  OBVIOUS
<1>2. \E h : Eq(h)
  <2>1. step \in [1 .. n -> [Int -> Int]]
    BY <1>1 DEF Greatest
  <2>2. \A U \in SUBSET (1 .. n) : U # {} => c[U] \in U
    BY <1>1, Segments
  <2>3. PICK h \in [SUBSET (1 .. n) -> Int] :
           \A U \in SUBSET (1 .. n) : Folded(h, b, c, step, U)
    <3>1. IsFiniteSet(1 .. n) /\ b \in Int
      BY <1>1, Segments
    <3> HIDE DEF c, step, n
    <3> QED BY <2>1, <2>2, <3>1, FoldExists
  <2>4. ASSUME NEW U \in SUBSET (1 .. n), U # {}
        PROVE  h[U] = Greatest(h[U \ {Max(U)}], s[Max(U)])
    BY <2>2, <2>3, <2>4 DEF Folded
  <2>5. h[{}] = b
    BY <2>3 DEF Folded
  <2> QED BY <2>3, <2>4, <2>5
<1>3. PICK iter : Eq(iter) /\ FoldLeft(Greatest, b, s) = iter[1 .. n]
  BY <1>1, <1>2 DEF FoldLeft, MapThenFoldSet
<1> DEFINE f == [k \in 0 .. n |-> iter[1 .. k]]
<1>4. f[0] = b
  BY <1>1, <1>3, Segments
<1>5. ASSUME NEW k \in 1 .. n PROVE f[k] = Greatest(f[k - 1], s[k])
  <2>1. \A U \in SUBSET (1 .. n) :
           U # {} => iter[U] = Greatest(iter[U \ {Max(U)}], s[Max(U)])
    BY <1>3
  <2>2. iter[1 .. k] = Greatest(iter[1 .. k - 1], s[k])
    BY <2>1, <1>1, Segments
  <2> QED BY <2>2
<1>6. 0 .. n \subseteq {k \in 0 .. n : f[k] \in Int}
  <2> DEFINE A == {k \in 0 .. n : f[k] \in Int}
  <2> HIDE DEF f, n
  <2>1. ASSUME NEW k \in 1 .. n, k - 1 \in A PROVE k \in A
    <3>1. f[k - 1] \in Int /\ s[k] \in Int
      BY <1>1, <2>1
    <3>2. f[k] \in Int
      BY <1>5, <3>1, LeastAndGreatest
    <3> QED BY <3>2
  <2>3. 0 \in A
    BY <1>1, <1>4
  <2>2. 0 .. n \subseteq A
    <3> HIDE DEF A
    <3> QED BY <2>1, <2>3, <1>1, Counting
  <2> QED BY <2>2
<1>7. f \in [0 .. n -> Int]
  BY <1>6
<1>8. FoldLeft(Greatest, b, s) = f[n]
  BY <1>1, <1>3
<1> QED BY <1>4, <1>5, <1>7, <1>8

-----------------------------------------------------------------------------
\* The loop of DataEntry, for values that are less than INFINITY.

LEMMA LeastFold ==
  ASSUME NEW s \in Seq(Int), NEW b \in Int, s # <<>>,
         \A i \in DOMAIN s : s[i] < b
  PROVE  LET m == FoldLeft(Least, b, s)
         IN  m = Min(ToSet(s)) /\ m \in ToSet(s) /\ \A x \in ToSet(s) : m <= x
<1> DEFINE n == Len(s)
           m == FoldLeft(Least, b, s)
<1>1. n \in Nat \ {0} /\ DOMAIN s = 1 .. n /\ \A i \in 1 .. n : s[i] \in Int
  BY EmptySeq
<1>2. PICK f \in [0 .. n -> Int] :
         /\ f[0] = b
         /\ \A k \in 1 .. n : f[k] = Least(f[k - 1], s[k])
         /\ m = f[n]
  BY LeastRun
<1> HIDE DEF m
<1> DEFINE Good(k) == /\ \A i \in 1 .. k : f[k] <= s[i]
                      /\ k = 0 \/ \E i \in 1 .. k : f[k] = s[i]
           A == {k \in 0 .. n : Good(k)}
<1>3. 0 \in A
  <2>1. 0 \in 0 .. n /\ 1 .. 0 = {}
    BY <1>1
  <2> HIDE DEF n
  <2> QED BY <2>1
<1>4. ASSUME NEW k \in 1 .. n, k - 1 \in A PROVE k \in A
  <2>1. f[k - 1] \in Int /\ s[k] \in Int /\ f[k] \in Int
    <3>1. k \in 0 .. n /\ k - 1 \in 0 .. n
      BY <1>1
    <3>2. s[k] \in Int
      BY <1>1
    <3> HIDE DEF n
    <3> QED BY <3>1, <3>2
  <2>2. f[k] \in {f[k - 1], s[k]} /\ f[k] <= f[k - 1] /\ f[k] <= s[k]
    <3>1. f[k] = Least(f[k - 1], s[k])
      BY <1>2
    <3> QED BY <2>1, <3>1 DEF Least
  <2>3. \A i \in 1 .. k : i = k \/ i \in 1 .. k - 1
    OBVIOUS
  <2>4. \A i \in 1 .. k : f[k] <= s[i]
    BY <1>1, <1>4, <2>1, <2>2, <2>3
  <2>5. \E i \in 1 .. k : f[k] = s[i]
    <3>1. CASE f[k] = s[k]
      BY <3>1
    <3>2. CASE f[k] = f[k - 1] /\ k # 1
      BY <1>4, <3>2
    <3>3. CASE f[k] = f[k - 1] /\ k = 1
      BY <1>1, <1>2, <2>1, <2>2, <3>3
    <3> QED BY <2>2, <3>1, <3>2, <3>3
  <2> QED BY <2>4, <2>5
<1>5. Good(n)
  <2>1. 0 .. n \subseteq A
    <3> HIDE DEF A, n
    <3> QED BY <1>1, <1>3, <1>4, Counting
  <2> QED BY <2>1, <1>1
<1>6. m \in ToSet(s) /\ \A x \in ToSet(s) : m <= x
  BY <1>1, <1>2, <1>5 DEF ToSet
<1>7. \A x \in ToSet(s) : x \in Int
  BY <1>1 DEF ToSet
<1>8. m = Min(ToSet(s))
  BY <1>6, <1>7 DEF Min
<1> QED BY <1>6, <1>8 DEF m

LEMMA GreatestFold ==
  ASSUME NEW s \in Seq(Int), NEW b \in Int, s # <<>>,
         \A i \in DOMAIN s : b < s[i]
  PROVE  LET m == FoldLeft(Greatest, b, s)
         IN  m = Max(ToSet(s)) /\ m \in ToSet(s) /\ \A x \in ToSet(s) : x <= m
<1> DEFINE n == Len(s)
           m == FoldLeft(Greatest, b, s)
<1>1. n \in Nat \ {0} /\ DOMAIN s = 1 .. n /\ \A i \in 1 .. n : s[i] \in Int
  BY EmptySeq
<1>2. PICK f \in [0 .. n -> Int] :
         /\ f[0] = b
         /\ \A k \in 1 .. n : f[k] = Greatest(f[k - 1], s[k])
         /\ m = f[n]
  BY GreatestRun
<1> HIDE DEF m
<1> DEFINE Good(k) == /\ \A i \in 1 .. k : s[i] <= f[k]
                      /\ k = 0 \/ \E i \in 1 .. k : f[k] = s[i]
           A == {k \in 0 .. n : Good(k)}
<1>3. 0 \in A
  <2>1. 0 \in 0 .. n /\ 1 .. 0 = {}
    BY <1>1
  <2> HIDE DEF n
  <2> QED BY <2>1
<1>4. ASSUME NEW k \in 1 .. n, k - 1 \in A PROVE k \in A
  <2>1. f[k - 1] \in Int /\ s[k] \in Int /\ f[k] \in Int
    <3>1. k \in 0 .. n /\ k - 1 \in 0 .. n
      BY <1>1
    <3>2. s[k] \in Int
      BY <1>1
    <3> HIDE DEF n
    <3> QED BY <3>1, <3>2
  <2>2. f[k] \in {f[k - 1], s[k]} /\ f[k - 1] <= f[k] /\ s[k] <= f[k]
    <3>1. f[k] = Greatest(f[k - 1], s[k])
      BY <1>2
    <3> QED BY <2>1, <3>1 DEF Greatest
  <2>3. \A i \in 1 .. k : i = k \/ i \in 1 .. k - 1
    OBVIOUS
  <2>4. \A i \in 1 .. k : s[i] <= f[k]
    BY <1>1, <1>4, <2>1, <2>2, <2>3
  <2>5. \E i \in 1 .. k : f[k] = s[i]
    <3>1. CASE f[k] = s[k]
      BY <3>1
    <3>2. CASE f[k] = f[k - 1] /\ k # 1
      BY <1>4, <3>2
    <3>3. CASE f[k] = f[k - 1] /\ k = 1
      BY <1>1, <1>2, <2>1, <2>2, <3>3
    <3> QED BY <2>2, <3>1, <3>2, <3>3
  <2> QED BY <2>4, <2>5
<1>5. Good(n)
  <2>1. 0 .. n \subseteq A
    <3> HIDE DEF A, n
    <3> QED BY <1>1, <1>3, <1>4, Counting
  <2> QED BY <2>1, <1>1
<1>6. m \in ToSet(s) /\ \A x \in ToSet(s) : x <= m
  BY <1>1, <1>2, <1>5 DEF ToSet
<1>7. \A x \in ToSet(s) : x \in Int
  BY <1>1 DEF ToSet
<1>8. m = Max(ToSet(s))
  BY <1>6, <1>7 DEF Max
<1> QED BY <1>6, <1>8 DEF m

-----------------------------------------------------------------------------
\* Totals.

LEMMA TotalType ==
  ASSUME NEW s \in Seq(Int)
  PROVE  Total(s) \in Int
<1>1. PICK f \in [0 .. Len(s) -> Int] : Total(s) = f[Len(s)]
  BY TotalRun
<1> QED BY <1>1

LEMMA TotalBounds ==
  ASSUME NEW s \in Seq(Int), NEW lo \in Int, NEW hi \in Int,
         \A i \in DOMAIN s : lo <= s[i] /\ s[i] <= hi
  PROVE  lo * Len(s) <= Total(s) /\ Total(s) <= hi * Len(s)
<1> DEFINE n == Len(s)
<1>1. n \in Nat /\ \A i \in 1 .. n : s[i] \in Int /\ lo <= s[i] /\ s[i] <= hi
  OBVIOUS
<1>2. PICK f \in [0 .. n -> Int] :
         /\ f[0] = 0
         /\ \A k \in 1 .. n : f[k] = f[k - 1] + s[k]
         /\ Total(s) = f[n]
  BY TotalRun
<1> HIDE DEF n
<1> DEFINE A == {k \in 0 .. n : lo * k <= f[k] /\ f[k] <= hi * k}
<1>3. 0 \in A
  BY <1>1, <1>2
<1>4. ASSUME NEW k \in 1 .. n, k - 1 \in A PROVE k \in A
  <2>1. f[k - 1] \in Int /\ s[k] \in Int /\ f[k] = f[k - 1] + s[k]
    BY <1>1, <1>2
  <2>2. lo * (k - 1) <= f[k - 1] /\ f[k - 1] <= hi * (k - 1)
    BY <1>4
  <2>3. lo * k = lo * (k - 1) + lo /\ hi * k = hi * (k - 1) + hi
    OBVIOUS
  <2>4. lo * k \in Int /\ lo * (k - 1) \in Int /\ hi * k \in Int /\ hi * (k - 1) \in Int
    OBVIOUS
  <2>5. lo <= s[k] /\ s[k] <= hi
    BY <1>1
  <2>6. PICK x \in Int, y \in Int, z \in Int, w \in Int :
           x = lo * (k - 1) /\ y = lo * k /\ z = hi * (k - 1) /\ w = hi * k
    BY <2>4
  <2>7. y <= f[k] /\ f[k] <= w
    <3>1. y = x + lo /\ w = z + hi /\ x <= f[k - 1] /\ f[k - 1] <= z
      BY <2>2, <2>3, <2>6
    <3> QED BY <2>1, <2>5, <3>1
  <2>8. k \in 0 .. n
    BY <1>1
  <2> QED BY <2>6, <2>7, <2>8
<1>5. 0 .. n \subseteq A
  <2> HIDE DEF A
  <2> QED BY <1>1, <1>3, <1>4, Counting
<1>6. n \in A
  BY <1>1, <1>5
<1> QED BY <1>2, <1>6 DEF n

LEMMA TotalConcat ==
  ASSUME NEW s \in Seq(Int), NEW t \in Seq(Int)
  PROVE  Total(s \o t) = Total(s) + Total(t)
<1> DEFINE m == Len(s)
           n == Len(t)
           st == s \o t
<1>1. /\ m \in Nat /\ n \in Nat /\ st \in Seq(Int) /\ Len(st) = m + n
      /\ \A k \in 1 .. m : st[k] = s[k] /\ s[k] \in Int
      /\ \A k \in 1 .. n : st[m + k] = t[k] /\ t[k] \in Int
  BY ConcatProperties
<1>2. PICK f \in [0 .. m -> Int] :
         /\ f[0] = 0
         /\ \A k \in 1 .. m : f[k] = f[k - 1] + s[k]
         /\ Total(s) = f[m]
  BY TotalRun
<1>3. PICK g \in [0 .. n -> Int] :
         /\ g[0] = 0
         /\ \A k \in 1 .. n : g[k] = g[k - 1] + t[k]
         /\ Total(t) = g[n]
  BY TotalRun
<1>4. PICK h \in [0 .. m + n -> Int] :
         /\ h[0] = 0
         /\ \A k \in 1 .. m + n : h[k] = h[k - 1] + st[k]
         /\ Total(st) = h[m + n]
  <2> HIDE DEF st, m, n
  <2> QED BY <1>1, TotalRun
<1> HIDE DEF st, m, n
<1> DEFINE A == {k \in 0 .. m : h[k] = f[k]}
           B == {k \in 0 .. n : h[m + k] = f[m] + g[k]}
<1>5. 0 \in A
  BY <1>1, <1>2, <1>4
<1>6. ASSUME NEW k \in 1 .. m, k - 1 \in A PROVE k \in A
  <2>1. k \in 1 .. m + n
    BY <1>1
  <2>2. h[k] = h[k - 1] + st[k]
    BY <1>4, <2>1
  <2>3. f[k] = f[k - 1] + s[k]
    BY <1>2
  <2> QED BY <1>1, <1>6, <2>2, <2>3
<1>7. 0 .. m \subseteq A
  <2> HIDE DEF A
  <2> QED BY <1>1, <1>5, <1>6, Counting
<1>8. 0 \in B
  <2>1. h[m] = f[m] /\ f[m] \in Int
    BY <1>1, <1>7
  <2> QED BY <2>1, <1>1, <1>3
<1>9. ASSUME NEW k \in 1 .. n, k - 1 \in B PROVE k \in B
  <2>1. m + k \in 1 .. m + n /\ (m + k) - 1 = m + (k - 1)
    BY <1>1
  <2>2. h[m + k] = h[m + (k - 1)] + st[m + k]
    BY <1>4, <2>1
  <2>3. g[k] = g[k - 1] + t[k] /\ st[m + k] = t[k] /\ t[k] \in Int
    BY <1>1, <1>3
  <2>4. h[m + (k - 1)] = f[m] + g[k - 1]
    BY <1>9
  <2>5. f[m] \in Int /\ g[k - 1] \in Int
    BY <1>1
  <2>6. h[m + k] = f[m] + g[k]
    BY <2>2, <2>3, <2>4, <2>5
  <2> QED BY <2>6
<1>10. 0 .. n \subseteq B
  <2> HIDE DEF B
  <2> QED BY <1>1, <1>8, <1>9, Counting
<1>11. n \in B
  BY <1>1, <1>10
<1> QED BY <1>2, <1>3, <1>4, <1>11 DEF st

-----------------------------------------------------------------------------
\* The values of a database, entry after entry.

\* FlattenSeq puts the sequences one after the other.
LEMMA FlattenRun ==
  ASSUME NEW ss \in Seq(Seq(Int)), ss # <<>>
  PROVE  \E f \in [0 .. Len(ss) -> Seq(Int)] :
            /\ f[0] = <<>>
            /\ \A k \in 1 .. Len(ss) : f[k] = f[k - 1] \o ss[k]
            /\ FlattenSeq(ss) = f[Len(ss)]
<1> DEFINE n == Len(ss)
           Eq(h) == h = [k \in 1 .. n |->
                           IF k = 1 THEN ss[k] ELSE h[k - 1] \o ss[k]]
           Upto(m, h) == /\ h[1] = ss[1]
                         /\ \A k \in 2 .. m : h[k] = h[k - 1] \o ss[k]
           A == {m \in 0 .. n : \E h \in [1 .. n -> Seq(Int)] : Upto(m, h)}
<1>1. n \in Nat \ {0} /\ \A k \in 1 .. n : ss[k] \in Seq(Int)
  BY EmptySeq
<1>2. 0 \in A
  <2> DEFINE h == [k \in 1 .. n |-> ss[1]]
  <2>1. h \in [1 .. n -> Seq(Int)] /\ Upto(0, h)
    BY <1>1
  <2>2. 0 \in 0 .. n
    BY <1>1
  <2> HIDE DEF h, Upto
  <2> QED BY <2>1, <2>2
<1>3. ASSUME NEW m \in 1 .. n, m - 1 \in A PROVE m \in A
  <2>1. PICK h \in [1 .. n -> Seq(Int)] : Upto(m - 1, h)
    BY <1>3
  <2>2. CASE m = 1
    <3>1. Upto(m, h)
      BY <2>1, <2>2
    <3>2. m \in 0 .. n
      OBVIOUS
    <3> HIDE DEF Upto, n
    <3> QED BY <3>1, <3>2
  <2>3. CASE m # 1
    <3> DEFINE x == h[m - 1] \o ss[m]
               g == [h EXCEPT ![m] = x]
    <3>0. m - 1 \in 1 .. n /\ m - 1 \in 1 .. m - 1 /\ m \in 0 .. n
      BY <1>1, <2>3
    <3>1. h[m - 1] \in Seq(Int) /\ ss[m] \in Seq(Int)
      BY <1>1, <3>0
    <3>2. x \in Seq(Int)
      BY <3>1, ConcatProperties
    <3> HIDE DEF x
    <3>3. g \in [1 .. n -> Seq(Int)]
      BY <3>2
    <3>4. g[m] = x /\ \A k \in 1 .. m - 1 : g[k] = h[k]
      BY <1>1
    <3> HIDE DEF g
    <3>5. g[1] = ss[1]
      BY <2>1, <2>3, <3>4
    <3>6. ASSUME NEW k \in 2 .. m PROVE g[k] = g[k - 1] \o ss[k]
      <4>1. CASE k = m
        BY <3>0, <3>4, <4>1 DEF x
      <4>2. CASE k # m
        <5>1. k \in 2 .. m - 1 /\ k \in 1 .. m - 1 /\ k - 1 \in 1 .. m - 1
          BY <4>2
        <5>2. h[k] = h[k - 1] \o ss[k]
          BY <2>1, <5>1
        <5> QED BY <3>4, <5>1, <5>2
      <4> QED BY <4>1, <4>2
    <3>7. Upto(m, g)
      BY <3>5, <3>6
    <3> HIDE DEF Upto, n
    <3> QED BY <3>0, <3>3, <3>7
  <2> QED BY <2>2, <2>3
<1>4. 0 .. n \subseteq A
  <2> HIDE DEF A, n
  <2> QED BY <1>1, <1>2, <1>3, Counting
<1>5. PICK h \in [1 .. n -> Seq(Int)] : Upto(n, h)
  <2>1. n \in A
    <3> HIDE DEF A, n
    <3> QED BY <1>1, <1>4
  <2> HIDE DEF Upto
  <2> QED BY <2>1
<1>6. Eq(h)
  <2> DEFINE g == [k \in 1 .. n |-> IF k = 1 THEN ss[k] ELSE h[k - 1] \o ss[k]]
  <2>1. ASSUME NEW k \in 1 .. n PROVE h[k] = g[k]
    <3>1. CASE k = 1
      BY <1>5, <3>1
    <3>2. CASE k # 1
      <4>1. k \in 2 .. n
        BY <3>2
      <4> QED BY <1>5, <3>2, <4>1
    <3> QED BY <3>1, <3>2
  <2>2. h = [k \in 1 .. n |-> h[k]] /\ g = [k \in 1 .. n |-> g[k]]
    OBVIOUS
  <2> HIDE DEF g
  <2>3. h = g
    BY <2>1, <2>2
  <2> QED BY <2>3 DEF g
<1>7. PICK flat : Eq(flat) /\ FlattenSeq(ss) = flat[n]
  BY <1>1, <1>6 DEF FlattenSeq
<1>8. flat[1] = ss[1] /\ \A k \in 2 .. n : flat[k] = flat[k - 1] \o ss[k]
  <2>1. \A k \in 1 .. n :
           flat[k] = IF k = 1 THEN ss[k] ELSE flat[k - 1] \o ss[k]
    BY <1>7
  <2>2. 1 \in 1 .. n /\ \A k \in 2 .. n : k \in 1 .. n /\ k # 1
    BY <1>1
  <2> QED BY <2>1, <2>2
<1> DEFINE f == [k \in 0 .. n |-> IF k = 0 THEN <<>> ELSE flat[k]]
<1>9. ASSUME NEW k \in 1 .. n PROVE f[k] = f[k - 1] \o ss[k]
  <2>1. CASE k = 1
    <3>1. ss[1] \in Seq(Int) /\ f[k - 1] = <<>> /\ f[k] = ss[1]
      BY <1>1, <1>8, <2>1
    <3>2. <<>> \o ss[1] = ss[1]
      BY <3>1, ConcatEmptySeq
    <3> QED BY <2>1, <3>1, <3>2
  <2>2. CASE k # 1
    <3>1. k \in 2 .. n /\ f[k] = flat[k] /\ f[k - 1] = flat[k - 1]
      BY <2>2
    <3> QED BY <1>8, <3>1
  <2> QED BY <2>1, <2>2
<1>10. 0 .. n \subseteq {k \in 0 .. n : f[k] \in Seq(Int)}
  <2> DEFINE B == {k \in 0 .. n : f[k] \in Seq(Int)}
  <2>1. 0 \in B
    BY <1>1
  <2>2. ASSUME NEW k \in 1 .. n, k - 1 \in B PROVE k \in B
    <3>1. f[k - 1] \in Seq(Int) /\ ss[k] \in Seq(Int)
      BY <1>1, <2>2
    <3> HIDE DEF f
    <3>2. f[k - 1] \o ss[k] \in Seq(Int)
      BY <3>1, ConcatProperties
    <3>3. f[k] \in Seq(Int)
      BY <1>9, <3>2
    <3> QED BY <3>3
  <2>3. 0 .. n \subseteq B
    <3> HIDE DEF B, n
    <3> QED BY <1>1, <2>1, <2>2, Counting
  <2> QED BY <2>3
<1>11. f \in [0 .. n -> Seq(Int)]
  <2>1. \A k \in 0 .. n : f[k] \in Seq(Int)
    BY <1>10
  <2>2. f = [k \in 0 .. n |-> f[k]]
    OBVIOUS
  <2> HIDE DEF f
  <2> QED BY <2>1, <2>2
<1>12. f[0] = <<>> /\ FlattenSeq(ss) = f[n]
  BY <1>1, <1>7
<1> HIDE DEF f
<1> QED BY <1>9, <1>11, <1>12

LEMMA ToSetConcat ==
  ASSUME NEW s \in Seq(Int), NEW t \in Seq(Int)
  PROVE  ToSet(s \o t) = ToSet(s) \cup ToSet(t)
<1>1. /\ s \o t \in Seq(Int) /\ Len(s \o t) = Len(s) + Len(t)
      /\ \A i \in 1 .. Len(s) : (s \o t)[i] = s[i]
      /\ \A i \in 1 .. Len(t) : (s \o t)[Len(s) + i] = t[i]
  BY ConcatProperties
<1>2. PICK st \in Seq(Int) : st = s \o t
  BY <1>1
<1>3. /\ Len(s) \in Nat /\ Len(t) \in Nat
      /\ DOMAIN s = 1 .. Len(s) /\ DOMAIN t = 1 .. Len(t)
  OBVIOUS
<1>4. ASSUME NEW x \in ToSet(st) PROVE x \in ToSet(s) \cup ToSet(t)
  <2>1. PICK i \in 1 .. Len(s) + Len(t) : x = st[i]
    BY <1>1, <1>2 DEF ToSet
  <2>2. CASE i <= Len(s)
    BY <1>1, <1>2, <2>1, <2>2 DEF ToSet
  <2>3. CASE i > Len(s)
    <3>1. i - Len(s) \in 1 .. Len(t) /\ i = Len(s) + (i - Len(s))
      BY <1>3, <2>1, <2>3
    <3>2. x = t[i - Len(s)]
      BY <1>1, <1>2, <2>1, <3>1
    <3> QED BY <3>1, <3>2 DEF ToSet
  <2> QED BY <1>3, <2>2, <2>3
<1>5. ASSUME NEW x \in ToSet(s) PROVE x \in ToSet(st)
  <2>1. PICK i \in 1 .. Len(s) : x = s[i]
    BY <1>3 DEF ToSet
  <2>2. i \in 1 .. Len(st) /\ x = st[i]
    BY <1>1, <1>2, <1>3, <2>1
  <2> QED BY <2>2 DEF ToSet
<1>6. ASSUME NEW x \in ToSet(t) PROVE x \in ToSet(st)
  <2>1. PICK i \in 1 .. Len(t) : x = t[i]
    BY <1>3 DEF ToSet
  <2>2. Len(s) + i \in 1 .. Len(st) /\ x = st[Len(s) + i]
    BY <1>1, <1>2, <1>3, <2>1
  <2> QED BY <2>2 DEF ToSet
<1> QED BY <1>2, <1>4, <1>5, <1>6

LEMMA FlattenValues ==
  ASSUME NEW ss \in Seq(Seq(Int)), ss # <<>>
  PROVE  /\ FlattenSeq(ss) \in Seq(Int)
         /\ \A x : x \in ToSet(FlattenSeq(ss))
                     <=> \E i \in 1 .. Len(ss) : x \in ToSet(ss[i])
<1> DEFINE n == Len(ss)
<1>1. n \in Nat /\ \A k \in 1 .. n : ss[k] \in Seq(Int)
  OBVIOUS
<1>2. PICK f \in [0 .. n -> Seq(Int)] :
         /\ f[0] = <<>>
         /\ \A k \in 1 .. n : f[k] = f[k - 1] \o ss[k]
         /\ FlattenSeq(ss) = f[n]
  BY FlattenRun
<1> HIDE DEF n
<1> DEFINE Sets(k) == ToSet(f[k]) = UNION {ToSet(ss[i]) : i \in 1 .. k}
           A == {k \in 0 .. n : Sets(k)}
<1>3. 0 \in A
  BY <1>1, <1>2 DEF ToSet
<1>4. ASSUME NEW k \in 1 .. n, k - 1 \in A PROVE k \in A
  <2>0. f[k - 1] \in Seq(Int) /\ ss[k] \in Seq(Int)
    BY <1>1
  <2>1. f[k] = f[k - 1] \o ss[k]
    BY <1>2
  <2>2. ToSet(f[k]) = ToSet(f[k - 1]) \cup ToSet(ss[k])
    BY <2>0, <2>1, ToSetConcat
  <2>3. ToSet(f[k - 1]) = UNION {ToSet(ss[i]) : i \in 1 .. k - 1}
    BY <1>4
  <2>4. 1 .. k = (1 .. k - 1) \cup {k}
    OBVIOUS
  <2>5. UNION {ToSet(ss[i]) : i \in 1 .. k}
          = (UNION {ToSet(ss[i]) : i \in 1 .. k - 1}) \cup ToSet(ss[k])
    BY <2>4
  <2>6. Sets(k)
    BY <2>2, <2>3, <2>5
  <2> QED BY <2>6
<1>5. Sets(n)
  <2>1. 0 .. n \subseteq A
    <3> HIDE DEF A
    <3> QED BY <1>1, <1>3, <1>4, Counting
  <2>2. n \in A
    <3> HIDE DEF A
    <3> QED BY <1>1, <2>1
  <2> QED BY <2>2
<1>6. f[n] \in Seq(Int)
  BY <1>1
<1> QED BY <1>2, <1>5, <1>6 DEF n

LEMMA LenType ==
  ASSUME NEW s \in Seq(Int)
  PROVE  Len(s) \in Nat
OBVIOUS

\* What a list that was empty adds when it gets values.
LEMMA FlattenAdd ==
  ASSUME NEW ss \in Seq(Seq(Int)), NEW id \in 1 .. Len(ss), ss[id] = <<>>,
         NEW v \in Seq(Int), NEW tt, tt = [ss EXCEPT ![id] = v]
  PROVE  /\ Len(FlattenSeq(tt)) = Len(FlattenSeq(ss)) + Len(v)
         /\ Total(FlattenSeq(tt)) = Total(FlattenSeq(ss)) + Total(v)
<1> DEFINE n == Len(ss)
<1>1. /\ n \in Nat /\ ss # <<>> /\ \A k \in 1 .. n : ss[k] \in Seq(Int)
      /\ tt \in Seq(Seq(Int)) /\ Len(tt) = n /\ tt # <<>> /\ tt[id] = v
      /\ \A k \in 1 .. n : k # id => tt[k] = ss[k]
  BY ExceptSeq, EmptySeq
<1>2. PICK f \in [0 .. n -> Seq(Int)] :
         /\ f[0] = <<>>
         /\ \A k \in 1 .. n : f[k] = f[k - 1] \o ss[k]
         /\ FlattenSeq(ss) = f[n]
  BY <1>1, FlattenRun
<1>3. PICK g \in [0 .. n -> Seq(Int)] :
         /\ g[0] = <<>>
         /\ \A k \in 1 .. n : g[k] = g[k - 1] \o tt[k]
         /\ FlattenSeq(tt) = g[n]
  <2> HIDE DEF n
  <2> QED BY <1>1, FlattenRun
<1>10. id \in 1 .. n
  OBVIOUS
<1> HIDE DEF n
<1> DEFINE Before(k) == k < id => g[k] = f[k]
           After(k) == k >= id => /\ Len(g[k]) = Len(f[k]) + Len(v)
                                  /\ Total(g[k]) = Total(f[k]) + Total(v)
           A == {k \in 0 .. n : Before(k) /\ After(k)}
<1>4. 0 \in A
  BY <1>1, <1>2, <1>3, <1>10
<1>5. ASSUME NEW k \in 1 .. n, k - 1 \in A PROVE k \in A
  <2>0. /\ f[k - 1] \in Seq(Int) /\ ss[k] \in Seq(Int)
        /\ g[k - 1] \in Seq(Int) /\ tt[k] \in Seq(Int)
    <3>1. k - 1 \in 0 .. n
      BY <1>1
    <3> QED BY <1>1, <3>1
  <2>1. f[k] = f[k - 1] \o ss[k] /\ g[k] = g[k - 1] \o tt[k]
    <3>1. f[k] = f[k - 1] \o ss[k]
      BY <1>2
    <3>2. g[k] = g[k - 1] \o tt[k]
      BY <1>3
    <3> QED BY <3>1, <3>2
  <2>2. /\ Len(f[k]) = Len(f[k - 1]) + Len(ss[k])
        /\ Total(f[k]) = Total(f[k - 1]) + Total(ss[k])
        /\ Len(g[k]) = Len(g[k - 1]) + Len(tt[k])
        /\ Total(g[k]) = Total(g[k - 1]) + Total(tt[k])
    <3>1. Total(f[k]) = Total(f[k - 1]) + Total(ss[k])
      BY <2>0, <2>1, TotalConcat
    <3>3. Total(g[k]) = Total(g[k - 1]) + Total(tt[k])
      BY <2>0, <2>1, TotalConcat
    <3>2. /\ Len(f[k]) = Len(f[k - 1]) + Len(ss[k])
          /\ Len(g[k]) = Len(g[k - 1]) + Len(tt[k])
      BY <2>0, <2>1
    <3> QED BY <3>1, <3>2, <3>3
  <2>3. /\ Total(f[k - 1]) \in Int /\ Total(ss[k]) \in Int /\ Total(v) \in Int
        /\ Len(f[k - 1]) \in Nat /\ Len(ss[k]) \in Nat /\ Len(v) \in Nat
    <3>1. Total(f[k - 1]) \in Int /\ Total(ss[k]) \in Int /\ Total(v) \in Int
      BY <2>0, TotalType
    <3>2. Len(f[k - 1]) \in Nat /\ Len(ss[k]) \in Nat /\ Len(v) \in Nat
      BY <2>0, LenType
    <3> QED BY <3>1, <3>2
  <2>4. CASE k < id
    <3>1. tt[k] = ss[k] /\ ~ (k >= id) /\ k - 1 < id
      BY <1>1, <1>10, <2>4
    <3>2. g[k - 1] = f[k - 1]
      BY <1>5, <3>1
    <3>3. g[k] = f[k]
      BY <2>1, <3>1, <3>2
    <3> QED BY <3>1, <3>3
  <2>5. CASE k = id
    <3>1. g[k - 1] = f[k - 1]
      BY <1>5, <1>10, <2>5
    <3>2. tt[k] = v /\ ss[k] = <<>> /\ Len(ss[k]) = 0
      BY <1>1, <2>5
    <3>3. f[k] = f[k - 1]
      BY <2>1, <3>2, ConcatEmptySeq
    <3>4. After(k)
      BY <2>2, <2>3, <3>1, <3>2, <3>3
    <3> QED BY <2>5, <3>4, <1>10
  <2>6. CASE k > id
    <3>1. /\ Len(g[k - 1]) = Len(f[k - 1]) + Len(v)
          /\ Total(g[k - 1]) = Total(f[k - 1]) + Total(v)
      BY <1>5, <1>10, <2>6
    <3>2. tt[k] = ss[k]
      BY <1>1, <1>10, <2>6
    <3>3. After(k)
      <4>2. Len(g[k]) = (Len(f[k - 1]) + Len(v)) + Len(ss[k])
        BY <2>2, <3>1, <3>2
      <4>3. Total(g[k]) = (Total(f[k - 1]) + Total(v)) + Total(ss[k])
        BY <2>2, <3>1, <3>2
      <4>4. Len(g[k]) = Len(f[k]) + Len(v)
        <5>1. Len(f[k]) = Len(f[k - 1]) + Len(ss[k])
          BY <2>2
        <5>2. Len(f[k - 1]) \in Nat /\ Len(ss[k]) \in Nat /\ Len(v) \in Nat
          BY <2>3
        <5>3. PICK a \in Nat, b \in Nat, c \in Nat :
                 a = Len(f[k - 1]) /\ b = Len(ss[k]) /\ c = Len(v)
          BY <5>2
        <5>4. Len(g[k]) = (a + c) + b /\ Len(f[k]) = a + b
          BY <4>2, <5>1, <5>3, Zenon
        <5>5. (a + c) + b = (a + b) + c
          OBVIOUS
        <5> QED BY <5>3, <5>4, <5>5
      <4>5. Total(g[k]) = Total(f[k]) + Total(v)
        BY <2>2, <2>3, <4>3
      <4> QED BY <4>4, <4>5
    <3> QED BY <2>6, <3>3, <1>10
  <2> QED BY <1>10, <2>4, <2>5, <2>6
<1>6. n \in A
  <2> HIDE DEF A
  <2>1. 0 .. n \subseteq A
    BY <1>1, <1>4, <1>5, Counting
  <2> QED BY <1>1, <2>1
<1>7. After(n) /\ n >= id
  BY <1>6, <1>10
<1> QED BY <1>2, <1>3, <1>7

-----------------------------------------------------------------------------
\* Sorting, and the median.

\* i comes before j in the order of the values.
Precedes(s, i, j) == s[i] < s[j] \/ (s[i] = s[j] /\ i < j)
Preceding(s, i) == {j \in DOMAIN s : Precedes(s, j, i)}
Rank(s, i) == Cardinality(Preceding(s, i))

LEMMA RanksGrow ==
  ASSUME NEW s \in Seq(Int), NEW i \in DOMAIN s, NEW j \in DOMAIN s
  PROVE  /\ Rank(s, i) \in 0 .. Len(s) - 1
         /\ Precedes(s, i, j) => Rank(s, i) < Rank(s, j)
<1> DEFINE n == Len(s)
<1>1. /\ n \in Nat /\ DOMAIN s = 1 .. n /\ IsFiniteSet(1 .. n)
      /\ Cardinality(1 .. n) = n /\ \A k \in 1 .. n : s[k] \in Int
  <2>1. n \in Nat /\ DOMAIN s = 1 .. n /\ \A k \in 1 .. n : s[k] \in Int
    OBVIOUS
  <2>2. IsFiniteSet(1 .. n) /\ Cardinality(1 .. n) = IF 1 > n THEN 0 ELSE n - 1 + 1
    <3> HIDE DEF n
    <3> QED BY <2>1, FS_Interval
  <2>3. Cardinality(1 .. n) = n
    <3> HIDE DEF n
    <3> QED BY <2>1, <2>2
  <2> QED BY <2>1, <2>2, <2>3
<1>2. \A k \in 1 .. n : /\ Preceding(s, k) \in SUBSET (1 .. n)
                        /\ k \notin Preceding(s, k)
  BY <1>1 DEF Preceding, Precedes
<1>3. \A k \in 1 .. n : IsFiniteSet(Preceding(s, k)) /\ Rank(s, k) \in Nat
  BY <1>1, <1>2, FS_Subset, FS_CardinalityType DEF Rank
<1>4. Rank(s, i) \in 0 .. n - 1
  <2>1. Rank(s, i) <= n /\ Rank(s, i) # n
    BY <1>1, <1>2, FS_Subset DEF Rank
  <2> QED BY <1>1, <1>3, <2>1
<1>5. ASSUME Precedes(s, i, j) PROVE Rank(s, i) < Rank(s, j)
  <2>1. i \in Preceding(s, j) /\ i \notin Preceding(s, i)
    BY <1>1, <1>2, <1>5 DEF Preceding
  <2>2. \A k \in 1 .. n : Precedes(s, k, i) => Precedes(s, k, j)
    BY <1>1, <1>5 DEF Precedes
  <2>3. Preceding(s, i) \in SUBSET Preceding(s, j)
    BY <1>1, <2>2 DEF Preceding
  <2>4. Rank(s, i) <= Rank(s, j) /\ Rank(s, i) # Rank(s, j)
    BY <1>1, <1>3, <2>1, <2>3, FS_Subset DEF Rank
  <2> QED BY <1>1, <1>3, <2>4
<1> QED BY <1>4, <1>5

\* Sorted puts every value of s in one place, and the smaller ones first.
LEMMA SortedPlaces ==
  ASSUME NEW s \in Seq(Int)
  PROVE  /\ \E p \in Bijection(1 .. Len(s), 1 .. Len(s)) :
               \A k \in 1 .. Len(s) : Sorted(s)[k] = s[p[k]]
         /\ \A k, l \in 1 .. Len(s) : k <= l => Sorted(s)[k] <= Sorted(s)[l]
<1> DEFINE n == Len(s)
           r == [i \in 1 .. n |-> Rank(s, i) + 1]
           p == [k \in 1 .. n |-> CHOOSE i \in 1 .. n : Rank(s, i) = k - 1]
<1>1. /\ n \in Nat /\ DOMAIN s = 1 .. n /\ IsFiniteSet(1 .. n)
      /\ \A k \in 1 .. n : s[k] \in Int
  BY FS_Interval
<1>2. \A i \in 1 .. n : Rank(s, i) \in 0 .. n - 1
  BY <1>1, RanksGrow
<1>3. \A i, j \in 1 .. n : i = j \/ Precedes(s, i, j) \/ Precedes(s, j, i)
  BY <1>1 DEF Precedes
<1>4. \A i, j \in 1 .. n : Rank(s, i) = Rank(s, j) => i = j
  <2>1. \A i, j \in 1 .. n : Precedes(s, i, j) => Rank(s, i) < Rank(s, j)
    BY <1>1, RanksGrow
  <2> QED BY <1>2, <1>3, <2>1
<1>5. r \in Injection(1 .. n, 1 .. n)
  <2>1. r \in [1 .. n -> 1 .. n]
    BY <1>1, <1>2
  <2>2. \A i, j \in 1 .. n : r[i] = r[j] => i = j
    BY <1>2, <1>4
  <2> QED BY <2>1, <2>2 DEF Injection, IsInjective
<1>6. r \in Surjection(1 .. n, 1 .. n)
  <2> HIDE DEF r, n
  <2> QED BY <1>1, <1>5, FS_Injection
<1>7. \A k \in 1 .. n : \E i \in 1 .. n : Rank(s, i) = k - 1
  <2> SUFFICES ASSUME NEW k \in 1 .. n PROVE \E i \in 1 .. n : Rank(s, i) = k - 1
    OBVIOUS
  <2>1. PICK i \in 1 .. n : r[i] = k
    <3> HIDE DEF r
    <3> QED BY <1>6 DEF Surjection
  <2> QED BY <1>2, <2>1
<1>8. \A k \in 1 .. n : p[k] \in 1 .. n /\ Rank(s, p[k]) = k - 1
  BY <1>7
<1>9. p \in [1 .. n -> 1 .. n]
  BY <1>8
<1>10. \A k \in 1 .. n : Sorted(s)[k] = s[p[k]]
  BY <1>1 DEF Sorted, Rank, Preceding, Precedes
<1> HIDE DEF p
<1>11. p \in Bijection(1 .. n, 1 .. n)
  <2>1. \A k, l \in 1 .. n : p[k] = p[l] => k = l
    BY <1>1, <1>8
  <2>2. \A i \in 1 .. n : \E k \in 1 .. n : p[k] = i
    <3> SUFFICES ASSUME NEW i \in 1 .. n PROVE \E k \in 1 .. n : p[k] = i
      OBVIOUS
    <3>0. Rank(s, i) + 1 \in 1 .. n /\ (Rank(s, i) + 1) - 1 = Rank(s, i)
      BY <1>1, <1>2
    <3>1. PICK k \in 1 .. n : k - 1 = Rank(s, i)
      BY <3>0
    <3>2. p[k] = i
      BY <1>4, <1>8, <3>1
    <3> QED BY <3>2
  <2> HIDE DEF n
  <2> QED BY <1>9, <2>1, <2>2 DEF Bijection, Injection, IsInjective, Surjection
<1>12. ASSUME NEW k \in 1 .. n, NEW l \in 1 .. n, k <= l
       PROVE  Sorted(s)[k] <= Sorted(s)[l]
  <2>1. p[k] \in 1 .. n /\ p[l] \in 1 .. n
    BY <1>8
  <2>2. ~ Precedes(s, p[l], p[k])
    <3>1. ~ (Rank(s, p[l]) < Rank(s, p[k]))
      BY <1>1, <1>8, <1>12
    <3> QED BY <1>1, <2>1, <3>1, RanksGrow
  <2>3. s[p[k]] <= s[p[l]]
    BY <1>1, <2>1, <2>2 DEF Precedes
  <2> QED BY <1>10, <2>3
<1> QED BY <1>10, <1>11, <1>12

\* As many places of s as of Sorted(s) hold a value of V.
LEMMA SortedCounts ==
  ASSUME NEW s \in Seq(Int), NEW V
  PROVE  /\ Cardinality({i \in DOMAIN s : s[i] \in V})
              = Cardinality({k \in 1 .. Len(s) : Sorted(s)[k] \in V})
         /\ IsFiniteSet({k \in 1 .. Len(s) : Sorted(s)[k] \in V})
<1> DEFINE n == Len(s)
           I == {i \in 1 .. n : s[i] \in V}
           K == {k \in 1 .. n : Sorted(s)[k] \in V}
<1>1. n \in Nat /\ DOMAIN s = 1 .. n /\ IsFiniteSet(1 .. n)
  BY FS_Interval
<1>2. PICK p \in Bijection(1 .. n, 1 .. n) :
         \A k \in 1 .. n : Sorted(s)[k] = s[p[k]]
  BY SortedPlaces
<1>3. /\ p \in [1 .. n -> 1 .. n]
      /\ \A k, l \in 1 .. n : p[k] = p[l] => k = l
      /\ \A i \in 1 .. n : \E k \in 1 .. n : p[k] = i
  BY DEF Bijection, Injection, Surjection, IsInjective
<1> HIDE DEF n
<1> DEFINE q == [k \in K |-> p[k]]
<1>4. q \in [K -> I]
  BY <1>2, <1>3
<1>5. \A k, l \in K : q[k] = q[l] => k = l
  BY <1>3
<1>6. ASSUME NEW i \in I PROVE \E k \in K : q[k] = i
  <2>1. PICK k \in 1 .. n : p[k] = i
    BY <1>3
  <2>2. k \in K
    BY <1>2, <2>1
  <2> QED BY <2>1, <2>2
<1>7. q \in Bijection(K, I)
  <2> HIDE DEF q, K, I
  <2> QED BY <1>4, <1>5, <1>6 DEF Bijection, Injection, Surjection, IsInjective
<1>8. IsFiniteSet(K)
  BY <1>1, FS_Subset
<1>9. Cardinality(I) = Cardinality(K)
  <2> HIDE DEF q, K, I
  <2> QED BY <1>7, <1>8, FS_Bijection DEF ExistsBijection
<1> QED BY <1>1, <1>8, <1>9 DEF n

\* The reference's medians are the values in the middle.
LEMMA MediansArePlaced ==
  ASSUME NEW s \in Seq(Int), s # <<>>
  PROVE  /\ LowerMedian(s) = Sorted(s)[(Len(s) + 1) \div 2]
         /\ UpperMedian(s) = Sorted(s)[Len(s) \div 2 + 1]
<1> DEFINE n == Len(s)
           t == Sorted(s)
           NotAbove(x) == {i \in DOMAIN s : s[i] <= x}
           NotBelow(x) == {i \in DOMAIN s : s[i] >= x}
<1>1. n \in Nat \ {0} /\ DOMAIN s = 1 .. n /\ \A k \in 1 .. n : s[k] \in Int
  BY EmptySeq
<1>2. PICK p \in Bijection(1 .. n, 1 .. n) : \A k \in 1 .. n : t[k] = s[p[k]]
  BY SortedPlaces
<1>3. \A k \in 1 .. n : t[k] \in ToSet(s) /\ t[k] \in Int
  <2>1. p \in [1 .. n -> 1 .. n]
    BY DEF Bijection, Injection
  <2> QED BY <1>1, <1>2, <2>1 DEF ToSet
<1>4. \A k, l \in 1 .. n : k <= l => t[k] <= t[l]
  BY SortedPlaces
<1>5. ToSet(s) \subseteq Int
  BY <1>1 DEF ToSet
<1>6. ASSUME NEW x \in Int
      PROVE  /\ Cardinality(NotAbove(x)) = Cardinality({k \in 1 .. n : t[k] <= x})
             /\ IsFiniteSet({k \in 1 .. n : t[k] <= x})
             /\ Cardinality(NotBelow(x)) = Cardinality({k \in 1 .. n : t[k] >= x})
             /\ IsFiniteSet({k \in 1 .. n : t[k] >= x})
  <2> DEFINE Low == {y \in Int : y <= x}
             High == {y \in Int : y >= x}
  <2>1. /\ NotAbove(x) = {i \in DOMAIN s : s[i] \in Low}
        /\ NotBelow(x) = {i \in DOMAIN s : s[i] \in High}
        /\ {k \in 1 .. n : t[k] <= x} = {k \in 1 .. n : t[k] \in Low}
        /\ {k \in 1 .. n : t[k] >= x} = {k \in 1 .. n : t[k] \in High}
    BY <1>1, <1>3
  <2> HIDE DEF Low, High
  <2>2. /\ Cardinality({i \in DOMAIN s : s[i] \in Low})
              = Cardinality({k \in 1 .. n : t[k] \in Low})
        /\ IsFiniteSet({k \in 1 .. n : t[k] \in Low})
    BY SortedCounts
  <2>3. /\ Cardinality({i \in DOMAIN s : s[i] \in High})
              = Cardinality({k \in 1 .. n : t[k] \in High})
        /\ IsFiniteSet({k \in 1 .. n : t[k] \in High})
    BY SortedCounts
  <2> HIDE DEF NotAbove, NotBelow
  <2> QED BY <2>1, <2>2, <2>3
<1>7. ASSUME NEW a \in 0 .. n, NEW b \in 0 .. n
      PROVE  /\ IsFiniteSet(a + 1 .. b)
             /\ a <= b => Cardinality(a + 1 .. b) = b - a
  <2>1. a + 1 \in Int /\ b \in Int /\ b - (a + 1) + 1 = b - a
    BY <1>1
  <2>2. IsFiniteSet(a + 1 .. b)
    BY <2>1, FS_Interval
  <2>3. Cardinality(a + 1 .. b) = IF a + 1 > b THEN 0 ELSE b - (a + 1) + 1
    BY <2>1, FS_Interval
  <2>4. a <= b => Cardinality(a + 1 .. b) = b - a
    BY <2>1, <2>3
  <2> QED BY <2>2, <2>4
<1> HIDE DEF n, t
<1> DEFINE m == (n + 1) \div 2
           h == n \div 2
<1>8. /\ m \in 1 .. n /\ 2 * m >= n /\ 2 * (m - 1) < n
      /\ h \in 0 .. n - 1 /\ 2 * (n - h) >= n /\ 2 * (n - h - 1) < n
  BY <1>1
<1> HIDE DEF m, h
<1>9. /\ 2 * Cardinality(NotAbove(t[m])) >= n
      /\ \A y \in ToSet(s) : 2 * Cardinality(NotAbove(y)) >= n => t[m] <= y
  <2>1. PICK C : C = {k \in 1 .. n : t[k] <= t[m]}
    OBVIOUS
  <2>2. ASSUME NEW k \in 1 .. m PROVE k \in C
    <3>1. k \in 1 .. n /\ k <= m /\ m \in 1 .. n
      BY <1>1, <1>8
    <3> QED BY <1>4, <2>1, <3>1
  <2>3. Cardinality(1 .. m) = m
    BY <1>7, <1>8, <1>1
  <2>4. IsFiniteSet(C) /\ Cardinality(NotAbove(t[m])) = Cardinality(C)
    BY <1>3, <1>6, <1>8, <2>1
  <2>5. Cardinality(C) \in Nat /\ m <= Cardinality(C)
    BY <2>2, <2>3, <2>4, FS_Subset, FS_CardinalityType
  <2>6. ASSUME NEW y \in ToSet(s), ~ (t[m] <= y)
        PROVE  ~ (2 * Cardinality(NotAbove(y)) >= n)
    <3>1. PICK D : D = {k \in 1 .. n : t[k] <= y}
      OBVIOUS
    <3>2. y \in Int /\ y < t[m] /\ m \in 1 .. n
      BY <1>3, <1>5, <1>8, <2>6
    <3>3. ASSUME NEW k \in D PROVE k \in 1 .. m - 1
      <4>1. k \in 1 .. n /\ t[k] <= y /\ t[k] \in Int /\ t[m] \in Int
        BY <1>3, <3>1, <3>2
      <4>2. ~ (m <= k)
        BY <1>4, <3>2, <4>1
      <4> QED BY <3>2, <4>1, <4>2
    <3>4. m - 1 \in 0 .. n /\ 0 \in 0 .. n /\ 0 + 1 = 1 /\ 0 <= m - 1
          /\ m - 1 - 0 = m - 1
      BY <3>2, <1>1
    <3>5. IsFiniteSet(1 .. m - 1) /\ Cardinality(1 .. m - 1) = m - 1
      BY <1>7, <3>4
    <3>6. Cardinality(D) \in Nat /\ Cardinality(D) <= m - 1
      BY <3>3, <3>5, FS_Subset, FS_CardinalityType
    <3>7. Cardinality(NotAbove(y)) = Cardinality(D)
      BY <1>6, <3>1, <3>2
    <3> QED BY <1>1, <1>8, <3>6, <3>7
  <2>7. 2 * Cardinality(NotAbove(t[m])) >= n
    BY <1>1, <1>8, <2>4, <2>5
  <2> QED BY <2>6, <2>7
<1>10. LowerMedian(s) = t[m]
  <2> DEFINE L == {x \in ToSet(s) : 2 * Cardinality(NotAbove(x)) >= n}
  <2>1. t[m] \in L /\ \A y \in L : t[m] <= y
    <3> HIDE DEF NotAbove
    <3> QED BY <1>3, <1>8, <1>9
  <2>2. L \subseteq Int
    BY <1>5
  <2>3. LowerMedian(s) = Min(L)
    BY DEF LowerMedian, n
  <2> HIDE DEF L
  <2>4. Min(L) = t[m]
    BY <2>1, <2>2, LeastIsMin
  <2> QED BY <2>3, <2>4
<1>11. h + 1 \in 1 .. n /\ t[h + 1] \in ToSet(s) /\ t[h + 1] \in Int
  <2>1. h + 1 \in 1 .. n
    BY <1>1, <1>8
  <2> QED BY <1>3, <2>1
<1>12. /\ 2 * Cardinality(NotBelow(t[h + 1])) >= n
       /\ \A y \in ToSet(s) : 2 * Cardinality(NotBelow(y)) >= n => y <= t[h + 1]
  <2>1. PICK C : C = {k \in 1 .. n : t[k] >= t[h + 1]}
    OBVIOUS
  <2>2. ASSUME NEW k \in h + 1 .. n PROVE k \in C
    <3>1. k \in 1 .. n /\ h + 1 <= k
      BY <1>1, <1>8
    <3>2. t[h + 1] <= t[k] /\ t[k] \in Int
      BY <1>3, <1>4, <1>11, <3>1
    <3> QED BY <1>11, <2>1, <3>1, <3>2
  <2>3. Cardinality(h + 1 .. n) = n - h
    <3>1. h \in 0 .. n /\ n \in 0 .. n /\ h <= n
      BY <1>1, <1>8
    <3> QED BY <1>7, <3>1
  <2>4. IsFiniteSet(C) /\ Cardinality(NotBelow(t[h + 1])) = Cardinality(C)
    BY <1>6, <1>11, <2>1
  <2>5. Cardinality(C) \in Nat /\ n - h <= Cardinality(C)
    BY <2>2, <2>3, <2>4, FS_Subset, FS_CardinalityType
  <2>6. ASSUME NEW y \in ToSet(s), ~ (y <= t[h + 1])
        PROVE  ~ (2 * Cardinality(NotBelow(y)) >= n)
    <3>1. PICK D : D = {k \in 1 .. n : t[k] >= y}
      OBVIOUS
    <3>2. y \in Int /\ t[h + 1] < y
      BY <1>5, <1>11, <2>6
    <3>3. ASSUME NEW k \in D PROVE k \in h + 1 + 1 .. n
      <4>1. k \in 1 .. n /\ t[k] >= y /\ t[k] \in Int
        BY <1>3, <3>1
      <4>2. ~ (k <= h + 1)
        BY <1>4, <1>11, <3>2, <4>1
      <4> QED BY <1>11, <1>8, <4>1, <4>2
    <3>4. h + 1 \in 0 .. n /\ n \in 0 .. n /\ h + 1 <= n
      BY <1>1, <1>8
    <3>5. IsFiniteSet(h + 1 + 1 .. n) /\ Cardinality(h + 1 + 1 .. n) = n - (h + 1)
      BY <1>7, <3>4
    <3>6. Cardinality(D) \in Nat /\ Cardinality(D) <= n - (h + 1)
      BY <3>3, <3>5, FS_Subset, FS_CardinalityType
    <3>7. Cardinality(NotBelow(y)) = Cardinality(D)
      BY <1>6, <3>1, <3>2
    <3>8. n - (h + 1) = n - h - 1
      BY <1>1, <1>8
    <3> QED BY <1>1, <1>8, <3>6, <3>7, <3>8
  <2>7. 2 * Cardinality(NotBelow(t[h + 1])) >= n
    BY <1>1, <1>8, <2>4, <2>5
  <2> QED BY <2>6, <2>7
<1>13. UpperMedian(s) = t[h + 1]
  <2> DEFINE H == {x \in ToSet(s) : 2 * Cardinality(NotBelow(x)) >= n}
  <2>1. t[h + 1] \in H /\ \A y \in H : y <= t[h + 1]
    <3> HIDE DEF NotBelow
    <3> QED BY <1>11, <1>12
  <2>2. H \subseteq Int
    BY <1>5
  <2>3. UpperMedian(s) = Max(H)
    BY DEF UpperMedian, n
  <2> HIDE DEF H
  <2>4. Max(H) = t[h + 1]
    BY <2>1, <2>2, GreatestIsMax
  <2> QED BY <2>3, <2>4
<1> QED BY <1>10, <1>13 DEF t, n, m, h

\* The median of std::nth_element, the element in the middle place and, of an even
\* number of values, the largest before it, is the median: the values on either
\* side of which lie at most half of them.
THEOREM MedianIsTrue ==
  ASSUME NEW s \in Seq(Int), s # <<>>
  PROVE  Median2(s) = TrueMedian2(s)
<1> DEFINE n == Len(s)
           t == Sorted(s)
           h == n \div 2
<1>1. n \in Nat \ {0} /\ \A k \in 1 .. n : t[k] \in Int
  <2>1. PICK p \in Bijection(1 .. n, 1 .. n) : \A k \in 1 .. n : t[k] = s[p[k]]
    BY SortedPlaces
  <2>2. p \in [1 .. n -> 1 .. n]
    BY DEF Bijection, Injection
  <2> HIDE DEF t
  <2> QED BY <2>1, <2>2, EmptySeq
<1>2. \A k, l \in 1 .. n : k <= l => t[k] <= t[l]
  BY SortedPlaces
<1>3. LowerMedian(s) = t[(n + 1) \div 2] /\ UpperMedian(s) = t[h + 1]
  BY MediansArePlaced
<1>4. Median2(s) = IF n % 2 = 1 THEN 2 * t[h + 1]
                   ELSE t[h + 1] + Max({t[i] : i \in 1 .. h})
  BY DEF Median2
<1> HIDE DEF t, n
<1>5. CASE n % 2 = 1
  <2>1. (n + 1) \div 2 = h + 1 /\ h + 1 \in 1 .. n
    BY <1>1, <1>5
  <2>2. t[h + 1] \in Int
    BY <1>1, <2>1
  <2>3. 2 * t[h + 1] = t[h + 1] + t[h + 1]
    BY <2>2
  <2> QED BY <1>3, <1>4, <1>5, <2>1, <2>3 DEF TrueMedian2
<1>6. CASE n % 2 # 1
  <2>1. (n + 1) \div 2 = h /\ h \in 1 .. n /\ h + 1 \in 1 .. n
    BY <1>1, <1>6
  <2> HIDE DEF h
  <2>2. PICK F : F = {t[i] : i \in 1 .. h}
    OBVIOUS
  <2>3. F \subseteq Int /\ t[h] \in F /\ \A x \in F : x <= t[h]
    <3>1. \A i \in 1 .. h : i \in 1 .. n /\ i <= h
      BY <1>1, <2>1
    <3> QED BY <1>1, <1>2, <2>1, <2>2, <3>1
  <2>4. Max(F) = t[h]
    BY <2>3, GreatestIsMax
  <2>5. t[h + 1] \in Int /\ t[h] \in Int
    BY <1>1, <2>1
  <2> QED BY <1>3, <1>4, <1>6, <2>1, <2>2, <2>4, <2>5 DEF TrueMedian2
<1> QED BY <1>5, <1>6

LEMMA MedianBounds ==
  ASSUME NEW s \in Seq(Int), s # <<>>, NEW lo \in Int, NEW hi \in Int,
         \A x \in ToSet(s) : lo <= x /\ x <= hi
  PROVE  /\ TrueMedian2(s) \in Int
         /\ 2 * lo <= TrueMedian2(s) /\ TrueMedian2(s) <= 2 * hi
<1> DEFINE n == Len(s)
           t == Sorted(s)
<1>1. \A k \in 1 .. n : t[k] \in Int /\ lo <= t[k] /\ t[k] <= hi
  <2>1. PICK p \in Bijection(1 .. n, 1 .. n) : \A k \in 1 .. n : t[k] = s[p[k]]
    BY SortedPlaces
  <2>2. p \in [1 .. n -> 1 .. n]
    BY DEF Bijection, Injection
  <2>3. \A i \in 1 .. n : s[i] \in Int /\ s[i] \in ToSet(s)
    BY DEF ToSet
  <2> HIDE DEF t, n
  <2> QED BY <2>1, <2>2, <2>3
<1>2. n \in Nat \ {0}
  BY EmptySeq
<1>3. LowerMedian(s) = t[(n + 1) \div 2] /\ UpperMedian(s) = t[n \div 2 + 1]
  BY MediansArePlaced
<1> HIDE DEF t, n
<1>4. (n + 1) \div 2 \in 1 .. n /\ n \div 2 + 1 \in 1 .. n
  BY <1>2
<1>5. PICK a \in Int, b \in Int :
         /\ a = LowerMedian(s) /\ b = UpperMedian(s)
         /\ lo <= a /\ a <= hi /\ lo <= b /\ b <= hi
  BY <1>1, <1>3, <1>4
<1> QED BY <1>5 DEF TrueMedian2

-----------------------------------------------------------------------------
\* Averages: rationals in lowest terms.

LEMMA Cancel ==
  ASSUME NEW x \in Int, NEW y \in Int, NEW z \in Int, z > 0, x * z = y * z
  PROVE  x = y
OBVIOUS

LEMMA CancelLess ==
  ASSUME NEW x \in Int, NEW y \in Int, NEW z \in Int, z > 0, x * z <= y * z
  PROVE  x <= y
OBVIOUS

LEMMA Division ==
  ASSUME NEW x \in Int, NEW z \in Int, z > 0
  PROVE  \E q, r \in Int : /\ q = x \div z /\ r = x % z
                           /\ x = q * z + r /\ 0 <= r /\ r < z
<1>1. PICK q \in Int, r \in Int : q = x \div z /\ r = x % z /\ 0 <= r /\ r < z
  OBVIOUS
<1>2. x = z * q + r
  BY <1>1, Z3
<1>3. x = q * z + r
  BY <1>2
<1> QED BY <1>1, <1>3, Zenon

LEMMA DividesExactly ==
  ASSUME NEW x \in Int, NEW z \in Int, z > 0, NEW q \in Int, x = q * z
  PROVE  x % z = 0
<1>1. PICK p \in Int, r \in Int : r = x % z /\ x = p * z + r /\ 0 <= r /\ r < z
  BY Division
<1>2. (q - p) * z = r
  BY <1>1
<1>3. q - p < 1
  <2>1. ASSUME q - p >= 1 PROVE FALSE
    <3>1. (q - p) * z >= 1 * z
      BY <2>1
    <3> QED BY <1>1, <1>2, <3>1
  <2> QED BY <2>1
<1>4. q - p > -1
  <2>1. ASSUME q - p <= -1 PROVE FALSE
    <3>1. (q - p) * z <= (-1) * z
      BY <2>1
    <3> QED BY <1>1, <1>2, <3>1
  <2> QED BY <2>1
<1>5. q - p = 0
  BY <1>3, <1>4
<1> QED BY <1>1, <1>2, <1>5

\* Lowest(n, d) is the ratio n / d.
LEMMA LowestRatio ==
  ASSUME NEW n \in Int, NEW d \in Nat \ {0}
  PROVE  \E a \in Int, b \in Nat \ {0}, g \in Nat \ {0} :
            /\ Lowest(n, d) = <<a, b>>
            /\ n = a * g /\ d = b * g
            /\ \A f \in 1 .. d : n % f = 0 /\ d % f = 0 => f <= g
<1> DEFINE F == {f \in 1 .. d : n % f = 0 /\ d % f = 0}
           g == Max(F)
<1>1. 1 \in F /\ F \subseteq Int /\ \A f \in F : f <= d
  OBVIOUS
<1>2. g \in F /\ \A f \in F : f <= g
  <2>1. d \in Int /\ F # {}
    BY <1>1
  <2> HIDE DEF F
  <2> QED BY <1>1, <2>1, FiniteHasMax
<1>3. g \in Nat \ {0} /\ g \in Int /\ g > 0 /\ n % g = 0 /\ d % g = 0
  <2> HIDE DEF g
  <2> QED BY <1>2
<1>4. Lowest(n, d) = <<n \div g, d \div g>>
  BY DEF Lowest
<1>5. \A f \in 1 .. d : n % f = 0 /\ d % f = 0 => f <= g
  <2> HIDE DEF g
  <2> QED BY <1>2
<1> HIDE DEF g, F
<1>6. PICK a \in Int, r \in Int : a = n \div g /\ r = n % g /\ n = a * g + r
  BY <1>3, Division
<1>7. PICK b \in Int, r2 \in Int : b = d \div g /\ r2 = d % g /\ d = b * g + r2
  BY <1>3, Division
<1>8. n = a * g
  BY <1>3, <1>6
<1>9. d = b * g
  BY <1>3, <1>7
<1>10. b \in Nat \ {0}
  <2>1. b > 0
    <3>1. ASSUME b <= 0 PROVE FALSE
      <4>1. b * g <= 0 * g
        BY <1>3, <3>1
      <4> QED BY <1>3, <1>9, <4>1
    <3> QED BY <3>1
  <2> QED BY <2>1
<1>11. Lowest(n, d) = <<a, b>>
  BY <1>4, <1>6, <1>7
<1> QED BY <1>3, <1>5, <1>8, <1>9, <1>10, <1>11

\* k is a denominator of n / d.
Denominates(k, n, d) == \E q \in Int : n * k = q * d

\* The least denominator of n / d divides d.
LEMMA LeastDenominatorDivides ==
  ASSUME NEW n \in Int, NEW d \in Nat \ {0}
  PROVE  \E k \in Nat \ {0}, e \in Nat \ {0}, q \in Int :
            /\ \A l \in Nat \ {0} : Denominates(l, n, d) => k <= l
            /\ n = q * e /\ d = k * e
<1> DEFINE K == {l \in Nat \ {0} : Denominates(l, n, d)}
<1>1. d \in K
  BY DEF Denominates
<1>2. PICK k \in K : \A l \in K : k <= l
  <2>1. K \subseteq Nat /\ K # {}
    BY <1>1
  <2> HIDE DEF K
  <2> QED BY <2>1, LeastNumber
<1>3. k \in Nat \ {0}
  OBVIOUS
<1>4. PICK q \in Int : n * k = q * d
  BY DEF Denominates
<1>5. PICK e \in Int, r \in Int : d = e * k + r /\ 0 <= r /\ r < k
  <2>1. k \in Int /\ k > 0 /\ d \in Int
    BY <1>3
  <2> QED BY <2>1, Division
<1>6. r = 0
  <2>1. ASSUME r # 0 PROVE FALSE
    <3>1. r \in Nat \ {0}
      BY <1>5, <2>1
    <3>2. r = d - e * k
      BY <1>3, <1>5
    <3>3. n * r = n * d - e * (n * k)
      BY <1>3, <3>2
    <3>4. n * r = n * d - e * (q * d)
      BY <1>4, <3>3
    <3>5. n * r = (n - e * q) * d
      BY <3>4
    <3>6. n - e * q \in Int
      OBVIOUS
    <3>7. r \in K
      BY <3>1, <3>5, <3>6 DEF Denominates
    <3>8. k <= r
      <4> HIDE DEF K
      <4> QED BY <1>2, <3>7
    <3> QED BY <1>3, <1>5, <3>8
  <2> QED BY <2>1
<1>7. d = k * e
  BY <1>3, <1>5, <1>6
<1>8. e \in Nat \ {0}
  <2>1. ASSUME e <= 0 PROVE FALSE
    <3>1. e * k <= 0 * k
      BY <1>3, <2>1
    <3> QED BY <1>3, <1>7, <3>1
  <2> QED BY <2>1
<1>9. n = q * e
  <2>1. n * k = (q * e) * k
    <3>1. q * d = (q * e) * k
      BY <1>3, <1>7
    <3> QED BY <1>4, <3>1
  <2>2. q * e \in Int /\ k > 0 /\ k \in Int
    BY <1>3
  <2> QED BY <2>1, <2>2, Cancel
<1>10. \A l \in Nat \ {0} : Denominates(l, n, d) => k <= l
  BY <1>2
<1> QED BY <1>3, <1>7, <1>8, <1>9, <1>10

\* Lowest gives the least denominator.
LEMMA LowestIsLeast ==
  ASSUME NEW n \in Int, NEW d \in Nat \ {0}
  PROVE  \E a \in Int, b \in Nat \ {0} :
            /\ Lowest(n, d) = <<a, b>> /\ a * d = n * b
            /\ \A l \in Nat \ {0} : Denominates(l, n, d) => b <= l
<1>1. PICK a \in Int, b \in Nat \ {0}, g \in Nat \ {0} :
         /\ Lowest(n, d) = <<a, b>>
         /\ n = a * g /\ d = b * g
         /\ \A f \in 1 .. d : n % f = 0 /\ d % f = 0 => f <= g
  BY LowestRatio
<1>2. PICK k \in Nat \ {0}, e \in Nat \ {0}, q \in Int :
         /\ \A l \in Nat \ {0} : Denominates(l, n, d) => k <= l
         /\ n = q * e /\ d = k * e
  BY LeastDenominatorDivides
<1>3. a * d = n * b
  BY <1>1
<1>4. k <= b
  BY <1>2, <1>3 DEF Denominates
<1>5. e <= g
  <2>1. n % e = 0 /\ d % e = 0
    <3>1. e \in Int /\ e > 0 /\ k \in Int /\ d \in Int
      OBVIOUS
    <3> QED BY <1>2, <3>1, DividesExactly
  <2>2. e \in 1 .. d
    <3>1. k * e >= 1 * e
      OBVIOUS
    <3> QED BY <1>2, <3>1
  <2> QED BY <1>1, <2>1, <2>2
<1>6. b <= k
  <2>1. b * e <= b * g
    BY <1>5
  <2>2. b * e <= k * e
    BY <1>1, <1>2, <2>1
  <2>3. e > 0 /\ e \in Int /\ b \in Int /\ k \in Int
    OBVIOUS
  <2> QED BY <2>2, <2>3, CancelLess
<1>7. b = k
  BY <1>4, <1>6
<1> QED BY <1>1, <1>2, <1>3, <1>7

\* Two ways to write a rational have the same lowest terms.
LEMMA LowestIsCanonical ==
  ASSUME NEW n \in Int, NEW d \in Nat \ {0}, NEW m \in Int, NEW c \in Nat \ {0},
         n * c = m * d
  PROVE  Lowest(n, d) = Lowest(m, c)
<1>1. PICK a \in Int, b \in Nat \ {0} :
         /\ Lowest(n, d) = <<a, b>> /\ a * d = n * b
         /\ \A l \in Nat \ {0} : Denominates(l, n, d) => b <= l
  BY LowestIsLeast
<1>2. PICK x \in Int, y \in Nat \ {0} :
         /\ Lowest(m, c) = <<x, y>> /\ x * c = m * y
         /\ \A l \in Nat \ {0} : Denominates(l, m, c) => y <= l
  BY LowestIsLeast
<1>3. n * y = x * d
  <2>1. (n * y) * c = (n * c) * y
    OBVIOUS
  <2>2. (m * d) * y = (m * y) * d
    OBVIOUS
  <2>3. (n * y) * c = (x * c) * d
    BY <1>2, <2>1, <2>2
  <2>4. (n * y) * c = (x * d) * c
    BY <2>3
  <2>5. n * y \in Int /\ x * d \in Int /\ c \in Int /\ c > 0
    OBVIOUS
  <2> QED BY <2>4, <2>5, Cancel
<1>4. m * b = a * c
  <2>1. (m * b) * d = (m * d) * b
    OBVIOUS
  <2>2. (n * c) * b = (n * b) * c
    OBVIOUS
  <2>3. (m * b) * d = (a * d) * c
    BY <1>1, <2>1, <2>2
  <2>4. (m * b) * d = (a * c) * d
    BY <2>3
  <2>5. m * b \in Int /\ a * c \in Int /\ d \in Int /\ d > 0
    OBVIOUS
  <2> QED BY <2>4, <2>5, Cancel
<1>5. b <= y
  BY <1>1, <1>3 DEF Denominates
<1>6. y <= b
  BY <1>2, <1>4 DEF Denominates
<1>7. b = y
  BY <1>5, <1>6
<1>8. a * d = x * d
  BY <1>1, <1>3, <1>7
<1>9. a = x
  <2>1. d \in Int /\ d > 0
    OBVIOUS
  <2> QED BY <1>8, <2>1, Cancel
<1> QED BY <1>1, <1>2, <1>7, <1>9

LEMMA LowestKeepsRatio ==
  ASSUME NEW n \in Int, NEW d \in Nat \ {0}
  PROVE  \E a \in Int, b \in Nat \ {0} : Lowest(n, d) = <<a, b>> /\ a * d = n * b
<1>1. PICK a \in Int, b \in Nat \ {0} :
         /\ Lowest(n, d) = <<a, b>> /\ a * d = n * b
         /\ \A l \in Nat \ {0} : Denominates(l, n, d) => b <= l
  BY LowestIsLeast
<1> QED BY <1>1

LEMMA LowestBounds ==
  ASSUME NEW n \in Int, NEW d \in Nat \ {0}, NEW lo \in Int, NEW hi \in Int,
         lo * d <= n, n <= hi * d
  PROVE  \E a \in Int, b \in Nat \ {0} :
            Lowest(n, d) = <<a, b>> /\ lo * b <= a /\ a <= hi * b
<1>1. PICK a \in Int, b \in Nat \ {0} : Lowest(n, d) = <<a, b>> /\ a * d = n * b
  BY LowestKeepsRatio
<1>2. /\ d \in Int /\ d > 0 /\ lo * b \in Int /\ hi * b \in Int
      /\ (lo * b) * d = (lo * d) * b /\ (hi * b) * d = (hi * d) * b
  OBVIOUS
<1>3. (lo * d) * b <= n * b /\ n * b <= (hi * d) * b
  OBVIOUS
<1>4. lo * b <= a
  <2>1. (lo * b) * d <= a * d
    BY <1>1, <1>2, <1>3
  <2> QED BY <1>2, <2>1, CancelLess
<1>5. a <= hi * b
  <2>1. a * d <= (hi * b) * d
    BY <1>1, <1>2, <1>3
  <2> QED BY <1>2, <2>1, CancelLess
<1> QED BY <1>1, <1>4, <1>5

\* The average of L values, a / b, with that of l more, c / f.
LEMMA WeightedTotal ==
  ASSUME NEW a \in Int, NEW b \in Nat \ {0}, NEW L \in Nat, NEW T \in Int,
         NEW c \in Int, NEW f \in Nat \ {0}, NEW l \in Nat \ {0}, NEW t \in Int,
         a * L = T * b, c * l = t * f
  PROVE  /\ b * f * (L + l) \in Nat \ {0} /\ a * L * f + c * l * b \in Int
         /\ (a * L * f + c * l * b) * (L + l) = (T + t) * (b * f * (L + l))
<1>1. b * f \in Nat \ {0} /\ L + l \in Nat \ {0}
  OBVIOUS
<1>2. b * f * (L + l) \in Nat \ {0} /\ a * L * f + c * l * b \in Int
  BY <1>1
<1>3. a * L * f + c * l * b = (T * b) * f + (t * f) * b
  OBVIOUS
<1>4. (T * b) * f + (t * f) * b = (T + t) * (b * f)
  OBVIOUS
<1>5. (a * L * f + c * l * b) * (L + l) = ((T + t) * (b * f)) * (L + l)
  BY <1>3, <1>4
<1>6. ((T + t) * (b * f)) * (L + l) = (T + t) * (b * f * (L + l))
  OBVIOUS
<1> QED BY <1>2, <1>5, <1>6

LEMMA WeightedBounds ==
  ASSUME NEW a \in Int, NEW b \in Nat \ {0}, NEW L \in Nat,
         NEW c \in Int, NEW f \in Nat \ {0}, NEW l \in Nat \ {0},
         NEW lo \in Int, NEW hi \in Int,
         L = 0 \/ (lo * b <= a /\ a <= hi * b), lo * f <= c, c <= hi * f
  PROVE  /\ lo * (b * f * (L + l)) <= a * L * f + c * l * b
         /\ a * L * f + c * l * b <= hi * (b * f * (L + l))
<1>1. /\ lo * (b * f * (L + l)) = (lo * b) * (L * f) + (lo * f) * (l * b)
      /\ hi * (b * f * (L + l)) = (hi * b) * (L * f) + (hi * f) * (l * b)
      /\ a * L * f = a * (L * f) /\ c * l * b = c * (l * b)
  OBVIOUS
<1>2. L * f \in Nat /\ l * b \in Nat
  OBVIOUS
<1>3. (lo * b) * (L * f) <= a * (L * f) /\ a * (L * f) <= (hi * b) * (L * f)
  <2>1. CASE L = 0
    <3>1. L * f = 0
      BY <2>1
    <3> QED BY <3>1
  <2>2. CASE lo * b <= a /\ a <= hi * b
    <3>1. PICK w \in Nat : w = L * f
      BY <1>2
    <3>2. PICK x \in Int, y \in Int : x = lo * b /\ y = hi * b
      OBVIOUS
    <3>3. x * w <= a * w /\ a * w <= y * w
      BY <2>2, <3>2
    <3> QED BY <3>1, <3>2, <3>3
  <2> QED BY <2>1, <2>2
<1>4. (lo * f) * (l * b) <= c * (l * b) /\ c * (l * b) <= (hi * f) * (l * b)
  <2>1. PICK w \in Nat : w = l * b
    BY <1>2
  <2>2. PICK x \in Int, y \in Int : x = lo * f /\ y = hi * f
    OBVIOUS
  <2>3. x * w <= c * w /\ c * w <= y * w
    BY <2>2
  <2> QED BY <2>1, <2>2, <2>3
<1>5. PICK u \in Int, v \in Int, w \in Int, x \in Int, y \in Int, z \in Int :
         /\ u = (lo * b) * (L * f) /\ v = a * (L * f) /\ w = (hi * b) * (L * f)
         /\ x = (lo * f) * (l * b) /\ y = c * (l * b) /\ z = (hi * f) * (l * b)
  OBVIOUS
<1>6. u + x <= v + y /\ v + y <= w + z
  BY <1>3, <1>4, <1>5
<1> QED BY <1>1, <1>5, <1>6

-----------------------------------------------------------------------------
\* Entries and databases.

\* The entries there can be, and the databases of them.
Entries == {DataEntry(v) : v \in Array}
Database == [Id -> Entries \cup {NONE}]

\* Entry e holds the values v, and its statistics are theirs.
EntryOf(e, v) ==
  /\ e.values = v
  /\ e.min = Min(ToSet(v)) /\ e.max = Max(ToSet(v))
  /\ e.avg = Mean(v) /\ e.med2 = TrueMedian2(v)

LEMMA ArrayFacts ==
  ASSUME NEW v \in Array
  PROVE  /\ v \in Seq(Int) /\ v # <<>> /\ Len(v) \in Nat \ {0}
         /\ ToSet(v) \subseteq Value /\ ToSet(v) \subseteq Int
         /\ Min(ToSet(v)) \in ToSet(v) /\ Max(ToSet(v)) \in ToSet(v)
         /\ \A x \in ToSet(v) : Min(ToSet(v)) <= x /\ x <= Max(ToSet(v))
<1>1. v \in Seq(Value) /\ v # <<>> /\ Value \subseteq Int /\ INFINITY \in Int
  BY StatsAssumption DEF Value
<1>2. v \in Seq(Int) /\ Len(v) \in Nat \ {0} /\ DOMAIN v = 1 .. Len(v)
      /\ \A i \in 1 .. Len(v) : v[i] \in Value
  <2>1. v \in Seq(Int)
    BY <1>1, SeqMonotonic
  <2>2. \A i \in 1 .. Len(v) : v[i] \in Value
    BY <1>1
  <2> QED BY <1>1, <2>1, <2>2, EmptySeq
<1>3. ToSet(v) \subseteq Value /\ ToSet(v) \subseteq Int
  BY <1>1, <1>2 DEF ToSet
<1>4. v[1] \in ToSet(v)
  BY <1>2 DEF ToSet
<1>5. \A x \in ToSet(v) : -INFINITY <= x /\ x <= INFINITY
  BY <1>1, <1>3 DEF Value
<1>6. PICK S : S = ToSet(v)
  OBVIOUS
<1>7. Min(S) \in S /\ \A x \in S : Min(S) <= x
  <2>1. -INFINITY \in Int /\ S \subseteq Int /\ S # {} /\ \A x \in S : -INFINITY <= x
    BY <1>1, <1>3, <1>4, <1>5, <1>6
  <2> QED BY <2>1, FiniteHasMin
<1>8. Max(S) \in S /\ \A x \in S : x <= Max(S)
  <2>1. S \subseteq Int /\ S # {} /\ \A x \in S : x <= INFINITY
    BY <1>1, <1>3, <1>4, <1>5, <1>6
  <2> QED BY <1>1, <2>1, FiniteHasMax
<1> QED BY <1>1, <1>2, <1>3, <1>6, <1>7, <1>8

LEMMA DataEntryIsExact ==
  ASSUME NEW v \in Array
  PROVE  EntryOf(DataEntry(v), v)
<1>1. v \in Seq(Int) /\ v # <<>> /\ DOMAIN v = 1 .. Len(v)
  BY ArrayFacts
<1>2. INFINITY \in Int /\ -INFINITY \in Int
      /\ \A i \in DOMAIN v : -INFINITY < v[i] /\ v[i] < INFINITY
  <2>1. v \in Seq(Value) /\ INFINITY \in Int
    BY StatsAssumption
  <2>2. \A i \in DOMAIN v : v[i] \in Value
    BY <2>1
  <2> QED BY <2>1, <2>2 DEF Value
<1>3. FoldLeft(Least, INFINITY, v) = Min(ToSet(v))
  BY <1>1, <1>2, LeastFold
<1>4. FoldLeft(Greatest, -INFINITY, v) = Max(ToSet(v))
  BY <1>1, <1>2, GreatestFold
<1>5. Median2(v) = TrueMedian2(v)
  BY <1>1, MedianIsTrue
<1> QED BY <1>3, <1>4, <1>5 DEF DataEntry, EntryOf, Mean

\* The average of the values of an array, which lies between them.
LEMMA MeanFacts ==
  ASSUME NEW v \in Array
  PROVE  \E c \in Int, f \in Nat \ {0} :
            /\ Mean(v) = <<c, f>> /\ c * Len(v) = Total(v) * f
            /\ Min(ToSet(v)) * f <= c /\ c <= Max(ToSet(v)) * f
<1>1. v \in Seq(Int) /\ Len(v) \in Nat \ {0} /\ DOMAIN v = 1 .. Len(v)
  BY ArrayFacts
<1>2. PICK t \in Int : t = Total(v)
  BY <1>1, TotalType
<1>3. PICK n \in Nat \ {0} : n = Len(v)
  BY <1>1
<1>4. PICK lo \in Int, hi \in Int :
         /\ lo = Min(ToSet(v)) /\ hi = Max(ToSet(v))
         /\ \A x \in ToSet(v) : lo <= x /\ x <= hi
  BY ArrayFacts
<1>5. \A i \in DOMAIN v : lo <= v[i] /\ v[i] <= hi
  BY <1>4 DEF ToSet
<1>6. lo * n <= t /\ t <= hi * n
  BY <1>1, <1>2, <1>3, <1>5, TotalBounds
<1>7. PICK c \in Int, f \in Nat \ {0} :
         Lowest(t, n) = <<c, f>> /\ lo * f <= c /\ c <= hi * f
  BY <1>6, LowestBounds
<1>8. c * n = t * f
  <2>1. PICK x \in Int, y \in Nat \ {0} : Lowest(t, n) = <<x, y>> /\ x * n = t * y
    BY LowestKeepsRatio
  <2>2. x = c /\ y = f
    BY <1>7, <2>1
  <2> QED BY <2>1, <2>2
<1>9. Mean(v) = <<c, f>>
  BY <1>2, <1>3, <1>7 DEF Mean
<1> QED BY <1>2, <1>3, <1>4, <1>7, <1>8, <1>9

LEMMA EntryFacts ==
  ASSUME NEW v \in Array
  PROVE  DataEntry(v) \in Entry /\ DataEntry(v) # NONE
<1>1. EntryOf(DataEntry(v), v)
  BY DataEntryIsExact
<1>2. PICK lo \in Int, hi \in Int :
         /\ lo = Min(ToSet(v)) /\ hi = Max(ToSet(v))
         /\ \A x \in ToSet(v) : lo <= x /\ x <= hi
  BY ArrayFacts
<1>3. v \in Seq(Int) /\ v # <<>>
  BY ArrayFacts
<1>4. TrueMedian2(v) \in Int
  BY <1>2, <1>3, MedianBounds
<1>5. Mean(v) \in Int \X Int
  <2>1. PICK c \in Int, f \in Nat \ {0} : Mean(v) = <<c, f>>
    BY MeanFacts
  <2> QED BY <2>1
<1>6. DataEntry(v) = [values |-> v, min |-> lo, max |-> hi, avg |-> Mean(v),
                      med2 |-> TrueMedian2(v)]
  BY <1>1, <1>2 DEF DataEntry, EntryOf
<1>7. DataEntry(v) \in Entry
  BY <1>2, <1>3, <1>4, <1>5, <1>6 DEF Entry
<1> QED BY <1>7, StatsAssumption

\* The values in a database are those of its entries.
LEMMA AllValsFacts ==
  ASSUME NEW d \in Database
  PROVE  /\ AllVals(d) \in Seq(Int)
         /\ \A x : x \in ToSet(AllVals(d))
                     <=> \E i \in Id : d[i] # NONE /\ x \in ToSet(d[i].values)
<1> DEFINE Lists == [i \in Id |-> IF d[i] = NONE THEN <<>> ELSE d[i].values]
<1>1. \A i \in Id : d[i] # NONE => d[i].values \in Seq(Int)
  <2> SUFFICES ASSUME NEW i \in Id, d[i] # NONE PROVE d[i].values \in Seq(Int)
    OBVIOUS
  <2>1. PICK v \in Array : d[i] = DataEntry(v)
    BY DEF Database, Entries
  <2> QED BY <2>1, ArrayFacts, DataEntryIsExact DEF EntryOf
<1>2. \A i \in Id : Lists[i] \in Seq(Int)
  BY <1>1
<1>3. Lists \in Seq(Seq(Int)) /\ Len(Lists) = NumIds /\ Lists # <<>>
  <2>1. NumIds \in Nat /\ NumIds > 0 /\ Id = 1 .. NumIds
    BY StatsAssumption DEF Id
  <2>2. Lists \in [1 .. NumIds -> Seq(Int)]
    BY <1>2, <2>1
  <2>3. DOMAIN Lists = 1 .. NumIds
    BY <2>1
  <2> HIDE DEF Lists
  <2>4. Lists \in Seq(Seq(Int))
    BY <2>1, <2>2
  <2>5. Len(Lists) = NumIds
    BY <2>1, <2>3, <2>4, LenProperties
  <2> QED BY <2>1, <2>4, <2>5, EmptySeq
<1>4. AllVals(d) = FlattenSeq(Lists)
  BY DEF AllVals
<1>5. \A x, i : i \in Id => (x \in ToSet(Lists[i])
                               <=> d[i] # NONE /\ x \in ToSet(d[i].values))
  BY DEF ToSet
<1> HIDE DEF Lists
<1>6. /\ FlattenSeq(Lists) \in Seq(Int)
      /\ \A x : x \in ToSet(FlattenSeq(Lists))
                  <=> \E i \in 1 .. Len(Lists) : x \in ToSet(Lists[i])
  BY <1>3, FlattenValues
<1> QED BY <1>3, <1>4, <1>5, <1>6 DEF Id

\* What an entry adds under an id that is free.
LEMMA AllValsAdd ==
  ASSUME NEW d \in Database, NEW id \in Id, d[id] = NONE, NEW v \in Array,
         NEW c, c = [d EXCEPT ![id] = DataEntry(v)]
  PROVE  /\ Len(AllVals(c)) = Len(AllVals(d)) + Len(v)
         /\ Total(AllVals(c)) = Total(AllVals(d)) + Total(v)
<1> DEFINE Lists == [i \in Id |-> IF d[i] = NONE THEN <<>> ELSE d[i].values]
           More == [i \in Id |-> IF c[i] = NONE THEN <<>> ELSE c[i].values]
<1>1. \A i \in Id : d[i] # NONE => d[i].values \in Seq(Int)
  <2> SUFFICES ASSUME NEW i \in Id, d[i] # NONE PROVE d[i].values \in Seq(Int)
    OBVIOUS
  <2>1. PICK w \in Array : d[i] = DataEntry(w)
    BY DEF Database, Entries
  <2> QED BY <2>1, ArrayFacts, DataEntryIsExact DEF EntryOf
<1>2. \A i \in Id : Lists[i] \in Seq(Int)
  BY <1>1
<1>3. Lists \in Seq(Seq(Int)) /\ Len(Lists) = NumIds
  <2>1. NumIds \in Nat /\ NumIds > 0 /\ Id = 1 .. NumIds
    BY StatsAssumption DEF Id
  <2>2. Lists \in [1 .. NumIds -> Seq(Int)]
    BY <1>2, <2>1
  <2>3. DOMAIN Lists = 1 .. NumIds
    BY <2>1
  <2> HIDE DEF Lists
  <2>4. Lists \in Seq(Seq(Int))
    BY <2>1, <2>2
  <2> QED BY <2>1, <2>3, <2>4, LenProperties
<1>4. v \in Seq(Int) /\ DataEntry(v).values = v /\ DataEntry(v) # NONE
  BY ArrayFacts, EntryFacts DEF DataEntry
<1>5. Lists[id] = <<>>
  OBVIOUS
<1>6. More = [Lists EXCEPT ![id] = v]
  <2> DEFINE Put == [Lists EXCEPT ![id] = v]
  <2>1. \A i \in Id : Put[i] = IF i = id THEN v ELSE Lists[i]
    OBVIOUS
  <2>2. \A i \in Id : c[i] = IF i = id THEN DataEntry(v) ELSE d[i]
    BY DEF Database
  <2>3. \A i \in Id : More[i] = Put[i]
    BY <1>4, <2>1, <2>2
  <2>4. More = [i \in Id |-> More[i]] /\ Put = [i \in Id |-> Put[i]]
    <3>1. More = [i \in Id |-> More[i]]
      OBVIOUS
    <3>2. DOMAIN Lists = Id
      OBVIOUS
    <3>3. Put = [i \in Id |-> Put[i]]
      <4> HIDE DEF Lists
      <4> QED BY <3>2
    <3> QED BY <3>1, <3>3
  <2>5. More = Put
    <3> HIDE DEF More, Put
    <3> QED BY <2>3, <2>4
  <2> QED BY <2>5
<1>7. AllVals(d) = FlattenSeq(Lists) /\ AllVals(c) = FlattenSeq(More)
  BY DEF AllVals
<1>8. id \in 1 .. Len(Lists)
  BY <1>3 DEF Id
<1> HIDE DEF Lists, More
<1>9. /\ Len(FlattenSeq(More)) = Len(FlattenSeq(Lists)) + Len(v)
      /\ Total(FlattenSeq(More)) = Total(FlattenSeq(Lists)) + Total(v)
  <2>1. v \in Seq(Int)
    BY <1>4
  <2> QED BY <1>3, <2>1, <1>5, <1>6, <1>8, FlattenAdd
<1> QED BY <1>7, <1>9

LEMMA NumEntriesFacts ==
  ASSUME NEW d
  PROVE  /\ NumEntries(d) \in Nat
         /\ NumEntries(d) = 0 <=> \A i \in Id : d[i] = NONE
<1> DEFINE S == {i \in Id : d[i] # NONE}
<1>1. IsFiniteSet(Id)
  BY StatsAssumption, FS_Interval DEF Id
<1>2. IsFiniteSet(S) /\ Cardinality(S) \in Nat
  BY <1>1, FS_Subset, FS_CardinalityType
<1>3. Cardinality(S) = 0 <=> S = {}
  BY <1>2, FS_EmptySet
<1> QED BY <1>2, <1>3 DEF NumEntries

-----------------------------------------------------------------------------
\* The inductive invariant.

ClientData == [data: Database, num_elem: Nat, min: Int, max: Int, avg: Int \X Int,
               med2: Int \cup {NONE}, drift: {"none", "count", "all"}]

\* min and max bound the average, the median and the entries.
Bounded(s) ==
  /\ s.num_elem > 0
  /\ s.avg[2] > 0
  /\ s.min * s.avg[2] <= s.avg[1] /\ s.avg[1] <= s.max * s.avg[2]
  /\ s.med2 \in Int /\ 2 * s.min <= s.med2 /\ s.med2 <= 2 * s.max
  /\ \A i \in Id : s.data[i] # NONE =>
                      s.min <= s.data[i].min /\ s.data[i].max <= s.max

\* The statistics are those of the values a.
StatsOf(s, a) ==
  /\ a # <<>>
  /\ s.min = Min(ToSet(a)) /\ s.max = Max(ToSet(a))
  /\ s.avg = Mean(a) /\ s.med2 = TrueMedian2(a)
  /\ s.num_elem = IF s.drift = "none" THEN Len(a) ELSE NumEntries(s.data)
Exact(s) == s.drift # "all" => StatsOf(s, AllVals(s.data))

\* Nothing was ever written, or the statistics bound what there is.
SoundData(s) ==
  s \in ClientData /\ (s = NewClientData \/ (Bounded(s) /\ Exact(s)))

Sound ==
  /\ session # NONE => SoundData(session)
  /\ file # NONE => SoundData(file) /\ NumEntries(file.data) # 0
  /\ MedianIsRecalculated

LEMMA NewClientDataFacts ==
  /\ NewClientData \in ClientData
  /\ \A i \in Id : NewClientData.data[i] = NONE
  /\ NumEntries(NewClientData.data) = 0
<1>1. NewClientData \in ClientData
  BY StatsAssumption DEF NewClientData, ClientData, Database, NAN
<1>2. \A i \in Id : NewClientData.data[i] = NONE
  BY DEF NewClientData
<1>3. PICK d : d = NewClientData.data
  OBVIOUS
<1>4. NumEntries(d) = 0
  BY <1>2, <1>3, NumEntriesFacts
<1> QED BY <1>1, <1>2, <1>3, <1>4

\* Every value in a database lies between the bounds of the entries.
LEMMA ValuesBounded ==
  ASSUME NEW d \in Database, NEW lo \in Int, NEW hi \in Int,
         \A i \in Id : d[i] # NONE => lo <= d[i].min /\ d[i].max <= hi
  PROVE  \A x \in ToSet(AllVals(d)) : x \in Int /\ lo <= x /\ x <= hi
<1> SUFFICES ASSUME NEW x \in ToSet(AllVals(d))
             PROVE  x \in Int /\ lo <= x /\ x <= hi
  OBVIOUS
<1>1. PICK i \in Id : d[i] # NONE /\ x \in ToSet(d[i].values)
  BY AllValsFacts
<1>2. PICK v \in Array : d[i] = DataEntry(v)
  BY <1>1 DEF Database, Entries
<1>3. EntryOf(d[i], v)
  BY <1>2, DataEntryIsExact
<1>4. /\ x \in Int /\ Min(ToSet(v)) \in Int /\ Max(ToSet(v)) \in Int
      /\ Min(ToSet(v)) <= x /\ x <= Max(ToSet(v))
  BY <1>1, <1>3, ArrayFacts DEF EntryOf
<1>5. lo <= Min(ToSet(v)) /\ Max(ToSet(v)) <= hi
  BY <1>1, <1>3 DEF EntryOf
<1> QED BY <1>4, <1>5

\* The session after an add or an update, by its fields.
Written(s, id, v) ==
  LET e == DataEntry(v)
      d == [s.data EXCEPT ![id] = e]
      avg == IF s.avg = NAN THEN Whole(0) ELSE s.avg
      num == s.num_elem + Len(v)
  IN  [data |-> d,
       num_elem |-> num,
       min |-> Least(s.min, e.min),
       max |-> Greatest(s.max, e.max),
       avg |-> Lowest(avg[1] * s.num_elem * e.avg[2] + e.avg[1] * Len(v) * avg[2],
                      avg[2] * e.avg[2] * num),
       med2 |-> Median2(AllVals(d)),
       drift |-> IF s.data[id] = NONE /\ s.drift = "none" THEN "none" ELSE "all"]

LEMMA AddUpdateWrites ==
  ASSUME NEW id \in Id, NEW v \in Array, session \in ClientData, add_update(id, v)
  PROVE  session' = Written(session, id, v)
<1>1. DataEntry(v).values = v
  BY DEF DataEntry
<1>2. PICK e : e = DataEntry(v)
  OBVIOUS
<1>3. PICK d : d = [session.data EXCEPT ![id] = e]
  OBVIOUS
<1>4. PICK s : s = UpdateStats(session, d, e)
  OBVIOUS
<1>5. session' = [s EXCEPT !.drift = IF session.data[id] = NONE /\ s.drift = "none"
                                       THEN "none" ELSE "all"]
  BY <1>2, <1>3, <1>4 DEF add_update
<1> QED BY <1>1, <1>2, <1>3, <1>4, <1>5 DEF UpdateStats, Written, ClientData

\* The average an update goes on from, which lies between min and max.
LEMMA AverageSoFar ==
  ASSUME NEW s, SoundData(s)
  PROVE  \E a \in Int, b \in Nat \ {0} :
            /\ (IF s.avg = NAN THEN Whole(0) ELSE s.avg) = <<a, b>>
            /\ s.num_elem = 0 \/ (s.min * b <= a /\ a <= s.max * b)
            /\ Bounded(s) => s.avg = <<a, b>>
<1>1. CASE s = NewClientData
  <2>1. s.avg = NAN /\ s.num_elem = 0
    BY <1>1 DEF NewClientData
  <2>2. ~Bounded(s)
    BY <2>1 DEF Bounded
  <2>3. 0 \in Int /\ 1 \in Nat \ {0} /\ Whole(0) = <<0, 1>>
    BY DEF Whole
  <2> QED BY <2>1, <2>2, <2>3
<1>2. CASE Bounded(s)
  <2>1. PICK a \in Int, b \in Int : s.avg = <<a, b>>
    BY DEF SoundData, ClientData
  <2>2. b > 0 /\ s.min * b <= a /\ a <= s.max * b
    BY <1>2, <2>1 DEF Bounded
  <2>3. s.avg # NAN
    BY <2>1, <2>2 DEF NAN
  <2>4. b \in Nat \ {0}
    BY <2>2
  <2> QED BY <2>1, <2>2, <2>3, <2>4
<1> QED BY <1>1, <1>2 DEF SoundData

\* The average after a write lies between the new bounds, and it is that of
\* all the values when it was before the write.
LEMMA AverageWritten ==
  ASSUME NEW s, SoundData(s), NEW id \in Id, NEW v \in Array,
         NEW lo \in Int, NEW hi \in Int,
         s.num_elem = 0 \/ (lo <= s.min /\ s.max <= hi),
         lo <= Min(ToSet(v)), Max(ToSet(v)) <= hi
  PROVE  /\ \E p \in Int, q \in Nat \ {0} :
               Written(s, id, v).avg = <<p, q>> /\ lo * q <= p /\ p <= hi * q
         /\ \A T \in Int :
               (T = 0 /\ s.num_elem = 0)
               \/ (s.num_elem > 0 /\ Bounded(s) /\ s.avg = Lowest(T, s.num_elem))
               => Written(s, id, v).avg = Lowest(T + Total(v), s.num_elem + Len(v))
<1>1. PICK a \in Int, b \in Nat \ {0} :
            /\ (IF s.avg = NAN THEN Whole(0) ELSE s.avg) = <<a, b>>
            /\ s.num_elem = 0 \/ (s.min * b <= a /\ a <= s.max * b)
            /\ Bounded(s) => s.avg = <<a, b>>
  BY AverageSoFar
<1>2. PICK c \in Int, f \in Nat \ {0} :
            /\ Mean(v) = <<c, f>> /\ c * Len(v) = Total(v) * f
            /\ Min(ToSet(v)) * f <= c /\ c <= Max(ToSet(v)) * f
  BY MeanFacts
<1>3. PICK L \in Nat : L = s.num_elem
  BY DEF SoundData, ClientData
<1>4. PICK l \in Nat \ {0}, t \in Int : l = Len(v) /\ t = Total(v)
  BY ArrayFacts, TotalType
<1>5. PICK mn \in Int, mx \in Int : mn = s.min /\ mx = s.max
  BY DEF SoundData, ClientData
<1>6. PICK x \in Int, y \in Int : x = Min(ToSet(v)) /\ y = Max(ToSet(v))
  BY ArrayFacts
<1>7. DataEntry(v).avg = <<c, f>>
  BY <1>2, DataEntryIsExact DEF EntryOf
<1> DEFINE N == a * L * f + c * l * b
           D == b * f * (L + l)
<1>8. Written(s, id, v).avg = Lowest(N, D)
  <2>1. PICK avg : avg = IF s.avg = NAN THEN Whole(0) ELSE s.avg
    OBVIOUS
  <2>2. avg = <<a, b>>
    BY <1>1, <2>1
  <2>3. PICK e : e = DataEntry(v)
    OBVIOUS
  <2>4. Written(s, id, v).avg =
          Lowest(avg[1] * s.num_elem * e.avg[2] + e.avg[1] * Len(v) * avg[2],
                 avg[2] * e.avg[2] * (s.num_elem + Len(v)))
    BY <2>1, <2>3 DEF Written
  <2>5. avg[1] = a /\ avg[2] = b /\ e.avg[1] = c /\ e.avg[2] = f
    BY <1>7, <2>2, <2>3
  <2> QED BY <1>3, <1>4, <2>4, <2>5
<1>9. N \in Int /\ D \in Nat \ {0}
  <2>1. b * f \in Nat \ {0} /\ L + l \in Nat \ {0}
    OBVIOUS
  <2> QED BY <2>1
<1>10. lo * D <= N /\ N <= hi * D
  <2>1. L = 0 \/ (lo * b <= a /\ a <= hi * b)
    <3>1. SUFFICES ASSUME L # 0 PROVE lo * b <= a /\ a <= hi * b
      OBVIOUS
    <3>2. lo <= mn /\ mx <= hi /\ mn * b <= a /\ a <= mx * b
      BY <1>1, <1>3, <1>5, <3>1
    <3>3. lo * b <= mn * b /\ mx * b <= hi * b
      BY <3>2
    <3>4. lo * b \in Int /\ mn * b \in Int /\ mx * b \in Int /\ hi * b \in Int
      OBVIOUS
    <3> QED BY <3>2, <3>3, <3>4
  <2>2. lo * f <= c /\ c <= hi * f
    <3>1. lo <= x /\ y <= hi /\ x * f <= c /\ c <= y * f
      BY <1>2, <1>6
    <3>2. lo * f <= x * f /\ y * f <= hi * f
      BY <3>1
    <3>3. lo * f \in Int /\ x * f \in Int /\ y * f \in Int /\ hi * f \in Int
      OBVIOUS
    <3> QED BY <3>1, <3>2, <3>3
  <2> QED BY <2>1, <2>2, WeightedBounds
<1>11. \A T \in Int : a * L = T * b => Lowest(N, D) = Lowest(T + t, L + l)
  <2> SUFFICES ASSUME NEW T \in Int, a * L = T * b
               PROVE  Lowest(N, D) = Lowest(T + t, L + l)
    OBVIOUS
  <2>3. c * l = t * f
    BY <1>2, <1>4
  <2>1. N * (L + l) = (T + t) * D
    BY <2>3, WeightedTotal
  <2>2. T + t \in Int /\ L + l \in Nat \ {0}
    OBVIOUS
  <2> HIDE DEF N, D
  <2> QED BY <1>9, <2>1, <2>2, LowestIsCanonical
<1> HIDE DEF N, D
<1>12. \E p \in Int, q \in Nat \ {0} :
          Lowest(N, D) = <<p, q>> /\ lo * q <= p /\ p <= hi * q
  BY <1>9, <1>10, LowestBounds
<1>13. ASSUME NEW T \in Int,
              (T = 0 /\ L = 0) \/ (L > 0 /\ Bounded(s) /\ s.avg = Lowest(T, L))
       PROVE  Lowest(N, D) = Lowest(T + t, L + l)
  <2>1. CASE T = 0 /\ L = 0
    <3>1. a * L = T * b
      BY <2>1
    <3> QED BY <1>11, <3>1
  <2>2. CASE L > 0 /\ Bounded(s) /\ s.avg = Lowest(T, L)
    <3>1. L \in Nat \ {0}
      BY <2>2
    <3>2. PICK p \in Int, q \in Nat \ {0} : Lowest(T, L) = <<p, q>> /\ p * L = T * q
      BY <3>1, LowestKeepsRatio
    <3>3. <<p, q>> = <<a, b>>
      BY <1>1, <2>2, <3>2
    <3>4. p = a /\ q = b
      BY <3>3
    <3>5. a * L = T * b
      BY <3>2, <3>4
    <3> QED BY <1>11, <3>5
  <2> QED BY <1>13, <2>1, <2>2
<1> QED BY <1>3, <1>4, <1>8, <1>12, <1>13

\* What a write puts in the database.
LEMMA DataWritten ==
  ASSUME NEW s \in ClientData, NEW id \in Id, NEW v \in Array,
         NEW c, c = Written(s, id, v).data
  PROVE  /\ c \in Database /\ c = [s.data EXCEPT ![id] = DataEntry(v)]
         /\ c[id] = DataEntry(v) /\ \A i \in Id \ {id} : c[i] = s.data[i]
         /\ NumEntries(c) # 0
         /\ AllVals(c) \in Seq(Int) /\ AllVals(c) # <<>>
         /\ ToSet(v) \subseteq ToSet(AllVals(c))
<1>1. c = [s.data EXCEPT ![id] = DataEntry(v)]
  BY DEF Written
<1>2. s.data \in Database /\ DataEntry(v) \in Entries
  BY DEF ClientData, Entries
<1>3. c \in Database /\ c[id] = DataEntry(v) /\ \A i \in Id \ {id} : c[i] = s.data[i]
  BY <1>1, <1>2 DEF Database
<1>4. c[id] # NONE
  BY <1>3, EntryFacts
<1>5. NumEntries(c) # 0
  BY <1>4, NumEntriesFacts
<1>6. c[id].values = v
  BY <1>3 DEF DataEntry
<1>7. ToSet(v) \subseteq ToSet(AllVals(c))
  BY <1>3, <1>4, <1>6, AllValsFacts
<1>8. AllVals(c) \in Seq(Int)
  BY <1>3, AllValsFacts
<1>9. AllVals(c) # <<>>
  <2>1. PICK x : x \in ToSet(AllVals(c))
    BY <1>7, ArrayFacts
  <2>2. PICK a \in Seq(Int) : a = AllVals(c)
    BY <1>8
  <2>3. \E i \in DOMAIN a : TRUE
    BY <2>1, <2>2 DEF ToSet
  <2>4. a # <<>>
    BY <2>3, EmptySeq
  <2> QED BY <2>2, <2>4
<1> QED BY <1>1, <1>3, <1>5, <1>7, <1>8, <1>9

\* The bounds of a database after a write are around those before it, unless
\* there were none, and around the new values.
LEMMA BoundsWritten ==
  ASSUME NEW s, SoundData(s), NEW id \in Id, NEW v \in Array
  PROVE  \E lo \in Int, hi \in Int :
            /\ Written(s, id, v).min = lo /\ Written(s, id, v).max = hi
            /\ lo = Least(s.min, Min(ToSet(v))) /\ hi = Greatest(s.max, Max(ToSet(v)))
            /\ s.num_elem = 0 \/ (lo <= s.min /\ s.max <= hi)
            /\ lo <= Min(ToSet(v)) /\ Max(ToSet(v)) <= hi
            /\ s.num_elem = 0 => lo = Min(ToSet(v)) /\ hi = Max(ToSet(v))
<1>1. PICK mn \in Int, mx \in Int : mn = s.min /\ mx = s.max
  BY DEF SoundData, ClientData
<1>2. PICK x \in Int, y \in Int : x = Min(ToSet(v)) /\ y = Max(ToSet(v))
  BY ArrayFacts
<1>3. Written(s, id, v).min = Least(mn, x) /\ Written(s, id, v).max = Greatest(mx, y)
  BY <1>1, <1>2, DataEntryIsExact DEF EntryOf, Written
<1>4. /\ Least(mn, x) \in Int /\ Least(mn, x) <= mn /\ Least(mn, x) <= x
      /\ Greatest(mx, y) \in Int /\ mx <= Greatest(mx, y) /\ y <= Greatest(mx, y)
  BY DEF Least, Greatest
<1>5. s.num_elem = 0 => Least(mn, x) = x /\ Greatest(mx, y) = y
  <2>1. SUFFICES ASSUME s.num_elem = 0
                 PROVE  Least(mn, x) = x /\ Greatest(mx, y) = y
    OBVIOUS
  <2>2. mn = INFINITY /\ mx = -INFINITY
    BY <1>1, <2>1 DEF SoundData, Bounded, NewClientData
  <2>3. x \in Value /\ y \in Value /\ INFINITY \in Int
    BY <1>2, ArrayFacts, StatsAssumption
  <2>4. x <= INFINITY /\ -INFINITY <= y /\ x # INFINITY
    BY <2>3 DEF Value
  <2>5. Least(mn, x) = x
    BY <2>2, <2>3, <2>4 DEF Least, Value
  <2>6. Greatest(mx, y) = y
    BY <2>2, <2>3 DEF Greatest, Value
  <2> QED BY <2>5, <2>6
<1> QED BY <1>1, <1>2, <1>3, <1>4, <1>5

LEMMA NumWritten ==
  ASSUME NEW s \in ClientData, NEW id \in Id, NEW v \in Array
  PROVE  /\ Written(s, id, v).num_elem = s.num_elem + Len(v)
         /\ Written(s, id, v).num_elem \in Nat \ {0}
<1>1. s.num_elem \in Nat /\ Len(v) \in Nat \ {0}
  BY ArrayFacts DEF ClientData
<1>2. Written(s, id, v).num_elem = s.num_elem + Len(v)
  BY DEF Written
<1> QED BY <1>1, <1>2

LEMMA WriteIsBounded ==
  ASSUME NEW s, SoundData(s), NEW id \in Id, NEW v \in Array
  PROVE  /\ Written(s, id, v) \in ClientData
         /\ Bounded(Written(s, id, v))
         /\ Written(s, id, v).med2 = TrueMedian2(AllVals(Written(s, id, v).data))
<1>1. PICK r : r = Written(s, id, v)
  OBVIOUS
<1>2. s \in ClientData
  BY DEF SoundData
<1>3. PICK lo \in Int, hi \in Int :
            /\ r.min = lo /\ r.max = hi
            /\ s.num_elem = 0 \/ (lo <= s.min /\ s.max <= hi)
            /\ lo <= Min(ToSet(v)) /\ Max(ToSet(v)) <= hi
  BY <1>1, BoundsWritten
<1>4. PICK p \in Int, q \in Nat \ {0} : r.avg = <<p, q>> /\ lo * q <= p /\ p <= hi * q
  BY <1>1, <1>3, AverageWritten
<1>5. PICK d : d = r.data
  OBVIOUS
<1>6. /\ d \in Database /\ d[id] = DataEntry(v) /\ \A i \in Id \ {id} : d[i] = s.data[i]
      /\ AllVals(d) \in Seq(Int) /\ AllVals(d) # <<>>
  BY <1>1, <1>2, <1>5, DataWritten
<1>7. \A i \in Id : d[i] # NONE => lo <= d[i].min /\ d[i].max <= hi
  <2> SUFFICES ASSUME NEW i \in Id, d[i] # NONE PROVE lo <= d[i].min /\ d[i].max <= hi
    OBVIOUS
  <2>1. CASE i = id
    BY <1>3, <1>6, <2>1, DataEntryIsExact DEF EntryOf
  <2>2. CASE i # id
    <3>1. d[i] = s.data[i]
      BY <1>6, <2>2
    <3>2. s # NewClientData
      BY <3>1, NewClientDataFacts
    <3>3. Bounded(s)
      BY <3>2 DEF SoundData
    <3>4. s.num_elem # 0 /\ s.min <= d[i].min /\ d[i].max <= s.max
      BY <1>2, <3>1, <3>3 DEF Bounded
    <3>5. PICK w \in Array : d[i] = DataEntry(w)
      BY <1>6 DEF Database, Entries
    <3>6. d[i].min \in Int /\ d[i].max \in Int
      BY <3>5, EntryFacts DEF Entry
    <3>7. s.min \in Int /\ s.max \in Int
      BY <1>2 DEF ClientData
    <3> QED BY <1>3, <3>4, <3>6, <3>7
  <2> QED BY <2>1, <2>2
<1>8. r.med2 = TrueMedian2(AllVals(d))
  <2>1. r.med2 = Median2(AllVals(d))
    BY <1>1, <1>5 DEF Written
  <2> QED BY <1>6, <2>1, MedianIsTrue
<1>9. r.med2 \in Int /\ 2 * lo <= r.med2 /\ r.med2 <= 2 * hi
  <2>1. \A x \in ToSet(AllVals(d)) : lo <= x /\ x <= hi
    BY <1>6, <1>7, ValuesBounded
  <2>2. PICK a : a = AllVals(d)
    OBVIOUS
  <2>3. /\ TrueMedian2(a) \in Int
        /\ 2 * lo <= TrueMedian2(a) /\ TrueMedian2(a) <= 2 * hi
    BY <1>6, <2>1, <2>2, MedianBounds
  <2> QED BY <1>8, <2>2, <2>3
<1>10. r.num_elem \in Nat \ {0}
  BY <1>1, <1>2, NumWritten
<1>11. r \in ClientData
  <2>1. r.drift \in {"none", "all"}
    BY <1>1 DEF Written
  <2>2. r = [data |-> r.data, num_elem |-> r.num_elem, min |-> r.min, max |-> r.max,
             avg |-> r.avg, med2 |-> r.med2, drift |-> r.drift]
    BY <1>1 DEF Written
  <2>3. /\ r.data \in Database /\ r.num_elem \in Nat /\ r.min \in Int /\ r.max \in Int
        /\ r.avg \in Int \X Int /\ r.med2 \in Int
    BY <1>3, <1>4, <1>5, <1>6, <1>9, <1>10
  <2>4. PICK x1 \in Database, x2 \in Nat, x3 \in Int, x4 \in Int, x5 \in Int \X Int,
             x6 \in Int, x7 \in {"none", "all"} :
          r = [data |-> x1, num_elem |-> x2, min |-> x3, max |-> x4,
               avg |-> x5, med2 |-> x6, drift |-> x7]
    BY <2>1, <2>2, <2>3
  <2> QED BY <2>4 DEF ClientData
<1>12. Bounded(r)
  <2>1. r.num_elem > 0 /\ r.avg[2] = q /\ r.avg[1] = p /\ q > 0
    BY <1>4, <1>10
  <2> QED BY <1>3, <1>4, <1>5, <1>7, <1>9, <2>1 DEF Bounded
<1> QED BY <1>1, <1>5, <1>8, <1>11, <1>12

LEMMA NothingStored ==
  ASSUME NEW d \in Database, \A i \in Id : d[i] = NONE
  PROVE  ToSet(AllVals(d)) = {} /\ Len(AllVals(d)) = 0 /\ Total(AllVals(d)) = 0
<1>1. PICK a \in Seq(Int) : a = AllVals(d)
  BY AllValsFacts
<1>2. \A x : x \notin ToSet(a)
  BY <1>1, AllValsFacts
<1>3. Len(a) = 0
  <2>1. Len(a) \in Nat /\ DOMAIN a = 1 .. Len(a)
    OBVIOUS
  <2>2. SUFFICES ASSUME Len(a) # 0 PROVE FALSE
    OBVIOUS
  <2>3. 1 \in DOMAIN a
    BY <2>1, <2>2
  <2>4. a[1] \in ToSet(a)
    BY <2>3 DEF ToSet
  <2> QED BY <1>2, <2>4
<1>4. Total(a) = 0
  <2>1. DOMAIN a = {}
    BY <1>3
  <2>4. \A i \in DOMAIN a : 0 <= a[i] /\ a[i] <= 0
    BY <2>1
  <2>5. PICK z \in Int : z = 0
    OBVIOUS
  <2>2. z * Len(a) <= Total(a) /\ Total(a) <= z * Len(a)
    BY <2>4, <2>5, TotalBounds
  <2>3. Total(a) \in Int
    BY TotalType
  <2>6. z * Len(a) = 0
    BY <1>3, <2>5
  <2> QED BY <2>2, <2>3, <2>6
<1> QED BY <1>1, <1>2, <1>3, <1>4

\* What is known of the data while nothing is off.
LEMMA ExactSoFar ==
  ASSUME NEW s, SoundData(s), s.drift = "none"
  PROVE  /\ Len(AllVals(s.data)) = s.num_elem
         /\ \/ Total(AllVals(s.data)) = 0 /\ s.num_elem = 0
            \/ /\ s.num_elem > 0 /\ Bounded(s)
               /\ s.avg = Lowest(Total(AllVals(s.data)), s.num_elem)
         /\ s.num_elem > 0 => /\ s.min \in ToSet(AllVals(s.data))
                              /\ s.max \in ToSet(AllVals(s.data))
<1>0. s \in ClientData /\ s.data \in Database
  BY DEF SoundData, ClientData
<1>1. CASE s = NewClientData
  <2>1. s.num_elem = 0
    BY <1>1 DEF NewClientData
  <2>2. PICK d \in Database : d = s.data
    BY <1>0
  <2>3. \A i \in Id : d[i] = NONE
    BY <1>1, <2>2, NewClientDataFacts
  <2>4. Len(AllVals(d)) = 0 /\ Total(AllVals(d)) = 0
    BY <2>3, NothingStored
  <2> QED BY <2>1, <2>2, <2>4
<1>2. CASE Bounded(s) /\ Exact(s)
  <2>1. PICK a : a = AllVals(s.data)
    OBVIOUS
  <2>2. StatsOf(s, a)
    BY <1>2, <2>1 DEF Exact
  <2>3. Len(a) = s.num_elem /\ s.avg = Lowest(Total(a), s.num_elem)
    BY <2>2 DEF StatsOf, Mean
  <2>4. s.num_elem > 0
    BY <1>2 DEF Bounded
  <2>5. s.min \in Int /\ s.max \in Int
    BY <1>0 DEF ClientData
  <2>6. PICK S : S = ToSet(a)
    OBVIOUS
  <2>7. \A x \in S : x \in Int /\ s.min <= x /\ x <= s.max
    <3>1. \A i \in Id : s.data[i] # NONE =>
             s.min <= s.data[i].min /\ s.data[i].max <= s.max
      BY <1>2 DEF Bounded
    <3> QED BY <1>0, <2>1, <2>5, <2>6, <3>1, ValuesBounded
  <2>8. S # {}
    <3>1. a \in Seq(Int) /\ Len(a) > 0
      BY <1>0, <2>1, <2>3, <2>4, AllValsFacts
    <3>2. 1 \in DOMAIN a
      BY <3>1
    <3> QED BY <2>6, <3>2 DEF ToSet
  <2>9. Min(S) \in S
    BY <2>5, <2>7, <2>8, FiniteHasMin
  <2>10. Max(S) \in S
    BY <2>5, <2>7, <2>8, FiniteHasMax
  <2>11. s.min = Min(S) /\ s.max = Max(S)
    BY <2>2, <2>6 DEF StatsOf
  <2> QED BY <1>2, <2>1, <2>3, <2>4, <2>6, <2>9, <2>10, <2>11
<1> QED BY <1>1, <1>2 DEF SoundData

\* A new entry keeps exact statistics exact.
LEMMA WriteIsExact ==
  ASSUME NEW s, SoundData(s), NEW id \in Id, NEW v \in Array
  PROVE  Exact(Written(s, id, v))
<1>1. PICK r : r = Written(s, id, v)
  OBVIOUS
<1>2. SUFFICES ASSUME r.drift # "all" PROVE StatsOf(r, AllVals(r.data))
  BY <1>1 DEF Exact
<1>3. s.data[id] = NONE /\ s.drift = "none" /\ r.drift = "none"
  BY <1>1, <1>2 DEF Written
<1>4. s \in ClientData /\ s.data \in Database
  BY DEF SoundData, ClientData
<1>5. PICK d : d = r.data
  OBVIOUS
<1>6. /\ d \in Database /\ d = [s.data EXCEPT ![id] = DataEntry(v)]
      /\ d[id] = DataEntry(v) /\ \A i \in Id \ {id} : d[i] = s.data[i]
      /\ AllVals(d) \in Seq(Int) /\ AllVals(d) # <<>>
      /\ ToSet(v) \subseteq ToSet(AllVals(d))
  BY <1>1, <1>4, <1>5, DataWritten
<1>7. PICK a \in Seq(Int) : a = AllVals(d) /\ a # <<>>
  BY <1>6
<1>8. PICK b \in Seq(Int) : b = AllVals(s.data)
  BY <1>4, AllValsFacts
<1>9. PICK n \in Nat : n = s.num_elem
  BY <1>4 DEF ClientData
<1>10. PICK T \in Int : T = Total(b)
  BY TotalType
<1>11. /\ Len(b) = n
       /\ (T = 0 /\ n = 0) \/ (n > 0 /\ Bounded(s) /\ s.avg = Lowest(T, n))
       /\ n > 0 => s.min \in ToSet(b) /\ s.max \in ToSet(b)
  BY <1>3, <1>8, <1>9, <1>10, ExactSoFar
<1>12. Len(a) = n + Len(v) /\ Total(a) = T + Total(v)
  <2>1. PICK c \in Database : c = s.data
    BY <1>4
  <2>2. Len(AllVals(d)) = Len(AllVals(c)) + Len(v)
        /\ Total(AllVals(d)) = Total(AllVals(c)) + Total(v)
    BY <1>3, <1>6, <2>1, AllValsAdd
  <2> QED BY <1>7, <1>8, <1>10, <1>11, <2>1, <2>2
<1>13. PICK lo \in Int, hi \in Int :
            /\ r.min = lo /\ r.max = hi
            /\ lo = Least(s.min, Min(ToSet(v))) /\ hi = Greatest(s.max, Max(ToSet(v)))
            /\ n = 0 \/ (lo <= s.min /\ s.max <= hi)
            /\ lo <= Min(ToSet(v)) /\ Max(ToSet(v)) <= hi
            /\ n = 0 => lo = Min(ToSet(v)) /\ hi = Max(ToSet(v))
  <2>1. PICK lo \in Int, hi \in Int :
            /\ Written(s, id, v).min = lo /\ Written(s, id, v).max = hi
            /\ lo = Least(s.min, Min(ToSet(v))) /\ hi = Greatest(s.max, Max(ToSet(v)))
            /\ s.num_elem = 0 \/ (lo <= s.min /\ s.max <= hi)
            /\ lo <= Min(ToSet(v)) /\ Max(ToSet(v)) <= hi
            /\ s.num_elem = 0 => lo = Min(ToSet(v)) /\ hi = Max(ToSet(v))
    BY BoundsWritten
  <2> QED BY <1>1, <1>9, <2>1
<1>14. r.avg = Mean(a)
  <2>1. Written(s, id, v).avg = Lowest(T + Total(v), s.num_elem + Len(v))
    BY <1>9, <1>11, <1>13, AverageWritten
  <2> QED BY <1>1, <1>9, <1>12, <2>1 DEF Mean
<1>15. r.num_elem = Len(a)
  BY <1>1, <1>4, <1>9, <1>12, NumWritten
<1>16. PICK S : S = ToSet(a)
  OBVIOUS
<1>17. \A x \in S : x \in Int /\ lo <= x /\ x <= hi
  <2>1. Bounded(r)
    BY <1>1, WriteIsBounded
  <2>2. \A i \in Id : d[i] # NONE => lo <= d[i].min /\ d[i].max <= hi
    BY <1>5, <1>13, <2>1 DEF Bounded
  <2> QED BY <1>6, <1>7, <1>16, <2>2, ValuesBounded
<1>18. ToSet(b) \subseteq S
  <2>1. PICK c \in Database : c = s.data
    BY <1>4
  <2> SUFFICES ASSUME NEW x \in ToSet(b) PROVE x \in S
    OBVIOUS
  <2>2. PICK i \in Id : c[i] # NONE /\ x \in ToSet(c[i].values)
    BY <1>8, <2>1, AllValsFacts
  <2>3. i # id /\ d[i] = c[i]
    BY <1>3, <1>6, <2>1, <2>2
  <2> QED BY <1>6, <1>7, <1>16, <2>2, <2>3, AllValsFacts
<1>19. lo \in S /\ hi \in S
  <2>1. Min(ToSet(v)) \in S /\ Max(ToSet(v)) \in S
    BY <1>6, <1>7, <1>16, ArrayFacts
  <2>2. n = 0 \/ (s.min \in S /\ s.max \in S)
    BY <1>11, <1>18
  <2>3. lo = s.min \/ lo = Min(ToSet(v))
    BY <1>13 DEF Least
  <2>4. hi = s.max \/ hi = Max(ToSet(v))
    BY <1>13 DEF Greatest
  <2> QED BY <1>13, <2>1, <2>2, <2>3, <2>4
<1>20. S \subseteq Int
  BY <1>17
<1>21. lo = Min(S) /\ hi = Max(S)
  <2>1. Min(S) = lo
    BY <1>17, <1>19, <1>20, LeastIsMin
  <2>2. Max(S) = hi
    BY <1>17, <1>19, <1>20, GreatestIsMax
  <2> QED BY <2>1, <2>2
<1>22. r.med2 = TrueMedian2(a)
  BY <1>1, <1>5, <1>7, WriteIsBounded
<1> QED BY <1>3, <1>5, <1>7, <1>13, <1>14, <1>15, <1>16, <1>21, <1>22 DEF StatsOf

-----------------------------------------------------------------------------
\* Every step keeps it.

LEMMA WriteIsSound ==
  ASSUME NEW s, SoundData(s), NEW id \in Id, NEW v \in Array
  PROVE  SoundData(Written(s, id, v))
BY WriteIsBounded, WriteIsExact DEF SoundData

LEMMA DeleteIsSound ==
  ASSUME NEW s, SoundData(s), NEW id \in Id, s.data[id] # NONE
  PROVE  SoundData([s EXCEPT !.data[id] = NONE, !.drift = "all"])
<1>1. PICK r : r = [s EXCEPT !.data[id] = NONE, !.drift = "all"]
  OBVIOUS
<1>2. s \in ClientData /\ s.data \in Database
  BY DEF SoundData, ClientData
<1>3. Bounded(s)
  BY NewClientDataFacts DEF SoundData
<1>4. /\ r.data = [s.data EXCEPT ![id] = NONE] /\ r.num_elem = s.num_elem
      /\ r.min = s.min /\ r.max = s.max /\ r.avg = s.avg /\ r.med2 = s.med2
      /\ r.drift = "all"
  BY <1>1, <1>2 DEF ClientData
<1>5. /\ r.data \in Database
      /\ \A i \in Id : r.data[i] # NONE => r.data[i] = s.data[i]
  BY <1>2, <1>4 DEF Database
<1>6. r \in ClientData
  BY <1>1, <1>2, <1>5 DEF ClientData
<1>7. Bounded(r)
  BY <1>3, <1>4, <1>5 DEF Bounded
<1> QED BY <1>1, <1>4, <1>6, <1>7 DEF SoundData, Exact

LEMMA LoadIsSound ==
  ASSUME NEW s, SoundData(s), NumEntries(s.data) # 0
  PROVE  SoundData([s EXCEPT !.num_elem = NumEntries(s.data),
                             !.drift = IF @ = "none" THEN "count" ELSE @])
<1>1. PICK r : r = [s EXCEPT !.num_elem = NumEntries(s.data),
                             !.drift = IF @ = "none" THEN "count" ELSE @]
  OBVIOUS
<1>2. s \in ClientData
  BY DEF SoundData
<1>3. Bounded(s) /\ Exact(s)
  BY NewClientDataFacts DEF SoundData
<1>4. PICK n \in Nat \ {0} : n = NumEntries(s.data)
  BY NumEntriesFacts
<1>5. /\ r.data = s.data /\ r.num_elem = n
      /\ r.min = s.min /\ r.max = s.max /\ r.avg = s.avg /\ r.med2 = s.med2
      /\ r.drift = IF s.drift = "none" THEN "count" ELSE s.drift
  BY <1>1, <1>2, <1>4 DEF ClientData
<1>6. r \in ClientData
  BY <1>1, <1>2, <1>4 DEF ClientData
<1>7. Bounded(r)
  BY <1>3, <1>5 DEF Bounded
<1>8. Exact(r)
  <2>1. PICK a : a = AllVals(s.data)
    OBVIOUS
  <2>2. s.drift # "all" => StatsOf(s, a)
    BY <1>3, <2>1 DEF Exact
  <2>3. r.drift # "all" => s.drift # "all" /\ r.drift # "none"
    BY <1>5
  <2>4. r.drift # "all" => StatsOf(r, a)
    BY <1>4, <1>5, <2>2, <2>3 DEF StatsOf
  <2> QED BY <1>5, <2>1, <2>4 DEF Exact
<1> QED BY <1>1, <1>6, <1>7, <1>8 DEF SoundData

LEMMA InitSound == Init => Sound
BY DEF Init, Sound, MedianIsRecalculated

LEMMA NextSound == Sound /\ [Next]_vars => Sound'
<1> SUFFICES ASSUME Sound, [Next]_vars PROVE Sound'
  OBVIOUS
<1>1. /\ session # NONE => SoundData(session)
      /\ file # NONE => SoundData(file) /\ NumEntries(file.data) # 0
  BY DEF Sound
<1>2. SUFFICES /\ session' # NONE => SoundData(session')
               /\ file' # NONE => SoundData(file') /\ NumEntries(file'.data) # 0
               /\ last' = "add_update" =>
                    session'.med2 = TrueMedian2(AllVals(session'.data))
  BY DEF Sound, MedianIsRecalculated
<1>3. CASE login
  <2>1. SoundData(NewClientData)
    BY NewClientDataFacts DEF SoundData
  <2> QED BY <1>1, <1>3, <2>1 DEF login
<1>4. CASE logout
  BY <1>1, <1>4 DEF logout
<1>5. CASE load
  <2>1. file # NONE /\ last' = "load" /\ file' = file
    BY <1>5 DEF load
  <2>2. session' = [file EXCEPT !.num_elem = NumEntries(file.data),
                                !.drift = IF @ = "none" THEN "count" ELSE @]
    BY <1>5 DEF load
  <2>3. SoundData(session')
    BY <1>1, <2>1, <2>2, LoadIsSound
  <2> QED BY <1>1, <2>1, <2>3
<1>6. CASE store
  BY <1>1, <1>6 DEF store
<1>7. CASE \E id \in Id : del(id)
  <2>1. PICK id \in Id : del(id)
    BY <1>7
  <2>2. /\ session # NONE /\ session.data[id] # NONE
        /\ session' = [session EXCEPT !.data[id] = NONE, !.drift = "all"]
        /\ last' = "del" /\ file' = file
    BY <2>1 DEF del
  <2>3. SoundData(session')
    BY <1>1, <2>2, DeleteIsSound
  <2> QED BY <1>1, <2>2, <2>3
<1>8. CASE \E id \in Id : \E v \in Array : add_update(id, v)
  <2>1. PICK id \in Id, v \in Array : add_update(id, v)
    BY <1>8
  <2>2. session # NONE /\ file' = file
    BY <2>1 DEF add_update
  <2>3. session' = Written(session, id, v)
    BY <1>1, <2>1, <2>2, AddUpdateWrites DEF SoundData
  <2>4. SoundData(session')
    BY <1>1, <2>2, <2>3, WriteIsSound
  <2>5. session'.med2 = TrueMedian2(AllVals(session'.data))
    BY <1>1, <2>2, <2>3, WriteIsBounded
  <2> QED BY <1>1, <2>2, <2>4, <2>5
<1>9. CASE UNCHANGED vars
  BY <1>1, <1>9 DEF vars, Sound, MedianIsRecalculated
<1> QED BY <1>3, <1>4, <1>5, <1>6, <1>7, <1>8, <1>9 DEF Next

LEMMA SpecSound == Spec => []Sound
BY InitSound, NextSound, PTL DEF Spec

-----------------------------------------------------------------------------
\* The statistics of an entry, in whatever order its values came and whatever
\* was loaded or stored since, are the true minimum, maximum, mean and median
\* of its values: the Entry constructor computes them in one pass and by
\* nth_element.
THEOREM EntriesAreExact == Spec => []EntryStatsAreExact
<1>1. Sound => EntryStatsAreExact
  <2> SUFFICES ASSUME Sound, session # NONE, NEW i \in Id, session.data[i] # NONE
               PROVE  LET e == session.data[i]
                      IN  /\ e.min = Min(ToSet(e.values))
                          /\ e.max = Max(ToSet(e.values))
                          /\ e.avg = Mean(e.values)
                          /\ e.med2 = TrueMedian2(e.values)
    BY DEF EntryStatsAreExact
  <2>1. PICK e : e = session.data[i]
    OBVIOUS
  <2>2. PICK v \in Array : e = DataEntry(v)
    BY <2>1 DEF Sound, SoundData, ClientData, Database, Entries
  <2>3. EntryOf(e, v)
    BY <2>2, DataEntryIsExact
  <2> QED BY <2>1, <2>3 DEF EntryOf
<1> QED BY <1>1, SpecSound, PTL

\* After an add or an update the database's median is that of all the values
\* there are, however far the other statistics have drifted: update_stats
\* collects the values and computes it anew.
THEOREM MedianNeverDrifts == Spec => []MedianIsRecalculated
<1>1. Sound => MedianIsRecalculated
  BY DEF Sound
<1> QED BY <1>1, SpecSound, PTL

\* Drift or not, the average and the median of a database stay between its min
\* and max, which bound every value it holds: after updates, deletions and a
\* load that weighs the next write by the number of entries.
THEOREM StatsStayOrdered == Spec => []StatsAreOrdered
<1>1. Sound => StatsAreOrdered
  <2> SUFFICES ASSUME Sound, session # NONE, NumEntries(session.data) # 0
               PROVE  /\ AtMost(Whole(session.min), session.avg)
                      /\ AtMost(session.avg, Whole(session.max))
                      /\ 2 * session.min <= session.med2
                      /\ session.med2 <= 2 * session.max
                      /\ \A x \in ToSet(AllVals(session.data)) :
                            session.min <= x /\ x <= session.max
    BY DEF StatsAreOrdered, HasEntries
  <2>1. SoundData(session)
    BY DEF Sound
  <2>2. Bounded(session)
    BY <2>1, NewClientDataFacts DEF SoundData
  <2>3. PICK lo \in Int, hi \in Int, a \in Int, b \in Int :
           session.min = lo /\ session.max = hi /\ session.avg = <<a, b>>
    BY <2>1 DEF SoundData, ClientData
  <2>4. lo * b <= a /\ a <= hi * b
    BY <2>2, <2>3 DEF Bounded
  <2>5. AtMost(Whole(lo), <<a, b>>) /\ AtMost(<<a, b>>, Whole(hi))
    BY <2>4 DEF AtMost, Whole
  <2>6. PICK d \in Database : d = session.data
    BY <2>1 DEF SoundData, ClientData
  <2>7. \A i \in Id : d[i] # NONE => lo <= d[i].min /\ d[i].max <= hi
    BY <2>2, <2>3, <2>6 DEF Bounded
  <2>8. \A x \in ToSet(AllVals(d)) : lo <= x /\ x <= hi
    BY <2>7, ValuesBounded
  <2> QED BY <2>2, <2>3, <2>5, <2>6, <2>8 DEF Bounded
<1> QED BY <1>1, SpecSound, PTL

\* As long as entries are only added, and after a load of them until the next
\* write, min, max, average and median are those of all the values, and
\* num_elem is their number, or after a load the number of entries that load
\* reads in its place.
THEOREM ExactUntilSomethingIsLost == Spec => []ExactUntilDrift
<1>1. Sound => ExactUntilDrift
  <2> SUFFICES ASSUME Sound, session # NONE, NumEntries(session.data) # 0,
                      session.drift # "all",
                      NEW s, s = AllVals(session.data)
               PROVE  /\ session.min = Min(ToSet(s)) /\ session.max = Max(ToSet(s))
                      /\ session.avg = Mean(s) /\ session.med2 = TrueMedian2(s)
                      /\ session.num_elem = IF session.drift = "none"
                            THEN Len(s) ELSE NumEntries(session.data)
    BY DEF ExactUntilDrift, HasEntries
  <2>1. Exact(session)
    BY NewClientDataFacts DEF Sound, SoundData
  <2>2. StatsOf(session, s)
    BY <2>1 DEF Exact
  <2> QED BY <2>2 DEF StatsOf
<1> QED BY <1>1, SpecSound, PTL
=============================================================================
