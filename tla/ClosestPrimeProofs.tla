------------------------- MODULE ClosestPrimeProofs -------------------------
(***************************************************************************)
(* What holds of the search for the closest prime, for any INT_MAX, any    *)
(* numbers and any number of clients, by Atkin's theorem about primes.     *)
(***************************************************************************)
EXTENDS ClosestPrime, FiniteSetTheorems, SequenceTheorems, TLAPS

-----------------------------------------------------------------------------
\* Induction, with a set for what is to be shown.

LEMMA LeastNumber ==
  ASSUME NEW S, S \subseteq Nat, S # {}
  PROVE  \E n \in S : \A k \in S : n <= k
<1> DEFINE R == {p \in Nat \X Nat : p[1] < p[2]}
<1>1. IsWellFoundedOn(R, Nat)
  BY NatLessThanWellFounded DEF OpToRel
<1>2. PICK n \in S : \A k \in S : ~ (<<k, n>> \in R)
  <2> HIDE DEF R
  <2> QED BY <1>1, WFMin
<1>3. \A k \in S : n <= k
  <2> SUFFICES ASSUME NEW k \in S PROVE n <= k
    OBVIOUS
  <2>1. n \in Nat /\ k \in Nat /\ ~ (<<k, n>> \in R)
    BY <1>2
  <2>2. ~ (k < n)
    BY <2>1
  <2> QED BY <2>1, <2>2
<1> QED BY <1>3

\* A set of numbers that has 0, and every k up to n if it has k - 1.
LEMMA Counting ==
  ASSUME NEW n \in Nat, NEW A, 0 \in A,
         \A k \in 1 .. n : k - 1 \in A => k \in A
  PROVE  0 .. n \subseteq A
<1> DEFINE Missing == (0 .. n) \ A
<1>1. SUFFICES ASSUME Missing # {} PROVE FALSE
  OBVIOUS
<1>2. PICK m \in Missing : \A k \in Missing : m <= k
  <2> Missing \subseteq Nat
    OBVIOUS
  <2> HIDE DEF Missing
  <2> QED BY <1>1, LeastNumber
<1>3. m \in 1 .. n /\ m \notin A
  BY SMT
<1>4. m - 1 \notin Missing
  BY <1>2, <1>3
<1> QED BY <1>3, <1>4

-----------------------------------------------------------------------------
\* Numbers that divide others.

LEMMA Division ==
  ASSUME NEW x \in Int, NEW z \in Int, z > 0
  PROVE  \E q, r \in Int : /\ q = x \div z /\ r = x % z
                           /\ x = q * z + r /\ 0 <= r /\ r < z
<1>1. PICK q \in Int, r \in Int : q = x \div z /\ r = x % z /\ 0 <= r /\ r < z
  OBVIOUS
<1>2. x = z * q + r
  BY <1>1, Z3
<1>3. x = q * z + r
  BY <1>2
<1> QED BY <1>1, <1>3, Zenon

LEMMA DividesExactly ==
  ASSUME NEW x \in Int, NEW z \in Int, z > 0, NEW q \in Int, x = q * z
  PROVE  x % z = 0
<1>1. PICK p \in Int, r \in Int : r = x % z /\ x = p * z + r /\ 0 <= r /\ r < z
  BY Division
<1>2. (q - p) * z = r
  BY <1>1
<1>3. q - p < 1
  <2>1. ASSUME q - p >= 1 PROVE FALSE
    <3>1. (q - p) * z >= 1 * z
      BY <2>1
    <3> QED BY <1>1, <1>2, <3>1
  <2> QED BY <2>1
<1>4. q - p > -1
  <2>1. ASSUME q - p <= -1 PROVE FALSE
    <3>1. (q - p) * z <= (-1) * z
      BY <2>1
    <3> QED BY <1>1, <1>2, <3>1
  <2> QED BY <2>1
<1>5. q - p = 0
  BY <1>3, <1>4
<1> QED BY <1>1, <1>2, <1>5

LEMMA Divides ==
  ASSUME NEW n \in Int, NEW k \in Int, k > 0
  PROVE  n % k = 0 <=> \E q \in Int : n = q * k
<1>1. ASSUME n % k = 0 PROVE \E q \in Int : n = q * k
  <2>1. PICK q \in Int, r \in Int : r = n % k /\ n = q * k + r
    BY Division
  <2>2. n = q * k
    BY <1>1, <2>1
  <2> QED BY <2>2
<1>2. ASSUME NEW q \in Int, n = q * k PROVE n % k = 0
  BY <1>2, DividesExactly
<1> QED BY <1>1, <1>2

LEMMA SquareType ==
  ASSUME NEW d \in Int, d >= 2
  PROVE  d * d \in Int /\ d * d > 0 /\ d * d > d
<1>1. d * d >= 2 * d
  OBVIOUS
<1> QED BY <1>1

LEMMA SquareFactor ==
  ASSUME NEW n \in Nat \ {0}, NEW d \in Nat, d >= 2, n % (d * d) = 0
  PROVE  d * d <= n /\ d < n
<1>1. d * d \in Int /\ d * d > 0 /\ d * d > d
  BY SquareType
<1>2. PICK k \in Int : k = d * d
  BY <1>1
<1>3. PICK q \in Int : n = q * k
  BY <1>1, <1>2, Divides
<1>4. q >= 1
  <2>1. ASSUME q <= 0 PROVE FALSE
    <3>1. q * k <= 0 * k
      BY <1>1, <1>2, <2>1
    <3> QED BY <1>3, <3>1
  <2> QED BY <2>1
<1>5. q * k >= 1 * k
  BY <1>1, <1>2, <1>4
<1> QED BY <1>1, <1>2, <1>3, <1>5

LEMMA PrimeIsSquareFree ==
  ASSUME NEW n \in Nat \ {0}, IsPrimeNumber(n)
  PROVE  SquareFree(n)
<1>1. SUFFICES ASSUME NEW d \in 2 .. n, n % (d * d) = 0 PROVE FALSE
  BY DEF SquareFree
<1>2. d \in Nat /\ d >= 2 /\ d < n
  BY <1>1, SquareFactor
<1>3. PICK k \in Int : k = d * d /\ k > 0
  BY <1>2, SquareType
<1>4. PICK q \in Int : n = q * k
  BY <1>1, <1>3, Divides
<1>5. PICK e \in Int : e = q * d
  BY <1>2
<1>6. n = e * d
  BY <1>2, <1>3, <1>4, <1>5
<1>7. n % d = 0
  BY <1>2, <1>6, DividesExactly
<1>8. d \in 2 .. n - 1
  BY <1>2
<1> QED BY <1>7, <1>8 DEF IsPrimeNumber

\* A number that has a square factor has that of a prime.
LEMMA SquareOfPrime ==
  ASSUME NEW n \in Nat \ {0}, ~SquareFree(n)
  PROVE  \E q \in 2 .. n : IsPrimeNumber(q) /\ n % (q * q) = 0
<1> DEFINE D == {d \in 2 .. n : n % (d * d) = 0}
<1>1. D \subseteq Nat /\ D # {}
  <2>1. PICK d \in 2 .. n : n % (d * d) = 0
    BY Zenon DEF SquareFree
  <2>2. d \in D
    BY <2>1, Zenon
  <2>3. D \subseteq 2 .. n
    BY Zenon
  <2> HIDE DEF D
  <2> QED BY <2>2, <2>3
<1>2. PICK q \in D : \A d \in D : q <= d
  <2> HIDE DEF D
  <2> QED BY <1>1, LeastNumber
<1>3. q \in 2 .. n /\ n % (q * q) = 0
  BY <1>2
<1>4. ASSUME NEW d \in 2 .. q - 1, q % d = 0 PROVE FALSE
  <2>1. d \in Int /\ d >= 2 /\ d < q /\ q \in Int /\ q >= 2
    BY <1>3
  <2>2. PICK e \in Int : q = e * d
    BY <1>4, <2>1, Divides
  <2>3. PICK k \in Int, l \in Int : k = q * q /\ k > 0 /\ l = d * d /\ l > 0
    BY <2>1, SquareType
  <2>4. PICK f \in Int : n = f * k
    BY <1>3, <2>3, Divides
  <2>5. k = (e * e) * l
    BY <2>1, <2>2, <2>3
  <2>6. PICK g \in Int : g = f * (e * e)
    OBVIOUS
  <2>7. n = g * l
    BY <2>3, <2>4, <2>5, <2>6
  <2>8. n % l = 0
    BY <2>3, <2>7, DividesExactly
  <2>9. d \in D
    BY <1>3, <2>1, <2>3, <2>8
  <2> QED BY <1>2, <2>1, <2>9
<1>5. IsPrimeNumber(q)
  <2>1. q > 1
    BY <1>3
  <2>2. \A d \in 2 .. q - 1 : q % d # 0
    BY <1>4, Zenon
  <2> QED BY <2>1, <2>2, Zenon DEF IsPrimeNumber
<1> QED BY <1>3, <1>5

-----------------------------------------------------------------------------
\* What the loops of generate_primes set and clear.

\* What IntAssumption says of the bounds of the loops.
LEMMA Bounds ==
  /\ INT_MAX \in Nat /\ INT_MAX > 4 /\ MAX_SQRT \in Nat
  /\ MAX_SQRT >= 3 /\ MAX_SQRT <= INT_MAX
  /\ MAX_SQRT * MAX_SQRT >= INT_MAX
  /\ Turns \in Nat /\ 2 * Turns + 3 <= MAX_SQRT /\ MAX_SQRT <= 2 * Turns + 4
<1>1. /\ INT_MAX \in Nat /\ INT_MAX > 3 /\ MAX_SQRT \in Nat
      /\ MAX_SQRT * MAX_SQRT >= INT_MAX /\ (MAX_SQRT - 1) * (MAX_SQRT - 1) < INT_MAX
      /\ \A d \in 2 .. INT_MAX - 1 : INT_MAX % d # 0
  BY IntAssumption DEF IsPrimeNumber
<1>2. INT_MAX > 4
  <2>1. INT_MAX % 2 # 0
    BY <1>1
  <2> QED BY <1>1, <2>1
<1>3. PICK m \in Nat : m = MAX_SQRT
  BY <1>1
<1>4. m >= 3
  <2>1. ASSUME m <= 2 PROVE FALSE
    <3>1. m = 0 \/ m = 1 \/ m = 2
      BY <2>1
    <3>2. m * m <= 4
      BY <3>1
    <3> QED BY <1>1, <1>2, <1>3, <3>2
  <2> QED BY <2>1
<1>5. m <= INT_MAX
  <2>1. ASSUME m > INT_MAX PROVE FALSE
    <3>1. PICK k \in Nat : k = m - 1 /\ k >= INT_MAX /\ k >= 1
      BY <1>1, <1>4, <2>1
    <3>2. k * k >= k * 1
      BY <3>1
    <3>3. k * k < INT_MAX
      BY <1>1, <1>3, <3>1
    <3> QED BY <1>1, <3>1, <3>2, <3>3
  <2> QED BY <1>1, <2>1
<1>6. Turns \in Nat /\ 2 * Turns + 3 <= m /\ m <= 2 * Turns + 4
  <2>1. PICK t \in Int : t = (m - 3) \div 2
    OBVIOUS
  <2>2. m - 3 = 2 * t \/ m - 3 = 2 * t + 1
    BY <2>1
  <2> QED BY <1>3, <1>4, <2>1, <2>2 DEF Turns
<1> QED BY <1>1, <1>2, <1>3, <1>4, <1>5, <1>6

LEMMA RootBound ==
  ASSUME NEW x \in Nat, x * x <= INT_MAX
  PROVE  x <= MAX_SQRT
<1>1. PICK m \in Nat : m = MAX_SQRT /\ m >= 3 /\ m * m >= INT_MAX
  BY Bounds
<1>2. ASSUME x > m PROVE FALSE
  <2>1. PICK k \in Nat : k = x - m /\ k >= 1 /\ x = m + k
    BY <1>1, <1>2
  <2>2. x * x = m * m + k * m + k * x
    BY <2>1
  <2>3. k * m >= 0 /\ k * x >= 1
    BY <1>1, <1>2, <2>1
  <2>4. x * x > INT_MAX
    BY <1>1, <2>2, <2>3, Bounds
  <2> QED BY <2>4, Bounds
<1> QED BY <1>1, <1>2

LEMMA SquareAtLeast ==
  ASSUME NEW x \in Nat, x >= 1
  PROVE  x * x \in Nat /\ x * x >= x /\ x * x >= 1
<1>1. x * x >= x * 1
  OBVIOUS
<1> QED BY <1>1

\* The pairs that toggle a number are all the pairs of its form.
LEMMA TogglersAreAll ==
  ASSUME NEW n \in 1 .. INT_MAX
  PROVE  /\ n % 12 \in {1, 5} => Togglers(n) = Sum4(n)
         /\ n % 12 = 7 => Togglers(n) = Sum3(n)
         /\ n % 12 = 11 => Togglers(n) = Difference3(n)
         /\ n % 12 \notin {1, 5, 7, 11} => Togglers(n) = {}
<1>1. n \in Nat /\ n >= 1 /\ n <= INT_MAX /\ INT_MAX \in Nat /\ MAX_SQRT \in Nat
  BY Bounds
<1>2. ASSUME NEW i \in Nat, NEW j \in Nat, i >= 1, j >= 1, n = 4*i*i + j*j
      PROVE  i \in (1 .. n) \cap (1 .. MAX_SQRT) /\ j \in (1 .. n) \cap (1 .. MAX_SQRT)
  <2>1. PICK a \in Nat, b \in Nat : a = i * i /\ b = j * j /\ a >= i /\ b >= j
    BY <1>2, SquareAtLeast
  <2>2. n = 4 * a + b
    BY <1>2, <2>1
  <2>3. a <= n /\ b <= n /\ i <= n /\ j <= n
    BY <1>1, <2>1, <2>2
  <2> QED BY <1>1, <1>2, <2>1, <2>3, RootBound
<1>3. ASSUME NEW i \in Nat, NEW j \in Nat, i >= 1, j >= 1, n = 3*i*i + j*j
      PROVE  i \in (1 .. n) \cap (1 .. MAX_SQRT) /\ j \in (1 .. n) \cap (1 .. MAX_SQRT)
  <2>1. PICK a \in Nat, b \in Nat : a = i * i /\ b = j * j /\ a >= i /\ b >= j
    BY <1>3, SquareAtLeast
  <2>2. n = 3 * a + b
    BY <1>3, <2>1
  <2>3. a <= n /\ b <= n /\ i <= n /\ j <= n
    BY <1>1, <2>1, <2>2
  <2> QED BY <1>1, <1>3, <2>1, <2>3, RootBound
<1>4. ASSUME NEW i \in Nat, NEW j \in Nat, i >= 1, j >= 1, n = 3*i*i - j*j, i > j
      PROVE  i \in (1 .. n) \cap (1 .. MAX_SQRT) /\ j \in (1 .. n) \cap (1 .. MAX_SQRT)
  <2>1. PICK a \in Nat, b \in Nat : a = i * i /\ b = j * j /\ a >= i /\ b >= j
    BY <1>4, SquareAtLeast
  <2>2. n = 3 * a - b
    BY <1>4, <2>1
  <2>3. a >= b
    <3>1. i * i >= i * j /\ i * j >= j * j
      BY <1>4
    <3> QED BY <2>1, <3>1
  <2>4. a <= n /\ b <= n /\ i <= n /\ j <= n
    BY <1>1, <2>1, <2>2, <2>3
  <2> QED BY <1>1, <1>4, <2>1, <2>4, RootBound
<1>5. ASSUME n % 12 \in {1, 5} PROVE Togglers(n) = Sum4(n)
  <2>1. /\ Residue(n, {1, 5}) /\ ~Residue(n, {7}) /\ ~Residue(n, {11})
    BY <1>5 DEF Residue
  <2>2. ASSUME NEW p, p \in Togglers(n) PROVE p \in Sum4(n)
    <3>1. p \in Pair /\ n = 4*p[1]*p[1] + p[2]*p[2]
      BY <2>1, <2>2, Zenon DEF Togglers
    <3>2. p[1] \in 1 .. MAX_SQRT /\ p[2] \in 1 .. MAX_SQRT /\ p = <<p[1], p[2]>>
      BY <3>1 DEF Pair
    <3>3. p[1] \in 1 .. n /\ p[2] \in 1 .. n
      BY <1>1, <1>2, <3>1, <3>2
    <3>4. p \in (1 .. n) \X (1 .. n)
      BY <3>2, <3>3
    <3> QED BY <3>1, <3>4 DEF Sum4
  <2>3. ASSUME NEW p, p \in Sum4(n) PROVE p \in Togglers(n)
    <3>1. p \in (1 .. n) \X (1 .. n) /\ n = 4*p[1]*p[1] + p[2]*p[2]
      BY <2>3, Zenon DEF Sum4
    <3>2. p[1] \in 1 .. n /\ p[2] \in 1 .. n /\ p = <<p[1], p[2]>>
      BY <3>1
    <3>3. p[1] \in 1 .. MAX_SQRT /\ p[2] \in 1 .. MAX_SQRT
      BY <1>1, <1>2, <3>1, <3>2
    <3>4. p \in Pair
      BY <3>2, <3>3 DEF Pair
    <3> QED BY <2>1, <3>1, <3>4, Zenon DEF Togglers
  <2> QED BY <2>2, <2>3, Zenon
<1>6. ASSUME n % 12 = 7 PROVE Togglers(n) = Sum3(n)
  <2>1. /\ ~Residue(n, {1, 5}) /\ Residue(n, {7}) /\ ~Residue(n, {11})
    BY <1>6 DEF Residue
  <2>2. ASSUME NEW p, p \in Togglers(n) PROVE p \in Sum3(n)
    <3>1. p \in Pair /\ n = 3*p[1]*p[1] + p[2]*p[2]
      BY <2>1, <2>2, Zenon DEF Togglers
    <3>2. p[1] \in 1 .. MAX_SQRT /\ p[2] \in 1 .. MAX_SQRT /\ p = <<p[1], p[2]>>
      BY <3>1 DEF Pair
    <3>3. p[1] \in 1 .. n /\ p[2] \in 1 .. n
      BY <1>1, <1>3, <3>1, <3>2
    <3>4. p \in (1 .. n) \X (1 .. n)
      BY <3>2, <3>3
    <3> QED BY <3>1, <3>4 DEF Sum3
  <2>3. ASSUME NEW p, p \in Sum3(n) PROVE p \in Togglers(n)
    <3>1. p \in (1 .. n) \X (1 .. n) /\ n = 3*p[1]*p[1] + p[2]*p[2]
      BY <2>3, Zenon DEF Sum3
    <3>2. p[1] \in 1 .. n /\ p[2] \in 1 .. n /\ p = <<p[1], p[2]>>
      BY <3>1
    <3>3. p[1] \in 1 .. MAX_SQRT /\ p[2] \in 1 .. MAX_SQRT
      BY <1>1, <1>3, <3>1, <3>2
    <3>4. p \in Pair
      BY <3>2, <3>3 DEF Pair
    <3> QED BY <2>1, <3>1, <3>4, Zenon DEF Togglers
  <2> QED BY <2>2, <2>3, Zenon
<1>7. ASSUME n % 12 = 11 PROVE Togglers(n) = Difference3(n)
  <2>1. /\ ~Residue(n, {1, 5}) /\ ~Residue(n, {7}) /\ Residue(n, {11})
    BY <1>7 DEF Residue
  <2>2. ASSUME NEW p, p \in Togglers(n) PROVE p \in Difference3(n)
    <3>1. p \in Pair /\ n = 3*p[1]*p[1] - p[2]*p[2] /\ p[1] > p[2]
      BY <2>1, <2>2, Zenon DEF Togglers
    <3>2. p[1] \in 1 .. MAX_SQRT /\ p[2] \in 1 .. MAX_SQRT /\ p = <<p[1], p[2]>>
      BY <3>1 DEF Pair
    <3>3. p[1] \in 1 .. n /\ p[2] \in 1 .. n
      BY <1>1, <1>4, <3>1, <3>2
    <3>4. p \in (1 .. n) \X (1 .. n)
      BY <3>2, <3>3
    <3> QED BY <3>1, <3>4 DEF Difference3
  <2>3. ASSUME NEW p, p \in Difference3(n) PROVE p \in Togglers(n)
    <3>1. p \in (1 .. n) \X (1 .. n) /\ n = 3*p[1]*p[1] - p[2]*p[2] /\ p[1] > p[2]
      BY <2>3, Zenon DEF Difference3
    <3>2. p[1] \in 1 .. n /\ p[2] \in 1 .. n /\ p = <<p[1], p[2]>>
      BY <3>1
    <3>3. p[1] \in 1 .. MAX_SQRT /\ p[2] \in 1 .. MAX_SQRT
      BY <1>1, <1>4, <3>1, <3>2
    <3>4. p \in Pair
      BY <3>2, <3>3 DEF Pair
    <3> QED BY <2>1, <3>1, <3>4, Zenon DEF Togglers
  <2> QED BY <2>2, <2>3, Zenon
<1>8. ASSUME n % 12 \notin {1, 5, 7, 11} PROVE Togglers(n) = {}
  <2>1. /\ ~Residue(n, {1, 5}) /\ ~Residue(n, {7}) /\ ~Residue(n, {11})
    BY <1>8 DEF Residue
  <2> QED BY <2>1, Zenon DEF Togglers
<1> QED BY <1>5, <1>6, <1>7, <1>8

\* What is set before the squares are cleared.
SetFirst == Toggled(INT_MAX) \cup {3}

LEMMA SetFirstFacts ==
  ASSUME NEW n \in SetFirst
  PROVE  /\ n \in 1 .. INT_MAX /\ n \in Nat \ {0} /\ n % 2 = 1
         /\ n = 3 \/ n % 3 # 0
<1>1. CASE n = 3
  BY <1>1, Bounds
<1>2. CASE n \in Toggled(INT_MAX)
  <2>1. n \in 1 .. INT_MAX /\ n % 2 = 1 /\ Cardinality(Togglers(n)) % 2 = 1
    BY <1>2 DEF Toggled
  <2>2. Togglers(n) # {}
    BY <2>1, FS_EmptySet
  <2>3. n % 12 \in {1, 5, 7, 11}
    BY <2>1, <2>2, TogglersAreAll
  <2>4. n % 3 # 0
    BY <2>1, <2>3, Bounds
  <2> QED BY <2>1, <2>4, Bounds
<1> QED BY <1>1, <1>2 DEF SetFirst

\* Of the numbers without a square factor the primes are set, except 2.
LEMMA SquareFreeIsSet ==
  ASSUME AtkinsTheorem, NEW n \in 1 .. INT_MAX, SquareFree(n)
  PROVE  n \in SetFirst <=> IsPrimeNumber(n) /\ n # 2
<1>1. n \in Nat \ {0} /\ INT_MAX \in Nat
  BY Bounds
<1>2. /\ n % 4 = 1 => (OddlyMany(Sum4(n)) <=> IsPrimeNumber(n))
      /\ n % 6 = 1 => (OddlyMany(Sum3(n)) <=> IsPrimeNumber(n))
      /\ n % 12 = 11 => (OddlyMany(Difference3(n)) <=> IsPrimeNumber(n))
  BY <1>1 DEF AtkinsTheorem, AtkinsTheoremOf
<1>3. CASE n = 2 \/ n = 3
  <2>1. 2 \notin SetFirst
    BY SetFirstFacts
  <2>2. IsPrimeNumber(3) /\ 3 \in SetFirst
    BY DEF IsPrimeNumber, SetFirst
  <2> QED BY <1>3, <2>1, <2>2
<1>4. CASE n \notin {2, 3} /\ n % 12 \notin {1, 5, 7, 11}
  <2>1. n >= 4 /\ (n % 2 = 0 \/ n % 3 = 0)
    BY <1>1, <1>4
  <2>2. ~IsPrimeNumber(n)
    BY <1>1, <2>1 DEF IsPrimeNumber
  <2>3. n \notin SetFirst
    BY <1>4, <2>1, SetFirstFacts
  <2> QED BY <2>2, <2>3
<1>5. ASSUME n \notin {2, 3}, NEW S, Togglers(n) = S, n % 12 \in {1, 5, 7, 11},
             OddlyMany(S) <=> IsPrimeNumber(n)
      PROVE  n \in SetFirst <=> IsPrimeNumber(n) /\ n # 2
  <2>1. n % 2 = 1
    BY <1>1, <1>5
  <2>2. n \in Toggled(INT_MAX) <=> OddlyMany(S)
    BY <1>5, <2>1 DEF Toggled, OddlyMany
  <2> QED BY <1>5, <2>2 DEF SetFirst
<1>6. CASE n \notin {2, 3} /\ n % 12 \in {1, 5}
  <2>1. n % 4 = 1
    BY <1>1, <1>6
  <2> QED BY <1>2, <1>5, <1>6, <2>1, TogglersAreAll
<1>7. CASE n \notin {2, 3} /\ n % 12 = 7
  <2>1. n % 6 = 1
    BY <1>1, <1>7
  <2> QED BY <1>2, <1>5, <1>7, <2>1, TogglersAreAll
<1>8. CASE n \notin {2, 3} /\ n % 12 = 11
  BY <1>2, <1>5, <1>8, TogglersAreAll
<1> QED BY <1>3, <1>4, <1>6, <1>7, <1>8

\* The root of a square that divides an odd number.
LEMMA OddRoot ==
  ASSUME NEW n \in Nat \ {0}, n % 2 = 1, NEW d \in Nat, d >= 2, n % (d * d) = 0
  PROVE  d % 2 = 1 /\ n % d = 0
<1>1. PICK k \in Int : k = d * d /\ k > 0
  BY SquareType
<1>2. PICK q \in Int : n = q * k
  BY <1>1, Divides
<1>3. PICK e \in Int : e = q * d
  OBVIOUS
<1>4. n = e * d
  BY <1>1, <1>2, <1>3
<1>5. n % d = 0
  <2>1. n \in Int /\ d \in Int /\ d > 0
    OBVIOUS
  <2> QED BY <1>3, <1>4, <2>1, DividesExactly, Zenon
<1>6. ASSUME d % 2 = 0 PROVE FALSE
  <2>1. PICK f \in Int : d = 2 * f
    BY <1>6
  <2>2. PICK g \in Int : g = e * f
    BY <2>1
  <2>3. n = 2 * g
    BY <1>4, <2>1, <2>2
  <2> QED BY <2>3
<1> QED BY <1>5, <1>6

\* Of odd numbers, those that ClearSquares leaves out are the multiples of a square.
LEMMA ClearsMultiples ==
  ASSUME NEW n \in Nat \ {0}, n % 2 = 1, NEW i \in Nat, i % 2 = 1, i >= 3
  PROVE  (n >= i * i /\ (n - i * i) % (2 * (i * i)) = 0) <=> n % (i * i) = 0
<1>1. PICK k \in Int : k = i * i /\ k > 0
  BY SquareType
<1>2. ASSUME (n - k) % (2 * k) = 0 PROVE n % k = 0
  <2>1. PICK m \in Int : m = 2 * k /\ m > 0
    BY <1>1
  <2>2. PICK x \in Int : x = n - k
    BY <1>1
  <2>3. PICK q \in Int : x = q * m
    BY <1>2, <2>1, <2>2, Divides
  <2>4. PICK p \in Int : p = 2 * q + 1
    OBVIOUS
  <2>5. n = p * k
    BY <2>1, <2>2, <2>3, <2>4, <1>1
  <2> QED BY <1>1, <2>5, DividesExactly
<1>3. ASSUME n % k = 0 PROVE n >= k /\ (n - k) % (2 * k) = 0
  <2>1. PICK q \in Int : n = q * k
    BY <1>1, <1>3, Divides
  <2>2. n >= k
    BY <1>1, <1>3, SquareFactor
  <2>3. q % 2 = 1
    <3>1. ASSUME q % 2 = 0 PROVE FALSE
      <4>1. PICK f \in Int : q = 2 * f
        BY <3>1
      <4>2. PICK g \in Int : g = f * k
        BY <1>1
      <4>3. n = 2 * g
        BY <2>1, <4>1, <4>2
      <4> QED BY <4>3
    <3> QED BY <3>1
  <2>4. PICK f \in Int : q = 2 * f + 1
    BY <2>3
  <2>5. PICK m \in Int, x \in Int : m = 2 * k /\ m > 0 /\ x = n - k
    BY <1>1
  <2>6. x = f * m
    BY <1>1, <2>1, <2>4, <2>5
  <2>7. x % m = 0
    BY <2>5, <2>6, DividesExactly
  <2> QED BY <2>2, <2>5, <2>7
<1> QED BY <1>1, <1>2, <1>3

\* The sieve is what the turns make of what is set first.
LEMMA SieveRun ==
  \E set : /\ set[0] = SetFirst
           /\ \A t \in 1 .. Turns : set[t] = ClearSquares(set[t - 1], 2 * t + 3)
           /\ Sieve = set[Turns]
<1> DEFINE Runs(h, m) ==
      /\ h = [t \in 0 .. Turns |-> h[t]]
      /\ h[0] = SetFirst
      /\ \A t \in 1 .. m : h[t] = ClearSquares(h[t - 1], 2 * t + 3)
    A == {m \in 0 .. Turns : \E h : Runs(h, m)}
<1>1. Turns \in Nat
  BY Bounds
<1>2. 0 \in A
  <2>1. PICK h : h = [t \in 0 .. Turns |-> SetFirst]
    OBVIOUS
  <2>2. Runs(h, 0)
    BY <1>1, <2>1
  <2>3. 0 \in 0 .. Turns
    BY <1>1
  <2> QED BY <2>2, <2>3
<1>3. ASSUME NEW k \in 1 .. Turns, k - 1 \in A PROVE k \in A
  <2>1. PICK h : Runs(h, k - 1)
    BY <1>3
  <2>2. PICK s : s = ClearSquares(h[k - 1], 2 * k + 3)
    OBVIOUS
  <2>3. PICK g : g = [t \in 0 .. Turns |-> IF t = k THEN s ELSE h[t]]
    OBVIOUS
  <2>4. k \in Nat /\ k \in 0 .. Turns /\ k - 1 \in 0 .. Turns /\ k # 0 /\ 0 \in 0 .. Turns
    BY <1>1, <1>3
  <2>5. g[k] = s /\ \A t \in 0 .. Turns : t # k => g[t] = h[t]
    BY <2>3, <2>4
  <2>6. g[0] = SetFirst
    BY <2>1, <2>4, <2>5
  <2>7. ASSUME NEW t \in 1 .. k
        PROVE  g[t] = ClearSquares(g[t - 1], 2 * t + 3)
    <3>1. t \in 0 .. Turns /\ t - 1 \in 0 .. Turns /\ t - 1 # k
      BY <1>1, <1>3
    <3>2. g[t - 1] = h[t - 1]
      BY <2>5, <3>1
    <3>3. CASE t = k
      BY <2>2, <2>5, <3>2, <3>3
    <3>4. CASE t # k
      <4>1. t \in 1 .. k - 1
        BY <1>3, <3>4
      <4> QED BY <2>1, <2>5, <3>1, <3>2, <3>4, <4>1
    <3> QED BY <3>3, <3>4
  <2>8. g = [t \in 0 .. Turns |-> g[t]]
    BY <2>3
  <2>9. Runs(g, k)
    BY <2>6, <2>7, <2>8
  <2> QED BY <2>4, <2>9
<1>4. Turns \in A
  <2> HIDE DEF A
  <2>1. 0 .. Turns \subseteq A
    BY <1>1, <1>2, <1>3, Counting
  <2> QED BY <1>1, <2>1
<1>5. PICK h : Runs(h, Turns)
  BY <1>4
<1> DEFINE Step(f, t) ==
      IF t = 0 THEN Toggled(INT_MAX) \cup {3} ELSE ClearSquares(f[t - 1], 2 * t + 3)
<1>6. h = [t \in 0 .. Turns |-> Step(h, t)]
  <2>1. ASSUME NEW t \in 0 .. Turns PROVE h[t] = Step(h, t)
    <3>1. CASE t = 0
      BY <1>5, <3>1 DEF SetFirst
    <3>2. CASE t # 0
      <4>1. t \in 1 .. Turns
        BY <1>1, <3>2
      <4> QED BY <1>5, <3>2, <4>1
    <3> QED BY <3>1, <3>2
  <2> HIDE DEF Step
  <2>2. h = [t \in 0 .. Turns |-> h[t]]
    BY <1>5
  <2>3. [t \in 0 .. Turns |-> h[t]] = [t \in 0 .. Turns |-> Step(h, t)]
    BY <2>1, Zenon
  <2> QED BY <2>2, <2>3
<1> DEFINE Sieved(f) ==
      f = [t \in 0 .. Turns |->
             IF t = 0 THEN Toggled(INT_MAX) \cup {3} ELSE ClearSquares(f[t - 1], 2 * t + 3)]
<1>7. Sieved(h)
  BY <1>6, Zenon
<1>8. PICK c : c = CHOOSE f : Sieved(f)
  OBVIOUS
<1>9. Sieved(c)
  BY <1>7, <1>8, Zenon
<1>10. Sieve = c[Turns]
  BY <1>8, Zenon DEF Sieve
<1>11. \A t \in 0 .. Turns :
         c[t] = IF t = 0 THEN Toggled(INT_MAX) \cup {3} ELSE ClearSquares(c[t - 1], 2 * t + 3)
  BY <1>9, Zenon
<1>12. c[0] = SetFirst
  <2>1. 0 \in 0 .. Turns
    BY <1>1
  <2> QED BY <1>11, <2>1, Zenon DEF SetFirst
<1>13. \A t \in 1 .. Turns : c[t] = ClearSquares(c[t - 1], 2 * t + 3)
  <2> SUFFICES ASSUME NEW t \in 1 .. Turns PROVE c[t] = ClearSquares(c[t - 1], 2 * t + 3)
    OBVIOUS
  <2>1. t \in 0 .. Turns /\ t # 0
    BY <1>1
  <2> QED BY <1>11, <2>1, Zenon
<1> QED BY <1>10, <1>12, <1>13, Zenon

\* What is left when the squares of the odd primes up to m are cleared.
Left(m) ==
  {n \in SetFirst : \A q \in 5 .. m : IsPrimeNumber(q) => n % (q * q) # 0}

\* A number is left when its turn comes if and only if it is prime.
LEMMA TurnOfPrimes ==
  ASSUME AtkinsTheorem, NEW k \in 1 .. Turns
  PROVE  2 * k + 3 \in Left(2 * k + 1) <=> IsPrimeNumber(2 * k + 3)
<1>1. PICK i \in Nat : /\ i = 2 * k + 3 /\ i >= 5 /\ i % 2 = 1
                       /\ i \in 1 .. INT_MAX /\ i \in Nat \ {0}
  BY Bounds
<1>2. ASSUME i \in Left(i - 2) PROVE IsPrimeNumber(i)
  <2>1. /\ i \in SetFirst /\ i % 3 # 0
        /\ \A q \in 5 .. i - 2 : IsPrimeNumber(q) => i % (q * q) # 0
    BY <1>1, <1>2, SetFirstFacts DEF Left
  <2>2. ASSUME ~SquareFree(i) PROVE FALSE
    <3>1. PICK q \in 2 .. i : IsPrimeNumber(q) /\ i % (q * q) = 0
      BY <1>1, <2>2, SquareOfPrime
    <3>2. q \in Nat /\ q >= 2 /\ q < i
      BY <1>1, <3>1, SquareFactor
    <3>3. q % 2 = 1 /\ i % q = 0
      BY <1>1, <3>1, <3>2, OddRoot
    <3>4. q \in 5 .. i - 2
      <4>1. q # 3
        BY <2>1, <3>3
      <4> QED BY <1>1, <3>2, <3>3, <4>1
    <3> QED BY <2>1, <3>1, <3>4
  <2> QED BY <1>1, <2>1, <2>2, SquareFreeIsSet
<1>3. ASSUME IsPrimeNumber(i) PROVE i \in Left(i - 2)
  <2>1. SquareFree(i)
    BY <1>1, <1>3, PrimeIsSquareFree
  <2>2. i \in SetFirst
    BY <1>1, <1>3, <2>1, SquareFreeIsSet
  <2>3. \A q \in 5 .. i - 2 : q \in 2 .. i
    BY <1>1
  <2>4. \A q \in 5 .. i - 2 : i % (q * q) # 0
    BY <2>1, <2>3, Zenon DEF SquareFree
  <2> QED BY <2>2, <2>4, Zenon DEF Left
<1>4. i - 2 = 2 * k + 1
  BY <1>1
<1> QED BY <1>1, <1>2, <1>3, <1>4

LEMMA TurnClears ==
  ASSUME AtkinsTheorem, NEW k \in 1 .. Turns
  PROVE  ClearSquares(Left(2 * k + 1), 2 * k + 3) = Left(2 * k + 3)
<1>1. PICK i \in Nat : i = 2 * k + 3 /\ i >= 5 /\ i % 2 = 1 /\ i - 2 = 2 * k + 1
  BY Bounds
<1>2. i \in Left(i - 2) <=> IsPrimeNumber(i)
  BY <1>1, TurnOfPrimes
<1>3. ASSUME NEW n \in SetFirst
      PROVE  n \in Left(i) <=> n \in Left(i - 2) /\ (IsPrimeNumber(i) => n % (i * i) # 0)
  <2>1. /\ \A q \in 5 .. i : q \in 5 .. i - 2 \/ q = i - 1 \/ q = i
        /\ \A q \in 5 .. i - 2 : q \in 5 .. i
        /\ i \in 5 .. i
    BY <1>1
  <2>2. ~IsPrimeNumber(i - 1)
    <3>1. i - 1 > 2 /\ (i - 1) % 2 = 0
      BY <1>1
    <3>2. 2 \in 2 .. (i - 1) - 1
      BY <1>1
    <3> QED BY <3>1, <3>2, Zenon DEF IsPrimeNumber
  <2> QED BY <2>1, <2>2, Zenon DEF Left
<1>4. ASSUME NEW n \in SetFirst
      PROVE  (n >= i * i /\ (n - i * i) % (2 * (i * i)) = 0) <=> n % (i * i) = 0
  <2>1. n \in Nat \ {0} /\ n % 2 = 1 /\ i >= 3
    BY <1>1, SetFirstFacts
  <2> QED BY <1>1, <2>1, ClearsMultiples, Zenon
<1>5. Left(i - 2) \subseteq SetFirst /\ Left(i) \subseteq SetFirst
  BY DEF Left
<1>6. CASE IsPrimeNumber(i)
  <2>1. ClearSquares(Left(i - 2), i) =
          {n \in Left(i - 2) : ~(n >= i * i /\ (n - i * i) % (2 * (i * i)) = 0)}
    BY <1>2, <1>6, Zenon DEF ClearSquares
  <2>2. ASSUME NEW n PROVE n \in ClearSquares(Left(i - 2), i) <=> n \in Left(i)
    BY <1>3, <1>4, <1>5, <1>6, <2>1, Zenon
  <2> QED BY <1>1, <2>2, Zenon
<1>7. CASE ~IsPrimeNumber(i)
  <2>1. ClearSquares(Left(i - 2), i) = Left(i - 2)
    BY <1>2, <1>7, Zenon DEF ClearSquares
  <2>2. ASSUME NEW n PROVE n \in Left(i - 2) <=> n \in Left(i)
    BY <1>3, <1>5, <1>7, Zenon
  <2> QED BY <1>1, <2>1, <2>2, Zenon
<1> QED BY <1>6, <1>7

\* The sieve is right as far as Atkin's theorem goes for the numbers without a
\* square factor: the turns clear the others, and no prime.
LEMMA SieveIsPrimes ==
  ASSUME AtkinsTheorem
  PROVE  Sieve = Primes \ {2}
<1>1. /\ Turns \in Nat /\ INT_MAX \in Nat /\ MAX_SQRT \in Nat
      /\ MAX_SQRT <= 2 * Turns + 4
  BY Bounds
<1>2. PICK set : /\ set[0] = SetFirst
                 /\ \A t \in 1 .. Turns : set[t] = ClearSquares(set[t - 1], 2 * t + 3)
                 /\ Sieve = set[Turns]
  BY SieveRun
<1> DEFINE A == {t \in 0 .. Turns : set[t] = Left(2 * t + 3)}
<1>3. 0 \in A
  <2>1. Left(2 * 0 + 3) = SetFirst
    <3>1. 5 .. 2 * 0 + 3 = {}
      OBVIOUS
    <3> QED BY <3>1, Zenon DEF Left
  <2>2. 0 \in 0 .. Turns
    BY <1>1
  <2> QED BY <1>2, <2>1, <2>2, Zenon
<1>4. ASSUME NEW k \in 1 .. Turns, k - 1 \in A PROVE k \in A
  <2>1. set[k - 1] = Left(2 * (k - 1) + 3)
    BY <1>4, Zenon
  <2>2. 2 * (k - 1) + 3 = 2 * k + 1 /\ k \in 0 .. Turns
    BY <1>1
  <2>3. set[k] = ClearSquares(Left(2 * k + 1), 2 * k + 3)
    BY <1>2, <2>1, <2>2, Zenon
  <2>4. set[k] = Left(2 * k + 3)
    BY <2>3, TurnClears, Zenon
  <2> QED BY <2>2, <2>4, Zenon
<1>5. Sieve = Left(2 * Turns + 3)
  <2>1. Turns \in A
    <3> HIDE DEF A
    <3>1. 0 .. Turns \subseteq A
      BY <1>1, <1>3, <1>4, Counting
    <3> QED BY <1>1, <3>1
  <2> QED BY <1>2, <2>1, Zenon
<1>6. ASSUME NEW n, n \in Left(2 * Turns + 3) PROVE n \in Primes \ {2}
  <2>1. /\ n \in SetFirst
        /\ \A q \in 5 .. 2 * Turns + 3 : IsPrimeNumber(q) => n % (q * q) # 0
    BY <1>6, Zenon DEF Left
  <2>2. /\ n \in 1 .. INT_MAX /\ n \in Nat \ {0} /\ n % 2 = 1
        /\ n = 3 \/ n % 3 # 0
    BY <2>1, SetFirstFacts
  <2>3. ASSUME ~SquareFree(n) PROVE FALSE
    <3>1. PICK q \in 2 .. n : IsPrimeNumber(q) /\ n % (q * q) = 0
      BY <2>2, <2>3, SquareOfPrime
    <3>2. q \in Nat /\ q >= 2 /\ q * q <= n /\ q < n
      BY <2>2, <3>1, SquareFactor
    <3>3. q % 2 = 1 /\ n % q = 0
      BY <2>2, <3>1, <3>2, OddRoot
    <3>4. q <= MAX_SQRT
      <4>1. PICK k \in Int : k = q * q
        BY <3>2
      <4>2. k <= INT_MAX
        BY <1>1, <2>2, <3>2, <4>1
      <4> QED BY <3>2, <4>1, <4>2, RootBound
    <3>5. q # 3
      <4>1. 3 % 9 = 3 /\ 3 * 3 = 9
        OBVIOUS
      <4>2. n # 3
        BY <3>2, <3>3
      <4> QED BY <2>2, <3>3, <4>2
    <3>6. q \in 5 .. 2 * Turns + 3
      BY <1>1, <3>2, <3>3, <3>4, <3>5
    <3> QED BY <2>1, <3>1, <3>6, Zenon
  <2>4. IsPrimeNumber(n) /\ n # 2
    BY <2>1, <2>2, <2>3, SquareFreeIsSet
  <2>5. n \in 2 .. INT_MAX
    BY <1>1, <2>2, <2>4 DEF IsPrimeNumber
  <2> QED BY <2>4, <2>5 DEF Primes
<1>7. ASSUME NEW n, n \in Primes \ {2} PROVE n \in Left(2 * Turns + 3)
  <2>1. n \in 2 .. INT_MAX /\ IsPrimeNumber(n) /\ n # 2
    BY <1>7, Zenon DEF Primes
  <2>2. n \in 1 .. INT_MAX /\ n \in Nat \ {0}
    BY <1>1, <2>1
  <2>3. SquareFree(n)
    BY <2>1, <2>2, PrimeIsSquareFree
  <2>4. n \in SetFirst
    BY <2>1, <2>2, <2>3, SquareFreeIsSet
  <2>5. ASSUME NEW q \in 5 .. 2 * Turns + 3, n % (q * q) = 0 PROVE FALSE
    <3>1. q \in Nat /\ q >= 2
      BY <1>1
    <3>2. q < n
      BY <2>2, <2>5, <3>1, SquareFactor
    <3>3. q \in 2 .. n
      BY <2>2, <3>1, <3>2
    <3> QED BY <2>3, <2>5, <3>3, Zenon DEF SquareFree
  <2> QED BY <2>4, <2>5, Zenon DEF Left
<1>8. \A n : n \in Left(2 * Turns + 3) <=> n \in Primes \ {2}
  BY <1>6, <1>7, Zenon
<1> QED BY <1>5, <1>8, Zenon

-----------------------------------------------------------------------------
Request == [client: Client, num: Number]
State == [state: {"new", "waiting", "crashed", "printed"},
          num: Int, answer: Int \cup {NULL}]

\* The types, as far as the proofs need them; nothing has been answered before
\* there is a sieve.
Typed ==
  /\ prime = NULL \/ prime = Primes \ {2}
  /\ prime = NULL => ret = -1 /\ serving = NULL
  /\ ret \in -INT_MAX - 1 .. INT_MAX
  /\ serving = NULL \/ serving \in Request
  /\ low \in Int /\ high \in Int /\ high <= INT_MAX
  /\ requests \in Seq(Request)
  /\ down \in BOOLEAN
  /\ client \in [Client -> State]
  /\ \A c \in Client : (client[c].answer # NULL) <=> (client[c].state = "printed")

\* The search is as far below the number as above it.
Centred == serving # NULL => low <= high /\ low + high = 2 * serving.num

\* The inductive invariant for TypeOK.
Searching == Typed /\ Centred

\* A request has the number of its client, who makes no other.
AskedBy(r) == client[r.client].state # "new" /\ client[r.client].num = r.num
Asked ==
  /\ \A i \in DOMAIN requests : AskedBy(requests[i])
  /\ serving # NULL => AskedBy(serving)

\* The search passed no prime.
Passed ==
  serving # NULL /\ serving.num >= 0 => \A p \in Primes : p <= low \/ p >= high

\* With Searching, the inductive invariant for AnswerIsClosest.
Right == Searching /\ Asked /\ Passed /\ AnswerIsClosest

-----------------------------------------------------------------------------
LEMMA PrimesFacts ==
  /\ INT_MAX \in Nat /\ INT_MAX >= 2
  /\ Primes \subseteq 2 .. INT_MAX /\ 2 \in Primes /\ INT_MAX \in Primes
  /\ \A n \in Number : n \in Int /\ -INT_MAX - 1 <= n /\ n <= INT_MAX
<1>1. INT_MAX \in Nat /\ INT_MAX >= 2 /\ IsPrimeNumber(INT_MAX)
  BY IntAssumption DEF IsPrimeNumber
<1>2. IsPrimeNumber(2)
  BY DEF IsPrimeNumber
<1>3. Primes \subseteq 2 .. INT_MAX /\ 2 \in Primes /\ INT_MAX \in Primes
  BY <1>1, <1>2 DEF Primes
<1>4. \A n \in Number : n \in Int /\ -INT_MAX - 1 <= n /\ n <= INT_MAX
  BY <1>1, IntAssumption
<1> QED BY <1>1, <1>3, <1>4

\* What a look into the sieve finds of a number that is in it.
LEMMA IsPrimeFacts ==
  ASSUME prime = Primes \ {2}, NEW n \in Int, NEW b \in IS_PRIME(n)
  PROVE  b \in BOOLEAN /\ (n >= 0 => (b <=> n \in Primes))
<1>1. CASE n < 0 /\ n % 2 = 1
  BY <1>1 DEF IS_PRIME
<1>2. CASE ~(n < 0 /\ n % 2 = 1)
  BY <1>2, PrimesFacts DEF IS_PRIME
<1> QED BY <1>1, <1>2

LEMMA HeadAndTail ==
  ASSUME requests \in Seq(Request), requests # <<>>
  PROVE  /\ Head(requests) \in Request /\ 1 \in DOMAIN requests
         /\ Head(requests) = requests[1]
         /\ Tail(requests) \in Seq(Request)
         /\ \A i \in DOMAIN Tail(requests) :
              i + 1 \in DOMAIN requests /\ Tail(requests)[i] = requests[i + 1]
<1>1. Len(requests) \in Nat /\ DOMAIN requests = 1 .. Len(requests) /\ Len(requests) # 0
  BY LenProperties, EmptySeq
<1>2. /\ Head(requests) \in Request /\ Head(requests) = requests[1]
      /\ Tail(requests) \in Seq(Request)
      /\ Len(Tail(requests)) = Len(requests) - 1
      /\ \A i \in 1 .. Len(Tail(requests)) : Tail(requests)[i] = requests[i + 1]
  BY HeadTailProperties
<1>3. DOMAIN Tail(requests) = 1 .. Len(Tail(requests))
  BY <1>2, LenProperties
<1> QED BY <1>1, <1>2, <1>3

LEMMA RangeIsTyped ==
  ASSUME NEW T, NEW s \in Seq(T)
  PROVE  Range(s) \subseteq T
BY LenProperties DEF Range

\* What a reply leaves of the clients.
LEMMA ReplyKeepsClients ==
  ASSUME client \in [Client -> State], NEW c \in Client, NEW r \in Int, Reply(c, r)
  PROVE  /\ client' \in [Client -> State]
         /\ \A d \in Client : client'[d].num = client[d].num
         /\ \A d \in Client : client'[d].state = "new" <=> client[d].state = "new"
         /\ \A d \in Client :
              \/ client'[d] = client[d]
              \/ d = c /\ client'[d].state = "printed" /\ client'[d].answer = r
<1>1. CASE Waiting(c)
  <2>1. /\ client' = [client EXCEPT ![c] = [client[c] EXCEPT !.state = "printed", !.answer = r]]
        /\ client[c] \in State /\ client[c].state = "waiting"
    BY <1>1 DEF Reply, Waiting
  <2>2. PICK s : s = [client[c] EXCEPT !.state = "printed", !.answer = r]
    OBVIOUS
  <2>3. s \in State /\ s.num = client[c].num /\ s.state = "printed" /\ s.answer = r
    BY <2>1, <2>2 DEF State
  <2>4. client' = [client EXCEPT ![c] = s]
    BY <2>1, <2>2
  <2> QED BY <2>1, <2>3, <2>4
<1>2. CASE ~Waiting(c)
  BY <1>2 DEF Reply
<1> QED BY <1>1, <1>2

-----------------------------------------------------------------------------
\* The types, and where the search is.

LEMMA TypedIsTypeOK == Typed => TypeOK
<1> SUFFICES ASSUME Typed PROVE TypeOK
  OBVIOUS
<1>1. Range(requests) \subseteq Request
  BY RangeIsTyped DEF Typed
<1>2. Primes \ {2} \subseteq 1 .. INT_MAX
  BY PrimesFacts
<1>3. \A c \in Client : client[c].state \in {"new", "waiting", "crashed", "printed"}
  BY DEF State, Typed
<1> QED BY <1>1, <1>2, <1>3 DEF Typed, TypeOK, Request

LEMMA InitSearching == Init => Searching
<1> SUFFICES ASSUME Init PROVE Searching
  OBVIOUS
<1>1. /\ prime = NULL /\ ret = -1 /\ serving = NULL /\ low = 0 /\ high = 0
      /\ requests = <<>> /\ down = FALSE
      /\ client = [c \in Client |-> [state |-> "new", num |-> 0, answer |-> NULL]]
  BY DEF Init
<1>2. requests \in Seq(Request) /\ client \in [Client -> State]
  BY <1>1, EmptySeq DEF State
<1>3. Typed
  <2>1. -1 \in -INT_MAX - 1 .. INT_MAX /\ 0 <= INT_MAX
    BY PrimesFacts
  <2>2. \A c \in Client : (client[c].answer # NULL) <=> (client[c].state = "printed")
    BY <1>1
  <2>3. low \in Int /\ high \in Int /\ high <= INT_MAX /\ ret \in -INT_MAX - 1 .. INT_MAX
    BY <1>1, <2>1
  <2>4. down \in BOOLEAN
    BY <1>1
  <2> QED BY <1>1, <1>2, <2>2, <2>3, <2>4 DEF Typed
<1> QED BY <1>1, <1>3 DEF Searching, Centred

\* What ends a search leaves.
LEMMA FoundKeepsSearching ==
  ASSUME Searching, prime # NULL, serving # NULL, NEW n \in Int,
         -INT_MAX - 1 <= n, n <= INT_MAX, Found(n),
         UNCHANGED <<prime, requests, down>>
  PROVE  Searching'
<1>1. serving \in Request /\ serving.client \in Client
  BY DEF Searching, Typed, Request
<1>2. /\ ret' = n /\ serving' = NULL /\ low' = 0 /\ high' = 0
      /\ Reply(serving.client, n)
  BY DEF Found, Reply
<1>3. /\ client' \in [Client -> State]
      /\ \A d \in Client :
           \/ client'[d] = client[d]
           \/ client'[d].state = "printed" /\ client'[d].answer = n
  BY <1>1, <1>2, ReplyKeepsClients DEF Searching, Typed
<1>4. n # NULL
  BY IntAssumption
<1>5. \A c \in Client : (client'[c].answer # NULL) <=> (client'[c].state = "printed")
  BY <1>3, <1>4 DEF Searching, Typed
<1>6. Typed'
  BY <1>2, <1>3, <1>5, PrimesFacts DEF Searching, Typed
<1> QED BY <1>2, <1>6 DEF Searching, Centred

\* The steps of a search that has not ended.
SearchesOn ==
  /\ low \notin Primes \/ low < 0
  /\ high >= 0 => high \notin Primes
  /\ low' = low - 1 /\ high' = high + 1
  /\ UNCHANGED <<prime, ret, serving, requests, down, client>>
FindsLow == low >= 0 /\ low \in Primes /\ Found(low)
FindsHigh == /\ low \notin Primes \/ low < 0
             /\ high >= 0 => high \in Primes
             /\ Found(high)

LEMMA SearchIs ==
  ASSUME Typed, Search
  PROVE  /\ serving # NULL /\ prime = Primes \ {2} /\ prime # NULL
         /\ UNCHANGED <<prime, requests, down>>
         /\ SearchesOn \/ FindsLow \/ FindsHigh
<1>1. /\ serving # NULL /\ prime # NULL /\ prime = Primes \ {2}
      /\ UNCHANGED <<prime, requests, down>>
      /\ low \in Int /\ high \in Int /\ high <= INT_MAX
  BY DEF Typed, Search
<1>2. PICK isLow \in IS_PRIME(low), isHigh \in IS_PRIME(high) :
        LET lowFound == low >= 0 /\ isLow
            highFound == IsInt(high) /\ isHigh IN
          \/ lowFound /\ Found(low)
          \/ ~lowFound /\ highFound /\ Found(high)
          \/ /\ ~lowFound /\ ~highFound
             /\ low' = low - 1 /\ high' = high + 1
             /\ UNCHANGED <<ret, serving, client>>
  BY DEF Search
<1>3. /\ isLow \in BOOLEAN /\ (low >= 0 => (isLow <=> low \in Primes))
      /\ isHigh \in BOOLEAN /\ (high >= 0 => (isHigh <=> high \in Primes))
  BY <1>1, IsPrimeFacts
<1>4. IsInt(high)
  BY <1>1 DEF IsInt
<1>5. CASE low >= 0 /\ isLow /\ Found(low)
  BY <1>1, <1>3, <1>5 DEF FindsLow
<1>6. CASE ~(low >= 0 /\ isLow) /\ isHigh /\ Found(high)
  BY <1>1, <1>3, <1>6 DEF FindsHigh
<1>7. CASE /\ ~(low >= 0 /\ isLow) /\ ~isHigh
           /\ low' = low - 1 /\ high' = high + 1
           /\ UNCHANGED <<ret, serving, client>>
  BY <1>1, <1>3, <1>7 DEF SearchesOn
<1> QED BY <1>1, <1>2, <1>4, <1>5, <1>6, <1>7

LEMMA NextKeepsSearching ==
  ASSUME AtkinsTheorem, Searching, [Next]_vars
  PROVE  Searching'
<1>1. ASSUME NEW c \in Client, NEW n \in Number, Call(c, n)
      PROVE  Searching'
  <2>1. PICK s : s = [state |-> "waiting", num |-> n, answer |-> NULL]
    OBVIOUS
  <2>2. s \in State /\ s.state # "printed" /\ s.answer = NULL
    BY <2>1, PrimesFacts DEF State
  <2>3. /\ client' = [client EXCEPT ![c] = s] /\ UNCHANGED server
        /\ requests' = Append(requests, [client |-> c, num |-> n])
    BY <1>1, <2>1 DEF Call
  <2>4. requests' \in Seq(Request)
    <3>1. [client |-> c, num |-> n] \in Request /\ requests \in Seq(Request)
      BY DEF Request, Searching, Typed
    <3> QED BY <2>3, <3>1, AppendProperties
  <2>5. /\ client' \in [Client -> State]
        /\ \A d \in Client : client'[d] = client[d] \/ client'[d] = s
    BY <2>2, <2>3 DEF Searching, Typed
  <2>6. \A d \in Client : (client'[d].answer # NULL) <=> (client'[d].state = "printed")
    BY <2>2, <2>5 DEF Searching, Typed
  <2> QED BY <2>3, <2>4, <2>5, <2>6 DEF Searching, Typed, Centred, server
<1>2. ASSUME NEW c \in Client, CallFails(c)
      PROVE  Searching'
  <2>1. /\ client' = [client EXCEPT ![c] = [client[c] EXCEPT !.state = "crashed"]]
        /\ client[c] \in State /\ client[c].state = "waiting"
    BY <1>2 DEF CallFails, Waiting, Searching, Typed
  <2>2. PICK s : s = [client[c] EXCEPT !.state = "crashed"]
    OBVIOUS
  <2>3. s \in State /\ s.state # "printed" /\ s.answer = NULL
    BY <2>1, <2>2 DEF State, Searching, Typed
  <2>4. client' = [client EXCEPT ![c] = s] /\ UNCHANGED <<server, requests>>
    BY <1>2, <2>1, <2>2 DEF CallFails
  <2>5. /\ client' \in [Client -> State]
        /\ \A d \in Client : client'[d] = client[d] \/ client'[d] = s
    BY <2>3, <2>4 DEF Searching, Typed
  <2>6. \A d \in Client : (client'[d].answer # NULL) <=> (client'[d].state = "printed")
    BY <2>3, <2>5 DEF Searching, Typed
  <2> QED BY <2>4, <2>5, <2>6 DEF Searching, Typed, Centred, server
<1>3. CASE AllocationFails
  <2>1. /\ requests # <<>> /\ requests' = Tail(requests) /\ requests \in Seq(Request)
        /\ Reply(Head(requests).client, ret)
        /\ UNCHANGED <<prime, serving, low, high, down>>
    BY <1>3 DEF AllocationFails, Begin, Searching, Typed
  <2>6. ret' = ret /\ ret \in Int
    BY <2>1, PrimesFacts DEF Reply, Searching, Typed
  <2>2. Head(requests).client \in Client /\ requests' \in Seq(Request)
    BY <2>1, HeadAndTail DEF Request
  <2>3. /\ client' \in [Client -> State]
        /\ \A d \in Client :
             \/ client'[d] = client[d]
             \/ client'[d].state = "printed" /\ client'[d].answer = ret
    BY <2>1, <2>2, <2>6, ReplyKeepsClients DEF Searching, Typed
  <2>4. ret # NULL
    BY <2>6, IntAssumption
  <2>5. \A d \in Client : (client'[d].answer # NULL) <=> (client'[d].state = "printed")
    BY <2>3, <2>4 DEF Searching, Typed
  <2> QED BY <2>1, <2>2, <2>3, <2>5, <2>6 DEF Searching, Typed, Centred
<1>4. CASE StartSearch
  <2>1. /\ requests # <<>> /\ requests' = Tail(requests) /\ requests \in Seq(Request)
        /\ prime' = (IF prime = NULL THEN Sieve ELSE prime)
        /\ serving' = Head(requests)
        /\ low' = Head(requests).num /\ high' = Head(requests).num
        /\ UNCHANGED <<ret, down, client>>
    BY <1>4 DEF StartSearch, Begin, Searching, Typed
  <2>2. /\ serving' \in Request /\ requests' \in Seq(Request)
        /\ serving'.num \in Number /\ low' = serving'.num /\ high' = serving'.num
    BY <2>1, HeadAndTail DEF Request
  <2>3. low' \in Int /\ high' \in Int /\ high' <= INT_MAX /\ serving'.num \in Int
    BY <2>2, PrimesFacts
  <2>4. prime' = Primes \ {2} /\ prime' # NULL
    BY <2>1, SieveAssumption, SieveIsPrimes DEF Searching, Typed
  <2>5. Typed'
    BY <2>1, <2>2, <2>3, <2>4 DEF Searching, Typed
  <2> QED BY <2>2, <2>3, <2>5 DEF Searching, Centred
<1>5. CASE Search
  <2>1. /\ serving # NULL /\ prime = Primes \ {2} /\ prime # NULL
        /\ UNCHANGED <<prime, requests, down>>
        /\ SearchesOn \/ FindsLow \/ FindsHigh
    BY <1>5, SearchIs DEF Searching
  <2>2. /\ low \in Int /\ high \in Int /\ high <= INT_MAX /\ low <= high
        /\ serving.num \in Int /\ low + high = 2 * serving.num /\ serving.num <= INT_MAX
        /\ -INT_MAX - 1 <= serving.num
    BY <2>1, PrimesFacts DEF Searching, Typed, Centred, Request
  <2>3. CASE SearchesOn
    <3>1. high # INT_MAX
      BY <2>3, PrimesFacts DEF SearchesOn
    <3>2. low' \in Int /\ high' \in Int /\ high' <= INT_MAX
      BY <2>2, <2>3, <3>1, PrimesFacts DEF SearchesOn
    <3>3. low' <= high' /\ low' + high' = 2 * serving'.num
      BY <2>2, <2>3 DEF SearchesOn
    <3>4. Typed'
      BY <2>3, <3>2 DEF SearchesOn, Searching, Typed
    <3> QED BY <3>3, <3>4 DEF Searching, Centred
  <2>4. CASE FindsLow
    <3>1. -INT_MAX - 1 <= low /\ low <= INT_MAX
      BY <2>2, <2>4, PrimesFacts DEF FindsLow
    <3> QED BY <2>1, <2>2, <2>4, <3>1, FoundKeepsSearching DEF FindsLow
  <2>5. CASE FindsHigh
    <3>1. -INT_MAX - 1 <= high
      BY <2>2, PrimesFacts
    <3> QED BY <2>1, <2>2, <2>5, <3>1, FoundKeepsSearching DEF FindsHigh
  <2> QED BY <2>1, <2>3, <2>4, <2>5
<1>6. CASE SearchCrashes
  BY <1>6 DEF SearchCrashes, Searching, Typed, Centred
<1>7. CASE UNCHANGED vars
  BY <1>7 DEF vars, server, Searching, Typed, Centred
<1> QED BY <1>1, <1>2, <1>3, <1>4, <1>5, <1>6, <1>7 DEF Next

\* The bits that are set are those of the odd primes, if Atkin's theorem is right:
\* the loops toggle every pair of its three forms and no other up to INT_MAX, they
\* clear every number that the theorem does not speak of, those with a square
\* factor, and a call leaves the bits as they are (generate_primes).
THEOREM SieveFindsPrimes ==
  ASSUME AtkinsTheorem PROVE Spec => []SieveIsRight
<1>1. Init => Searching
  BY InitSearching
<1>2. Searching /\ [Next]_vars => Searching'
  BY NextKeepsSearching
<1>3. Searching => SieveIsRight
  BY DEF Searching, Typed, SieveIsRight
<1> QED BY <1>1, <1>2, <1>3, PTL DEF Spec

\* The search ends at a prime or goes on within the array: it never counts past
\* INT_MAX, which is prime, whatever the reads before the array find; and the
\* static result stays an int.
THEOREM SearchTypeCorrect ==
  ASSUME AtkinsTheorem PROVE Spec => []TypeOK
<1>1. Init => Searching
  BY InitSearching
<1>2. Searching /\ [Next]_vars => Searching'
  BY NextKeepsSearching
<1>3. Searching => TypeOK
  BY TypedIsTypeOK DEF Searching
<1> QED BY <1>1, <1>2, <1>3, PTL DEF Spec

-----------------------------------------------------------------------------
\* The requests are those of their clients.

LEMMA NextKeepsAsked ==
  ASSUME Searching, Searching', Asked, [Next]_vars
  PROVE  Asked'
<1> DEFINE AskedStill(r) == client'[r.client].state # "new" /\ client'[r.client].num = r.num
<1>1. /\ requests \in Seq(Request)
      /\ \A i \in DOMAIN requests : requests[i] \in Request /\ AskedBy(requests[i])
      /\ serving # NULL => serving \in Request /\ AskedBy(serving)
  <2>1. requests \in Seq(Request) /\ DOMAIN requests = 1 .. Len(requests)
    BY LenProperties DEF Searching, Typed
  <2>2. \A i \in DOMAIN requests : requests[i] \in Request
    BY <2>1, ElementOfSeq
  <2> QED BY <2>1, <2>2 DEF Searching, Typed, Asked
<1>2. ASSUME \A d \in Client : client[d].state # "new" =>
               client'[d].state # "new" /\ client'[d].num = client[d].num,
             NEW r \in Request, AskedBy(r)
      PROVE  AskedStill(r)
  BY <1>2 DEF AskedBy, Request
<1>3. ASSUME \A d \in Client : client[d].state # "new" =>
               client'[d].state # "new" /\ client'[d].num = client[d].num,
             requests' = requests \/ (requests # <<>> /\ requests' = Tail(requests)),
             serving' \in {serving, NULL} \/ (requests # <<>> /\ serving' = Head(requests))
      PROVE  Asked'
  <2>1. \A i \in DOMAIN requests : AskedStill(requests[i])
    BY <1>1, <1>2, <1>3
  <2>2. serving' # NULL => AskedStill(serving')
    BY <1>1, <1>2, <1>3, <2>1, HeadAndTail
  <2>3. \A i \in DOMAIN requests' : AskedStill(requests'[i])
    BY <1>1, <1>3, <2>1, HeadAndTail
  <2> QED BY <2>2, <2>3 DEF Asked, AskedBy
<1>4. ASSUME NEW c \in Client, NEW n \in Number, Call(c, n)
      PROVE  Asked'
  <2>1. PICK r : r = [client |-> c, num |-> n]
    OBVIOUS
  <2>2. /\ client[c].state = "new" /\ serving' = serving
        /\ client' = [client EXCEPT ![c] = [state |-> "waiting", num |-> n, answer |-> NULL]]
        /\ requests' = Append(requests, r)
    BY <1>4, <2>1 DEF Call, server
  <2>3. /\ \A d \in Client \ {c} : client'[d] = client[d]
        /\ client'[c].state = "waiting" /\ client'[c].num = n
    BY <2>2 DEF Searching, Typed
  <2>4. r \in Request /\ AskedStill(r)
    BY <2>1, <2>3 DEF Request
  <2>5. \A q \in Request : AskedBy(q) => AskedStill(q)
    BY <2>2, <2>3 DEF Request, AskedBy
  <2>6. \A i \in DOMAIN requests' : requests'[i] = r \/ (i \in DOMAIN requests /\ requests'[i] = requests[i])
    BY <1>1, <2>2, <2>4, AppendProperties, LenProperties
  <2> QED BY <1>1, <2>2, <2>4, <2>5, <2>6 DEF Asked, AskedBy
<1>5. ASSUME NEW c \in Client, CallFails(c)
      PROVE  Asked'
  <2>1. /\ client' = [client EXCEPT ![c].state = "crashed"]
        /\ requests' = requests /\ serving' = serving
    BY <1>5 DEF CallFails, server
  <2>2. \A d \in Client : client[d].state # "new" =>
               client'[d].state # "new" /\ client'[d].num = client[d].num
    BY <2>1 DEF Searching, Typed, State
  <2> QED BY <1>3, <2>1, <2>2
<1>6. ASSUME NEW c \in Client, NEW r \in Int, Reply(c, r)
      PROVE  \A d \in Client : client[d].state # "new" =>
               client'[d].state # "new" /\ client'[d].num = client[d].num
  BY <1>6, ReplyKeepsClients DEF Searching, Typed
<1>7. CASE AllocationFails
  <2>1. /\ requests # <<>> /\ requests' = Tail(requests) /\ serving' = serving
        /\ Reply(Head(requests).client, ret)
    BY <1>7 DEF AllocationFails, Begin
  <2>2. Head(requests).client \in Client /\ ret \in Int
    BY <1>1, <2>1, HeadAndTail, PrimesFacts DEF Request, Searching, Typed
  <2> QED BY <1>3, <1>6, <2>1, <2>2
<1>8. CASE StartSearch
  BY <1>3, <1>8 DEF StartSearch, Begin
<1>9. CASE Search
  <2>1. /\ serving # NULL /\ requests' = requests
        /\ SearchesOn \/ FindsLow \/ FindsHigh
    BY <1>9, SearchIs DEF Searching
  <2>2. CASE SearchesOn
    BY <1>3, <2>1, <2>2 DEF SearchesOn
  <2>3. ASSUME NEW n \in Int, Found(n)
        PROVE  Asked'
    BY <1>1, <1>3, <1>6, <2>1, <2>3 DEF Found, Request
  <2> QED BY <2>1, <2>2, <2>3 DEF FindsLow, FindsHigh, Searching, Typed
<1>10. CASE SearchCrashes
  BY <1>3, <1>10 DEF SearchCrashes
<1>11. CASE UNCHANGED vars
  BY <1>3, <1>11 DEF vars, server
<1> QED BY <1>4, <1>5, <1>7, <1>8, <1>9, <1>10, <1>11 DEF Next

-----------------------------------------------------------------------------
\* What is found.

LEMMA NextKeepsPassed ==
  ASSUME Searching, Searching', Passed, [Next]_vars
  PROVE  Passed'
<1>1. CASE UNCHANGED <<serving, low, high>>
  BY <1>1 DEF Passed
<1>2. CASE StartSearch
  <2>1. low' = serving'.num /\ high' = serving'.num
    BY <1>2 DEF StartSearch
  <2>2. low' \in Int /\ \A p \in Primes : p \in Int
    BY PrimesFacts DEF Searching, Typed
  <2> QED BY <2>1, <2>2 DEF Passed
<1>3. CASE Search
  <2>1. SearchesOn \/ FindsLow \/ FindsHigh
    BY <1>3, SearchIs DEF Searching
  <2>2. CASE SearchesOn
    <3>1. /\ low \in Int /\ high \in Int /\ \A p \in Primes : p \in Int /\ p >= 2
          /\ serving' = serving /\ low' = low - 1 /\ high' = high + 1
          /\ low \notin Primes \/ low < 0
          /\ high >= 0 => high \notin Primes
      BY <2>2, PrimesFacts DEF SearchesOn, Searching, Typed
    <3>2. ASSUME serving # NULL, serving.num >= 0, NEW p \in Primes
          PROVE  p <= low' \/ p >= high'
      <4>1. p \in Int /\ p >= 2 /\ (p <= low \/ p >= high) /\ p # low
        BY <3>1, <3>2 DEF Passed
      <4>2. p # high
        BY <3>1, <4>1
      <4> QED BY <3>1, <4>1, <4>2
    <3> QED BY <3>1, <3>2 DEF Passed
  <2>3. CASE FindsLow \/ FindsHigh
    BY <2>3 DEF FindsLow, FindsHigh, Found, Passed
  <2> QED BY <2>1, <2>2, <2>3
<1> QED BY <1>1, <1>2, <1>3 DEF Next, Call, CallFails, AllocationFails, SearchCrashes, vars, server

\* r is what a client that asked for n should print.
IsClosest(r, n) ==
  LET Distance(p) == IF p > n THEN p - n ELSE n - p IN
    \/ r = -1
    \/ /\ r \in Primes
       /\ \A p \in Primes \ {r} :
            \/ Distance(r) < Distance(p)
            \/ Distance(r) = Distance(p) /\ r < p

LEMMA FoundIsClosest ==
  ASSUME Searching, Passed, serving # NULL, serving.num >= 0,
         NEW r, \/ FindsLow /\ r = low
                \/ FindsHigh /\ r = high
  PROVE  IsClosest(r, serving.num)
<1>1. PICK n : n = serving.num
  OBVIOUS
<1>2. /\ n \in Int /\ n >= 0 /\ low \in Int /\ high \in Int
      /\ low <= n /\ n <= high /\ low + high = 2 * n
      /\ \A p \in Primes : p \in Int /\ p >= 2 /\ (p <= low \/ p >= high)
  <2>1. n \in Int /\ n >= 0 /\ low \in Int /\ high \in Int /\ low <= high /\ low + high = 2 * n
    BY <1>1, PrimesFacts DEF Searching, Typed, Centred, Request
  <2>2. low <= n /\ n <= high
    BY <2>1
  <2>3. \A p \in Primes : p \in Int /\ p >= 2 /\ (p <= low \/ p >= high)
    BY PrimesFacts DEF Passed
  <2> QED BY <2>1, <2>2, <2>3
<1>3. CASE FindsLow /\ r = low
  <2>1. r \in Primes /\ r = low
    BY <1>3 DEF FindsLow
  <2>2. \A p \in Primes \ {r} : p < low \/ p > high \/ (p = high /\ low < high)
    BY <1>2, <2>1
  <2> QED BY <1>1, <1>2, <2>1, <2>2 DEF IsClosest
<1>4. CASE FindsHigh /\ r = high
  <2>1. r \in Primes /\ r = high /\ (low \notin Primes \/ low < 0)
    BY <1>2, <1>4 DEF FindsHigh
  <2>2. \A p \in Primes \ {r} : p < low \/ p > high
    BY <1>2, <2>1
  <2> QED BY <1>1, <1>2, <2>1, <2>2 DEF IsClosest
<1> QED BY <1>3, <1>4

ClosestTo(c) == client[c].state = "printed" /\ client[c].num >= 0 =>
                  IsClosest(client[c].answer, client[c].num)

EachClosest == \A c \in Client : ClosestTo(c)

LEMMA ClosestIsEach == AnswerIsClosest <=> EachClosest
BY Zenon DEF AnswerIsClosest, EachClosest, ClosestTo, IsClosest

\* A reply is right that goes to a client with the right answer for its number.
LEMMA ReplyIsRight ==
  ASSUME client \in [Client -> State], \A c \in Client : ClosestTo(c),
         NEW d \in Client, NEW r \in Int, Reply(d, r),
         client[d].num >= 0 => IsClosest(r, client[d].num)
  PROVE  \A c \in Client : ClosestTo(c)'
<1>1. /\ \A c \in Client : client'[c].num = client[c].num
      /\ \A c \in Client :
           \/ client'[c] = client[c]
           \/ c = d /\ client'[c].state = "printed" /\ client'[c].answer = r
  BY ReplyKeepsClients
<1> SUFFICES ASSUME NEW c \in Client, client'[c].state = "printed", client'[c].num >= 0
             PROVE  IsClosest(client'[c].answer, client'[c].num)
  BY DEF ClosestTo, IsClosest
<1>2. CASE client'[c] = client[c]
  BY <1>2 DEF ClosestTo
<1>3. CASE c = d /\ client'[c].answer = r
  BY <1>1, <1>3
<1> QED BY <1>1, <1>2, <1>3

LEMMA NextKeepsClosest ==
  ASSUME Right, [Next]_vars
  PROVE  AnswerIsClosest'
<1>1. /\ client \in [Client -> State] /\ \A c \in Client : ClosestTo(c)
      /\ Searching /\ Asked /\ Passed
  BY ClosestIsEach DEF Right, Searching, Typed, EachClosest
<1>2. EachClosest' => AnswerIsClosest'
  BY ClosestIsEach, PTL
<1> SUFFICES \A c \in Client : ClosestTo(c)'
  BY <1>2 DEF EachClosest
<1>3. ASSUME NEW d \in Client, NEW s, client' = [client EXCEPT ![d] = s], s.state # "printed"
      PROVE  \A c \in Client : ClosestTo(c)'
  BY <1>1, <1>3 DEF ClosestTo, IsClosest
<1>4. CASE client' = client
  BY <1>1, <1>4 DEF ClosestTo, IsClosest
<1>5. ASSUME NEW c \in Client, NEW n \in Number, Call(c, n)
      PROVE  \A d \in Client : ClosestTo(d)'
  <2>1. PICK s : s = [state |-> "waiting", num |-> n, answer |-> NULL]
    OBVIOUS
  <2>2. client' = [client EXCEPT ![c] = s] /\ s.state # "printed"
    BY <1>5, <2>1 DEF Call
  <2> QED BY <1>3, <2>2
<1>6. ASSUME NEW c \in Client, CallFails(c)
      PROVE  \A d \in Client : ClosestTo(d)'
  <2>1. PICK s : s = [client[c] EXCEPT !.state = "crashed"]
    OBVIOUS
  <2>2. client' = [client EXCEPT ![c] = s]
    BY <1>6, <2>1 DEF CallFails
  <2>3. s.state # "printed"
    BY <1>1, <2>1 DEF State
  <2> QED BY <1>3, <2>2, <2>3
<1>7. CASE AllocationFails
  <2>1. /\ requests # <<>> /\ requests \in Seq(Request)
        /\ Reply(Head(requests).client, ret) /\ ret = -1
    BY <1>1, <1>7 DEF AllocationFails, Begin, Searching, Typed
  <2>2. Head(requests).client \in Client
    BY <2>1, HeadAndTail DEF Request
  <2>3. \A n : IsClosest(ret, n)
    BY <2>1 DEF IsClosest
  <2>4. ret \in Int
    BY <2>1
  <2> QED BY <1>1, <2>1, <2>2, <2>3, <2>4, ReplyIsRight
<1>8. CASE Search
  <2>1. serving # NULL /\ (SearchesOn \/ FindsLow \/ FindsHigh)
    BY <1>1, <1>8, SearchIs DEF Searching
  <2>2. CASE SearchesOn
    BY <1>4, <2>2 DEF SearchesOn
  <2>3. ASSUME NEW r \in Int, Found(r),
             (FindsLow /\ r = low) \/ (FindsHigh /\ r = high)
        PROVE  \A c \in Client : ClosestTo(c)'
    <3>1. serving.client \in Client /\ client[serving.client].num = serving.num
      BY <1>1, <2>1 DEF Searching, Typed, Request, Asked, AskedBy
    <3>2. client[serving.client].num >= 0 => IsClosest(r, client[serving.client].num)
      BY <1>1, <2>1, <2>3, <3>1, FoundIsClosest
    <3> QED BY <1>1, <2>3, <3>1, <3>2, ReplyIsRight DEF Found
  <2>4. low \in Int /\ high \in Int
    BY <1>1 DEF Searching, Typed
  <2> QED BY <2>1, <2>2, <2>3, <2>4 DEF FindsLow, FindsHigh
<1> QED BY <1>4, <1>5, <1>6, <1>7, <1>8 DEF Next, StartSearch, SearchCrashes, vars

LEMMA InitRight == Init => Right
<1> SUFFICES ASSUME Init PROVE Right
  OBVIOUS
<1>1. Asked /\ Passed
  <2>1. requests = <<>> /\ serving = NULL
    BY DEF Init
  <2>2. DOMAIN requests = {}
    BY <2>1, EmptySeq
  <2> QED BY <2>1, <2>2 DEF Asked, Passed
<1>2. AnswerIsClosest
  BY DEF Init, AnswerIsClosest
<1> QED BY <1>1, <1>2, InitSearching DEF Right

\* What a client prints is the prime closest to the number it asked for, the
\* lower of two: the static result of the server is replied before another
\* request can replace it, and the search meets the closer prime first.
THEOREM ClosestIsAnswered ==
  ASSUME AtkinsTheorem PROVE Spec => []AnswerIsClosest
<1>1. Init => Right
  BY InitRight
<1>2. Right /\ [Next]_vars => Right'
  <2> SUFFICES ASSUME Right, [Next]_vars PROVE Right'
    OBVIOUS
  <2>1. Searching /\ Asked /\ Passed
    BY DEF Right
  <2>2. Searching'
    BY <2>1, NextKeepsSearching
  <2>3. Asked' /\ Passed'
    BY <2>1, <2>2, NextKeepsAsked, NextKeepsPassed
  <2> QED BY <2>2, <2>3, NextKeepsClosest DEF Right
<1>3. Right => AnswerIsClosest
  BY DEF Right
<1> QED BY <1>1, <1>2, <1>3, PTL DEF Spec
=============================================================================
