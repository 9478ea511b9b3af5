---------------------------- MODULE PrimeNumbers ----------------------------
(***************************************************************************)
(* Prime numbers, and the theorem that the sieve of ClosestPrime rests on. *)
(* This is mathematics: nothing here models the program.                   *)
(***************************************************************************)
EXTENDS Integers, FiniteSets

IsPrimeNumber(n) == n > 1 /\ \A d \in 2 .. n - 1 : n % d # 0
SquareFree(n) == \A d \in 2 .. n : n % (d * d) # 0

\* The positive numbers i, j by which 4ii + jj = n, and so on.
Sum4(n) == {p \in (1 .. n) \X (1 .. n) : n = 4*p[1]*p[1] + p[2]*p[2]}
Sum3(n) == {p \in (1 .. n) \X (1 .. n) : n = 3*p[1]*p[1] + p[2]*p[2]}
Difference3(n) ==
  {p \in (1 .. n) \X (1 .. n) : n = 3*p[1]*p[1] - p[2]*p[2] /\ p[1] > p[2]}
OddlyMany(S) == Cardinality(S) % 2 = 1

\* Theorems 6.1, 6.2 and 6.3 of A. O. L. Atkin and D. J. Bernstein, "Prime sieves
\* using binary quadratic forms" (2004).
AtkinsTheoremOf(n) ==
  SquareFree(n) =>
    /\ n % 4 = 1 => (OddlyMany(Sum4(n)) <=> IsPrimeNumber(n))
    /\ n % 6 = 1 => (OddlyMany(Sum3(n)) <=> IsPrimeNumber(n))
    /\ n % 12 = 11 => (OddlyMany(Difference3(n)) <=> IsPrimeNumber(n))

AtkinsTheorem == \A n \in Nat \ {0} : AtkinsTheoremOf(n)
=============================================================================
