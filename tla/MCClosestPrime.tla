--------------------------- MODULE MCClosestPrime ---------------------------
(* Model-checking instance of ClosestPrime: numbers below zero, in a      *)
(* long gap between primes, and up to the largest.                           *)
EXTENDS ClosestPrime, TLC

CONSTANTS ana, dan

\* Atkin's theorem, the hypothesis of the proofs, for the first numbers.
ASSUME AtkinIsRight == \A n \in 1 .. 120 : AtkinsTheoremOf(n)

Numbers == (-5 .. 4) \cup (113 .. 127) \cup (1000 .. 1009)
=============================================================================
