--------------------------- MODULE MCMoviesServer ---------------------------
(***************************************************************************)
(* Instances of MoviesServer for TLC.                                      *)
(***************************************************************************)
EXTENDS MoviesServer, TLC

CONSTANTS t1, t2, a, b

Requests ==
  [method: {"GET", "DELETE"}, id: {1}, nume: {NONE}]
  \cup [method: {"LIST", "RESET"}, id: {NONE}, nume: {NONE}]
  \cup [method: {"POST"}, id: {NONE}, nume: {a, BAD, BROKEN}]
  \cup [method: {"PUT"}, id: {1}, nume: {b, BAD, BROKEN}]
\* A small dict has room for 2 entries (in CPython for 5), a larger one for 4.
SmallTables == [n \in 0 .. MaxMovies |-> IF n < 2 THEN 2 ELSE 4]
Threads == Permutations(Thread)
=============================================================================
