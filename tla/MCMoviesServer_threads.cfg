SPECIFICATION Spec
CONSTANTS
  t1 = t1
  t2 = t2
  a = a
  b = b
  Thread = {t1, t2}
  Nume = {a, b}
  BAD = BAD
  BROKEN = BROKEN
  NONE = NONE
  MaxMovies = 3
  Usable <- SmallTables
  Request <- Requests
SYMMETRY Threads
INVARIANTS
  UndisturbedIsAtomic
  ListIsRegular
