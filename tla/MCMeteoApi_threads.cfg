SPECIFICATION Spec
CONSTANTS
  t1 = t1
  t2 = t2
  k = k
  l = l
  s1 = s1
  s2 = s2
  Thread = {t1, t2}
  Column = {k, l}
  Second = {s1}
  Id = {1, 2}
  MaxId <- MaxIds
  NONE = NONE
  BAD = BAD
  Request <- Requests
SYMMETRY Threads
INVARIANTS
  SuccessIsKept
  AloneIsAtomic
