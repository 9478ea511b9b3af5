SPECIFICATION Spec
CONSTANTS
  User = {u1, u2}
  Id = {i1, i2}
  Value = {v1, v2}
  EMPTY = EMPTY
  JUNK = JUNK
  NONE = NONE
  DAMAGED = DAMAGED
  WritesFail = TRUE
  UINT_MAX = 3
SYMMETRY Symmetry
CONSTRAINT OneHasData
INVARIANTS
  TypeOK
  EntriesAreCounted
PROPERTIES
  KeysAreNotReused
  OneDatabasePerRequest
  KeepsPromisesButTwo
