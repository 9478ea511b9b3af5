SPECIFICATION Spec
CONSTANTS
  User = {u1}
  Id = {i1, i2}
  Value = {v1}
  EMPTY = EMPTY
  JUNK = JUNK
  NONE = NONE
  DAMAGED = DAMAGED
  WritesFail = FALSE
  UINT_MAX = 3
INVARIANT
  NoStoreWithoutValues
