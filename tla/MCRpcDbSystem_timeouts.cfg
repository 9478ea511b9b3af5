SPECIFICATION SysSpec
CONSTANTS
  User = {u1, u2}
  Id = {i1}
  Value = {v1}
  EMPTY = EMPTY
  JUNK = JUNK
  NONE = NONE
  WritesFail = FALSE
  UINT_MAX = 4
  Client = {c1, c2}
  Command <- SessionCommands
  UninitKeys <- NoSession
  Timeouts = TRUE
  MaxPending = 2
SYMMETRY Symmetry
INVARIANTS
  SysTypeOK
  RequestsReachOwnSession
  SessionsMatchUsers
