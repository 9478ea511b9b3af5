SPECIFICATION SysSpec
CONSTANTS
  User = {u1}
  Id = {i1}
  Value = {v1}
  EMPTY = EMPTY
  JUNK = JUNK
  NONE = NONE
  WritesFail = FALSE
  UINT_MAX = 2
  Client = {c1, c2}
  Command <- LoadCommands
  UninitKeys <- NoSession
  Timeouts = FALSE
  MaxPending = 1
INVARIANT
  FailedCallsAreReported
