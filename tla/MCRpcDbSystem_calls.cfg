SPECIFICATION FairSysSpec
CONSTANTS
  User = {u1}
  Id = {i1}
  Value = {v1}
  EMPTY = EMPTY
  JUNK = JUNK
  NONE = NONE
  WritesFail = FALSE
  UINT_MAX = 3
  Client = {c1, c2}
  Command <- CallCommands
  UninitKeys <- NoSession
  Timeouts = FALSE
  MaxPending = 1
INVARIANT
  ClientKnowsItsSession
PROPERTY
  EveryCallReturns
