SPECIFICATION Spec
CONSTANTS
  ana = ana
  dan = dan
  NULL = NULL
  INT_MAX = 1009
  MAX_SQRT = 32
  Client = {ana, dan}
  Number <- Numbers
INVARIANTS
  TypeOK
  SieveIsRight
  AnswerIsClosest
PROPERTIES
  EveryCallEnds
CHECK_DEADLOCK FALSE
