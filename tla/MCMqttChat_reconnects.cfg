SPECIFICATION Spec
CONSTANTS
  ana = ana
  dan = dan
  NONE = NONE
  Client <- Chatters
  Persistent <- Chatters
  Chatter <- Chatters
  Topic <- Chatters
  Filter <- Filters
  MaxLines <- Lines
  MaxStarts = 2
INVARIANTS
  TypeOK
  LinesInOrder
  RepeatsAreRetained
  EveryLineIsKept
PROPERTIES
  EveryLineIsRead
CHECK_DEADLOCK FALSE
