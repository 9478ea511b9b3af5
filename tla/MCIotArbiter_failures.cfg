SPECIFICATION Spec
CONSTANTS
  UPB_A = UPB_A
  chat_ana = chat_ana
  sprc_chat_ana = sprc_chat_ana
  Arbiter = Arbiter
  NONE = NONE
  Client <- Clients
  Persistent = {}
  Station <- Stations
  TwoLevels <- PairTopics
  Topic <- Topics
  Filter <- Filters
  Second = {1, 2}
  MaxMessages = 2
  MaxOthers = 2
  MaxFailures = 2
INVARIANTS
  TypeOK
  NumbersAreStored
  HearsUnlessReconnected
PROPERTIES
  ArbiterSettles
  QueueIsHandled
CHECK_DEADLOCK FALSE
