SPECIFICATION Spec
CONSTANTS
  a = a
  b = b
  c = c
  fa = fa
  fb = fb
  fc = fc
  Url = {a, b, c}
  Name = {fa, fb, fc}
  formName <- Names
  PageSize <- Sizes
  maxSizeOnDisk = 3
  maxTimeToKeepPage = 1
  NONE = NONE
  MaxClock = 3
  MaxFrequency = 4
  MaxUnwritten = 2
INVARIANTS
  TypeOK
  ServedIsFresh
  CachedIsOnDisk
  FilesAreCached
PROPERTIES
  RoomIsMade
  LeastAccessedFirst
