\* Two door threads remove one flow source while one of them adds the next.
CONSTANTS
  DoorThreads = {d1, d2}
  Srcs = {1, 2}
  FDs = {0}
  MaxZones = 0
  n1 = n1
  Names <- OneName
  PrefixOf <- OnePrefix
  Requests <- RemoveAll
  all = all
  All = all
  NULL = null
  Master = master
SPECIFICATION Spec
INVARIANTS
  WatchedFdsHaveSources
CHECK_DEADLOCK FALSE
