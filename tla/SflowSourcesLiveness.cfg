\* Two door threads on two sources that share one descriptor number.
CONSTANTS
  DoorThreads = {d1, d2}
  Srcs = {1, 2}
  FDs = {0}
  MaxZones = 0
  n1 = n1
  Names <- OneName
  PrefixOf <- OnePrefix
  Requests <- RemoveAll
  all = all
  All = all
  NULL = null
  Master = master
SPECIFICATION FairSpec
INVARIANTS
  FreedAfterCancel
PROPERTIES
  CancelledThreadsEnd
  DoorServedByQuietMaster
CHECK_DEADLOCK FALSE
