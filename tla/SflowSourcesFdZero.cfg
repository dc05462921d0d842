\* One flow source, added before the master thread has run.
CONSTANTS
  DoorThreads = {d1}
  Srcs = {1}
  FDs = {0}
  MaxZones = 0
  n1 = n1
  Names <- OneName
  PrefixOf <- OnePrefix
  Requests <- AnyRequest
  all = all
  All = all
  NULL = null
  Master = master
SPECIFICATION Spec
INVARIANTS
  AllFlowSourcesWatched
CHECK_DEADLOCK FALSE
