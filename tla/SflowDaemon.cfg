\* Daemons one after another, with two door threads at work at the same time on one
\* source and one descriptor.
CONSTANTS
  DoorThreads = {d1, d2}
  Srcs = {1}
  FDs = {0}
  MaxZones = 0
  n1 = n1
  Names <- OneName
  PrefixOf <- OnePrefix
  Requests <- RemoveAll
  all = all
  All = all
  NULL = null
  Master = master
SPECIFICATION DaemonSpec
INVARIANTS
  LifeTypeOK
  OnlineIsServing
  FailureHasCause
PROPERTIES
  StartIsAnswered
  FailedStartLeavesNone
CHECK_DEADLOCK FALSE
