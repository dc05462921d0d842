\* One door thread, three sources over the life of the daemon, three descriptors.
CONSTANTS
  DoorThreads = {d1}
  Srcs = {1, 2, 3}
  FDs = {0, 1, 2}
  MaxZones = 2
  n1 = n1
  Names <- OneName
  PrefixOf <- OnePrefix
  Requests <- AnyRequest
  all = all
  All = all
  NULL = null
  Master = master
SPECIFICATION Spec
INVARIANTS
  TypeOK
  WatchedFdsHaveSources
  MasterReadsLiveSources
  WalksAreSafe
  SocketsMatchList
PROPERTIES
  RemovalIsComplete
  NoDeathInSender
  NoPollAfterCancel
  RegistryRefined
CHECK_DEADLOCK FALSE
