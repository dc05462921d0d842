\* Snapshots of one to three zones, at most three of them.
CONSTANTS
  t1 = t1
  t2 = t2
  g = g
  web = web
  web1 = web1
  Threads <- TwoThreads
  Zones <- ThreeZones
  Global = g
  WantedBy <- OneEach
  PrefixOf <- NamePrefixes
  MaxSnaps = 3
  NULL = null
SPECIFICATION FairSpec
INVARIANTS
  TypeOK
  OneSnapshot
  ListIsSnapshot
PROPERTIES
  LookupReturns
CHECK_DEADLOCK FALSE
