\* The shortest case: one refresh by another thread between unlocking and use.
CONSTANTS
  t1 = t1
  t2 = t2
  g = g
  web = web
  web1 = web1
  Threads <- TwoThreads
  Zones <- ThreeZones
  Global = g
  WantedBy <- OneEach
  PrefixOf <- NamePrefixes
  MaxSnaps = 3
  NULL = null
SPECIFICATION Spec
INVARIANTS
  UsedZoneIsLive
CHECK_DEADLOCK FALSE
