\* Capacity starts at 2 instead of 8: index 2 doubles once, 4 twice, and 8 three
\* times in one call when nothing was stored between.
CONSTANTS
  Pointers = {p1, p2}
  NULL = null
  Junk = junk
  INIT_SIZE = 2
  Indices = {0, 1, 2, 4, 8}
SPECIFICATION Spec
INVARIANTS
  TypeOK
  GetDefined
PROPERTIES
  MapRefined
