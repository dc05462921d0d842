\* Two flow samples in one datagram are enough: both records point at the same buffer.
CONSTANTS
  Captured = {60, 1514}
  Links = {1}
  MaxSamples = 2
  PSIZE = 8
  NULL = null
SPECIFICATION Spec
INVARIANT SampleHasItsHeader
CHECK_DEADLOCK FALSE
