\* Packets around the cropping at 128 bytes and of no whole number of words, hosts
\* with no, one and three links.
CONSTANTS
  Captured = {0, 3, 60, 127, 128, 1514}
  Links = {0, 1, 3}
  MaxSamples = 3
  PSIZE = 8
  NULL = null
SPECIFICATION Spec
INVARIANTS
  WritesInBuffer
  BufferFilled
  LengthsLead
CHECK_DEADLOCK FALSE
