\* Two appenders with two samples each.  Two samples of 664 bytes fill the overflow
\* test to the byte (2 * (664 + 16) + 40 = 1400), 664 and 680 overflow it, and two of
\* 680 would flatten to 1404.
CONSTANTS
  Appenders = {a1, a2}
  Handler = h
  NoThread = none
  Lens = {664, 680}
  PSIZE = 8
  MTU = 1400
  MaxSamples = 2
SPECIFICATION FairSpec
INVARIANTS
  TypeOK
  ListAccessSafe
  IndicatorBacked
  DatagramFits
  SequenceIsWireOrder
  BytesAccounted
  PerSourceFifo
PROPERTIES
  BatchingRefined
  AlarmDelivers
  AppendReturns
CHECK_DEADLOCK FALSE
