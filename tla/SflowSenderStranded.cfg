\* One sample each is enough: the second thread fails to take the indicator that
\* the first one's alarm still holds, and appends after that alarm has been served.
CONSTANTS
  Appenders = {a1, a2}
  Handler = h
  NoThread = none
  Lens = {184}
  PSIZE = 8
  MTU = 1400
  MaxSamples = 1
SPECIFICATION Spec
INVARIANT NoStrandedSamples
CHECK_DEADLOCK FALSE
