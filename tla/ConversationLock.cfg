\* Three messages under two combinations of the settings.
SPECIFICATION FairSpec
CONSTANTS
  m1 = m1
  m2 = m2
  m3 = m3
  Messages <- Three
  Settings <- BothOrNeither
INVARIANTS TypeOK   DroppedForCause
PROPERTIES EveryCallReturns
CHECK_DEADLOCK FALSE
