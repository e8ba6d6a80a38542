\* Refuted: a paired instance whose first connection in a new process drops is
\* never connected again.
SPECIFICATION Spec
CONSTANTS
  QrLimit = 1
  MaxMoves = 3
  MaxCrashes = 1
PROPERTIES InitialIsUnpaired
CHECK_DEADLOCK FALSE
