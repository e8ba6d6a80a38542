\* One instance, fresh or paired, with a QR limit of one, three moves of user and
\* network, and a restart of the process.
SPECIFICATION FairSpec
CONSTANTS
  QrLimit = 1
  MaxMoves = 3
  MaxCrashes = 1
INVARIANTS TypeOK  
 
CHECK_DEADLOCK FALSE
