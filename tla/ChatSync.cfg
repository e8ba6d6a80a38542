\* Four messages, a queue that spills behind two, two failed posts, one restart.
SPECIFICATION FairSpec
CONSTANTS
    m1 = m1  m2 = m2  m3 = m3  m4 = m4
    Messages <- FourMessages
    QueueLimit = 1
    MaxFaults = 2
    MaxCrashes = 1
INVARIANTS NothingForgotten SyncedMeansStored RowsInLogOrder
PROPERTIES DeliveredUnlessDropped
CHECK_DEADLOCK FALSE
