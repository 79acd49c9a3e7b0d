SPECIFICATION FairSpec
CONSTANTS
  r1 = r1
  r2 = r2
  r3 = r3
  Requests = {r1, r2}
  NumProfiles = 1
  ProfileOf <- ProfileOfTwo
  ArrivalOf <- ArrivalTwo
  DeadlineOf <- DeadlineTwo
  TotalSlots = 2
  WindowFuture = 1
  BatchSize = 2
  MaxWorkers = 2
  RollbackMax = 1
  LockFuture = TRUE
  BatchTimeout = FALSE
  ManualClock = TRUE
  Ladders <- OneLadder
  MaxReplacements = 0
CHECK_DEADLOCK FALSE
PROPERTIES
  CloseDrains
