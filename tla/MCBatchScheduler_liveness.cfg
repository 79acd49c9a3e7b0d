SPECIFICATION FairSpec
CONSTANTS
  r1 = r1
  r2 = r2
  r3 = r3
  Requests = {r1, r2, r3}
  NumProfiles = 2
  ProfileOf <- ProfileOfThree
  ArrivalOf <- ArrivalOfThree
  DeadlineOf <- DeadlineOfThree
  TotalSlots = 2
  WindowFuture = 1
  BatchSize = 2
  MaxWorkers = 1
  RollbackMax = 1
  LockFuture = FALSE
  BatchTimeout = TRUE
  ManualClock = FALSE
  Ladders <- OneLadder
  MaxReplacements = 0
CHECK_DEADLOCK FALSE
PROPERTIES
  EventuallyAssigned
  ReplanKeepsOnTime
