SPECIFICATION Spec
CONSTANTS
  r1 = r1
  r2 = r2
  r3 = r3
  Requests = {r1, r2, r3}
  NumProfiles = 3
  ProfileOf <- ProfileOfEach
  ArrivalOf <- ArrivalOfThree
  DeadlineOf <- ArrivalOfThree
  TotalSlots = 1
  WindowFuture = 0
  BatchSize = 1
  MaxWorkers = 2
  RollbackMax = 1
  LockFuture = TRUE
  BatchTimeout = FALSE
  ManualClock = FALSE
  Ladders <- TwoLadders
  MaxReplacements = 1
CHECK_DEADLOCK FALSE
INVARIANTS
  RevisionCurrent
  RollbacksPaidFor
PROPERTIES
  PricedTierHonoured
