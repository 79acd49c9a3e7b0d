SPECIFICATION Spec
CONSTANTS
  r1 = r1
  r2 = r2
  r3 = r3
  r4 = r4
  Requests = {r1, r2, r3, r4}
  NumProfiles = 2
  ProfileOf <- ProfileOfFour
  ArrivalOf <- ArrivalOfFour
  DeadlineOf <- DeadlineOfFour
  TotalSlots = 2
  MaxFuture = 1
  Carbon <- CarbonRising
  Flavours <- FastOrExact
  MaxError = 2
  WindowPast = 1
  WindowFuture = 1
  GlobalConstraint = TRUE
  Explore = TRUE
  InitialQ = 5
  Iterations = 2
  BatchSize = 2
  Parallelism = 2
  RollbackMax = 1
  Backends <- UsedBackends
  Ladders <- TwoLadders
  MaxReplacements = 1
CHECK_DEADLOCK FALSE
INVARIANTS
  SerializedNeverRollsBack
  OneCostCurve
  TrainedOnCommitted
  BudgetKeptOrFallback
PROPERTIES
  NoUnseenTier
