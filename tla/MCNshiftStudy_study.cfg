SPECIFICATION StudySpec
CONSTANTS
  Scenarios <- Study
  TotalSlots = 3
  MaxFuture = 2
  Carbon <- CarbonFalling
  Flavours <- FastOrExact
  Tiers <- ThreeSteps
  MaxError = 2
  WindowPast = 0
  WindowFuture = 1
  GlobalEnabled = TRUE
  GlobalHard = TRUE
  InitialQ = 2
  NumAnts = 2
  NumIterations = 2
  BatchSize = 2
  LockFuture = FALSE
  MaxRuns = 3
CHECK_DEADLOCK FALSE
INVARIANTS
  BilledByOccupancy
  ErrorBudgetKept
  LeastFoundKept
  TablesComplete
  TablesTruthful
