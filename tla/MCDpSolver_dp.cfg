SPECIFICATION Spec
CONSTANTS
  TotalSlots = 3
  Carbon <- CarbonOfThree
  WindowPast = 1
  WindowFuture = 2
  Tiers <- OneThenSteep
  Inputs <- AllInputs
CHECK_DEADLOCK FALSE
INVARIANTS
  Optimal
  SearchSound
  RecordedPrices
  OnlyStuckBatchesReturn
