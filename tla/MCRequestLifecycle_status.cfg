SPECIFICATION FairSpec
CONSTANTS
  r1 = r1
  r2 = r2
  Requests = {r1}
  ArrivalOf <- ArrivalOne
  DeadlineOf <- DeadlineOne
  TotalSlots = 1
  ManualClock = FALSE
  MaxRetries = 2
  LoseCallbacks = FALSE
  MaxRestarts = 0
CHECK_DEADLOCK FALSE
PROPERTIES
  DispatchedStaysDispatched
