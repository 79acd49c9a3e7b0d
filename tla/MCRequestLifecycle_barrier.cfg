SPECIFICATION Spec
CONSTANTS
  r1 = r1
  r2 = r2
  Requests = {r1, r2}
  ArrivalOf <- ArrivalEach
  DeadlineOf <- DeadlineEach
  TotalSlots = 2
  ManualClock = TRUE
  MaxRetries = 2
  LoseCallbacks = TRUE
  MaxRestarts = 1
CHECK_DEADLOCK FALSE
INVARIANTS
  TypeOK
  AttemptsBounded
  ExecutedOnce
  ForwardedOnce
  AckedWorkFinished
PROPERTIES
  CallbackIsFinal
