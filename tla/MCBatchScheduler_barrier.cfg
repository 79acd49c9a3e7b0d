SPECIFICATION Spec
CONSTANTS
  r1 = r1
  r2 = r2
  r3 = r3
  Requests = {r1, r2, r3}
  NumProfiles = 2
  ProfileOf <- ProfileOfThree
  ArrivalOf <- ArrivalMixed
  DeadlineOf <- DeadlineOfThree
  TotalSlots = 2
  WindowFuture = 0
  BatchSize = 2
  MaxWorkers = 2
  RollbackMax = 0
  LockFuture = TRUE
  BatchTimeout = FALSE
  ManualClock = TRUE
  Ladders <- OneLadder
  MaxReplacements = 0
CHECK_DEADLOCK FALSE
INVARIANTS
  TypeOK
  ReservationsMatch
  FifoConservation
  WindowRespected
  AckedSlotComplete
PROPERTIES
  AckedSlotSealed
  ImplementsFifoService
