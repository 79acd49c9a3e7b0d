SPECIFICATION Spec
CONSTANTS
  r1 = r1
  r2 = r2
  r3 = r3
  gold = gold
  silver = silver
  Requests = {r1, r2, r3}
  Profiles = {gold, silver}
  ProfileOf <- ThreeOfTwo
  TotalSlots = 2
  Flavours = {0, 3}
  ActualErrors = {1, 5}
  MaxError = 1
  Policies <- LockedOrMoving
  Workers = {w1, w2}
  Calls = {c1, c2}
CHECK_DEADLOCK FALSE
INVARIANTS
  TypeOK
  LedgerBalanced
  OverspendOneBatch
  MeasuredOnce
