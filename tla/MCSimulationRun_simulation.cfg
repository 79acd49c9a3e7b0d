SPECIFICATION FairSpec
CONSTANTS
  TotalSlots = 3
  Configs <- ThreeConfigs
  Parallelism = 2
  BurstChunk = 2
  RealtimeChunk = 1
  SlotTicks = 2
  WallSteps = {0, 1, 3}
  UnixNow = 100
  MaxElapsed = 7
CHECK_DEADLOCK FALSE
INVARIANTS
  ScenarioReplayed
  NumbersAlways100
PROPERTIES
  RunEnds
