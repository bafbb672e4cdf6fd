SPECIFICATION Spec
CONSTANTS
  History = 3
  MaxDuration = 7
  RunCount = 2
  Burst = 2
  Total = 2
  RemoveShare = 1
  SpawnShare = 1
  Global = TRUE
INVARIANTS
  TypeOK
  TrailIsInOrder
  PopulationBounded
PROPERTY AnimationGoesOn
