SPECIFICATION Spec
CONSTANTS
  streams = streams
  warmth = warmth
  Files = {streams, warmth}
  Steps <- MCSteps
  Rows <- MCRows
  Layers <- MCLayers
  NULL = NULL
INVARIANTS
  OwnsWhatItPointsTo
  CurrentAllOrNothing
  OnlyCoordinatesAreLost
  FlagsTellTheArrays
  GridsFitTheMessage
