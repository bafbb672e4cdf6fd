SPECIFICATION FieldSpec
CHECK_DEADLOCK FALSE
CONSTANTS
  NcFiles <- MCNcFiles
  Query <- MCQuery
  Fields <- MCFields
  Places <- MCPlaces
  Circle = 12
  Parts = 3
  Degree = 4
  Exact = 2
  NoText = NoText
  NOTDEF = NOTDEF
  target = target
  alt = alt
  long1 = long1
  long2 = long2
  name1 = name1
  name2 = name2
  other = other
INVARIANTS
  PicksBest
  GridTypeOK
  FillIsSimultaneous
  CurrentIsWhole
  GapsAreBridgedLocally
  BetweenCorners
  ExactAtNodes
  SameAfterATurn
  OrientationFree
  SeamIsNowhere
  LinesAreUnbroken
  ChainsAreContinuous
  EverySegmentOnce
  ChainsAreMaximal
