SPECIFICATION Spec
CONSTANTS
  tides = tides
  sst = sst
  NoFile = NoFile
  Files <- MCFiles
  Vars <- MCVars
  Dir <- MCDir
INVARIANTS
  TypeOK
  HiddenMeansOff
  SalinityBoxAgrees
PROPERTY SwitchesSurvive
