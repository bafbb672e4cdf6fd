SPECIFICATION Spec
CONSTANTS
  tides = tides
  sst = sst
  NoFile = NoFile
  Files <- MCFiles
  Vars <- MCVars
  Dir <- MCDir
INVARIANT BoxControlsCurrent
