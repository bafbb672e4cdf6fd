SPECIFICATION Spec
CONSTANTS
  tides = tides
  sst = sst
  bare = bare
  empty = empty
  flat = flat
  atlantic = atlantic
  scratch = scratch
  Docs = Docs
  NoDir = NoDir
  NoFile = NoFile
  Files <- MCFiles
  Steps <- MCSteps
  Vars <- MCVars
  Unsupported = {flat}
  NoCoords = {bare}
  Undated = {sst}
  Dirs <- MCDirs
  DirFiles <- MCDirFiles
INVARIANT CachedIdsOfLoadedFile
