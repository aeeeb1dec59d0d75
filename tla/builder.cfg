SPECIFICATION LiveBuildPlaneSpec
CONSTANTS
  k1 = k1
  k2 = k2
  Keys = {k1, k2}
  NoKey = NoKey
  Slots = 1
  MaxBuildJobs = 2
  MaxWrites = 2
INVARIANTS PoolIsSound DiskFollows KeysAreAnswered
PROPERTIES KeepsBuildPromise BuildsEnd
CHECK_DEADLOCK FALSE
