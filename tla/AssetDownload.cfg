CONSTANTS
  Worker = {w1, w2}  Job = {j1, j2}  Nobody = nobody  Length = 2
  MaxGeneration = 2  MaxClaims = 3  MaxVersions = 2  MaxFiles = 3  MaxFaults = 1
SPECIFICATION Spec
INVARIANT CompletedAssetIsVerified
CHECK_DEADLOCK FALSE
