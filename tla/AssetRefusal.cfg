CONSTANTS
  Worker = {w1, w2}  Job = {j1, j2}  Nobody = nobody  Length = 2
  MaxGeneration = 2  MaxClaims = 2  MaxVersions = 2  MaxFiles = 3  MaxFaults = 0
SPECIFICATION Spec
PROPERTY RefusedByItsOwner
CHECK_DEADLOCK FALSE
