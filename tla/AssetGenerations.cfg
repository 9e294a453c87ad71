CONSTANTS
  w1 = w1  w2 = w2  j1 = j1  j2 = j2  j3 = j3
  Worker = {w1, w2}  Job = {j1, j2}  Nobody = nobody  Length = 2
  MaxGeneration = 3  MaxClaims = 3  MaxVersions = 2  MaxFiles = 3  MaxFaults = 1
SPECIFICATION Spec
SYMMETRY Symmetry
CONSTRAINT Relevant
INVARIANT AssetIsOneVersion
CHECK_DEADLOCK FALSE
