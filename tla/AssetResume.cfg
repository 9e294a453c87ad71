CONSTANTS
  w1 = w1  w2 = w2  j1 = j1  j2 = j2  j3 = j3
  Worker = {w1, w2}  Job = {j1, j2, j3}  Nobody = nobody  Length = 2
  MaxGeneration = 3  MaxClaims = 3  MaxVersions = 2  MaxFiles = 3  MaxFaults = 0
SPECIFICATION Spec
SYMMETRY Symmetry
CONSTRAINT MayBecomeOutdated
INVARIANT VersionsAreNotCombined
CHECK_DEADLOCK FALSE
