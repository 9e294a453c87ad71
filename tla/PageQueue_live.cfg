\* Two jobs of different priority, one owner that may stop at any point.
CONSTANTS
  j1 = j1  j2 = j2  o1 = o1  o2 = o2  k1 = k1
  Job = {j1, j2}
  Owner = {o1}
  Key = {}
  NoJob = NoJob
  NoKey = NoKey
  MaxAttempts = 2
  Priority <- SeedFirst
  RecoveryLimit = 1
  ReleaseLimit = 1
  RunStateRequests <- LoginRequests
  UnleasedClaims = FALSE
  FutureEvaluation = FALSE
SPECIFICATION FairSpec
PROPERTIES
  EveryJobEnds
  PauseCompletes
CHECK_DEADLOCK FALSE
