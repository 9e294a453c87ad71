\* One job, two processes that may both be rendering it, three attempts.
CONSTANTS
  j1 = j1  o1 = o1  o2 = o2
  Job = {j1}
  Owner = {o1, o2}
  Key = {}
  NoJob = NoJob
  NoKey = NoKey
  MaxAttempts = 3
  Priority <- SamePriority
  RecoveryLimit = 1
  ReleaseLimit = 1
  RunStateRequests = {}
  UnleasedClaims = FALSE
  FutureEvaluation = FALSE
SPECIFICATION ExecutionSpec
SYMMETRY OwnerSymmetry
INVARIANTS
  RenderLedgerAgrees
  CommittedPageIsOnDisk
  AnswersAreTrue
PROPERTIES
  ExecutionImplementsFencedJob
CHECK_DEADLOCK FALSE
