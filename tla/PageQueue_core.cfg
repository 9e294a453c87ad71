\* Two jobs, two owners (either may be a zombie of the other), two attempts.
CONSTANTS
  j1 = j1  j2 = j2  o1 = o1  o2 = o2  k1 = k1
  Job = {j1, j2}
  Owner = {o1, o2}
  Key = {}
  NoJob = NoJob
  NoKey = NoKey
  MaxAttempts = 2
  Priority <- SamePriority
  RecoveryLimit = 1
  ReleaseLimit = 1
  RunStateRequests <- LoginRequests
  UnleasedClaims = FALSE
  FutureEvaluation = FALSE
SPECIFICATION Spec
SYMMETRY JobOwnerSymmetry
INVARIANTS
  OneActiveLease
  ActiveLeaseIsCurrent
  GenerationsOrderOwners
  PausedRunHasNoOwner
  NoStrandedPause
PROPERTIES
  ImplementsFencedJob
  CheckpointNeverGoesBack
CHECK_DEADLOCK FALSE
