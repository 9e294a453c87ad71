\* The whole repository port: unleased claims, replayed claims, any Run state, any evaluation time.
CONSTANTS
  j1 = j1  j2 = j2  o1 = o1  o2 = o2  k1 = k1
  Job = {j1}
  Owner = {o1, o2}
  Key = {k1}
  NoJob = NoJob
  NoKey = NoKey
  MaxAttempts = 2
  Priority <- SamePriority
  RecoveryLimit = 1
  ReleaseLimit = 1
  RunStateRequests <- AnyRequest
  UnleasedClaims = TRUE
  FutureEvaluation = TRUE
SPECIFICATION Spec
SYMMETRY OwnerSymmetry
INVARIANTS
  AttemptLedgerAgrees
PROPERTIES
  TerminalStaysClosed
CHECK_DEADLOCK FALSE
