CONSTANTS
  sound = sound
  pinned = pinned
  unpinned = unpinned
  unsure = unsure
  incomplete = incomplete
  escalated = escalated
  proposed = proposed
  Report <- OneReport
  Rca <- OneRca
  Request = {1, 2, 3, 4, 5, 6, 7}
  NoReport = NoReport
  Capabilities <- GitHubCapabilities
  Abortable = {1, 2, 3, 4, 5, 6, 7}
SPECIFICATION Spec
CONSTRAINT ArrivalOrder
CHECK_DEADLOCK FALSE
INVARIANTS TypeOK AtMostOneDispatch AttemptConsistent AuditReconstructs
PROPERTIES PlanDerivedOnce AttemptMovesForward ResolvedOnlyByPassedCallback ImplementsContract
