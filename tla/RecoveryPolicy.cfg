CONSTANTS
  sound = sound
  pinned = pinned
  unpinned = unpinned
  unsure = unsure
  incomplete = incomplete
  escalated = escalated
  proposed = proposed
  Report <- EveryReport
  Rca <- EveryRca
  Request = {1, 2, 3, 4, 5}
  NoReport = NoReport
  Capabilities <- GitHubCapabilities
  Abortable = {1, 2, 3, 4, 5}
SPECIFICATION Spec
CONSTRAINTS ArrivalOrder AtMostTwoReports
CHECK_DEADLOCK FALSE
INVARIANTS DispatchIsAuthorised
