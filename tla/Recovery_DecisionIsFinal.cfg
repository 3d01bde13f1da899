CONSTANTS
  sound = sound
  pinned = pinned
  unpinned = unpinned
  unsure = unsure
  incomplete = incomplete
  escalated = escalated
  proposed = proposed
  Report <- OneReport
  Rca <- OneRca
  Request = {1, 2, 3, 4, 5, 6, 7}
  NoReport = NoReport
  Capabilities <- GitHubCapabilities
  Abortable = {}
SPECIFICATION Spec
CONSTRAINT ArrivalOrder
CHECK_DEADLOCK FALSE
PROPERTIES DecisionIsFinal
