CONSTANTS
  sound = sound
  pinned = pinned
  unpinned = unpinned
  unsure = unsure
  incomplete = incomplete
  escalated = escalated
  proposed = proposed
  Report <- TwoReports
  Rca <- TwoRca
  Request = {1, 2, 3, 4, 5, 6, 7, 8, 9, 10}
  NoReport = NoReport
  Capabilities <- GitHubCapabilities
  Abortable = {}
SPECIFICATION SpecTwoApproved
CONSTRAINT ArrivalOrder
CHECK_DEADLOCK FALSE
PROPERTY PendingSettles
