CONSTANTS
  build = build
  retry = retry
  started = started
  restarted = restarted
  passed = passed
  broke = broke
  crashed = crashed
  canceled = canceled
  retried = retried
  Run <- Runs
  Event = {started, restarted, passed, broke, crashed, canceled, retried}
  Body <- Bodies
  Delivery = {1, 2, 3, 4}
  NoEvent = NoEvent
SPECIFICATION Spec
CONSTRAINT ArrivalOrder
CHECK_DEADLOCK FALSE
INVARIANTS TypeOK AppliedOnce RowsFollowEvents IncidentJustified
PROPERTIES EndedRunStaysEnded ImplementsLedger
