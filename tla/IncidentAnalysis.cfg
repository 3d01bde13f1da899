CONSTANTS
  meta = meta
  log = log
  dq1 = dq1
  dq2 = dq2
  summary = summary
  runbook = runbook
  Candidate = {meta, log, dq1, dq2}
  Metadata = {meta}
  Logs = {log}
  Quality = {dq1, dq2}
  Knowledge = {summary, runbook}
  Own = {summary}
  Batches <- Offers
  Request = {1, 2, 3, 4, 5}
  Nobody = Nobody
SPECIFICATION Spec
CONSTRAINT ArrivalOrder
CHECK_DEADLOCK FALSE
INVARIANTS TypeOK NoConflictingInsert ReportsAreGrounded AnalyzingHasLogs
PROPERTIES QualityGoesForward ImplementsIncident
