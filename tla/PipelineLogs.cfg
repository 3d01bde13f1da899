CONSTANTS
  step = step
  error = error
  web1 = web1
  web2 = web2
  Request = {1, 2, 3}
  Store = {web1, web2}
  StoreOf <- Processes
  Calls = 4
  Nobody = Nobody
  Entry = {step, error}
  Batches <- Bodies
  MaxRetries = 2
  MaxRollovers = 1
SPECIFICATION Spec
CONSTRAINT Arrivals
CHECK_DEADLOCK FALSE
INVARIANTS TypeOK SetUpBeforeUse ReceiptIsComplete EntryStoredOnce AcceptedAreStored
