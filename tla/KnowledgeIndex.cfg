CONSTANTS
  web = web
  Request = {1, 2}
  Store = {web}
  StoreOf <- OneProcess
  Calls = 3
  Nobody = Nobody
  Doc = {1, 2, 3}
  Filters = {{1}, {1, 2, 3}}
  TopK = 2
  RankConstant = 60
  MaxRetries = 1
SPECIFICATION Spec
CONSTRAINT Arrivals
CHECK_DEADLOCK FALSE
INVARIANTS TypeOK ToldIsVisible ItemsOfTheFilter ClearerFirst
PROPERTY EveryRequestAnswered
