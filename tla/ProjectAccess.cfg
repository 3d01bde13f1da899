CONSTANTS
  shop = shop
  shop2 = shop2
  ci = ci
  ci2 = ci2
  deploy = deploy
  web = web
  Project = {shop, shop2}
  Token = {ci, ci2, deploy}
  WebSession = {web}
  RefOf <- References
  ProjectOf <- Projects
  NameOf <- Names
  Request = {1, 2, 3, 4, 5}
  Nothing = Nothing
SPECIFICATION Spec
CONSTRAINT ArrivalOrder
CHECK_DEADLOCK FALSE
INVARIANTS TypeOK TokensHaveProject
PROPERTIES TokensGoWithProject ImplementsLifecycle
