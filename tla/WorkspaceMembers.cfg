CONSTANTS
  ann = ann
  bob = bob
  ann1 = ann1
  bob1 = bob1
  bob2 = bob2
  Membership <- Rows
  User = {ann, bob}
  UserOf <- Users
  Request = {1, 2, 3, 4, 5}
  NoMember = NoMember
SPECIFICATION Spec
CONSTRAINT ArrivalOrder
CHECK_DEADLOCK FALSE
INVARIANTS TypeOK OneMembershipPerUser
PROPERTIES FoundedOnce RemovedStaysRemoved
