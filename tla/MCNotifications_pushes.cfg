CONSTANTS
  ann = ann
  bob = bob
  Nobody = Nobody
  r1 = r1
  r2 = r2
  k1 = k1
  Requests = {r1, r2}
  MaxTries = 2
  NoKey = NoKey
  NoJob = NoJob
  NoEvent = NoEvent
  NoNote = NoNote
  NoDelivery = NoDelivery
  Unused = Unused
  Removed = Removed
  NoSort = NoSort
  NoCursor = NoCursor
  PerMilli = 2
  Profiles = {ann, bob}
  Workers = {w1, w2}
  Events = {1, 2, 3}
  SubIds = {1, 2}
  MaxAttempts = 2
  BatchSize = 2
  PageSize = 1
  Scenarios <- mcScenarios
SPECIFICATION Spec
INVARIANTS
  PushesReachTheRecipientOnce
  PagesShowEachOnce
  TrailsTellTheWrites
  FailedItemsLeaveNothing
PROPERTIES
  EveryDeliverySettles
CHECK_DEADLOCK FALSE
