CONSTANTS
  s1 = s1
  i1 = i1
  i2 = i2
  NoEvent = NoEvent
  Shipments = {s1}
  Events <- mcTwice
  Unusable = {}
  Instances = {i1, i2}
  BatchSize = 2
  MaxAttempts = 3
  Faults = {"transition", "audit", "mark"}
  MaxCrashes = 2
  UserMoves = {"picked_up", "cancelled"}
SPECIFICATION FairInboxSpec
INVARIANTS
  ProcessedIsRecordedOnce
PROPERTIES
  SettledUnlessAbandoned
CHECK_DEADLOCK FALSE
