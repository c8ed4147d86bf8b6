CONSTANTS
  o1 = o1
  o2 = o2
  v1 = v1
  v2 = v2
  w1 = w1
  w2 = w2
  Orders = {o1, o2}
  NoOrder = NoOrder
  Variants = {v1, v2}
  Placed <- mcTwoOrders
  Editions <- mcEditions
  Counts <- mcCounts
  Asks <- mcAsks
  Oversell = {v2}
  InitialOnHand = 2
  Workers = {w1, w2}
  Nobody = Nobody
  MaxCommits = 3
  MaxWrites = 1
  Targets = {"processing", "ready", "shipped", "cancelled", "postponed"}
  Releasing = {o2}
  Unstocking = {}
SPECIFICATION FairSpec
INVARIANTS
  BackedUntilRaced
  HoldingsFollowTheTrail
PROPERTIES
  BookUntilRaced
  EveryTransactionEnds
