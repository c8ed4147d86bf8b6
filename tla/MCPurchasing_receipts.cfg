CONSTANTS
  c1 = c1
  c2 = c2
  c3 = c3
  c4 = c4
  k1 = k1
  NoKey = NoKey
  KeySet = {k1}
  Suppliers = {"acme"}
  NoRequest = NoRequest
  Requests = {c1, c2, c3, c4}
  VariantIds = {1, 2}
  WarehouseIds = {1, 2}
  StandingOrders <- mcStanding
  OnShelf <- mcShelf
  CostAtStart = 3
  Errands <- mcErrands
SPECIFICATION FairPurchases
INVARIANTS
  ReceiptsAreAtomic
  AverageCarriesTheCostOfOneWarehouse
  ReceiptsAloneDoNotDeadlock
PROPERTIES
  EveryRequestEnds
