CONSTANTS
  c1 = c1
  c2 = c2
  c3 = c3
  e1 = e1
  e2 = e2
  p1 = p1
  p2 = p2
  p3 = p3
  mug = mug
  vase = vase
  ali = ali
  omar = omar
  NoVariant = NoVariant
  NoWarehouse = NoWarehouse
  NoRow = NoRow
  Calls = {c1, c2, c3}
  Skus = {mug, vase}
  Phones = {ali, omar}
  Warehouses = {1, 2}
  Events <- mcEvents
  Payload <- mcPayload
  Scenarios <- mcScenarios
SPECIFICATION StorefrontSpec
INVARIANTS
  EventsMakeOneOrder
  StockMeetsTheFeed
PROPERTIES
  EveryEventSettles
CHECK_DEADLOCK FALSE
