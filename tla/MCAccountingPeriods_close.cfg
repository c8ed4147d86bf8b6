CONSTANTS
  c1 = c1
  c2 = c2
  c3 = c3
  c4 = c4
  k1 = k1
  NoKey = NoKey
  Nobody = Nobody
  Absent = Absent
  OrderItems <- mcOrderItems
  Parcels <- mcParcels
  Clients = {c1, c2, c3, c4}
  KeySet = {k1}
  PeriodKeys = {1, 2}
  FirstMonth = 1
  Books <- mcBooks
SPECIFICATION BooksSpec
INVARIANTS
  GapsAreLateActivity
  InvoicesAreSound
PROPERTIES
  ClosedBooksAreFinalUnlessRaced
